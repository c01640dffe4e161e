----------------------------- MODULE EventLedger ----------------------------
(***************************************************************************)
(* What HarnessRegistry promises of its file: an append-only log of lawful *)
(* events in the order of the calls, the harness its last move names, and  *)
(* an event for every call that returned.  A call that failed may still be *)
(* logged, but only below a later call that returned.  There are no        *)
(* handles, ledgers in memory, temporary files or crashes here.            *)
(***************************************************************************)
EXTENDS Integers, Sequences

CONSTANTS VersionOf, None

VARIABLES
  log,       \* the events in the file
  serving,   \* the harness that serves, None before the first promotion
  returned,  \* events of the calls that returned
  failed     \* events of the calls that raised OSError

vars == <<log, serving, returned, failed>>
-----------------------------------------------------------------------------
\* After its first n events l says that s serves.
Serves(l, n, s) ==
  LET moves == {j \in 1..n : l[j].action \in {"promote", "rollback"}}
  IN  IF moves = {} THEN s = None
      ELSE \E i \in moves : l[i].spec = s /\ \A j \in moves : j <= i

\* Event i of l may follow the ones before it: a version is registered once
\* and before all else; gates stop at a promotion or a rejection, a promotion
\* follows a gate, and a rollback is to a promoted harness that does not serve.
Lawful(l, i) ==
  LET e == l[i]
      Earlier(actions) ==
        {j \in 1 .. i - 1 : l[j].spec = e.spec /\ l[j].action \in actions}
  IN  /\ \A j \in 1 .. i - 1 : l[j].at < e.at
      /\ e.action = "register" =>
           \A j \in 1 .. i - 1 :
             l[j].action = "register" => VersionOf[l[j].spec] # VersionOf[e.spec]
      /\ e.action # "register" => Earlier({"register"}) # {}
      /\ e.action \in {"gate", "reject", "promote"} =>
           Earlier({"promote", "reject"}) = {}
      /\ e.action = "promote" => Earlier({"gate"}) # {}
      /\ e.action = "rollback" =>
           Earlier({"promote"}) # {} /\ ~Serves(l, i - 1, e.spec)

Logged == {log[i] : i \in DOMAIN log}
-----------------------------------------------------------------------------
Init ==
  /\ log = << >>
  /\ serving = None
  /\ returned = {}
  /\ failed = {}

\* The call of the last new event returns; the other new ones had failed.
Save ==
  /\ Len(log') > Len(log)
  /\ \A i \in DOMAIN log : log'[i] = log[i]
  /\ \A i \in Len(log) + 1 .. Len(log') :
       Lawful(log', i) /\ (i < Len(log') => log'[i] \in failed)
  /\ Serves(log', Len(log'), serving')
  /\ LET last == log'[Len(log')]
     IN  last \notin returned \cup failed /\ returned' = returned \cup {last}
  /\ UNCHANGED failed

Fail(e) ==
  /\ e \notin Logged \cup returned \cup failed
  /\ failed' = failed \cup {e}
  /\ UNCHANGED <<log, serving, returned>>

\* A register is answered from the one there was, failed or not.
Repeat(e) ==
  /\ e.action = "register"
  /\ returned' = returned \cup {e}
  /\ UNCHANGED <<log, serving, failed>>

Next ==
  \/ Save
  \/ \E e \in failed' : Fail(e)
  \/ \E e \in Logged \cup failed : Repeat(e)

Spec == Init /\ [][Next]_vars
=============================================================================
