--------------------------- MODULE HarnessRegistry --------------------------
(***************************************************************************)
(* HarnessRegistry (harness/registry.py): the JSON ledger that says which  *)
(* harness serves.  A handle is an object of the class, in one process or  *)
(* in several, all on one path.  A mutation changes the handle's ledger in *)
(* memory, then writes path.tmp, then os.replace puts it on path; the call *)
(* returns to its caller only after that.  A handle may crash between any  *)
(* two of these steps, and a write may fail with OSError, which the caller *)
(* sees while the handle lives on.                                         *)
(*                                                                         *)
(* Two write_text calls never overlap in time here: one of them is whole   *)
(* before the next begins.                                                 *)
(***************************************************************************)
EXTENDS Integers, Sequences, FiniteSets

CONSTANTS
  Handles,        \* HarnessRegistry objects on the path
  Specs,          \* content hashes of harness specs
  Versions,       \* harness_version values
  VersionOf,      \* spec.harness_version
  Decisions,      \* gate decisions
  Passing,        \* the ones with passed = True
  MaxMutations,   \* bound on the mutations of all handles together
  MaxFailures,    \* bound on the mutations whose save meets an OSError
  None

ASSUME RegistryAssumption ==
  /\ VersionOf \in [Specs -> Versions]
  /\ Passing \subseteq Decisions
  /\ MaxMutations \in Nat
  /\ MaxFailures \in Nat
  /\ None \notin Specs \cup Decisions

VARIABLES
  disk,     \* what path holds: None, Torn or a ledger
  tmp,      \* what path.tmp holds
  mem,      \* _ledger of each handle, EmptyLedger for a closed one
  pc,       \* "closed", "idle", "saving" or "written"
  op,       \* the event of the mutation being saved, None in __init__
  begun,    \* mutations begun so far, the `at` of the next one's event
  acked,    \* history: events of the calls that returned
  unsaved   \* history: events of the calls whose save failed

vars == <<disk, tmp, mem, pc, op, begun, acked, unsaved>>
-----------------------------------------------------------------------------
Torn == [torn |-> TRUE]   \* a file whose write was cut short
HarnessState == {"candidate", "promoted", "rejected"}
Action == {"register", "gate", "promote", "reject", "rollback"}
Record == [state : HarnessState, gate : Decisions \cup {None}]
RegistryEvent == [action : Action, spec : Specs, at : Nat]
Ledger == [champion : Specs \cup {None},
           records : UNION {[S -> Record] : S \in SUBSET Specs},
           events : Seq(RegistryEvent)]
EmptyLedger == [champion |-> None, records |-> << >>, events |-> << >>]

\* Neither an event nor what a cut write left is taken for Python's None.
ASSUME EventAssumption == None \notin RegistryEvent \cup {Torn}

Known(l) == DOMAIN l.records
Happened(l) == {l.events[i] : i \in DOMAIN l.events}
-----------------------------------------------------------------------------
\* The ledger _mutate builds: one record set, one event added.
Mutated(l, s, record, champion, e) ==
  [champion |-> champion,
   records |-> [x \in Known(l) \cup {s} |->
                  IF x = s THEN record ELSE l.records[x]],
   events |-> Append(l.events, e)]

\* _mutate, up to the call of _persist.
Mutate(h, action, s, record, champion) ==
  LET e == [action |-> action, spec |-> s, at |-> begun]
  IN  /\ begun < MaxMutations
      /\ begun' = begun + 1
      /\ mem' = [mem EXCEPT ![h] = Mutated(@, s, record, champion, e)]
      /\ op' = [op EXCEPT ![h] = e]
      /\ pc' = [pc EXCEPT ![h] = "saving"]
      /\ UNCHANGED <<disk, tmp, acked, unsaved>>

\* Mutants: a gate is recorded in any state; a
\* candidate is promoted ungated; any known harness can be rolled back to;
\* a rollback takes the later events back; an existing file is ignored.
RecordGateAnyState(h, s, d) ==
  /\ pc[h] = "idle"
  /\ s \in Known(mem[h])
  /\ Mutate(h, IF d \in Passing THEN "gate" ELSE "reject", s,
            [state |-> IF d \in Passing THEN "candidate" ELSE "rejected",
             gate |-> d], mem[h].champion)
PromoteUngated(h, s) ==
  /\ pc[h] = "idle"
  /\ s \in Known(mem[h])
  /\ mem[h].records[s].state = "candidate"
  /\ Mutate(h, "promote", s, [mem[h].records[s] EXCEPT !.state = "promoted"],
            s)
RollbackUndo(h, s) ==
  /\ pc[h] = "idle"
  /\ s \in Known(mem[h])
  /\ mem[h].records[s].state = "promoted"
  /\ mem[h].champion \notin {None, s}
  /\ begun < MaxMutations
  /\ mem' = [mem EXCEPT ![h].champion = s,
                        ![h].events = SubSeq(@, 1, Len(@) - 1)]
  /\ pc' = [pc EXCEPT ![h] = "saving"]
  /\ begun' = begun + 1
  /\ UNCHANGED <<disk, tmp, op, acked, unsaved>>
OpenEmpty(h) ==
  /\ pc[h] = "closed"
  /\ mem' = [mem EXCEPT ![h] = EmptyLedger]
  /\ op' = [op EXCEPT ![h] = None]
  /\ pc' = [pc EXCEPT ![h] = "saving"]
  /\ UNCHANGED <<disk, tmp, begun, acked, unsaved>>

\* __init__: read the file, or save an empty ledger.  A torn file raises.
Open(h) ==
  /\ pc[h] = "closed"
  /\ disk # Torn
  /\ mem' = [mem EXCEPT ![h] = IF disk = None THEN EmptyLedger ELSE disk]
  /\ op' = [op EXCEPT ![h] = None]
  /\ pc' = [pc EXCEPT ![h] = IF disk = None THEN "saving" ELSE "idle"]
  /\ UNCHANGED <<disk, tmp, begun, acked, unsaved>>

\* register of a spec the ledger has: the hash is returned, nothing is saved.
RegisterAgain(h, s) ==
  /\ pc[h] = "idle"
  /\ s \in Known(mem[h])
  /\ acked' = acked \cup {e \in Happened(mem[h]) :
                            e.action = "register" /\ e.spec = s}
  /\ UNCHANGED <<disk, tmp, mem, pc, op, begun, unsaved>>

Register(h, s) ==
  /\ pc[h] = "idle"
  /\ s \notin Known(mem[h])
  /\ \A x \in Known(mem[h]) : VersionOf[x] # VersionOf[s]
  /\ Mutate(h, "register", s, [state |-> "candidate", gate |-> None],
            mem[h].champion)

RecordGate(h, s, d) ==
  /\ pc[h] = "idle"
  /\ s \in Known(mem[h])
  /\ mem[h].records[s].state = "candidate"
  /\ Mutate(h, IF d \in Passing THEN "gate" ELSE "reject", s,
            [state |-> IF d \in Passing THEN "candidate" ELSE "rejected",
             gate |-> d],
            mem[h].champion)

\* Setting the previous champion's state to "promoted" changes nothing: it
\* has been "promoted" since it became champion (ChampionJustified).
Promote(h, s) ==
  /\ pc[h] = "idle"
  /\ s \in Known(mem[h])
  /\ mem[h].records[s].state = "candidate"
  /\ mem[h].records[s].gate \in Passing
  /\ Mutate(h, "promote", s, [mem[h].records[s] EXCEPT !.state = "promoted"],
            s)

Rollback(h, s) ==
  /\ pc[h] = "idle"
  /\ s \in Known(mem[h])
  /\ mem[h].records[s].state = "promoted"
  /\ mem[h].champion \notin {None, s}
  /\ Mutate(h, "rollback", s, mem[h].records[s], s)
-----------------------------------------------------------------------------
(* _persist.                                                               *)

WriteTmp(h) ==
  /\ pc[h] = "saving"
  /\ tmp' = mem[h]
  /\ pc' = [pc EXCEPT ![h] = "written"]
  /\ UNCHANGED <<disk, mem, op, begun, acked, unsaved>>

\* os.replace, then the call returns.
Replace(h) ==
  /\ pc[h] = "written"
  /\ tmp # None
  /\ disk' = tmp
  /\ tmp' = None
  /\ pc' = [pc EXCEPT ![h] = "idle"]
  /\ acked' = acked \cup ({op[h]} \ {None})
  /\ op' = [op EXCEPT ![h] = None]
  /\ UNCHANGED <<mem, begun, unsaved>>

WritesMayFail == Cardinality(unsaved) < MaxFailures

\* OSError: __init__ raises and there is no handle; any other call raises and
\* leaves the handle with the ledger it failed to save.  Another handle's
\* os.replace may have taken path.tmp away.
SaveFails(h) ==
  /\ \/ pc[h] = "saving" /\ WritesMayFail /\ tmp' \in {tmp, Torn}
     \/ pc[h] = "written" /\ (WritesMayFail \/ tmp = None) /\ UNCHANGED tmp
  /\ pc' = [pc EXCEPT ![h] = IF op[h] = None THEN "closed" ELSE "idle"]
  /\ op' = [op EXCEPT ![h] = None]
  /\ unsaved' = unsaved \cup ({op[h]} \ {None})
  /\ UNCHANGED <<disk, mem, begun, acked>>

\* The process ends, perhaps in the middle of write_text.
Crash(h) ==
  /\ pc[h] # "closed"
  /\ pc' = [pc EXCEPT ![h] = "closed"]
  /\ tmp' \in IF pc[h] = "saving" THEN {tmp, Torn} ELSE {tmp}
  /\ mem' = [mem EXCEPT ![h] = EmptyLedger]
  /\ op' = [op EXCEPT ![h] = None]
  /\ UNCHANGED <<disk, begun, acked, unsaved>>
-----------------------------------------------------------------------------
Init ==
  /\ disk = None
  /\ tmp = None
  /\ mem = [h \in Handles |-> EmptyLedger]
  /\ pc = [h \in Handles |-> "closed"]
  /\ op = [h \in Handles |-> None]
  /\ begun = 0
  /\ acked = {}
  /\ unsaved = {}

Operate(h) ==
  \E s \in Specs :
    \/ RegisterAgain(h, s)
    \/ Register(h, s)
    \/ \E d \in Decisions : RecordGate(h, s, d)
    \/ Promote(h, s)
    \/ Rollback(h, s)

Next ==
  \E h \in Handles :
    \/ Open(h)
    \/ Operate(h)
    \/ WriteTmp(h)
    \/ Replace(h)
    \/ SaveFails(h)
    \/ Crash(h)

Spec == Init /\ [][Next]_vars
-----------------------------------------------------------------------------
TypeOK ==
  /\ disk \in Ledger \cup {None, Torn}
  /\ tmp \in Ledger \cup {None, Torn}
  /\ mem \in [Handles -> Ledger]
  /\ pc \in [Handles -> {"closed", "idle", "saving", "written"}]
  /\ op \in [Handles -> RegistryEvent \cup {None}]
  /\ begun \in Nat
  /\ acked \subseteq RegistryEvent
  /\ unsaved \subseteq RegistryEvent

\* Every ledger there is: in memory, being saved, or on the path.
Ledgers == {mem[h] : h \in Handles} \cup ({disk, tmp} \ {None, Torn})

\* Events of l about s with one of these actions, as indices.
At(l, s, actions) ==
  {i \in DOMAIN l.events : l.events[i].spec = s /\ l.events[i].action \in actions}

\* The records and the champion are what the events tell, whatever was lost
\* or failed on the way: a record per registration, which happened once; the
\* state of the last event that sets one; the champion of the last promotion
\* or rollback.
LedgerMatchesEvents ==
  \A l \in Ledgers :
    /\ \A s \in Specs : Cardinality(At(l, s, {"register"})) =
                        IF s \in Known(l) THEN 1 ELSE 0
    /\ \A s \in Known(l) :
         l.records[s].state =
           IF At(l, s, {"promote"}) # {} THEN "promoted"
           ELSE IF At(l, s, {"reject"}) # {} THEN "rejected" ELSE "candidate"
    /\ LET moves == {i \in DOMAIN l.events :
                       l.events[i].action \in {"promote", "rollback"}}
       IN  IF moves = {} THEN l.champion = None
           ELSE \E i \in moves : /\ \A j \in moves : j <= i
                                 /\ l.champion = l.events[i].spec

\* The harness that serves was promoted on a passing decision, and no ledger
\* ever shows a champion that was rejected or never gated.
ChampionJustified ==
  \A l \in Ledgers :
    l.champion # None =>
      /\ l.champion \in Known(l)
      /\ l.records[l.champion].state = "promoted"
      /\ l.records[l.champion].gate \in Passing

\* A harness version names one spec in a ledger, so a trajectory's runtime tag
\* tells which harness made it.
VersionsUnique ==
  \A l \in Ledgers : \A s, t \in Known(l) :
    VersionOf[s] = VersionOf[t] => s = t

\* Under one handle at a time a call that returned has its event in the file,
\* whatever crashes after ("every mutation is one atomic JSON replace"), unless
\* it answered from a mutation whose own save had failed: the idempotent
\* register (RegisterAgain) is the only call that can.
ReturnedIsFileBacked ==
  /\ acked # {} => disk # Torn
  /\ acked \subseteq unsaved \cup IF disk = None THEN {} ELSE Happened(disk)
  /\ \A e \in acked \cap unsaved : e.action = "register"

\* The ledger is what happened: in memory and in the file it agrees with its
\* own events, and they justify its champion.
LedgerIsTrue == LedgerMatchesEvents /\ ChampionJustified

Saved == disk \notin {None, Torn}
History ==
  INSTANCE EventLedger WITH
    log <- IF Saved THEN disk.events ELSE << >>,
    serving <- IF Saved THEN disk.champion ELSE None,
    returned <- acked,
    failed <- unsaved

\* Under one handle at a time the file is an append-only log ("Entries are
\* never deleted and decisions are never edited"): whatever crashes or fails
\* to be saved, it only grows, by events that may follow those before them,
\* and a save brings the event of the call that returns (_mutate, _persist).
ImplementsEventLedger == History!Spec
=============================================================================
