--------------------------- MODULE SymbolicWorker ---------------------------
(***************************************************************************)
(* The isolated process behind symbolic verification (verifier/worker.py)  *)
(* and the order in which compare_expressions (verifier/symbolic.py) works *)
(* inside it.  The parent sends a request down a pipe and waits for the    *)
(* verdict with that request's id, for the deadline, or for the worker's   *)
(* end; the worker compares under a one-shot CPU timer whose signal        *)
(* handler raises an exception into whatever the comparison is doing.      *)
(* A worker can die at any time: memory limit, crash in C code, a kill.    *)
(***************************************************************************)
EXTENDS Integers, Sequences

CONSTANTS
  MaxRequests,    \* bound on the calls of compare that reach a worker
  MaxWorkers,     \* bound on the workers started
  MaxInterrupts,  \* bound on exceptions raised into a waiting parent
  None

ASSUME WorkerAssumption ==
  /\ MaxRequests \in Nat \ {0}
  /\ MaxWorkers \in Nat \ {0}
  /\ MaxInterrupts \in Nat
  /\ None \notin Nat /\ None # "correct"

VARIABLES
  pc,        \* where the parent is in compare or close, "idle" outside them
  asked,     \* asked[id]: does all the evidence agree that the two are equal
  process,   \* self._process: a worker's number, 0 for Python's None
  started,   \* workers started so far; the last one owns the three pipes
  alive,     \* workers whose process exists
  doomed,    \* workers that were sent SIGTERM or SIGKILL
  ready,     \* the ready pipe holds its message
  tasks,     \* the task pipe
  results,   \* the result pipe
  stage,     \* what the last worker is doing
  item,      \* the request it took
  timer,     \* its CPU timer: "off", "armed" or "fired"
  status,    \* the verdict it reached
  failure,   \* the verdict compare returns once its worker is gone
  answer,    \* what the last call of compare returned
  interrupts

parent == <<pc, asked, process, failure, answer, interrupts>>
pipes == <<ready, tasks, results>>
worker == <<stage, item, timer, status>>
vars == <<parent, started, alive, doomed, pipes, worker>>
-----------------------------------------------------------------------------
Stop == 0  \* the shutdown sentinel; requests count from 1
Comparing == {"surface", "parse prediction", "parse reference", "structure",
              "simplify", "evidence", "disarm"}
Refused == {"incorrect", "invalid_prediction", "invalid_reference"}
Failed == {"timeout", "internal_error"}
Status == {"correct"} \cup Refused \cup Failed

Request == Len(asked)
Alive == process \in alive
NoAnswer == [request |-> None, from |-> None, status |-> None, fired |-> FALSE]

\* What a comparison that runs to its end may find at a stage.
Findings(id) == Refused \cup (IF asked[id] THEN {"correct"} ELSE {})

Init ==
  /\ pc = "idle"
  /\ asked = << >>
  /\ process = 0
  /\ started = 0
  /\ alive = {}
  /\ doomed = {}
  /\ ready = FALSE
  /\ tasks = << >>
  /\ results = << >>
  /\ stage = "none"
  /\ item = None
  /\ timer = "off"
  /\ status = None
  /\ failure = None
  /\ answer = NoAnswer
  /\ interrupts = 0
-----------------------------------------------------------------------------
(* The parent.                                                             *)

\* compare ends with a verdict of its own making.
Fail(verdict) ==
  /\ pc' = "idle"
  /\ answer' = [NoAnswer EXCEPT !.request = Request, !.status = verdict]
  /\ failure' = None

\* Mutant: the worker is forgotten alive.
RestartForgets(verdict) ==
  /\ process' = 0
  /\ Fail(verdict)
  /\ UNCHANGED doomed

\* SymbolicWorker._restart: a live worker is terminated and waited for.
Restart(verdict) ==
  \/ /\ Alive
     /\ doomed' = doomed \cup {process}
     /\ pc' = "terminated"
     /\ failure' = verdict
     /\ UNCHANGED <<process, answer>>
  \/ /\ ~Alive
     /\ process' = 0
     /\ Fail(verdict)
     /\ UNCHANGED doomed

\* SymbolicWorker._reset, for a worker that has ended.
Reset(verdict) ==
  /\ process' = 0
  /\ Fail(verdict)

\* A call of compare, for a pair the evidence agrees on or not.  The request
\* id is taken when the worker is ready, before the send.
Compare(agree) ==
  /\ pc = "idle"
  /\ Len(asked) < MaxRequests /\ started < MaxWorkers  \* bounds
  /\ asked' = Append(asked, agree)
  /\ pc' = "ensuring"
  /\ UNCHANGED <<process, failure, answer, interrupts, started, alive, doomed,
                 pipes, worker>>

KeepWorker ==
  /\ pc = "ensuring"
  /\ Alive
  /\ pc' = "sending"
  /\ UNCHANGED <<asked, process, failure, answer, interrupts, started, alive,
                 doomed, pipes, worker>>

\* A new process with three new pipes; what the old ones hold is lost.
StartWorker ==
  /\ pc = "ensuring"
  /\ ~Alive
  /\ started' = started + 1
  /\ process' = started + 1
  /\ alive' = alive \cup {started + 1}
  /\ ready' = FALSE
  /\ tasks' = << >>
  /\ results' = << >>
  /\ stage' = "starting"
  /\ item' = None
  /\ timer' = "off"
  /\ status' = None
  /\ pc' = "starting"
  /\ UNCHANGED <<asked, failure, answer, interrupts, doomed>>

\* The startup deadline passed at the head of the loop.
StartupDeadline ==
  /\ pc = "starting"
  /\ Restart("internal_error")
  /\ UNCHANGED <<asked, interrupts, started, alive, pipes, worker>>

\* The ready pipe was empty for a tenth of a second.
StartupPolled ==
  /\ pc = "starting"
  /\ ~ready
  /\ pc' = "starting, polled"
  /\ UNCHANGED <<asked, process, failure, answer, interrupts, started, alive,
                 doomed, pipes, worker>>

StartupCheck ==
  /\ pc = "starting, polled"
  /\ \/ /\ Alive
        /\ pc' = "starting"
        /\ UNCHANGED <<process, failure, answer>>
     \/ /\ ~Alive
        /\ Reset("internal_error")
  /\ UNCHANGED <<asked, interrupts, started, alive, doomed, pipes, worker>>

\* The handshake; a worker that is gone again is left to the next call.
Handshake ==
  /\ pc = "starting"
  /\ ready
  /\ ready' = FALSE
  /\ \/ /\ Alive
        /\ pc' = "sending"
        /\ UNCHANGED <<failure, answer>>
     \/ /\ ~Alive
        /\ Fail("internal_error")
  /\ UNCHANGED <<asked, process, interrupts, started, alive, doomed, tasks,
                 results, worker>>

Send ==
  /\ pc = "sending"
  /\ Alive
  /\ tasks' = Append(tasks, Request)
  /\ pc' = "waiting"
  /\ UNCHANGED <<asked, process, failure, answer, interrupts, started, alive,
                 doomed, ready, results, worker>>

\* The worker died after _ensure_worker saw it alive.  Its end of the pipe
\* was the only one, so send raises BrokenPipeError, out of compare.
SendRaises ==
  /\ pc = "sending"
  /\ ~Alive
  /\ pc' = "idle"
  /\ answer' = [NoAnswer EXCEPT !.request = Request, !.status = "raised"]
  /\ UNCHANGED <<asked, process, failure, interrupts, started, alive, doomed,
                 pipes, worker>>

\* The deadline passed at the head of the loop.
Deadline ==
  /\ pc = "waiting"
  /\ Restart("timeout")
  /\ UNCHANGED <<asked, interrupts, started, alive, pipes, worker>>

\* The result pipe was empty for a tenth of a second.
Polled ==
  /\ pc = "waiting"
  /\ results = << >>
  /\ Alive
  /\ pc' = "polled"
  /\ UNCHANGED <<asked, process, failure, answer, interrupts, started, alive,
                 doomed, pipes, worker>>

\* Mutant: a worker seen alive is taken to have answered.
CheckOnce ==
  /\ pc = "polled"
  /\ Alive
  /\ pc' = "waiting"
  /\ UNCHANGED <<asked, process, failure, answer, interrupts, started, alive,
                 doomed, pipes, worker>>

\* ... and the worker is looked at: a verdict it sent in between is lost.
Check ==
  /\ pc = "polled"
  /\ \/ /\ Alive
        /\ pc' = "waiting"
        /\ UNCHANGED <<process, failure, answer>>
     \/ /\ ~Alive
        /\ Reset("internal_error")
  /\ UNCHANGED <<asked, interrupts, started, alive, doomed, pipes, worker>>

\* The pipe is at its end: recv raises EOFError.
EndOfResults ==
  /\ pc = "waiting"
  /\ results = << >>
  /\ ~Alive
  /\ Reset("internal_error")
  /\ UNCHANGED <<asked, interrupts, started, alive, doomed, pipes, worker>>

\* Mutant: a result is taken without comparing the ids.
ReceiveAny ==
  /\ pc = "waiting"
  /\ results # << >>
  /\ results' = Tail(results)
  /\ pc' = "idle"
  /\ answer' = [request |-> Request, from |-> Head(results).id,
                status |-> Head(results).status, fired |-> Head(results).fired]
  /\ UNCHANGED <<asked, process, failure, interrupts, started, alive, doomed,
                 ready, tasks, worker>>

\* A result of an earlier request is dropped.
Receive ==
  /\ pc = "waiting"
  /\ results # << >>
  /\ results' = Tail(results)
  /\ LET got == Head(results)
     IN  \/ /\ got.id # Request
            /\ UNCHANGED <<pc, answer>>
         \/ /\ got.id = Request
            /\ pc' = "idle"
            /\ answer' = [request |-> Request, from |-> got.id,
                          status |-> got.status, fired |-> got.fired]
  /\ UNCHANGED <<asked, process, failure, interrupts, started, alive, doomed,
                 ready, tasks, worker>>

\* The five seconds of a join passed, or the worker ended within them.  After
\* terminate a worker that is still there is killed and joined again.
Join ==
  /\ \/ /\ pc = "terminated"
        /\ Alive
        /\ pc' = "killed"
        /\ UNCHANGED <<process, failure, answer>>
     \/ /\ \/ pc = "terminated" /\ ~Alive
           \/ pc = "killed"
        /\ process' = 0
        /\ Fail(failure)
     \/ /\ pc = "closing"
        /\ process' = 0
        /\ pc' = "idle"
        /\ UNCHANGED <<failure, answer>>
  /\ UNCHANGED <<asked, interrupts, started, alive, doomed, pipes, worker>>

\* An exception from outside, KeyboardInterrupt say, leaves compare or close;
\* the object stays as it is and may be used again.
Interrupt ==
  /\ pc # "idle"
  /\ interrupts < MaxInterrupts
  /\ interrupts' = interrupts + 1
  /\ pc' = "idle"
  /\ failure' = None
  /\ answer' = NoAnswer
  /\ UNCHANGED <<asked, process, started, alive, doomed, pipes, worker>>

\* SymbolicWorker._shutdown: the sentinel, SIGTERM whatever became of it, and
\* a join that is not followed by a kill.
Close ==
  /\ pc = "idle"
  /\ process # 0
  /\ tasks' = IF Alive THEN Append(tasks, Stop) ELSE tasks
  /\ doomed' = IF Alive THEN doomed \cup {process} ELSE doomed
  /\ pc' = "closing"
  /\ UNCHANGED <<asked, process, failure, answer, interrupts, started, alive,
                 ready, results, worker>>
-----------------------------------------------------------------------------
(* The worker.  Only the last one started has pipes.                       *)

Works(s) ==
  /\ started \in alive
  /\ stage = s
  /\ UNCHANGED <<parent, started, alive, doomed>>

Ready ==
  /\ Works("starting")
  /\ ready' = TRUE
  /\ stage' = "recv"
  /\ UNCHANGED <<tasks, results, item, timer, status>>

\* A request is taken and the timer armed.
Take ==
  /\ Works("recv")
  /\ tasks # << >>
  /\ Head(tasks) # Stop
  /\ tasks' = Tail(tasks)
  /\ item' = Head(tasks)
  /\ timer' = "armed"
  /\ status' = None
  /\ stage' = "surface"
  /\ UNCHANGED <<ready, results>>

\* The comparison has a verdict; the timer is still armed.
Reach(verdict) ==
  /\ status' = verdict
  /\ stage' = "disarm"
Advance(next) ==
  /\ stage' = next
  /\ UNCHANGED status

\* Length, words and open-ended series need no parsing.
Surface ==
  /\ Works("surface")
  /\ \/ \E v \in Findings(item) : Reach(v)
     \/ Advance("parse prediction")
  /\ UNCHANGED <<pipes, item, timer>>

ParsePrediction ==
  /\ Works("parse prediction")
  /\ \/ Reach("invalid_prediction")
     \/ Advance("parse reference")
  /\ UNCHANGED <<pipes, item, timer>>

ParseReference ==
  /\ Works("parse reference")
  /\ \/ Reach("invalid_reference")
     \/ Advance("structure")
  /\ UNCHANGED <<pipes, item, timer>>

\* Size limits, canonical equality, and what is no arithmetic expression.
Structure ==
  /\ Works("structure")
  /\ \/ \E v \in Findings(item) : Reach(v)
     \/ Advance("simplify")
  /\ UNCHANGED <<pipes, item, timer>>

Simplify ==
  /\ Works("simplify")
  /\ Advance("evidence")
  /\ UNCHANGED <<pipes, item, timer>>

\* A zero difference and the domains, a rational difference, the symbols, or
\* the numeric cross-check.
Evidence ==
  /\ Works("evidence")
  /\ \E v \in Findings(item) \ {"invalid_reference"} : Reach(v)
  /\ UNCHANGED <<pipes, item, timer>>

\* Mutant: a failed simplification counts as a zero difference.
RaisedZero(verdict) ==
  \/ /\ stage = "simplify"
     /\ Reach("correct")
  \/ /\ stage \in {"surface", "structure", "evidence", "disarm"}
     /\ Reach(verdict)

\* An exception raised while the comparison is at a stage.  The parser and
\* simplify run under `except Exception`: the first becomes a malformed
\* expression, the second is passed over.  Everywhere else it leaves the
\* comparison.
Raised(verdict) ==
  \/ /\ stage = "parse prediction"
     /\ Reach("invalid_prediction")
  \/ /\ stage = "parse reference"
     /\ Reach("invalid_reference")
  \/ /\ stage = "simplify"
     /\ Advance("evidence")
  \/ /\ stage \in {"surface", "structure", "evidence"}
     /\ Reach(verdict)
  \/ /\ stage = "disarm"
     /\ Reach("internal_error")

\* The CPU timer fires, once: its handler raises _CpuLimitExceeded, which is
\* an Exception.  In the finally clause it leaves _with_cpu_limit itself.
LimitFires ==
  /\ Works(stage)
  /\ stage \in Comparing
  /\ timer = "armed"
  /\ timer' = "fired"
  /\ Raised("timeout")
  /\ UNCHANGED <<pipes, item>>

\* SymPy or the memory limit raises.
ComparatorRaises ==
  /\ Works(stage)
  /\ stage \in Comparing \ {"disarm"}
  /\ Raised("internal_error")
  /\ UNCHANGED <<pipes, item, timer>>

\* The finally clause stops the timer.
Disarm ==
  /\ Works("disarm")
  /\ stage' = "send"
  /\ UNCHANGED <<pipes, item, timer, status>>

\* The verdict is sent with the request's id.
SendResult ==
  /\ Works("send")
  /\ results' = Append(results, [id |-> item, status |-> status,
                                 fired |-> timer = "fired"])
  /\ stage' = "recv"
  /\ timer' = "off"
  /\ item' = None
  /\ status' = None
  /\ UNCHANGED <<ready, tasks>>

\* The process of worker w ends: the sentinel, a signal, a crash, the memory
\* limit, or a pipe whose other end is gone.
Dies(w) ==
  /\ w \in alive
  /\ alive' = alive \ {w}
  /\ UNCHANGED <<parent, started, doomed, pipes, worker>>

ParentStep ==
  \/ KeepWorker \/ StartWorker \/ StartupPolled \/ StartupCheck
  \/ StartupDeadline \/ Handshake \/ Send \/ SendRaises
  \/ Deadline \/ Polled \/ Check \/ EndOfResults \/ Receive \/ Join
WorkerStep ==
  \/ Ready \/ Take \/ Surface \/ ParsePrediction \/ ParseReference
  \/ Structure \/ Simplify \/ Evidence \/ LimitFires \/ ComparatorRaises
  \/ Disarm \/ SendResult

Next ==
  \/ \E agree \in BOOLEAN : Compare(agree)
  \/ ParentStep
  \/ Interrupt
  \/ Close
  \/ WorkerStep
  \/ \E w \in alive : Dies(w)

Spec == Init /\ [][Next]_vars

\* The parent runs; each round of a waiting loop takes at most a tenth of a
\* second off a finite deadline, so the test at its head succeeds in the end
\* if nothing else ends the loop.  Nothing is assumed of the workers.
Fairness ==
  /\ WF_vars(ParentStep)
  /\ SF_vars(StartupDeadline)
  /\ SF_vars(Deadline)
FairSpec == Spec /\ Fairness
-----------------------------------------------------------------------------
(* Properties.                                                             *)

Item == [id : Nat \ {0}, status : Status, fired : BOOLEAN]

\* The parent's and the worker's variables have the values the code gives
\* them: a verdict exists exactly from the end of a comparison to its send,
\* and the timer runs only while a request is being compared.
TypeOK ==
  /\ pc \in {"idle", "ensuring", "starting", "starting, polled", "sending",
             "waiting", "polled", "terminated", "killed", "closing"}
  /\ asked \in Seq(BOOLEAN)
  /\ process \in {0, started}
  /\ started \in Nat
  /\ alive \subseteq 1..started
  /\ doomed \subseteq 1..started
  /\ ready \in BOOLEAN
  /\ tasks \in Seq(0..Len(asked))
  /\ results \in Seq(Item)
  /\ stage \in {"none", "starting", "recv", "send"} \cup Comparing
  /\ item \in (1..Len(asked)) \cup {None}
  /\ timer \in {"off", "armed", "fired"}
  /\ timer = "off" <=> item = None
  /\ status \in IF stage \in {"disarm", "send"} THEN Status ELSE {None}
  /\ failure \in IF pc \in {"terminated", "killed"} THEN Failed ELSE {None}
  /\ answer \in [request : Nat \cup {None}, from : Nat \cup {None},
                 status : Status \cup {"raised", None}, fired : BOOLEAN]
  /\ interrupts \in 0..MaxInterrupts

\* A verdict the worker made is returned for the request it was made for,
\* though an interrupted call leaves its request, or its verdict, in the
\* pipes the next call uses (compare, line 177).
AnswersOwnRequest == answer.from # None => answer.from = answer.request

\* Whatever raises in the comparison and wherever, and whoever's verdict is
\* still in the pipe: a pair the evidence does not agree on is never
\* answered correct (compare_expressions' handlers, compare).
NoFalseAccept == answer.status = "correct" => asked[answer.request]

\* A verdict is the evidence's own: of the request it answers, and never
\* "correct" for another reason.
VerdictIsOwn == AnswersOwnRequest /\ NoFalseAccept

\* A worker the object no longer holds is gone or has been signalled: the
\* parent leaves no process comparing behind it (_restart, _reset,
\* _ensure_worker, _shutdown).
NoOrphan == alive \ {process} \subseteq doomed

\* compare and close come back, even from a worker that never answers
\* (compare's and _ensure_worker's loops).
CompareReturns == pc # "idle" ~> pc = "idle"

\* A request whose CPU timer fired is answered by a timeout, or as an error
\* (worker.py:7-8).
LimitIsTimeout == answer.fired => answer.status \in Failed

Atomic ==
  INSTANCE AtomicCompare WITH
    Verdicts <- Status,
    Failures <- Failed \cup {"raised"},
    open <- pc \notin {"idle", "closing"},
    answer <- [request |-> answer.request, from |-> answer.from,
               status |-> answer.status]

\* To its caller compare is one atomic call: with workers that die, hang or
\* answer a call that was given up, each call is answered once, for its own
\* pair, and no step between changes what the caller sees (compare, lines
\* 152-179, with _restart, _reset and _shutdown).
ImplementsAtomicCompare == Atomic!Spec
=============================================================================
