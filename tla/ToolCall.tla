------------------------------ MODULE ToolCall ------------------------------
(***************************************************************************)
(* One call of ToolRegistry.execute (tools/registry.py): the Python tool's *)
(* request to the sandbox service (tools/python_tool.py, sandboxfusion.py) *)
(* or the SymPy tool's child process (tools/sympy_tool.py), the result     *)
(* code the model's turn is judged by, and the error class the recovery    *)
(* experiment counts it under (recovery/taxonomy.py).                      *)
(*                                                                         *)
(* The SymPy parent joins its child before it reads the child's queue.  A  *)
(* queue is a pipe of limited size filled by a thread the child waits for  *)
(* when it exits, so a result that does not fit keeps the child alive.     *)
(***************************************************************************)
EXTENDS Integers

CONSTANTS
  Prompt,          \* a deadline passes only when the other side cannot move
  LargeResults,    \* a SymPy result may exceed the capacity of the pipe
  MaxKills,        \* the system may kill the child, at most this often
  RunTimes,        \* execution_time values of the sandbox
  Nil

ASSUME ToolAssumption ==
  /\ Prompt \in BOOLEAN /\ LargeResults \in BOOLEAN
  /\ MaxKills \in Nat /\ RunTimes \subseteq Nat /\ Nil \notin Nat
  /\ Nil # <<"Finished", 1>>

VARIABLES
  tool,    \* the name in the call
  args,    \* its arguments: "schema" violations, "unsafe" ones, or "good"
  caller,      \* where the caller is
  program, \* what became of the model's code or expression
  child,   \* the SymPy child process
  size,    \* its pickled result, as the pipe sees it
  pipe,    \* the queue's pipe: "empty", "part" of a result, or "whole"
  held,    \* the result the child put
  kills,
  result   \* what execute returned

tVars == <<tool, args, caller, program, child, size, pipe, held, kills, result>>
-----------------------------------------------------------------------------
(* Results and their classes.                                              *)

ToolErrorCode == {"unknown_tool", "invalid_arguments", "timeout",
                  "execution_error", "output_limit", "unavailable"}
Ok(time) == [code |-> "ok", time |-> time, sandbox |-> Nil]
Error(code) == [code |-> code, time |-> Nil, sandbox |-> Nil]

\* classify_tool_result, which looks at the code alone.
Classify(code) ==
  CASE code = "timeout" -> "E_TIMEOUT"
    [] code = "unavailable" -> "E_INFRA"
    [] code \in {"execution_error", "output_limit"} -> "E_EXEC"
    [] OTHER -> Nil

\* What the sandbox service or what is in front of it may answer, and what
\* may happen to the request instead: httpx's TimeoutException, its other
\* HTTPErrors, a RuntimeError of the transport; a status of 500 or more; a
\* body that is not the envelope, a 4xx page among them; an envelope without
\* a run_result; a run.
Faults == {"TimeoutException", "HTTPError", "RuntimeError", "5xx",
           "malformed", "no run_result"}
Runs == [status : {"Success", "Failed", "SandboxError"},
         run_status : {"Finished", "TimeLimitExceeded", "Error"},
         return_code : {0, 1, Nil}, time : RunTimes \cup {Nil}]

\* The runs the service reports for a program: it is the service's word that
\* a program finished, raised, or was cut off.
ReportOf(run) ==
  CASE run.run_status = "TimeLimitExceeded" -> "cut off"
    [] run.run_status = "Finished" /\ run.return_code = 0 -> "finished"
    [] run.run_status = "Finished" /\ run.return_code = 1 -> "raised"
    [] OTHER -> "not run"

Metadata(code, run) ==
  [code |-> code, time |-> run.time,
   sandbox |-> <<run.run_status, run.return_code>>]

\* Mutant: what the service calls no success was not run.
RunResultUnavailable(run) ==
  IF run.run_status = "TimeLimitExceeded" THEN Metadata("timeout", run)
  ELSE IF /\ run.status = "Success" /\ run.run_status = "Finished"
          /\ run.return_code = 0
  THEN Ok(run.time)
  ELSE IF run.status = "Success" THEN Metadata("execution_error", run)
  ELSE Metadata("unavailable", run)

\* SandboxFusionClient.run_code, without a run and with one.
RunCode(fault) ==
  CASE fault = "TimeoutException" -> Error("timeout")
    [] fault \in {"HTTPError", "RuntimeError", "5xx"} -> Error("unavailable")
    [] fault \in {"malformed", "no run_result"} -> Error("execution_error")
RunResult(run) ==
  IF run.run_status = "TimeLimitExceeded" THEN Metadata("timeout", run)
  ELSE IF /\ run.status = "Success" /\ run.run_status = "Finished"
          /\ run.return_code = 0
  THEN Ok(run.time)
  ELSE Metadata("execution_error", run)
-----------------------------------------------------------------------------
tInit ==
  /\ tool \in {"python", "sympy", "other"}
  /\ args \in {"schema", "unsafe", "good"}
  /\ caller = "called"
  /\ program = "none"
  /\ child = "none"
  /\ size \in IF LargeResults THEN {"small", "large"} ELSE {"small"}
  /\ pipe = "empty"
  /\ held = Nil
  /\ kills = 0
  /\ result = Nil

Return(r) ==
  /\ caller' = "returned"
  /\ result' = r

UnknownTool ==
  /\ caller = "called"
  /\ tool = "other"
  /\ Return(Error("unknown_tool"))
  /\ UNCHANGED <<tool, args, program, child, size, pipe, held, kills>>

\* The arguments do not validate, or SympyTool's _reject finds them unsafe.
InvalidArguments ==
  /\ caller = "called"
  /\ \/ tool \in {"python", "sympy"} /\ args = "schema"
     \/ tool = "sympy" /\ args = "unsafe"
  /\ Return(Error("invalid_arguments"))
  /\ UNCHANGED <<tool, args, program, child, size, pipe, held, kills>>

\* The Python tool, from the request to its result: nothing of it is shared.
\* A fault does not tell whether the program ran.
Post ==
  /\ caller = "called"
  /\ tool = "python"
  /\ args # "schema"
  /\ \/ \E fault \in Faults :
          /\ program' \in {"not run", "finished", "raised", "cut off"}
          /\ Return(RunCode(fault))
     \/ \E run \in Runs :
          /\ program' = ReportOf(run)
          /\ Return(RunResult(run))
  /\ UNCHANGED <<tool, args, child, size, pipe, held, kills>>
-----------------------------------------------------------------------------
(* The SymPy tool's parent: _run_isolated, in a thread of its own.         *)

StartChild ==
  /\ caller = "called"
  /\ tool = "sympy"
  /\ args = "good"
  /\ caller' = "joining"
  /\ child' = "computing"
  /\ program' = "running"
  /\ UNCHANGED <<tool, args, size, pipe, held, kills, result>>

ChildStuck == child = "hung" \/ (child = "flushing" /\ pipe = "part")

\* Mutants: the join has no deadline; the child is left running.
JoinDeadlineNever ==
  /\ caller = "joining"
  /\ child = "ended"
  /\ caller' = "getting"
  /\ UNCHANGED <<tool, args, program, child, size, pipe, held, kills, result>>
JoinDeadlineLeaves ==
  /\ caller = "joining"
  /\ child # "ended"
  /\ Prompt => ChildStuck
  /\ Return(Error("timeout"))
  /\ UNCHANGED <<tool, args, program, child, size, pipe, held, kills>>

\* The child is alive when the join's time is up: it is terminated and
\* joined again, this time without a limit.
JoinDeadline ==
  /\ caller = "joining"
  /\ child # "ended"
  /\ Prompt => ChildStuck
  /\ child' = "ended"
  /\ Return(Error("timeout"))
  /\ UNCHANGED <<tool, args, program, size, pipe, held, kills>>

Joined ==
  /\ caller = "joining"
  /\ child = "ended"
  /\ caller' = "getting"
  /\ UNCHANGED <<tool, args, program, child, size, pipe, held, kills, result>>

\* Mutant: an empty queue means that there was nothing to say.
GetLenient ==
  /\ caller = "getting"
  /\ \/ /\ pipe = "whole"
        /\ Return(held)
     \/ /\ pipe = "empty"
        /\ Return(Ok(Nil))
  /\ UNCHANGED <<tool, args, program, child, size, pipe, held, kills>>

\* result_queue.get(timeout=0.1).  Its timeout bounds the wait for a first
\* byte; the read of a result whose writer died half-way never ends, since
\* the parent itself holds the other end of the pipe.
Get ==
  /\ caller = "getting"
  /\ \/ /\ pipe = "whole"
        /\ Return(held)
     \/ /\ pipe = "empty"
        /\ Return(Error("execution_error"))
  /\ UNCHANGED <<tool, args, program, child, size, pipe, held, kills>>
-----------------------------------------------------------------------------
(* The child: _worker.                                                     *)

Child(stage) ==
  /\ child = stage
  /\ UNCHANGED <<tool, args, caller, size, kills, result>>

\* The calculation ends, raises, or never ends; an error is a small result.
Compute ==
  /\ Child("computing")
  /\ \/ /\ program' = "finished"
        /\ held' = Ok(Nil)
        /\ child' = "flushing"
     \/ /\ program' = "raised"
        /\ held' = Error("execution_error")
        /\ child' = "flushing"
     \/ /\ program' = "hung"
        /\ child' = "hung"
        /\ UNCHANGED held
  /\ UNCHANGED pipe

\* The feeder thread writes what fits, and the child ends once it is done.
Flush ==
  /\ Child("flushing")
  /\ pipe = "empty"
  /\ \/ /\ size = "large" /\ held.code = "ok"
        /\ pipe' = "part"
        /\ UNCHANGED child
     \/ /\ size = "small" \/ held.code # "ok"
        /\ pipe' = "whole"
        /\ child' = "ended"
  /\ UNCHANGED <<program, held>>

\* The system kills the child, for its memory say.
Killed ==
  /\ child \in {"computing", "hung", "flushing"}
  /\ kills < MaxKills
  /\ kills' = kills + 1
  /\ child' = "ended"
  /\ program' = IF program = "running" THEN "not run" ELSE program
  /\ UNCHANGED <<tool, args, caller, size, pipe, held, result>>

Parent ==
  \/ UnknownTool \/ InvalidArguments \/ Post
  \/ StartChild \/ JoinDeadline \/ Joined \/ Get

tNext == Parent \/ Compute \/ Flush \/ Killed

ToolSpec == tInit /\ [][tNext]_tVars

\* The parent's thread runs and its deadline passes; a child that is neither
\* hung nor waiting for the pipe runs too.
FairToolSpec == ToolSpec /\ WF_tVars(Parent) /\ WF_tVars(Compute \/ Flush)
-----------------------------------------------------------------------------
(* Properties.                                                             *)

Returned == caller = "returned"

\* A call succeeds only if its program or calculation ended without raising
\* (run_code, line 129; _run_isolated, lines 61-68).
OkIsFinished == Returned /\ result.code = "ok" => program = "finished"

\* Code the interpreter is known to have raised in is E_EXEC, whatever the
\* envelope around it says, and no call-form error ever is (taxonomy.py).
RaisedIsExec ==
  Returned =>
    /\ result.sandbox = <<"Finished", 1>> => Classify(result.code) = "E_EXEC"
    /\ program = "none" => Classify(result.code) = Nil

\* The code of a result claims no more than happened to the program or the
\* calculation, whichever of the service, the transport, the child and the
\* deadline produced it.
CodeIsHonest == OkIsFinished /\ RaisedIsExec

\* No child outlives the call (_run_isolated, lines 57-59).
NoChildLeft == Returned => child \in {"none", "ended"}

\* A child killed while a part of its result is in the pipe: get has its first
\* byte, and the parent holds the writing end itself, so the read never ends.
HalfRead == caller = "getting" /\ pipe = "part"

\* Every other call returns, whatever the child does and though a result that
\* does not fit the pipe keeps parent and child waiting for one another (the
\* deadline of the join, the terminate and second join, the bounded get).
CallReturns == caller = "called" ~> (Returned \/ HalfRead)

\* A timeout means that the calculation hung (sympy_tool.py:21-22).
TimeoutMeansHung ==
  Returned /\ tool = "sympy" /\ result.code = "timeout" => program = "hung"
=============================================================================
