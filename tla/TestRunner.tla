----------------------------- MODULE TestRunner -----------------------------
(***************************************************************************)
(* run_tests of test.py: the main thread dispatches one job per test suite *)
(* or example to worker threads over input_queue, tells them to stop,      *)
(* collects as many answers from output_queue as it dispatched jobs, and   *)
(* turns the counts into an exit code.  Control-C only sets thread_exit,   *)
(* which the workers look at before they launch a job.                     *)
(***************************************************************************)
EXTENDS Naturals, Sequences, FiniteSets

CONSTANTS
  Workers,    \* one thread per processor
  NumJobs,    \* suites and examples that are dispatched
  Skipped     \* the jobs with is_skip set

Jobs == 1..NumJobs
Break == 0    \* the job that stops a worker
NoJob == 0

ASSUME JobAssumption ==
  /\ NumJobs \in Nat
  /\ Skipped \subseteq Jobs
  /\ IsFiniteSet(Workers) /\ Workers # {}

VARIABLES
  inputQueue, outputQueue,
  threadExit,   \* thread_exit, set by sigint_hook
  workerPc,     \* where each worker is
  workerJob,    \* the job each worker took
  isBreak,      \* jobs handed back unrun, with is_break set
  returncode,   \* returncode of each job; Job () starts with False, which equals 0
  mainPc,       \* where run_tests is
  dispatched,   \* jobs, total_tests: number of jobs put into input_queue
  breaks,       \* stop jobs put into input_queue
  collected,    \* answers taken from output_queue
  count,        \* passed_tests, failed_tests, ...
  exitCode,     \* what the program returns to the shell
  launched,     \* ghost: jobs that were really run
  passed,       \* ghost: jobs whose program ended well
  late          \* ghost: launches of each worker after the interrupt

workerVars == <<workerPc, workerJob, isBreak, returncode, launched, passed, late>>
mainVars == <<mainPc, dispatched, breaks, collected, count, exitCode>>
vars == <<inputQueue, outputQueue, threadExit, workerVars, mainVars>>

\* 1: failed; 2: valgrind found errors; 3: any other code, a crash.  A suite
\* whose output cannot be decoded counts as 1 although it may have left no
\* results file: Garbled.
Garbled == 4
Codes == 0..4
Kinds == {"passed", "failed", "valgrind", "crashed", "skipped"}

Init ==
  /\ inputQueue = <<>> /\ outputQueue = <<>>
  /\ threadExit = FALSE
  /\ workerPc = [w \in Workers |-> "get"]
  /\ workerJob = [w \in Workers |-> NoJob]
  /\ isBreak = {}
  /\ returncode = [j \in Jobs |-> 0]
  /\ mainPc = "dispatch"
  /\ dispatched = 0 /\ breaks = 0 /\ collected = 0
  /\ count = [k \in Kinds |-> 0]
  /\ exitCode = "none"
  /\ launched = {} /\ passed = {}
  /\ late = [w \in Workers |-> 0]

-----------------------------------------------------------------------------
(***************************************************************************)
(* worker_thread.run                                                       *)
(***************************************************************************)
WorkerGet(w) ==
  /\ workerPc[w] = "get"
  /\ inputQueue # <<>>
  /\ inputQueue' = Tail(inputQueue)
  /\ workerJob' = [workerJob EXCEPT ![w] = Head(inputQueue)]
  /\ workerPc' = [workerPc EXCEPT
                    ![w] = IF Head(inputQueue) = Break THEN "exit" ELSE "check"]
  /\ UNCHANGED <<outputQueue, threadExit, isBreak, returncode, launched, passed,
                 late, mainVars>>

\* Mutant: the interrupt is not looked at.
NeverInterrupted == FALSE

\* What a worker looks at before it launches a job.
Interrupted == threadExit

\* Mutant: the job goes back without is_break.
HandedBackPlain(j) == isBreak

\* An interrupted worker marks the job it hands back.
HandedBack(j) == isBreak \cup {j}

PutBack(w) ==
  /\ outputQueue' = Append(outputQueue, workerJob[w])
  /\ workerPc' = [workerPc EXCEPT ![w] = "get"]
  /\ workerJob' = [workerJob EXCEPT ![w] = NoJob]

WorkerStops(w) ==
  /\ workerPc[w] = "check"
  /\ Interrupted
  /\ isBreak' = HandedBack(workerJob[w])
  /\ PutBack(w)
  /\ UNCHANGED <<inputQueue, threadExit, returncode, launched, passed, late,
                 mainVars>>

WorkerSkips(w) ==
  /\ workerPc[w] = "check"
  /\ ~Interrupted
  /\ workerJob[w] \in Skipped
  /\ PutBack(w)
  /\ UNCHANGED <<inputQueue, threadExit, isBreak, returncode, launched, passed,
                 late, mainVars>>

WorkerDecides(w) ==
  /\ workerPc[w] = "check"
  /\ ~Interrupted
  /\ workerJob[w] \notin Skipped
  /\ workerPc' = [workerPc EXCEPT ![w] = "launch"]
  /\ UNCHANGED <<inputQueue, outputQueue, threadExit, workerJob, isBreak,
                 returncode, launched, passed, late, mainVars>>

\* run_job_synchronously starts the program ...
WorkerLaunches(w) ==
  /\ workerPc[w] = "launch"
  /\ workerPc' = [workerPc EXCEPT ![w] = "run"]
  /\ launched' = launched \cup {workerJob[w]}
  /\ late' = IF threadExit THEN [late EXCEPT ![w] = @ + 1] ELSE late
  /\ UNCHANGED <<inputQueue, outputQueue, threadExit, workerJob, isBreak,
                 returncode, passed, mainVars>>

\* ... and waits for it.
WorkerReports(w) ==
  /\ workerPc[w] = "run"
  /\ \E c \in Codes :
       /\ returncode' = [returncode EXCEPT ![workerJob[w]] = c]
       /\ passed' = IF c = 0 THEN passed \cup {workerJob[w]} ELSE passed
  /\ PutBack(w)
  /\ UNCHANGED <<inputQueue, threadExit, isBreak, launched, late, mainVars>>

Worker(w) ==
  \/ WorkerGet(w) \/ WorkerStops(w) \/ WorkerSkips(w)
  \/ WorkerDecides(w) \/ WorkerLaunches(w) \/ WorkerReports(w)

-----------------------------------------------------------------------------
(***************************************************************************)
(* run_tests, in the main thread                                           *)
(***************************************************************************)
Dispatch ==
  /\ mainPc = "dispatch"
  /\ dispatched < NumJobs
  /\ inputQueue' = Append(inputQueue, dispatched + 1)
  /\ dispatched' = dispatched + 1
  /\ UNCHANGED <<outputQueue, threadExit, workerVars, mainPc, breaks, collected,
                 count, exitCode>>

\* Mutant: off by one.
BreakJobsShort == Cardinality(Workers) - 1

BreakJobs == Cardinality(Workers)

DispatchBreak ==
  /\ mainPc = "dispatch"
  /\ dispatched = NumJobs
  /\ breaks < BreakJobs
  /\ inputQueue' = Append(inputQueue, Break)
  /\ breaks' = breaks + 1
  /\ UNCHANGED <<outputQueue, threadExit, workerVars, mainPc, dispatched,
                 collected, count, exitCode>>

AllDispatched ==
  /\ mainPc = "dispatch"
  /\ dispatched = NumJobs
  /\ breaks = BreakJobs
  /\ mainPc' = "collect"
  /\ UNCHANGED <<inputQueue, outputQueue, threadExit, workerVars, dispatched,
                 breaks, collected, count, exitCode>>

Kind(j) ==
  CASE j \in Skipped -> "skipped"
    [] j \notin Skipped /\ returncode[j] = 0 -> "passed"
    [] j \notin Skipped /\ returncode[j] = 2 -> "valgrind"
    [] j \notin Skipped /\ returncode[j] = 3 -> "crashed"
    [] OTHER -> "failed"

\* Mutant: answers are ignored once the user interrupted.
IgnoredLate(j) == threadExit

\* Answers without a result are not counted.
Ignored(j) == j \in isBreak

\* One answer.  Opening the results file of a suite that left none raises an
\* exception, which ends the main thread.
Collect ==
  LET j == Head(outputQueue) IN
  /\ mainPc = "collect"
  /\ collected < dispatched
  /\ outputQueue # <<>>
  /\ outputQueue' = Tail(outputQueue)
  /\ collected' = collected + 1
  /\ count' = IF Ignored(j) THEN count ELSE [count EXCEPT ![Kind(j)] = @ + 1]
  /\ mainPc' = IF ~Ignored(j) /\ Kind(j) = "failed" /\ returncode[j] = Garbled
               THEN "raised" ELSE "collect"
  /\ UNCHANGED <<inputQueue, threadExit, workerVars, dispatched, breaks, exitCode>>

\* Mutant: success means that nothing bad was counted.
NothingBad == count["failed"] + count["crashed"] + count["valgrind"] = 0

Success == count["passed"] + count["skipped"] = dispatched

\* join of every worker, the summary, and the exit code.
Finish ==
  /\ mainPc = "collect"
  /\ collected = dispatched
  /\ \A w \in Workers : workerPc[w] = "exit"
  /\ exitCode' = IF Success THEN "success" ELSE "error"
  /\ mainPc' = "done"
  /\ UNCHANGED <<inputQueue, outputQueue, threadExit, workerVars, dispatched,
                 breaks, collected, count>>

\* After an exception the interpreter still waits for the workers.
FinishRaised ==
  /\ mainPc = "raised"
  /\ \A w \in Workers : workerPc[w] = "exit"
  /\ exitCode' = "error"
  /\ mainPc' = "done"
  /\ UNCHANGED <<inputQueue, outputQueue, threadExit, workerVars, dispatched,
                 breaks, collected, count>>

\* sigint_hook, at any time while the program runs.
Interrupt ==
  /\ mainPc # "done"
  /\ ~threadExit
  /\ threadExit' = TRUE
  /\ UNCHANGED <<inputQueue, outputQueue, workerVars, mainVars>>

Main ==
  Dispatch \/ DispatchBreak \/ AllDispatched \/ Collect \/ Finish \/ FinishRaised

Ended == mainPc = "done" /\ UNCHANGED vars

Next == (\E w \in Workers : Worker(w)) \/ Main \/ Interrupt \/ Ended

Spec == Init /\ [][Next]_vars

\* Every thread runs, and every program under test ends.  Nobody has to
\* interrupt.
FairSpec == Spec /\ WF_vars(Main) /\ \A w \in Workers : WF_vars(Worker(w))

-----------------------------------------------------------------------------
\* A successful exit means that every dispatched test really ran and passed, or
\* was to be skipped: a job handed back unrun still carries the return code of
\* a success, and an interrupt may come at any moment.
SuccessMeansPassed == exitCode = "success" => Jobs = Skipped \cup passed

\* "If there are real results, we always print PASS or FAIL": every program that
\* was run is counted once, in the class of its return code, interrupt or not.
ResultsCounted ==
  exitCode # "none" /\ collected = dispatched =>
    /\ count["passed"] = Cardinality(passed)
    /\ count["passed"] + count["failed"] + count["valgrind"] + count["crashed"]
         = Cardinality(launched)

\* After the interrupt a worker launches at most the job it had already decided
\* to launch.
StopsSoon == \A w \in Workers : late[w] <= 1

\* The program ends, whatever the tests return and whenever it is interrupted:
\* as many answers come as the main thread waits for, and every worker finds a
\* stop job.
RunEnds == <>(mainPc = "done")
=============================================================================
