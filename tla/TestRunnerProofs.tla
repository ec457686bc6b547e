-------------------------- MODULE TestRunnerProofs --------------------------
(***************************************************************************)
(* Proofs about TestRunner, for every number of workers and jobs and every *)
(* choice of skipped jobs.                                                 *)
(***************************************************************************)
EXTENDS TestRunner, FiniteSetTheorems, TLAPS

-----------------------------------------------------------------------------
(* Queues as sets of jobs. *)

Elems(s) == {s[i] : i \in 1..Len(s)}

\* No job is in the queue twice; the stop job may be.
Once(s) == \A i, k \in 1..Len(s) : i # k /\ s[i] = s[k] => s[i] = Break

\* Queue.put.
LEMMA PutElems ==
  ASSUME NEW S, NEW s \in Seq(S), NEW x \in S
  PROVE  /\ Append(s, x) \in Seq(S)
         /\ Elems(Append(s, x)) = Elems(s) \cup {x}
         /\ Once(s) /\ (x = Break \/ x \notin Elems(s)) => Once(Append(s, x))
<1> DEFINE a == Append(s, x)
<1>1. /\ a \in Seq(S) /\ Len(a) = Len(s) + 1 /\ Len(s) \in Nat
      /\ \A i \in 1..Len(s) : a[i] = s[i]
      /\ a[Len(s) + 1] = x
  OBVIOUS
<1> HIDE DEF a
<1>2. \A i \in 1..Len(a) : i \in 1..Len(s) \/ i = Len(s) + 1
  BY <1>1
<1>3. \A i \in 1..Len(s) : i \in 1..Len(a)
  BY <1>1
<1>4. Len(s) + 1 \in 1..Len(a)
  BY <1>1
<1>5. Elems(a) = Elems(s) \cup {x}
  BY <1>1, <1>2, <1>3, <1>4 DEF Elems
<1>6. ASSUME Once(s), x = Break \/ x \notin Elems(s) PROVE Once(a)
  <2> SUFFICES ASSUME NEW i \in 1..Len(a), NEW k \in 1..Len(a), i # k, a[i] = a[k]
               PROVE  a[i] = Break
    BY DEF Once
  <2>1. CASE i \in 1..Len(s) /\ k \in 1..Len(s)
    BY <2>1, <1>1, <1>6 DEF Once
  <2>2. CASE i = Len(s) + 1 /\ k \in 1..Len(s)
    <3>1. a[k] \in Elems(s) /\ a[i] = x
      BY <2>2, <1>1 DEF Elems
    <3> QED
      BY <3>1, <1>6
  <2>3. CASE k = Len(s) + 1 /\ i \in 1..Len(s)
    <3>1. a[i] \in Elems(s) /\ a[k] = x
      BY <2>3, <1>1 DEF Elems
    <3> QED
      BY <3>1, <1>6
  <2> QED
    BY <2>1, <2>2, <2>3, <1>2
<1> QED
  BY <1>1, <1>5, <1>6 DEF a

\* Queue.get.
LEMMA GetElems ==
  ASSUME NEW S, NEW s \in Seq(S), s # <<>>
  PROVE  /\ Head(s) \in S /\ Tail(s) \in Seq(S)
         /\ Elems(s) = {Head(s)} \cup Elems(Tail(s))
         /\ Once(s) => Once(Tail(s)) /\ (Head(s) = Break \/ Head(s) \notin Elems(Tail(s)))
<1> DEFINE t == Tail(s)
           h == Head(s)
<1>1. /\ t \in Seq(S) /\ Len(t) = Len(s) - 1 /\ Len(s) \in Nat /\ Len(s) >= 1
      /\ \A i \in 1..Len(t) : t[i] = s[i + 1]
      /\ h = s[1] /\ h \in S
  OBVIOUS
<1> HIDE DEF t, h
<1>2. \A i \in 1..Len(s) : i = 1 \/ (i - 1 \in 1..Len(t) /\ (i - 1) + 1 = i)
  BY <1>1
<1>3. \A i \in 1..Len(t) : i + 1 \in 1..Len(s) /\ i + 1 # 1
  BY <1>1
<1>4. Elems(s) = {h} \cup Elems(t)
  <2>1. ASSUME NEW e \in Elems(s) PROVE e \in {h} \cup Elems(t)
    <3>1. PICK i \in 1..Len(s) : e = s[i]
      BY <2>1 DEF Elems
    <3>2. CASE i = 1
      BY <3>1, <3>2, <1>1
    <3>3. CASE i # 1
      <4>1. i - 1 \in 1..Len(t) /\ t[i - 1] = s[i]
        BY <3>1, <3>3, <1>1, <1>2
      <4> QED
        BY <3>1, <4>1 DEF Elems
    <3> QED
      BY <3>2, <3>3
  <2>2. h \in Elems(s)
    BY <1>1 DEF Elems
  <2>3. Elems(t) \subseteq Elems(s)
    BY <1>1, <1>3 DEF Elems
  <2> QED
    BY <2>1, <2>2, <2>3
<1>5. ASSUME Once(s) PROVE Once(t)
  <2> SUFFICES ASSUME NEW i \in 1..Len(t), NEW k \in 1..Len(t), i # k, t[i] = t[k]
               PROVE  t[i] = Break
    BY DEF Once
  <2>1. i + 1 # k + 1
    OBVIOUS
  <2> QED
    BY <2>1, <1>1, <1>3, <1>5 DEF Once
<1>6. ASSUME Once(s), h \in Elems(t) PROVE h = Break
  <2>1. PICK i \in 1..Len(t) : h = t[i]
    BY <1>6 DEF Elems
  <2>2. i + 1 \in 1..Len(s) /\ i + 1 # 1 /\ 1 \in 1..Len(s)
    BY <1>1, <1>3
  <2>3. s[i + 1] = s[1]
    BY <2>1, <1>1
  <2> QED
    BY <2>2, <2>3, <1>1, <1>6 DEF Once
<1> QED
  BY <1>1, <1>4, <1>5, <1>6 DEF t, h

-----------------------------------------------------------------------------
(* The inductive invariant. *)

\* Where a dispatched job is: waiting in input_queue, with a worker, waiting in
\* output_queue, or collected by the main thread.
Queued == Elems(inputQueue) \ {Break}
Held == {workerJob[w] : w \in Workers} \ {NoJob}
Answered == Elems(outputQueue)
Collected == (1..dispatched) \ (Queued \cup Held \cup Answered)
Finished == (1..dispatched) \ (Queued \cup Held)

Types ==
  /\ inputQueue \in Seq(Jobs \cup {Break}) /\ outputQueue \in Seq(Jobs)
  /\ threadExit \in BOOLEAN
  /\ workerPc \in [Workers -> {"get", "check", "launch", "run", "exit"}]
  /\ workerJob \in [Workers -> Jobs \cup {NoJob}]
  /\ isBreak \subseteq Jobs
  /\ returncode \in [Jobs -> Codes]
  /\ dispatched \in 0..NumJobs
  /\ collected \in Nat
  /\ count \in [Kinds -> Nat]
  /\ late \in [Workers -> Nat]

Places ==
  /\ Once(inputQueue) /\ Once(outputQueue)
  /\ \A v, w \in Workers :
       v # w /\ workerJob[v] = workerJob[w] => workerJob[v] = NoJob
  /\ Queued \cup Held \cup Answered \subseteq 1..dispatched
  /\ Queued \cap Held = {} /\ Queued \cap Answered = {} /\ Held \cap Answered = {}
  /\ \A w \in Workers :
       workerJob[w] # NoJob <=> workerPc[w] \in {"check", "launch", "run"}

\* What is known of a job: a program that was run was neither skipped nor handed
\* back unrun, and passed is what its return code says once it has finished.
Results ==
  /\ launched \subseteq Held \cup Finished
  /\ passed \subseteq launched \cap Finished
  /\ isBreak \subseteq Finished
  /\ launched \cap (Skipped \cup isBreak) = {}
  /\ \A w \in Workers :
       /\ workerPc[w] \in {"check", "launch"} => workerJob[w] \notin launched
       /\ workerPc[w] \in {"launch", "run"} => workerJob[w] \notin Skipped
       /\ workerPc[w] = "run" => workerJob[w] \in launched
  /\ \A j \in Finished : j \in Skipped \cup isBreak \cup launched
  /\ \A j \in Finished \cap launched : j \in passed <=> returncode[j] = 0

\* The jobs that count in class k.
Of(k) == {j \in Collected \ isBreak : Kind(j) = k}

Counts ==
  /\ collected = Cardinality(Collected)
  /\ \A k \in Kinds : count[k] = Cardinality(Of(k))

\* After the interrupt a worker can launch a job only if it had decided to.
Stopping ==
  \A w \in Workers :
    /\ late[w] <= 1
    /\ late[w] > 0 => threadExit /\ workerPc[w] # "launch"

Exit ==
  /\ mainPc # "dispatch" => dispatched = NumJobs
  /\ exitCode # "none" => mainPc # "dispatch"
  /\ SuccessMeansPassed

Inv == Types /\ Places /\ Results /\ Counts /\ Stopping /\ Exit

\* Before the first job every place is empty.
LEMMA InitInv == Init => Inv
<1> SUFFICES ASSUME Init PROVE Inv
  OBVIOUS
<1>1. inputQueue = <<>> /\ outputQueue = <<>> /\ dispatched = 0
  BY DEF Init
<1>2. /\ Queued = {} /\ Held = {} /\ Answered = {} /\ Collected = {} /\ Finished = {}
  BY <1>1 DEF Init, Queued, Held, Answered, Collected, Finished, Elems, NoJob
<1>3. Types
  <2>1. <<>> \in Seq(Jobs \cup {Break}) /\ <<>> \in Seq(Jobs)
    OBVIOUS
  <2>2. 0 \in 0..NumJobs /\ 0 \in Codes /\ 0 \in Nat
    BY JobAssumption DEF Codes
  <2> QED
    BY <2>1, <2>2 DEF Init, Types, NoJob
<1>4. Places
  BY <1>1, <1>2 DEF Places, Once, Init, NoJob
<1>5. Results
  BY <1>2 DEF Results, Init
<1>6. Counts
  <2>1. \A k : Of(k) = {}
    BY <1>2 DEF Of
  <2> QED
    BY <1>2, <2>1, FS_EmptySet DEF Counts, Init
<1>7. Stopping /\ Exit
  BY DEF Stopping, Exit, Init, SuccessMeansPassed
<1> QED
  BY <1>3, <1>4, <1>5, <1>6, <1>7 DEF Inv

-----------------------------------------------------------------------------
(* What an operation on a queue does to the places. *)

\* A worker takes a job or a stop job.
LEMMA GetPlaces ==
  ASSUME Types, Places, NEW w \in Workers, WorkerGet(w)
  PROVE  /\ Places' /\ Finished' = Finished /\ Collected' = Collected
         /\ Held \subseteq Held'
         /\ workerPc'[w] \in {"check", "exit"}
         /\ workerPc'[w] = "check" => workerJob'[w] \in Queued
         /\ \A v \in Workers : v # w => workerPc'[v] = workerPc[v] /\ workerJob'[v] = workerJob[v]
<1> DEFINE h == Head(inputQueue)
           t == Tail(inputQueue)
<1>0. /\ inputQueue # <<>> /\ workerPc[w] = "get"
      /\ inputQueue' = t /\ workerJob' = [workerJob EXCEPT ![w] = h]
      /\ workerPc' = [workerPc EXCEPT ![w] = IF h = Break THEN "exit" ELSE "check"]
      /\ outputQueue' = outputQueue /\ dispatched' = dispatched
  BY DEF WorkerGet, mainVars
<1>1. /\ h \in Jobs \cup {Break} /\ t \in Seq(Jobs \cup {Break})
      /\ Elems(inputQueue) = {h} \cup Elems(t)
      /\ Once(t) /\ (h = Break \/ h \notin Elems(t))
  BY <1>0, GetElems DEF Types, Places
<1> HIDE DEF h, t
<1>2. workerJob \in [Workers -> Jobs \cup {NoJob}] /\ workerJob[w] = NoJob
  BY <1>0 DEF Types, Places
<1>3. /\ \A v \in Workers : workerJob'[v] = IF v = w THEN h ELSE workerJob[v]
      /\ \A v \in Workers :
           workerPc'[v] = IF v = w THEN (IF h = Break THEN "exit" ELSE "check")
                                   ELSE workerPc[v]
  BY <1>0, <1>2 DEF Types
<1>4. NoJob = 0 /\ Break = 0
  BY DEF NoJob, Break
<1>5. Queued' = Queued \ {h} /\ (h # Break => h \in Queued)
  BY <1>0, <1>1 DEF Queued
<1>6. Held' = (Held \cup {h}) \ {NoJob}
  BY <1>2, <1>3 DEF Held
<1>7. Answered' = Answered
  BY <1>0 DEF Answered
<1>8. Held' = Held \cup (IF h = Break THEN {} ELSE {h})
  BY <1>4, <1>6 DEF Held
<1>9. Places'
  <2>1. \A u, v \in Workers :
          u # v /\ workerJob'[u] = workerJob'[v] => workerJob'[u] = NoJob
    <3> SUFFICES ASSUME NEW u \in Workers, NEW v \in Workers, u # v,
                        workerJob'[u] = workerJob'[v], workerJob'[u] # NoJob
                 PROVE  FALSE
      OBVIOUS
    <3>1. CASE u # w /\ v # w
      BY <3>1, <1>3 DEF Places
    <3>2. CASE u = w
      <4>1. workerJob[v] = h /\ h # NoJob
        BY <3>2, <1>3
      <4>2. h \in Held /\ h \in Queued
        BY <4>1, <1>4, <1>5 DEF Held
      <4> QED
        BY <4>2 DEF Places
    <3>3. CASE v = w
      <4>1. workerJob[u] = h /\ h # NoJob
        BY <3>3, <1>3
      <4>2. h \in Held /\ h \in Queued
        BY <4>1, <1>4, <1>5 DEF Held
      <4> QED
        BY <4>2 DEF Places
    <3> QED
      BY <3>1, <3>2, <3>3
  <2>2. /\ Queued' \cup Held' \cup Answered' \subseteq 1..dispatched'
        /\ Queued' \cap Held' = {} /\ Queued' \cap Answered' = {}
        /\ Held' \cap Answered' = {}
    BY <1>0, <1>5, <1>7, <1>8 DEF Places
  <2>3. \A v \in Workers :
          workerJob'[v] # NoJob <=> workerPc'[v] \in {"check", "launch", "run"}
    BY <1>3, <1>4 DEF Places
  <2>4. Once(inputQueue)' /\ Once(outputQueue)'
    BY <1>0, <1>1 DEF Places, Once
  <2> QED
    BY <2>1, <2>2, <2>3, <2>4 DEF Places
<1>10. Queued' \cup Held' = Queued \cup Held
  <2>1. Break \notin Queued
    BY DEF Queued
  <2> QED
    BY <2>1, <1>5, <1>8
<1>11. Finished' = Finished /\ Collected' = Collected
  BY <1>0, <1>7, <1>10 DEF Finished, Collected
<1> QED
  BY <1>3, <1>5, <1>8, <1>9, <1>11

\* A worker answers.
LEMMA PutBackPlaces ==
  ASSUME Types, Places, NEW w \in Workers, PutBack(w),
         workerPc[w] \in {"check", "launch", "run"},
         inputQueue' = inputQueue, dispatched' = dispatched
  PROVE  /\ Places' /\ Finished' = Finished \cup {workerJob[w]}
         /\ Collected' = Collected
         /\ Held' = Held \ {workerJob[w]}
         /\ workerJob[w] \in Held /\ workerJob[w] \in Jobs
         /\ workerPc'[w] = "get"
         /\ \A v \in Workers : v # w => /\ workerPc'[v] = workerPc[v]
                                        /\ workerJob'[v] = workerJob[v]
                                        /\ workerJob[v] # workerJob[w]
<1> DEFINE j == workerJob[w]
<1>0. /\ outputQueue' = Append(outputQueue, j)
      /\ workerPc' = [workerPc EXCEPT ![w] = "get"]
      /\ workerJob' = [workerJob EXCEPT ![w] = NoJob]
  BY DEF PutBack
<1>1. j # NoJob /\ j \in Jobs /\ j \in Held
  BY DEF Types, Places, Held
<1>2. j \notin Answered /\ j \notin Queued
  BY <1>1 DEF Places
<1>3. /\ Answered' = Answered \cup {j}
      /\ Once(outputQueue)'
  BY <1>0, <1>1, <1>2, PutElems DEF Types, Places, Answered, Once, Elems
<1>4. /\ \A v \in Workers : workerJob'[v] = IF v = w THEN NoJob ELSE workerJob[v]
      /\ \A v \in Workers : workerPc'[v] = IF v = w THEN "get" ELSE workerPc[v]
  BY <1>0 DEF Types
<1>5. \A v \in Workers : v # w => workerJob[v] # j
  BY <1>1 DEF Places
<1> HIDE DEF j
<1>6. Held' = Held \ {j}
  <2>1. \A x : x \in Held' <=> x # NoJob /\ \E v \in Workers : x = workerJob'[v]
    BY DEF Held
  <2>2. \A x : x \in Held <=> x # NoJob /\ \E v \in Workers : x = workerJob[v]
    BY DEF Held
  <2>3. ASSUME NEW x, x \in Held' PROVE x \in Held /\ x # j
    <3>1. PICK v \in Workers : x = workerJob'[v] /\ x # NoJob
      BY <2>1, <2>3
    <3>2. v # w /\ x = workerJob[v]
      BY <3>1, <1>4
    <3> QED
      BY <3>1, <3>2, <2>2, <1>5
  <2>4. ASSUME NEW x, x \in Held, x # j PROVE x \in Held'
    <3>1. PICK v \in Workers : x = workerJob[v] /\ x # NoJob
      BY <2>2, <2>4
    <3>2. v # w
      BY <3>1, <2>4 DEF j
    <3> QED
      BY <3>1, <3>2, <2>1, <1>4
  <2> QED
    BY <2>3, <2>4
<1>7. Queued' = Queued
  BY DEF Queued
<1>8. Places'
  <2>1. \A u, v \in Workers :
          u # v /\ workerJob'[u] = workerJob'[v] => workerJob'[u] = NoJob
    BY <1>4 DEF Places
  <2>2. /\ Queued' \cup Held' \cup Answered' \subseteq 1..dispatched'
        /\ Queued' \cap Held' = {} /\ Queued' \cap Answered' = {}
        /\ Held' \cap Answered' = {}
    BY <1>1, <1>2, <1>3, <1>6, <1>7 DEF Places
  <2>3. \A v \in Workers :
          workerJob'[v] # NoJob <=> workerPc'[v] \in {"check", "launch", "run"}
    BY <1>4 DEF Places
  <2>4. Once(inputQueue)'
    BY DEF Places, Once
  <2> QED
    BY <2>1, <2>2, <2>3, <2>4, <1>3 DEF Places
<1>9. Finished' = Finished \cup {j} /\ Collected' = Collected
  BY <1>1, <1>2, <1>3, <1>6, <1>7 DEF Finished, Collected, Places
<1> QED
  BY <1>1, <1>4, <1>5, <1>6, <1>8, <1>9 DEF j

\* Nothing that has been collected changes its class.
LEMMA SameCounts ==
  ASSUME Counts, Collected' = Collected, count' = count, collected' = collected,
         \A j \in Collected : (j \in isBreak' <=> j \in isBreak) /\ returncode'[j] = returncode[j]
  PROVE  Counts'
<1>1. \A k \in Kinds : Of(k)' = Of(k)
  <2> SUFFICES ASSUME NEW k \in Kinds PROVE Of(k)' = Of(k)
    OBVIOUS
  <2>1. \A j \in Collected : Kind(j)' = Kind(j)
    BY DEF Kind
  <2> HIDE DEF Kind
  <2> QED
    BY <2>1 DEF Of
<1> QED
  BY <1>1 DEF Counts

-----------------------------------------------------------------------------
(* The workers. *)

\* A job that is taken has not been run.
LEMMA WorkerGetInv ==
  ASSUME Inv, NEW w \in Workers, WorkerGet(w)
  PROVE  Inv'
<1>0. Types /\ Places /\ Results /\ Counts /\ Stopping /\ Exit
  BY DEF Inv
<1>1. /\ Places' /\ Finished' = Finished /\ Collected' = Collected
      /\ Held \subseteq Held'
      /\ workerPc'[w] \in {"check", "exit"}
      /\ workerPc'[w] = "check" => workerJob'[w] \in Queued
      /\ \A v \in Workers : v # w => workerPc'[v] = workerPc[v] /\ workerJob'[v] = workerJob[v]
  BY <1>0, GetPlaces
<1>2. UNCHANGED <<outputQueue, threadExit, isBreak, returncode, launched, passed,
                  late, mainVars>>
  BY DEF WorkerGet
<1>3. Types'
  <2>1. inputQueue # <<>> /\ inputQueue \in Seq(Jobs \cup {Break})
    BY <1>0 DEF WorkerGet, Types
  <2>2. Tail(inputQueue) \in Seq(Jobs \cup {Break}) /\ Head(inputQueue) \in Jobs \cup {Break}
    BY <2>1, GetElems
  <2>3. Break = NoJob
    BY DEF Break, NoJob
  <2> QED
    BY <1>0, <1>2, <2>2, <2>3 DEF Types, WorkerGet, mainVars
<1>4. Results'
  <2>1. \A x \in Queued : x \notin launched
    BY <1>0 DEF Results, Places, Finished
  <2>2. \A v \in Workers :
          /\ workerPc'[v] \in {"check", "launch"} => workerJob'[v] \notin launched'
          /\ workerPc'[v] \in {"launch", "run"} => workerJob'[v] \notin Skipped
          /\ workerPc'[v] = "run" => workerJob'[v] \in launched'
    BY <1>0, <1>1, <1>2, <2>1 DEF Results
  <2> QED
    BY <1>0, <1>1, <1>2, <2>2 DEF Results
<1>5. Counts'
  BY <1>0, <1>1, <1>2, SameCounts DEF mainVars
<1>6. Stopping' /\ Exit'
  BY <1>0, <1>1, <1>2 DEF Stopping, Exit, SuccessMeansPassed, mainVars
<1> QED
  BY <1>1, <1>3, <1>4, <1>5, <1>6 DEF Inv

\* The part of the answers that all three have in common.
LEMMA PutBackTypes ==
  ASSUME Types, Places, NEW w \in Workers, PutBack(w),
         workerPc[w] \in {"check", "launch", "run"},
         UNCHANGED <<inputQueue, threadExit, late, mainVars>>,
         isBreak' \subseteq Jobs, returncode' \in [Jobs -> Codes]
  PROVE  Types'
<1>1. workerJob[w] \in Jobs
  BY DEF Types, Places
<1>2. outputQueue' \in Seq(Jobs)
  BY <1>1, PutElems DEF Types, PutBack
<1> QED
  BY <1>2 DEF Types, PutBack, mainVars

\* An interrupted worker hands its job back, marked, unrun.
LEMMA WorkerStopsInv ==
  ASSUME Inv, NEW w \in Workers, WorkerStops(w)
  PROVE  Inv'
<1> DEFINE j == workerJob[w]
<1>0. Types /\ Places /\ Results /\ Counts /\ Stopping /\ Exit
  BY DEF Inv
<1>1. /\ workerPc[w] = "check" /\ PutBack(w) /\ isBreak' = isBreak \cup {j}
      /\ UNCHANGED <<inputQueue, threadExit, returncode, launched, passed, late, mainVars>>
      /\ dispatched' = dispatched
  BY DEF WorkerStops, HandedBack, mainVars
<1>2. /\ Places' /\ Finished' = Finished \cup {j}
      /\ Collected' = Collected /\ Held' = Held \ {j}
      /\ j \in Held /\ j \in Jobs
      /\ workerPc'[w] = "get"
      /\ \A v \in Workers : v # w => /\ workerPc'[v] = workerPc[v]
                                     /\ workerJob'[v] = workerJob[v]
                                     /\ workerJob[v] # j
  BY <1>0, <1>1, PutBackPlaces
<1>3. Types'
  BY <1>0, <1>1, <1>2, PutBackTypes DEF Types
<1> HIDE DEF j
<1>4. j \notin launched
  BY <1>0, <1>1 DEF Results, j
<1>5. Results'
  BY <1>0, <1>1, <1>2, <1>4 DEF Results
<1>6. Counts'
  <2>1. \A x \in Collected : x # j
    BY <1>2 DEF Collected
  <2> QED
    BY <1>0, <1>1, <1>2, <2>1, SameCounts DEF mainVars
<1>7. Stopping' /\ Exit'
  BY <1>0, <1>1, <1>2 DEF Stopping, Exit, SuccessMeansPassed, mainVars
<1> QED
  BY <1>2, <1>3, <1>5, <1>6, <1>7 DEF Inv

\* A job to be skipped is handed back as it is.
LEMMA WorkerSkipsInv ==
  ASSUME Inv, NEW w \in Workers, WorkerSkips(w)
  PROVE  Inv'
<1> DEFINE j == workerJob[w]
<1>0. Types /\ Places /\ Results /\ Counts /\ Stopping /\ Exit
  BY DEF Inv
<1>1. /\ workerPc[w] = "check" /\ PutBack(w) /\ j \in Skipped
      /\ UNCHANGED <<inputQueue, threadExit, isBreak, returncode, launched, passed,
                     late, mainVars>>
      /\ dispatched' = dispatched
  BY DEF WorkerSkips, mainVars
<1>2. /\ Places' /\ Finished' = Finished \cup {j}
      /\ Collected' = Collected /\ Held' = Held \ {j}
      /\ j \in Held /\ j \in Jobs
      /\ workerPc'[w] = "get"
      /\ \A v \in Workers : v # w => /\ workerPc'[v] = workerPc[v]
                                     /\ workerJob'[v] = workerJob[v]
                                     /\ workerJob[v] # j
  BY <1>0, <1>1, PutBackPlaces
<1>3. Types'
  BY <1>0, <1>1, <1>2, PutBackTypes DEF Types
<1> HIDE DEF j
<1>4. j \notin launched
  BY <1>0, <1>1 DEF Results, j
<1>5. Results'
  BY <1>0, <1>1, <1>2, <1>4 DEF Results
<1>6. Counts'
  BY <1>0, <1>1, <1>2, SameCounts DEF mainVars
<1>7. Stopping' /\ Exit'
  BY <1>0, <1>1, <1>2 DEF Stopping, Exit, SuccessMeansPassed, mainVars
<1> QED
  BY <1>2, <1>3, <1>5, <1>6, <1>7 DEF Inv

\* A program ends: its return code is the only one that changes.
LEMMA WorkerReportsInv ==
  ASSUME Inv, NEW w \in Workers, WorkerReports(w)
  PROVE  Inv'
<1> DEFINE j == workerJob[w]
<1>0. Types /\ Places /\ Results /\ Counts /\ Stopping /\ Exit
  BY DEF Inv
<1>1. PICK c \in Codes :
        /\ workerPc[w] = "run" /\ PutBack(w)
        /\ returncode' = [returncode EXCEPT ![j] = c]
        /\ passed' = IF c = 0 THEN passed \cup {j} ELSE passed
        /\ UNCHANGED <<inputQueue, threadExit, isBreak, launched, late, mainVars>>
        /\ dispatched' = dispatched
  BY DEF WorkerReports, mainVars
<1>2. /\ Places' /\ Finished' = Finished \cup {j}
      /\ Collected' = Collected /\ Held' = Held \ {j}
      /\ j \in Held /\ j \in Jobs
      /\ workerPc'[w] = "get"
      /\ \A v \in Workers : v # w => /\ workerPc'[v] = workerPc[v]
                                     /\ workerJob'[v] = workerJob[v]
                                     /\ workerJob[v] # j
  BY <1>0, <1>1, PutBackPlaces
<1>3. Types'
  <2>1. returncode' \in [Jobs -> Codes]
    BY <1>0, <1>1 DEF Types
  <2> QED
    BY <1>0, <1>1, <1>2, <2>1, PutBackTypes DEF Types
<1> HIDE DEF j
<1>4. j \in launched /\ j \notin Skipped /\ j \notin Finished /\ j \notin passed
  BY <1>0, <1>1, <1>2 DEF Results, j, Finished
<1>9. \A x \in Jobs : returncode'[x] = IF x = j THEN c ELSE returncode[x]
  BY <1>0, <1>1 DEF Types
<1>8. Finished \subseteq Jobs
  BY <1>0, JobAssumption DEF Finished, Types, Jobs
<1>5. Results'
  <2>1. /\ launched' \subseteq Held' \cup Finished'
        /\ passed' \subseteq launched' \cap Finished'
        /\ isBreak' \subseteq Finished'
        /\ launched' \cap (Skipped \cup isBreak') = {}
    BY <1>0, <1>1, <1>2, <1>4 DEF Results
  <2>2. \A v \in Workers :
          /\ workerPc'[v] \in {"check", "launch"} => workerJob'[v] \notin launched'
          /\ workerPc'[v] \in {"launch", "run"} => workerJob'[v] \notin Skipped
          /\ workerPc'[v] = "run" => workerJob'[v] \in launched'
    BY <1>0, <1>1, <1>2 DEF Results
  <2>3. \A x \in Finished' : x \in Skipped \cup isBreak' \cup launched'
    BY <1>0, <1>1, <1>2, <1>4 DEF Results
  <2>4. \A x \in Finished' \cap launched' : x \in passed' <=> returncode'[x] = 0
    <3> SUFFICES ASSUME NEW x \in Finished', x \in launched'
                 PROVE  x \in passed' <=> returncode'[x] = 0
      OBVIOUS
    <3>1. CASE x = j
      BY <3>1, <1>1, <1>2, <1>4, <1>9
    <3>2. CASE x # j
      <4>1. x \in Finished /\ x \in launched /\ x \in Jobs
        BY <3>2, <1>1, <1>2, <1>8
      <4>2. (x \in passed' <=> x \in passed) /\ returncode'[x] = returncode[x]
        BY <3>2, <4>1, <1>1, <1>9
      <4> QED
        BY <4>1, <4>2, <1>0 DEF Results
    <3> QED
      BY <3>1, <3>2
  <2> QED
    BY <2>1, <2>2, <2>3, <2>4 DEF Results
<1>6. Counts'
  <2>1. \A x \in Collected : x # j /\ x \in Jobs
    BY <1>0, <1>2, JobAssumption DEF Collected, Types, Jobs
  <2> QED
    BY <1>0, <1>1, <1>2, <1>9, <2>1, SameCounts DEF mainVars
<1>7. Stopping' /\ Exit'
  <2>1. passed \subseteq passed' /\ passed' \subseteq Jobs
    BY <1>0, <1>1, <1>2, <1>8 DEF Results
  <2>2. SuccessMeansPassed'
    BY <1>0, <1>1, <2>1, JobAssumption DEF Exit, SuccessMeansPassed, mainVars
  <2> QED
    BY <1>0, <1>1, <1>2, <2>2 DEF Stopping, Exit, mainVars
<1> QED
  BY <1>2, <1>3, <1>5, <1>6, <1>7 DEF Inv

\* The steps in which a job stays with its worker.
LEMMA WorkerGoesOnInv ==
  ASSUME Inv, NEW w \in Workers, WorkerDecides(w) \/ WorkerLaunches(w)
  PROVE  Inv'
<1> DEFINE j == workerJob[w]
<1>0. Types /\ Places /\ Results /\ Counts /\ Stopping /\ Exit
  BY DEF Inv
<1>1. /\ UNCHANGED <<inputQueue, outputQueue, threadExit, workerJob, isBreak,
                     returncode, passed, mainVars>>
      /\ dispatched' = dispatched /\ count' = count /\ collected' = collected
      /\ mainPc' = mainPc /\ exitCode' = exitCode
  BY DEF WorkerDecides, WorkerLaunches, mainVars
<1>2. /\ Queued' = Queued /\ Held' = Held /\ Answered' = Answered
      /\ Collected' = Collected /\ Finished' = Finished
  BY <1>1 DEF Queued, Held, Answered, Collected, Finished
<1>3. /\ workerPc[w] \in {"check", "launch"}
      /\ workerPc'[w] \in {"launch", "run"}
      /\ \A v \in Workers : v # w => workerPc'[v] = workerPc[v]
      /\ workerPc' \in [Workers -> {"get", "check", "launch", "run", "exit"}]
  BY <1>0 DEF WorkerDecides, WorkerLaunches, Types
<1>4. Places'
  <2>1. Once(inputQueue)' /\ Once(outputQueue)'
    BY <1>0, <1>1 DEF Places, Once
  <2> QED
    BY <1>0, <1>1, <1>2, <1>3, <2>1 DEF Places
<1>5. Counts'
  BY <1>0, <1>1, <1>2, SameCounts
<1>6. j \in Held /\ j \notin Finished /\ j \notin isBreak
  BY <1>0, <1>3 DEF Places, Held, Finished, Results
<1>7. Exit'
  BY <1>0, <1>1 DEF Exit, SuccessMeansPassed
<1>8. CASE WorkerDecides(w)
  <2>1. /\ workerPc' = [workerPc EXCEPT ![w] = "launch"] /\ workerPc[w] = "check"
        /\ ~threadExit /\ j \notin Skipped /\ launched' = launched /\ late' = late
    BY <1>8 DEF WorkerDecides, Interrupted
  <2>2. workerPc'[w] = "launch"
    BY <2>1, <1>0 DEF Types
  <2>3. Types'
    BY <1>0, <1>1, <1>3, <2>1 DEF Types
  <2>4. Results'
    BY <1>0, <1>1, <1>2, <1>3, <2>1, <2>2 DEF Results
  <2>5. Stopping'
    BY <1>0, <1>1, <1>3, <2>1 DEF Stopping, Types
  <2> QED
    BY <1>4, <1>5, <1>7, <2>3, <2>4, <2>5 DEF Inv
<1>9. CASE WorkerLaunches(w)
  <2>1. /\ workerPc' = [workerPc EXCEPT ![w] = "run"] /\ workerPc[w] = "launch"
        /\ launched' = launched \cup {j}
        /\ late' = IF threadExit THEN [late EXCEPT ![w] = @ + 1] ELSE late
    BY <1>9 DEF WorkerLaunches
  <2>2. workerPc'[w] = "run" /\ j \notin Skipped
    BY <2>1, <1>0 DEF Types, Results
  <2>3. late[w] = 0
    BY <2>1, <1>0 DEF Stopping, Types
  <2>4. /\ late' \in [Workers -> Nat]
        /\ \A v \in Workers : v # w => late'[v] = late[v]
        /\ late'[w] <= 1 /\ (late'[w] > 0 => threadExit)
    BY <2>1, <2>3, <1>0 DEF Types
  <2>5. Types'
    BY <1>0, <1>1, <1>3, <2>4 DEF Types
  <2>6. \A v \in Workers : v # w /\ workerPc[v] \in {"check", "launch", "run"} => workerJob[v] # j
    BY <1>0, <2>1 DEF Places
  <2>7. Results'
    <3>1. /\ launched' \subseteq Held' \cup Finished'
          /\ passed' \subseteq launched' \cap Finished'
          /\ isBreak' \subseteq Finished'
          /\ launched' \cap (Skipped \cup isBreak') = {}
      BY <1>0, <1>1, <1>2, <1>6, <2>1, <2>2 DEF Results
    <3>2. \A v \in Workers :
            /\ workerPc'[v] \in {"check", "launch"} => workerJob'[v] \notin launched'
            /\ workerPc'[v] \in {"launch", "run"} => workerJob'[v] \notin Skipped
            /\ workerPc'[v] = "run" => workerJob'[v] \in launched'
      BY <1>0, <1>1, <1>3, <2>1, <2>2, <2>6 DEF Results
    <3>3. /\ \A x \in Finished' : x \in Skipped \cup isBreak' \cup launched'
          /\ \A x \in Finished' \cap launched' : x \in passed' <=> returncode'[x] = 0
      BY <1>0, <1>1, <1>2, <1>6, <2>1 DEF Results
    <3> QED
      BY <3>1, <3>2, <3>3 DEF Results
  <2>8. Stopping'
    BY <1>0, <1>1, <1>3, <2>2, <2>4 DEF Stopping
  <2> QED
    BY <1>4, <1>5, <1>7, <2>5, <2>7, <2>8 DEF Inv
<1> QED
  BY <1>8, <1>9

-----------------------------------------------------------------------------
(* The main thread. *)

\* Steps of the main thread that leave the jobs with the workers and the answers
\* alone.
LEMMA MainKeeps ==
  ASSUME Inv, UNCHANGED <<outputQueue, workerVars, collected, count>>,
         Queued' = Queued, dispatched' = dispatched,
         inputQueue' \in Seq(Jobs \cup {Break}), Once(inputQueue)',
         threadExit' \in BOOLEAN, threadExit => threadExit', Exit'
  PROVE  Inv'
<1>0. Types /\ Places /\ Results /\ Counts /\ Stopping /\ Exit
  BY DEF Inv
<1>1. UNCHANGED <<outputQueue, workerPc, workerJob, isBreak, returncode, launched,
                  passed, late, collected, count, dispatched>>
  BY DEF workerVars
<1>2. /\ Held' = Held /\ Answered' = Answered
      /\ Collected' = Collected /\ Finished' = Finished
  BY <1>1 DEF Held, Answered, Collected, Finished
<1>3. Types'
  BY <1>0, <1>1 DEF Types
<1>4. Places'
  <2>1. Once(outputQueue)'
    BY <1>0, <1>1 DEF Places, Once
  <2> QED
    BY <1>0, <1>1, <1>2, <2>1 DEF Places
<1>5. Results'
  BY <1>0, <1>1, <1>2 DEF Results
<1>6. Counts'
  BY <1>0, <1>1, <1>2, SameCounts
<1>7. Stopping'
  BY <1>0, <1>1 DEF Stopping
<1> QED
  BY <1>3, <1>4, <1>5, <1>6, <1>7 DEF Inv

\* A new job goes into the input queue and is nowhere else.
LEMMA DispatchInv ==
  ASSUME Inv, Dispatch
  PROVE  Inv'
<1> DEFINE d == dispatched + 1
<1>0. Types /\ Places /\ Results /\ Counts /\ Stopping /\ Exit
  BY DEF Inv
<1>1. /\ mainPc = "dispatch" /\ dispatched < NumJobs /\ dispatched' = d
      /\ inputQueue' = Append(inputQueue, d)
      /\ UNCHANGED <<outputQueue, threadExit, workerPc, workerJob, isBreak,
                     returncode, launched, passed, late, mainPc, collected,
                     count, exitCode>>
  BY DEF Dispatch, workerVars
<1>2. /\ d \in Jobs /\ d # 0 /\ d \notin 1..dispatched /\ d \in 0..NumJobs
      /\ 1..d = (1..dispatched) \cup {d}
  BY <1>0, <1>1, JobAssumption DEF Types, Jobs
<1> HIDE DEF d
<1>3. d \notin Queued /\ d \notin Held /\ d \notin Answered
  BY <1>0, <1>2 DEF Places
<1>4. d \notin Elems(inputQueue)
  BY <1>2, <1>3 DEF Queued, Break
<1>5. /\ inputQueue' \in Seq(Jobs \cup {Break})
      /\ Elems(inputQueue)' = Elems(inputQueue) \cup {d}
      /\ Once(inputQueue)'
  <2>1. inputQueue \in Seq(Jobs \cup {Break}) /\ Once(inputQueue) /\ d \in Jobs \cup {Break}
    BY <1>0, <1>2 DEF Types, Places
  <2>2. /\ Append(inputQueue, d) \in Seq(Jobs \cup {Break})
        /\ Elems(Append(inputQueue, d)) = Elems(inputQueue) \cup {d}
        /\ Once(Append(inputQueue, d))
    BY <2>1, <1>4, PutElems
  <2> QED
    BY <2>2, <1>1 DEF Elems, Once
<1>6. Queued' = Queued \cup {d} /\ Held' = Held /\ Answered' = Answered
  BY <1>1, <1>2, <1>5 DEF Queued, Held, Answered, Break
<1>7. Collected' = Collected /\ Finished' = Finished
  BY <1>1, <1>2, <1>3, <1>6 DEF Collected, Finished
<1>8. Types'
  BY <1>0, <1>1, <1>2, <1>5 DEF Types
<1>9. Places'
  <2>1. Once(outputQueue)'
    BY <1>0, <1>1 DEF Places, Once
  <2>2. /\ Queued' \cup Held' \cup Answered' \subseteq 1..dispatched'
        /\ Queued' \cap Held' = {} /\ Queued' \cap Answered' = {}
        /\ Held' \cap Answered' = {}
    BY <1>0, <1>1, <1>2, <1>3, <1>6 DEF Places
  <2> QED
    BY <1>0, <1>1, <1>5, <2>1, <2>2 DEF Places
<1>10. Results' /\ Stopping'
  BY <1>0, <1>1, <1>6, <1>7 DEF Results, Stopping
<1>11. Counts'
  BY <1>0, <1>1, <1>7, SameCounts
<1>12. Exit'
  BY <1>0, <1>1 DEF Exit, SuccessMeansPassed
<1> QED
  BY <1>8, <1>9, <1>10, <1>11, <1>12 DEF Inv

\* A stop job is no job.
LEMMA DispatchBreakInv ==
  ASSUME Inv, DispatchBreak
  PROVE  Inv'
<1>0. Types /\ Places /\ Exit
  BY DEF Inv
<1>1. /\ inputQueue' = Append(inputQueue, Break)
      /\ UNCHANGED <<outputQueue, threadExit, workerVars, mainPc, dispatched,
                     collected, count, exitCode>>
      /\ passed' = passed
  BY DEF DispatchBreak, workerVars
<1>2. inputQueue \in Seq(Jobs \cup {Break}) /\ Once(inputQueue) /\ Break \in Jobs \cup {Break}
  BY <1>0 DEF Types, Places
<1>3. /\ Append(inputQueue, Break) \in Seq(Jobs \cup {Break})
      /\ Elems(Append(inputQueue, Break)) = Elems(inputQueue) \cup {Break}
      /\ Once(Append(inputQueue, Break))
  BY <1>2, PutElems
<1>4. Queued' = Queued
  BY <1>1, <1>3 DEF Queued, Elems
<1>5. inputQueue' \in Seq(Jobs \cup {Break}) /\ Once(inputQueue)'
  BY <1>1, <1>3 DEF Once
<1>6. Exit' /\ threadExit' \in BOOLEAN /\ (threadExit => threadExit')
  BY <1>0, <1>1 DEF Exit, SuccessMeansPassed, Types
<1> QED
  BY <1>1, <1>4, <1>5, <1>6, MainKeeps

\* The steps that touch no queue, but the exit code.
LEMMA StillInv ==
  ASSUME Inv, UNCHANGED <<inputQueue, outputQueue, workerVars, dispatched, collected, count>>,
         threadExit' \in BOOLEAN, threadExit => threadExit', Exit'
  PROVE  Inv'
<1>1. Queued' = Queued
  BY DEF Queued, Elems
<1>2. inputQueue' \in Seq(Jobs \cup {Break}) /\ Once(inputQueue)'
  BY DEF Inv, Types, Places, Once
<1> QED
  BY <1>1, <1>2, MainKeeps

\* Every class of collected jobs is a finite set of jobs.
LEMMA ClassesFinite ==
  ASSUME Types
  PROVE  /\ IsFiniteSet(Collected) /\ Collected \subseteq 1..dispatched
         /\ 1..dispatched \subseteq Jobs
         /\ IsFiniteSet(Jobs) /\ Cardinality(Jobs) = NumJobs
         /\ Cardinality(1..dispatched) = dispatched /\ IsFiniteSet(1..dispatched)
         /\ \A k : Of(k) \subseteq Collected /\ IsFiniteSet(Of(k))
<1>1. NumJobs \in Nat /\ dispatched \in Nat /\ dispatched <= NumJobs
  BY JobAssumption DEF Types
<1>2. IsFiniteSet(Jobs) /\ Cardinality(Jobs) = NumJobs
  BY <1>1, FS_Interval DEF Jobs
<1>3. IsFiniteSet(1..dispatched) /\ Cardinality(1..dispatched) = dispatched
  BY <1>1, FS_Interval
<1>4. 1..dispatched \subseteq Jobs
  BY <1>1 DEF Jobs
<1>5. Collected \subseteq 1..dispatched
  BY DEF Collected
<1>6. IsFiniteSet(Collected)
  BY <1>3, <1>5, FS_Subset
<1>7. \A k : Of(k) \subseteq Collected
  BY DEF Of
<1>8. ASSUME NEW k PROVE IsFiniteSet(Of(k))
  BY <1>6, <1>7, FS_Subset
<1> QED
  BY <1>2, <1>3, <1>4, <1>5, <1>6, <1>7, <1>8

\* Every answer has a class that is counted.
LEMMA KindType == \A j : Kind(j) \in Kinds
BY DEF Kind, Kinds

\* One answer moves from the output queue into its class.
LEMMA CollectInv ==
  ASSUME Inv, Collect
  PROVE  Inv'
<1> DEFINE j == Head(outputQueue)
<1>0. Types /\ Places /\ Results /\ Counts /\ Stopping /\ Exit
  BY DEF Inv
<1>1. /\ mainPc = "collect" /\ mainPc' # "dispatch" /\ outputQueue # <<>>
      /\ outputQueue' = Tail(outputQueue)
      /\ collected' = collected + 1
      /\ count' = IF j \in isBreak THEN count ELSE [count EXCEPT ![Kind(j)] = @ + 1]
      /\ UNCHANGED <<inputQueue, threadExit, workerPc, workerJob, isBreak,
                     returncode, launched, passed, late, dispatched, exitCode>>
  BY DEF Collect, workerVars, Ignored
<1>2. /\ j \in Jobs /\ outputQueue' \in Seq(Jobs)
      /\ Elems(outputQueue) = {j} \cup Elems(outputQueue')
      /\ Once(outputQueue') /\ (j = Break \/ j \notin Elems(outputQueue'))
  <2>1. outputQueue \in Seq(Jobs) /\ Once(outputQueue)
    BY <1>0 DEF Types, Places
  <2> QED
    BY <2>1, <1>1, GetElems
<1> HIDE DEF j
<1>3. j # Break
  BY <1>2 DEF Break, Jobs
<1>4. /\ Queued' = Queued /\ Held' = Held /\ Answered' = Answered \ {j}
      /\ j \in Answered
  BY <1>1, <1>2, <1>3 DEF Queued, Held, Answered, Elems
<1>5. /\ j \in 1..dispatched /\ j \notin Queued /\ j \notin Held
      /\ j \notin Collected
  BY <1>0, <1>4 DEF Places, Collected
<1>6. Collected' = Collected \cup {j} /\ Finished' = Finished
  BY <1>1, <1>4, <1>5 DEF Collected, Finished
<1>7. Kind(j) \in Kinds
  BY KindType
<1>8. Types'
  BY <1>0, <1>1, <1>2, <1>7 DEF Types
<1>9. Places'
  <2>1. Once(inputQueue)' /\ Once(outputQueue)'
    BY <1>0, <1>1, <1>2 DEF Places, Once
  <2>2. /\ Queued' \cup Held' \cup Answered' \subseteq 1..dispatched'
        /\ Queued' \cap Held' = {} /\ Queued' \cap Answered' = {}
        /\ Held' \cap Answered' = {}
    BY <1>0, <1>1, <1>4 DEF Places
  <2> QED
    BY <1>0, <1>1, <2>1, <2>2 DEF Places
<1>10. Results' /\ Stopping'
  BY <1>0, <1>1, <1>4, <1>6 DEF Results, Stopping
<1>11. Counts'
  <2>1. /\ IsFiniteSet(Collected) /\ \A k : IsFiniteSet(Of(k))
    BY <1>0, ClassesFinite
  <2>2. collected' = Cardinality(Collected')
    BY <2>1, <1>0, <1>1, <1>5, <1>6, FS_AddElement DEF Counts
  <2>3. \A x : Kind(x)' = Kind(x)
    BY <1>1 DEF Kind
  <2>4. ASSUME NEW k \in Kinds PROVE count'[k] = Cardinality(Of(k)')
    <3>1. count[k] = Cardinality(Of(k)) /\ count[k] \in Nat
      BY <1>0 DEF Counts, Types
    <3>2. j \notin Of(k)
      BY <1>5 DEF Of
    <3>3. CASE j \in isBreak \/ Kind(j) # k
      <4>1. Of(k)' = Of(k)
        BY <2>3, <1>1, <1>6, <3>3 DEF Of
      <4>2. count'[k] = count[k]
        BY <1>0, <1>1, <1>7, <3>3 DEF Types
      <4> QED
        BY <3>1, <4>1, <4>2
    <3>4. CASE j \notin isBreak /\ Kind(j) = k
      <4>1. Of(k)' = Of(k) \cup {j}
        BY <2>3, <1>1, <1>6, <3>4 DEF Of
      <4>2. count'[k] = count[k] + 1
        BY <1>0, <1>1, <1>7, <3>4 DEF Types
      <4>3. Cardinality(Of(k) \cup {j}) = Cardinality(Of(k)) + 1
        BY <2>1, <3>2, FS_AddElement
      <4> QED
        BY <3>1, <4>1, <4>2, <4>3
    <3> QED
      BY <3>3, <3>4
  <2> QED
    BY <2>2, <2>4 DEF Counts
<1>12. Exit'
  BY <1>0, <1>1 DEF Exit, SuccessMeansPassed
<1> QED
  BY <1>8, <1>9, <1>10, <1>11, <1>12 DEF Inv

\* The cardinality of two disjoint classes.
LEMMA DisjointSum ==
  ASSUME NEW S, NEW U, IsFiniteSet(S), IsFiniteSet(U), S \cap U = {}
  PROVE  /\ IsFiniteSet(S \cup U)
         /\ Cardinality(S \cup U) = Cardinality(S) + Cardinality(U)
         /\ Cardinality(S) \in Nat /\ Cardinality(U) \in Nat
<1>1. Cardinality(S \cup U) = Cardinality(S) + Cardinality(U) - Cardinality(S \cap U)
  BY FS_Union
<1>2. Cardinality(S \cap U) = 0
  BY FS_EmptySet
<1>3. Cardinality(S) \in Nat /\ Cardinality(U) \in Nat
  BY FS_CardinalityType
<1>4. IsFiniteSet(S \cup U)
  BY FS_Union
<1> QED
  BY <1>1, <1>2, <1>3, <1>4

\* When as many answers passed or were skipped as there are jobs, these are all
\* the jobs.
LEMMA SuccessCounts ==
  ASSUME Inv, dispatched = NumJobs, Success
  PROVE  Jobs = Skipped \cup passed
<1>0. Types /\ Results /\ Counts
  BY DEF Inv
<1> DEFINE P == Of("passed")
           K == Of("skipped")
<1>1. /\ IsFiniteSet(P) /\ IsFiniteSet(K) /\ P \subseteq Jobs /\ K \subseteq Jobs
      /\ P \subseteq Collected
      /\ IsFiniteSet(Jobs) /\ Cardinality(Jobs) = NumJobs
  BY <1>0, ClassesFinite
<1>2. P \cap K = {}
  BY DEF Of
<1>3. Cardinality(P) + Cardinality(K) = NumJobs
  BY <1>0 DEF Counts, Success, Kinds
<1>4. P \cup K = Jobs
  <2>1. Cardinality(P \cup K) = Cardinality(Jobs)
    BY <1>1, <1>2, <1>3, DisjointSum
  <2>2. P \cup K \in SUBSET Jobs
    BY <1>1
  <2> HIDE DEF P, K
  <2> QED
    BY <1>1, <2>1, <2>2, FS_Subset
<1>5. ASSUME NEW x \in K PROVE x \in Skipped
  BY <1>5 DEF Of, Kind
<1>6. ASSUME NEW x \in P PROVE x \in passed
  <2>1. x \in Collected /\ x \notin isBreak /\ Kind(x) = "passed"
    BY DEF Of
  <2>2. x \notin Skipped /\ returncode[x] = 0
    BY <2>1 DEF Kind
  <2>3. x \in Finished
    BY <2>1 DEF Collected, Finished
  <2> QED
    BY <2>1, <2>2, <2>3, <1>0 DEF Results
<1>7. Skipped \subseteq Jobs /\ passed \subseteq Jobs
  <2>1. Finished \subseteq Jobs
    BY <1>0, ClassesFinite DEF Finished
  <2> QED
    BY <2>1, <1>0, JobAssumption DEF Results
<1> HIDE DEF P, K
<1> QED
  BY <1>4, <1>5, <1>6, <1>7

\* The exit code.
LEMMA FinishInv ==
  ASSUME Inv, Finish \/ FinishRaised
  PROVE  Inv'
<1>0. Types /\ Exit
  BY DEF Inv
<1>1. /\ mainPc \in {"collect", "raised"} /\ mainPc' = "done"
      /\ exitCode' = "success" => Success
      /\ UNCHANGED <<inputQueue, outputQueue, threadExit, workerVars, dispatched,
                     collected, count>>
  BY DEF Finish, FinishRaised
<1>2. dispatched = NumJobs /\ dispatched' = dispatched /\ passed' = passed
  BY <1>0, <1>1 DEF Exit, workerVars
<1>3. SuccessMeansPassed'
  BY <1>1, <1>2, SuccessCounts DEF SuccessMeansPassed
<1>4. Exit'
  BY <1>1, <1>2, <1>3 DEF Exit
<1>5. threadExit' \in BOOLEAN /\ (threadExit => threadExit')
  BY <1>0, <1>1 DEF Types
<1> QED
  BY <1>1, <1>4, <1>5, StillInv

\* Every step of a worker, of the main thread and of the signal handler.
LEMMA NextInv ==
  ASSUME Inv, [Next]_vars
  PROVE  Inv'
<1>0. Types /\ Exit
  BY DEF Inv
<1>1. ASSUME NEW w \in Workers, Worker(w) PROVE Inv'
  BY <1>1, WorkerGetInv, WorkerStopsInv, WorkerSkipsInv, WorkerReportsInv,
     WorkerGoesOnInv DEF Worker
<1>2. CASE AllDispatched
  <2>1. /\ UNCHANGED <<inputQueue, outputQueue, threadExit, workerVars, dispatched,
                       collected, count, exitCode>>
        /\ passed' = passed /\ dispatched = NumJobs /\ mainPc' = "collect"
    BY <1>2 DEF AllDispatched, workerVars
  <2>2. Exit' /\ threadExit' \in BOOLEAN /\ (threadExit => threadExit')
    BY <1>0, <2>1 DEF Exit, SuccessMeansPassed, Types
  <2> QED
    BY <2>1, <2>2, StillInv
<1>3. CASE Interrupt
  <2>1. /\ UNCHANGED <<inputQueue, outputQueue, workerVars, dispatched,
                       collected, count, exitCode, mainPc>>
        /\ passed' = passed /\ threadExit'
        /\ threadExit' \in BOOLEAN
    BY <1>3 DEF Interrupt, workerVars, mainVars
  <2>2. Exit'
    BY <1>0, <2>1 DEF Exit, SuccessMeansPassed
  <2> QED
    BY <2>1, <2>2, StillInv
<1>4. CASE UNCHANGED vars
  <2>1. /\ UNCHANGED <<inputQueue, outputQueue, threadExit, workerVars, dispatched,
                       collected, count, exitCode, mainPc>>
        /\ passed' = passed
    BY <1>4 DEF vars, workerVars, mainVars
  <2>2. Exit' /\ threadExit' \in BOOLEAN /\ (threadExit => threadExit')
    BY <1>0, <2>1 DEF Exit, SuccessMeansPassed, Types
  <2> QED
    BY <2>1, <2>2, StillInv
<1> QED
  BY <1>1, <1>2, <1>3, <1>4, DispatchInv, DispatchBreakInv, CollectInv, FinishInv
     DEF Next, Main, Ended

-----------------------------------------------------------------------------
(* The theorems. *)

\* The places of the jobs, their results, the counts and the exit code agree in
\* every state of run_tests.
THEOREM Invariance == Spec => []Inv
<1>1. Init => Inv
  BY InitInv
<1>2. Inv /\ [Next]_vars => Inv'
  BY NextInv
<1> QED
  BY <1>1, <1>2, PTL DEF Spec

\* main returns success (test.py: passed_tests + skipped_tests == total_tests)
\* only if every dispatched test ran and passed or was to be skipped, whenever
\* Control-C came.
THEOREM SuccessMeansPassedHolds == Spec => []SuccessMeansPassed
<1>1. Inv => SuccessMeansPassed
  BY DEF Inv, Exit
<1> QED
  BY <1>1, Invariance, PTL

\* After Control-C a worker launches at most the job it had decided to launch
\* when it looked at thread_exit.
THEOREM StopsSoonHolds == Spec => []StopsSoon
<1>1. Inv => StopsSoon
  BY DEF Inv, Stopping, StopsSoon
<1> QED
  BY <1>1, Invariance, PTL

\* When run_tests has taken all answers, every program it ran is counted exactly
\* once, the passed ones as passed, with or without an interrupt.
THEOREM ResultsCountedHolds == Spec => []ResultsCounted
<1>1. Inv => ResultsCounted
  <2> SUFFICES ASSUME Inv, exitCode # "none", collected = dispatched
               PROVE  /\ count["passed"] = Cardinality(passed)
                      /\ count["passed"] + count["failed"] + count["valgrind"] + count["crashed"]
                           = Cardinality(launched)
    BY DEF ResultsCounted
  <2>0. Types /\ Places /\ Results /\ Counts /\ Exit
    BY DEF Inv
  <2>1. Collected = 1..dispatched
    <3>1. /\ IsFiniteSet(1..dispatched) /\ Collected \in SUBSET (1..dispatched)
          /\ Cardinality(1..dispatched) = Cardinality(Collected)
      BY <2>0, ClassesFinite DEF Counts
    <3> QED
      BY <3>1, FS_Subset
  <2>2. Finished = Collected /\ Held = {}
    BY <2>0, <2>1 DEF Places, Finished, Collected
  <2>3. launched \subseteq Collected /\ passed \subseteq launched
    BY <2>0, <2>2 DEF Results
  <2>4. /\ Of("passed") \cup Of("failed") \cup Of("valgrind") \cup Of("crashed")
             \subseteq launched
    <3> SUFFICES ASSUME NEW x \in Collected, x \notin isBreak, Kind(x) # "skipped"
                 PROVE  x \in launched
      BY DEF Of
    <3>1. x \notin Skipped
      BY DEF Kind
    <3> QED
      BY <3>1, <2>0, <2>2 DEF Results
  <2>5. launched \subseteq
          Of("passed") \cup Of("failed") \cup Of("valgrind") \cup Of("crashed")
    <3> SUFFICES ASSUME NEW x \in launched
                 PROVE  x \in Collected \ isBreak
                        /\ Kind(x) \in {"passed", "failed", "valgrind", "crashed"}
      BY DEF Of
    <3>1. x \in Collected /\ x \notin isBreak /\ x \notin Skipped
      BY <2>0, <2>3 DEF Results
    <3> QED
      BY <3>1 DEF Kind
  <2>6. Of("passed") = passed
    <3>1. \A x \in launched : x \in passed <=> returncode[x] = 0
      BY <2>0, <2>2, <2>3 DEF Results
    <3>2. \A x \in launched : x \in Collected \ isBreak /\ x \notin Skipped
      BY <2>0, <2>3 DEF Results
    <3>3. \A x \in launched : Kind(x) = "passed" <=> returncode[x] = 0
      BY <3>2 DEF Kind
    <3>4. Of("passed") \subseteq launched
      BY <2>4
    <3> QED
      BY <2>3, <3>1, <3>2, <3>3, <3>4 DEF Of
  <2>7. \A k, m : k # m => Of(k) \cap Of(m) = {}
    BY DEF Of
  <2> DEFINE A == Of("passed")
             F == Of("failed")
             V == Of("valgrind")
             C == Of("crashed")
  <2>8. /\ IsFiniteSet(A) /\ IsFiniteSet(F) /\ IsFiniteSet(V) /\ IsFiniteSet(C)
    BY <2>0, ClassesFinite
  <2>9. /\ A \cap F = {} /\ (A \cup F) \cap V = {} /\ (A \cup F \cup V) \cap C = {}
    BY <2>7
  <2>10. launched = A \cup F \cup V \cup C
    BY <2>4, <2>5
  <2>11. /\ count["passed"] = Cardinality(A) /\ count["failed"] = Cardinality(F)
         /\ count["valgrind"] = Cardinality(V) /\ count["crashed"] = Cardinality(C)
    BY <2>0 DEF Counts, Kinds
  <2>12. A = passed
    BY <2>6
  <2> HIDE DEF A, F, V, C
  <2>13. /\ IsFiniteSet(A \cup F) /\ Cardinality(A \cup F) = Cardinality(A) + Cardinality(F)
    BY <2>8, <2>9, DisjointSum
  <2>14. /\ IsFiniteSet(A \cup F \cup V)
         /\ Cardinality(A \cup F \cup V) = Cardinality(A \cup F) + Cardinality(V)
    BY <2>8, <2>9, <2>13, DisjointSum
  <2>15. Cardinality(A \cup F \cup V \cup C) = Cardinality(A \cup F \cup V) + Cardinality(C)
    BY <2>8, <2>9, <2>14, DisjointSum
  <2> QED
    BY <2>10, <2>11, <2>12, <2>13, <2>14, <2>15
<1> QED
  BY <1>1, Invariance, PTL
=============================================================================
