-------------------------- MODULE VisualizerProofs --------------------------
(***************************************************************************)
(* Proofs about Visualizer, for any number of timeout sources, of user     *)
(* actions and of pause messages.                                          *)
(***************************************************************************)
EXTENDS Visualizer, SequenceTheorems, TLAPS

-----------------------------------------------------------------------------
(* The invariant. *)

\* The messages PyViz has raised and the simulation thread has not handed over.
Unsaved == IF simPc = "save" THEN helper ELSE <<>>

Types ==
  /\ ahead \in 0..1 /\ target \in 0..1
  /\ raised \in Nat
  /\ helper \in Seq(Nat) /\ pauseMessages \in Seq(Nat)
  /\ taken \in Seq(Nat) /\ shown \in Seq(Nat)

\* update_view_timeout keeps messages from the lock's release to the dialog only.
TakenShort == taken = <<>> \/ guiPc = "drawn"

\* simulation.lock: the simulation runs, and hands its messages over, while no
\* view is drawn and no handler reads the model.
LockHeld ==
  /\ (lock = "sim") <=> (simPc \in {"run", "save"})
  /\ (lock = "gui") <=> (guiPc \in {"view", "handler"})

InTransit == shown \o taken \o pauseMessages \o Unsaved = [i \in 1..raised |-> i]

Inv == Types /\ TakenShort /\ LockHeld /\ InTransit

\* At the start there is no message and nothing is ahead.
LEMMA InitInv == Init => Inv
<1> SUFFICES ASSUME Init PROVE Inv
  OBVIOUS
<1>1. Types /\ TakenShort /\ LockHeld
  BY DEF Init, Types, TakenShort, LockHeld, Free
<1>2. <<>> \o <<>> \o <<>> \o <<>> = <<>>
  BY ConcatEmptySeq, EmptySeq
<1>3. [i \in 1..0 |-> i] = <<>>
  OBVIOUS
<1>4. InTransit
  BY <1>2, <1>3 DEF Init, InTransit, Unsaved
<1> QED
  BY <1>1, <1>4 DEF Inv

-----------------------------------------------------------------------------
(* Messages on their way. *)

\* Numbering goes on where it stopped.
LEMMA NumbersGoOn ==
  ASSUME NEW m \in Nat, NEW n \in Nat
  PROVE  /\ [i \in 1..m |-> i] \o [i \in 1..n |-> m + i] = [i \in 1..(m + n) |-> i]
         /\ [i \in 1..n |-> m + i] \in Seq(Nat)
<1> DEFINE a == [i \in 1..m |-> i]
           b == [i \in 1..n |-> m + i]
           c == [i \in 1..(m + n) |-> i]
<1>1. /\ a \in Seq(Nat) /\ Len(a) = m /\ \A i \in 1..m : a[i] = i
      /\ b \in Seq(Nat) /\ Len(b) = n /\ \A i \in 1..n : b[i] = m + i
      /\ c \in Seq(Nat) /\ Len(c) = m + n /\ \A i \in 1..(m + n) : c[i] = i
  OBVIOUS
<1> HIDE DEF a, b, c
<1>2. /\ a \o b \in Seq(Nat) /\ Len(a \o b) = m + n
      /\ \A i \in 1..(m + n) : (a \o b)[i] = IF i <= m THEN a[i] ELSE b[i - m]
  BY <1>1, ConcatProperties
<1>3. \A i \in 1..(m + n) : (a \o b)[i] = c[i]
  <2> SUFFICES ASSUME NEW i \in 1..(m + n) PROVE (a \o b)[i] = c[i]
    OBVIOUS
  <2>1. CASE i <= m
    BY <2>1, <1>1, <1>2
  <2>2. CASE ~(i <= m)
    <3>1. i - m \in 1..n /\ m + (i - m) = i
      BY <2>2
    <3> QED
      BY <2>2, <3>1, <1>1, <1>2
  <2> QED
    BY <2>1, <2>2
<1>4. a \o b = c
  BY <1>1, <1>2, <1>3, SeqEqual
<1> QED
  BY <1>1, <1>4 DEF a, b, c

\* A step that leaves the messages where they are.
LEMMA StillMessages ==
  ASSUME Types, TakenShort, InTransit,
         UNCHANGED <<shown, taken, pauseMessages, helper, raised>>,
         simPc' = "save" <=> simPc = "save",
         guiPc = "drawn" => guiPc' = "drawn",
         ahead' \in 0..1, target' \in 0..1
  PROVE  Types' /\ TakenShort' /\ InTransit'
<1>1. Unsaved' = Unsaved
  BY DEF Unsaved
<1>2. Types' /\ TakenShort'
  BY DEF Types, TakenShort
<1>3. InTransit'
  BY <1>1 DEF InTransit
<1> QED
  BY <1>2, <1>3

\* PyViz::SimulatorRunUntil: the target is at most one period ahead, and new
\* messages follow the old ones.
LEMMA RunUntilInv ==
  ASSUME Inv, SimulatorRunUntil
  PROVE  Inv'
<1>0. Types /\ TakenShort /\ LockHeld /\ InTransit
  BY DEF Inv
<1> DEFINE old == shown \o taken \o pauseMessages
<1>1. /\ simPc = "run" /\ simPc' = "save"
      /\ UNCHANGED <<guiPc, lock, target, shown, taken, pauseMessages>>
  BY DEF SimulatorRunUntil, msgVars
<1>2. old \in Seq(Nat)
  BY <1>0, ConcatProperties DEF Types
<1>3. old = [i \in 1..raised |-> i]
  BY <1>0, <1>1, <1>2, ConcatEmptySeq DEF InTransit, Unsaved
<1>4. PICK n \in Nat :
        /\ raised' = raised + n
        /\ helper' = [i \in 1..n |-> raised + i]
        /\ ahead' \in 0..1
  <2>1. CASE ahead >= target
    <3>1. helper' = <<>> /\ UNCHANGED <<ahead, raised>>
      BY <2>1, <1>0 DEF SimulatorRunUntil, HelperCleared, Types
    <3>2. <<>> = [i \in 1..0 |-> raised + i] /\ raised + 0 = raised
      BY <1>0 DEF Types
    <3> QED
      BY <3>1, <3>2, <1>0 DEF Types
  <2>2. CASE ahead < target
    <3>1. PICK n \in 0..(MaxMessages - raised) :
            /\ ahead' \in ahead..target
            /\ raised' = raised + n
            /\ helper' = <<>> \o [i \in 1..n |-> raised + i]
      BY <2>2, <1>0 DEF SimulatorRunUntil, HelperCleared, Types
    <3>2. n \in Nat
      BY BoundAssumption, <1>0 DEF Types
    <3>3. <<>> \o [i \in 1..n |-> raised + i] = [i \in 1..n |-> raised + i]
      BY <3>2, <1>0, NumbersGoOn, ConcatEmptySeq DEF Types
    <3>4. ahead' \in 0..1
      BY <3>1, <1>0 DEF Types
    <3> QED
      BY <3>1, <3>2, <3>3, <3>4
  <2> QED
    BY <2>1, <2>2, <1>0 DEF Types
<1>5. helper' \in Seq(Nat) /\ old \o helper' = [i \in 1..raised' |-> i]
  BY <1>0, <1>3, <1>4, NumbersGoOn DEF Types
<1>6. Types' /\ TakenShort' /\ LockHeld'
  BY <1>0, <1>1, <1>4, <1>5 DEF Types, TakenShort, LockHeld
<1>7. InTransit'
  BY <1>1, <1>5 DEF InTransit, Unsaved
<1> QED
  BY <1>6, <1>7 DEF Inv

\* The simulation thread hands its messages over.
LEMMA SaveInv ==
  ASSUME Inv, SimSave
  PROVE  Inv'
<1>0. Types /\ TakenShort /\ LockHeld /\ InTransit
  BY DEF Inv
<1>1. /\ simPc = "save" /\ simPc' = "loop" /\ lock' = Free
      /\ pauseMessages' = pauseMessages \o helper
      /\ UNCHANGED <<guiPc, ahead, target, helper, raised, taken, shown>>
  BY DEF SimSave, simVars
<1> DEFINE old == shown \o taken
<1>2. /\ old \in Seq(Nat) /\ pauseMessages \in Seq(Nat) /\ helper \in Seq(Nat)
      /\ pauseMessages \o helper \in Seq(Nat)
  BY <1>0, ConcatProperties DEF Types
<1>3. old \o pauseMessages \o helper = [i \in 1..raised |-> i]
  BY <1>0, <1>1 DEF InTransit, Unsaved
<1> HIDE DEF old
<1>4. /\ old \o (pauseMessages \o helper) = (old \o pauseMessages) \o helper
      /\ old \o (pauseMessages \o helper) \in Seq(Nat)
  BY <1>2, ConcatAssociative, ConcatProperties, SMTT(20)
<1>5. old \o (pauseMessages \o helper) \o <<>> = [i \in 1..raised |-> i]
  BY <1>3, <1>4, ConcatEmptySeq
<1>6. InTransit'
  BY <1>1, <1>5 DEF InTransit, Unsaved, old
<1>7. Types' /\ TakenShort' /\ LockHeld'
  BY <1>0, <1>1, <1>2 DEF Types, TakenShort, LockHeld, Free
<1> QED
  BY <1>6, <1>7 DEF Inv

\* A view takes the messages and sets a target one period ahead.
LEMMA UpdateViewInv ==
  ASSUME Inv, UpdateView
  PROVE  Inv'
<1>0. Types /\ TakenShort /\ LockHeld /\ InTransit
  BY DEF Inv
<1>1. /\ guiPc = "view" /\ guiPc' = "drawn" /\ lock' = Free
      /\ taken' = pauseMessages /\ pauseMessages' = <<>>
      /\ ahead' = 0 /\ target' = 1
      /\ UNCHANGED <<simPc, helper, raised, shown>>
  BY DEF UpdateView, simVars, TargetTime
<1>2. taken = <<>>
  BY <1>0, <1>1 DEF TakenShort
<1>3. shown \o <<>> = shown
  BY <1>0, ConcatEmptySeq DEF Types
<1>4. shown \o pauseMessages \in Seq(Nat)
  BY <1>0, ConcatProperties DEF Types
<1>5. (shown \o pauseMessages) \o <<>> = shown \o pauseMessages
  BY <1>4, ConcatEmptySeq
<1>6. Unsaved' = Unsaved
  BY <1>1 DEF Unsaved
<1>7. InTransit'
  BY <1>0, <1>1, <1>2, <1>3, <1>5, <1>6 DEF InTransit
<1>8. Types' /\ TakenShort' /\ LockHeld'
  BY <1>0, <1>1 DEF Types, TakenShort, LockHeld, Free
<1> QED
  BY <1>7, <1>8 DEF Inv

\* The dialog.
LEMMA ViewRestInv ==
  ASSUME Inv, ViewRest
  PROVE  Inv'
<1>0. Types /\ TakenShort /\ LockHeld /\ InTransit
  BY DEF Inv
<1>1. /\ guiPc = "drawn" /\ guiPc' = "events"
      /\ shown' = shown \o taken /\ taken' = <<>>
      /\ UNCHANGED <<simPc, lock, ahead, target, helper, raised, pauseMessages>>
  BY DEF ViewRest, simVars
<1>2. shown \o taken \in Seq(Nat) /\ (shown \o taken) \o <<>> = shown \o taken
  BY <1>0, ConcatProperties, ConcatEmptySeq DEF Types
<1>3. Unsaved' = Unsaved
  BY <1>1 DEF Unsaved
<1>4. InTransit'
  BY <1>0, <1>1, <1>2, <1>3 DEF InTransit
<1>5. Types' /\ TakenShort' /\ LockHeld'
  BY <1>0, <1>1, <1>2 DEF Types, TakenShort, LockHeld
<1> QED
  BY <1>4, <1>5 DEF Inv

\* The other steps of the simulation thread.
LEMMA SimStepInv ==
  ASSUME Inv, SimLoop \/ SimWake \/ SimClear \/ SimCheckQuit \/ SimAcquire
  PROVE  Inv'
<1>0. Types /\ TakenShort /\ LockHeld /\ InTransit
  BY DEF Inv
<1>1. /\ UNCHANGED <<shown, taken, pauseMessages, helper, raised, ahead, target, guiPc>>
      /\ simPc' = "save" <=> simPc = "save"
      /\ \/ lock' = lock /\ simPc \notin {"run", "save"} /\ simPc' \notin {"run", "save"}
         \/ lock = Free /\ lock' = "sim" /\ simPc' = "run"
  BY DEF SimLoop, SimWake, SimClear, SimCheckQuit, SimAcquire, simVars, msgVars
<1>2. Types' /\ TakenShort' /\ InTransit'
  BY <1>0, <1>1, StillMessages DEF Types
<1>3. LockHeld'
  BY <1>0, <1>1 DEF LockHeld, Free
<1> QED
  BY <1>2, <1>3 DEF Inv

\* The other steps of the GTK thread: timers, handlers, user and quit.
LEMMA GuiStepInv ==
  ASSUME Inv,
         \/ \E s \in Sources : TimerFires(s) \/ ViewAcquire(s)
         \/ Handler \/ User \/ Quit
  PROVE  Inv'
<1>0. Types /\ TakenShort /\ LockHeld /\ InTransit
  BY DEF Inv
<1> DEFINE Kept ==
             /\ UNCHANGED <<shown, taken, pauseMessages, helper, raised, ahead, target, simPc>>
             /\ guiPc # "drawn"
             /\ \/ lock' = lock /\ guiPc \notin {"view", "handler"} /\ guiPc' \notin {"view", "handler"}
                \/ lock = Free /\ lock' = "gui" /\ guiPc' \in {"view", "handler"}
                \/ lock' = Free /\ guiPc = "handler" /\ guiPc' = "events"
<1>1. Kept
  <2>1. ASSUME NEW s \in Sources, TimerFires(s) \/ ViewAcquire(s) PROVE Kept
    BY <2>1 DEF TimerFires, ViewAcquire, Dispatching, simVars, msgVars
  <2>2. CASE Handler
    BY <2>2 DEF Handler, UpdateModel, HandlerAcquire, HandlerDone, Dispatching,
                simVars, msgVars
  <2>3. CASE User
    BY <2>3 DEF User, PressPlay, PressPause, SpeedChanged, LockingHandler, QuitFlag,
                UserActs, simVars, msgVars
  <2>4. CASE Quit
    BY <2>4 DEF Quit, QuitGo, QuitJoin, MainEnds, simVars, msgVars
  <2> QED
    BY <2>1, <2>2, <2>3, <2>4
<1>2. Types' /\ TakenShort' /\ InTransit'
  BY <1>0, <1>1, StillMessages DEF Types
<1>3. LockHeld'
  BY <1>0, <1>1 DEF LockHeld, Free
<1> QED
  BY <1>2, <1>3 DEF Inv

\* Every step of either thread.
LEMMA NextInv ==
  ASSUME Inv, [Next]_vars
  PROVE  Inv'
<1>1. CASE UNCHANGED vars
  <2>1. UNCHANGED <<shown, taken, pauseMessages, helper, raised, ahead, target,
                    simPc, guiPc, lock>>
    BY <1>1 DEF vars, simVars, msgVars
  <2>2. Types' /\ TakenShort' /\ InTransit'
    BY <2>1, StillMessages DEF Inv, Types
  <2> QED
    BY <2>1, <2>2 DEF Inv, LockHeld
<1> QED
  BY <1>1, RunUntilInv, SaveInv, UpdateViewInv, ViewRestInv, SimStepInv, GuiStepInv
     DEF Next, SimStep, View, Ended

-----------------------------------------------------------------------------
(* The theorems. *)

\* The invariant of the two threads.
THEOREM Invariance == Spec => []Inv
<1>1. Init => Inv
  BY InitInv
<1>2. Inv /\ [Next]_vars => Inv'
  BY NextInv
<1> QED
  BY <1>1, <1>2, PTL DEF Spec

\* simulation.lock excludes the two threads from each other: nothing is drawn,
\* and no handler reads the model, while SimulatorRunUntil runs or its messages
\* are handed over, although the lock is taken in four places and one of them
\* polls it inside the event loop.
THEOREM Exclusion ==
  Spec => [](~(simPc \in {"run", "save"} /\ guiPc \in {"view", "handler"}))
<1>1. Inv => ~(simPc \in {"run", "save"} /\ guiPc \in {"view", "handler"})
  BY DEF Inv, LockHeld
<1> QED
  BY <1>1, Invariance, PTL

\* The simulation is never more than one sample period ahead of the last view
\* (update_view_timeout sets target_time from the time it draws).
THEOREM NeverFarAheadHolds == Spec => []NeverFarAhead
<1>1. Inv => NeverFarAhead
  BY DEF Inv, Types, NeverFarAhead
<1> QED
  BY <1>1, Invariance, PTL

\* No pause message is lost, shown twice or out of order on its way from PyViz
\* over simulation.pause_messages and the local list to the dialog.
THEOREM MessagesOnceHolds == Spec => []MessagesOnce
<1>1. Inv => MessagesOnce
  BY DEF Inv, InTransit, Unsaved, MessagesOnce
<1> QED
  BY <1>1, Invariance, PTL
=============================================================================
