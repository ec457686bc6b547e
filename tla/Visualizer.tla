----------------------------- MODULE Visualizer -----------------------------
(***************************************************************************)
(* The two threads of the visualizer: SimulationThread, which advances the *)
(* simulation, and the thread of the GTK main loop, which draws it and     *)
(* runs the user's commands.  They share one lock, the event go, the flag  *)
(* quit, the target time and the list of pause messages.                   *)
(*                                                                         *)
(* update_view_timeout runs the GTK event loop while the lock is taken, so *)
(* any handler may run inside it, another update_view_timeout included:    *)
(* frames is the stack of these calls.  Times are kept in sample periods   *)
(* relative to the last view.                                              *)
(***************************************************************************)
EXTENDS Naturals, Sequences, SequencesExt

CONSTANTS
  MaxSources,   \* bound: timeout sources referred to at one time
  MaxActs,      \* bound: what the user does before closing the window
  MaxMessages   \* bound: pause messages the simulation raises

ASSUME BoundAssumption ==
  MaxSources \in Nat \ {0} /\ MaxActs \in Nat /\ MaxMessages \in Nat

Sources == 1..MaxSources
NoSource == 0   \* None

VARIABLES
  simPc,           \* where SimulationThread.run is
  guiPc,           \* where the GTK thread is
  lock,            \* who holds simulation.lock
  go,              \* simulation.go
  quit,            \* simulation.quit
  ahead,           \* simulated time since the last view
  target,          \* simulation.target_time, from the last view
  helper,          \* m_pauseMessages of PyViz
  pauseMessages,   \* simulation.pause_messages
  taken,           \* the local pause_messages of update_view_timeout
  shown,           \* messages that got their dialog
  raised,          \* number of messages raised, which names them
  idle,            \* update_model waits for the main loop (several calls count as one)
  play,            \* play_button.get_active()
  timeoutId,       \* _update_timeout_id, which may name a source that is gone
  sources,         \* live sources of update_view_timeout
  frames,          \* sources of the calls of update_view_timeout in progress
  acts             \* user actions so far

simVars == <<helper, raised>>
msgVars == <<pauseMessages, taken, shown>>
timerVars == <<play, timeoutId, sources>>
vars == <<simPc, guiPc, lock, go, quit, ahead, target, simVars, msgVars,
          idle, timerVars, frames, acts>>

Free == "free"

\* Building the speed control already starts the update timer.
Init ==
  /\ simPc = "loop" /\ guiPc = "events"
  /\ lock = Free /\ go = FALSE /\ quit = FALSE
  /\ ahead = 0 /\ target = 0
  /\ helper = <<>> /\ raised = 0
  /\ pauseMessages = <<>> /\ taken = <<>> /\ shown = <<>>
  /\ idle = FALSE /\ play = FALSE
  /\ timeoutId = 1 /\ sources = {1}
  /\ frames = <<>> /\ acts = 0

-----------------------------------------------------------------------------
(***************************************************************************)
(* SimulationThread.run                                                    *)
(***************************************************************************)
SimLoop ==
  /\ simPc = "loop"
  /\ simPc' = IF quit THEN "exit" ELSE "wait"
  /\ UNCHANGED <<guiPc, lock, go, quit, ahead, target, simVars, msgVars, idle,
                 timerVars, frames, acts>>

\* go.wait returns.
SimWake ==
  /\ simPc = "wait"
  /\ go
  /\ simPc' = "woken"
  /\ UNCHANGED <<guiPc, lock, go, quit, ahead, target, simVars, msgVars, idle,
                 timerVars, frames, acts>>

SimClear ==
  /\ simPc = "woken"
  /\ go' = FALSE
  /\ simPc' = "check"
  /\ UNCHANGED <<guiPc, lock, quit, ahead, target, simVars, msgVars, idle,
                 timerVars, frames, acts>>

SimCheckQuit ==
  /\ simPc = "check"
  /\ simPc' = IF quit THEN "exit" ELSE "acquire"
  /\ UNCHANGED <<guiPc, lock, go, quit, ahead, target, simVars, msgVars, idle,
                 timerVars, frames, acts>>

SimAcquire ==
  /\ simPc = "acquire"
  /\ lock = Free
  /\ lock' = "sim"
  /\ simPc' = "run"
  /\ UNCHANGED <<guiPc, go, quit, ahead, target, simVars, msgVars, idle,
                 timerVars, frames, acts>>

\* Mutant: the messages of the last run are not cleared.
HelperKept == helper

\* PyViz::SimulatorRunUntil starts with an empty list of messages.
HelperCleared == <<>>

\* It returns at once when the target time is reached.  Otherwise it runs until
\* then, or until the scenario's own Simulator::Stop, and collects messages:
\* DoPause sets m_stop, which nothing reads, and the run goes on.
SimulatorRunUntil ==
  /\ simPc = "run"
  /\ simPc' = "save"
  /\ \/ /\ ahead >= target
        /\ helper' = HelperCleared
        /\ UNCHANGED <<ahead, raised>>
     \/ /\ ahead < target
        /\ ahead' \in ahead..target
        /\ \E n \in 0..(MaxMessages - raised) :
             /\ raised' = raised + n
             /\ helper' = HelperCleared \o [i \in 1..n |-> raised + i]
  /\ UNCHANGED <<guiPc, lock, go, quit, target, msgVars, idle, timerVars,
                 frames, acts>>

\* Messages are handed over, update_model is queued, the lock is released.
SimSave ==
  /\ simPc = "save"
  /\ pauseMessages' = pauseMessages \o helper
  /\ idle' = TRUE
  /\ lock' = Free
  /\ simPc' = "loop"
  /\ UNCHANGED <<guiPc, go, quit, ahead, target, simVars, taken, shown,
                 timerVars, frames, acts>>

SimStep ==
  SimLoop \/ SimWake \/ SimClear \/ SimCheckQuit \/ SimAcquire
    \/ SimulatorRunUntil \/ SimSave

-----------------------------------------------------------------------------
(***************************************************************************)
(* The update timer                                                        *)
(***************************************************************************)
\* GLib gives every source an identifier of its own; the model takes the least
\* that nothing refers to any more.
Unused == Sources \ (sources \cup {timeoutId} \cup ToSet(frames))
NewSource == CHOOSE s \in Unused : \A t \in Unused : s <= t

\* Mutant: a timer is only started when none is recorded.
StartUpdateTimerOnce ==
  IF timeoutId = NoSource
  THEN timeoutId' = NewSource /\ sources' = sources \cup {NewSource}
  ELSE UNCHANGED <<timeoutId, sources>>

\* source_remove of a source that is gone does nothing.
StartUpdateTimer ==
  /\ Unused # {}
  /\ timeoutId' = NewSource
  /\ sources' = (sources \ {timeoutId}) \cup {NewSource}

\* GTK dispatches handlers: in the main loop until main_quit, and in the loop
\* inside an update_view_timeout.
Dispatching == guiPc = "events" /\ (~quit \/ frames # <<>>)

\* A timeout is dispatched, from the main loop or from the loop inside another
\* update_view_timeout, unless the same source is being dispatched.  It tries
\* the lock at once.
TimerFires(s) ==
  /\ Dispatching
  /\ s \in sources \ ToSet(frames)
  /\ frames' = Append(frames, s)
  /\ IF lock = Free THEN lock' = "gui" /\ guiPc' = "view"
                    ELSE UNCHANGED <<lock, guiPc>>
  /\ UNCHANGED <<simPc, go, quit, ahead, target, simVars, msgVars, idle,
                 timerVars, acts>>

\* lock.acquire(False) succeeds later in the innermost update_view_timeout.
ViewAcquire(s) ==
  /\ guiPc = "events"
  /\ frames # <<>>
  /\ s = Last(frames)
  /\ lock = Free
  /\ lock' = "gui"
  /\ guiPc' = "view"
  /\ UNCHANGED <<simPc, go, quit, ahead, target, simVars, msgVars, idle,
                 timerVars, frames, acts>>

\* Mutant: target_time advances by a period instead of starting from Now ().
TargetAdvanced == (target + 1) - ahead

\* One sample period after the view that is drawn now.
TargetTime == 1

\* Under the lock: take the messages, draw, set the target time.
UpdateView ==
  /\ guiPc = "view"
  /\ taken' = pauseMessages
  /\ pauseMessages' = <<>>
  /\ ahead' = 0
  /\ target' = TargetTime
  /\ lock' = Free
  /\ guiPc' = "drawn"
  /\ UNCHANGED <<simPc, go, quit, simVars, shown, idle, timerVars, frames, acts>>

\* Mutant: the timer goes on although the simulation is paused.
ViewRestTicking ==
  /\ guiPc = "drawn"
  /\ guiPc' = "events"
  /\ shown' = shown \o taken
  /\ taken' = <<>>
  /\ play' = (play /\ taken = <<>>)
  /\ go' = TRUE
  /\ frames' = Front(frames)
  /\ UNCHANGED <<simPc, lock, quit, ahead, target, simVars, pauseMessages, idle,
                 timeoutId, sources, acts>>

\* The rest of update_view_timeout: a dialog for the messages releases the play
\* button, whose handler removes the timer; when paused the source ends.
ViewRest ==
  LET toggledOff == play /\ taken # <<>>
      left == IF toggledOff THEN sources \ {timeoutId} ELSE sources
  IN
  /\ guiPc = "drawn"
  /\ guiPc' = "events"
  /\ shown' = shown \o taken
  /\ taken' = <<>>
  /\ play' = (play /\ taken = <<>>)
  /\ IF play'
     THEN go' = TRUE /\ UNCHANGED <<timeoutId, sources>>
     ELSE /\ timeoutId' = NoSource
          /\ sources' = left \ {Last(frames)}
          /\ UNCHANGED go
  /\ frames' = Front(frames)
  /\ UNCHANGED <<simPc, lock, quit, ahead, target, simVars, pauseMessages, idle,
                 acts>>

-----------------------------------------------------------------------------
(***************************************************************************)
(* Handlers                                                                *)
(***************************************************************************)
UserActs == guiPc = "events" /\ ~quit /\ acts < MaxActs /\ acts' = acts + 1

\* _on_play_button_toggled
PressPlay ==
  /\ UserActs
  /\ ~play
  /\ play' = TRUE
  /\ StartUpdateTimer
  /\ UNCHANGED <<simPc, guiPc, lock, go, quit, ahead, target, simVars, msgVars,
                 idle, frames>>

\* The source is removed; its identifier stays in _update_timeout_id.
PressPause ==
  /\ UserActs
  /\ play
  /\ play' = FALSE
  /\ sources' = sources \ {timeoutId}
  /\ UNCHANGED <<simPc, guiPc, lock, go, quit, ahead, target, simVars, msgVars,
                 idle, timeoutId, frames>>

\* _speed_changed restarts the timer, paused or not.
SpeedChanged ==
  /\ UserActs
  /\ StartUpdateTimer
  /\ UNCHANGED <<simPc, guiPc, lock, go, quit, ahead, target, simVars, msgVars,
                 idle, play, frames>>

\* Handlers that wait for the lock: tooltips, dragging a node, selecting one...
LockingHandler ==
  /\ UserActs
  /\ guiPc' = "blocked"
  /\ UNCHANGED <<simPc, lock, go, quit, ahead, target, simVars, msgVars, idle,
                 timerVars, frames>>

\* ... and update_model, which the simulation thread queued.
UpdateModel ==
  /\ Dispatching
  /\ idle
  /\ idle' = FALSE
  /\ guiPc' = "blocked"
  /\ UNCHANGED <<simPc, lock, go, quit, ahead, target, simVars, msgVars,
                 timerVars, frames, acts>>

HandlerAcquire ==
  /\ guiPc = "blocked"
  /\ lock = Free
  /\ lock' = "gui"
  /\ guiPc' = "handler"
  /\ UNCHANGED <<simPc, go, quit, ahead, target, simVars, msgVars, idle,
                 timerVars, frames, acts>>

HandlerDone ==
  /\ guiPc = "handler"
  /\ lock' = Free
  /\ guiPc' = "events"
  /\ UNCHANGED <<simPc, go, quit, ahead, target, simVars, msgVars, idle,
                 timerVars, frames, acts>>

-----------------------------------------------------------------------------
(***************************************************************************)
(* _quit, from the window's delete-event                                   *)
(***************************************************************************)
QuitFlag ==
  /\ guiPc = "events"
  /\ ~quit
  /\ sources' = sources \ {timeoutId}
  /\ timeoutId' = NoSource
  /\ quit' = TRUE
  /\ guiPc' = "quit"
  /\ UNCHANGED <<simPc, lock, go, ahead, target, simVars, msgVars, idle, play,
                 frames, acts>>

\* Mutant: the waiting thread is not woken.
QuitSilently ==
  /\ guiPc = "quit"
  /\ guiPc' = "join"
  /\ UNCHANGED <<simPc, lock, go, quit, ahead, target, simVars, msgVars, idle,
                 timerVars, frames, acts>>

QuitGo ==
  /\ guiPc = "quit"
  /\ go' = TRUE
  /\ guiPc' = "join"
  /\ UNCHANGED <<simPc, lock, quit, ahead, target, simVars, msgVars, idle,
                 timerVars, frames, acts>>

\* join returns, and main_quit lets the main loop end once it is reached.
QuitJoin ==
  /\ guiPc = "join"
  /\ simPc = "exit"
  /\ guiPc' = "events"
  /\ UNCHANGED <<simPc, lock, go, quit, ahead, target, simVars, msgVars, idle,
                 timerVars, frames, acts>>

MainEnds ==
  /\ guiPc = "events"
  /\ quit
  /\ frames = <<>>
  /\ guiPc' = "ended"
  /\ UNCHANGED <<simPc, lock, go, quit, ahead, target, simVars, msgVars, idle,
                 timerVars, frames, acts>>

\* The program has ended; anything else that stops is a deadlock.
Ended == guiPc = "ended" /\ simPc = "exit" /\ UNCHANGED vars

-----------------------------------------------------------------------------
View ==
  \/ \E s \in Sources : TimerFires(s) \/ ViewAcquire(s)
  \/ UpdateView
  \/ ViewRest
Handler == UpdateModel \/ HandlerAcquire \/ HandlerDone
User == PressPlay \/ PressPause \/ SpeedChanged \/ LockingHandler \/ QuitFlag
Quit == QuitGo \/ QuitJoin \/ MainEnds

Next == SimStep \/ View \/ Handler \/ User \/ Quit \/ Ended

Spec == Init /\ [][Next]_vars

\* The operating system runs both threads, and the GTK loop dispatches what is
\* ready.  The GTK thread holds the lock for moments, a sample period apart, so
\* a simulation thread that waits for the lock gets it; and the loop inside an
\* update_view_timeout only serves what is pending before it tries the lock
\* again.  The user need not do anything.
Fairness ==
  /\ WF_vars(SimStep)
  /\ SF_vars(SimAcquire)
  /\ \A s \in Sources : SF_vars(ViewAcquire(s))
  /\ WF_vars(View \/ Handler \/ Quit)

FairSpec == Spec /\ Fairness

-----------------------------------------------------------------------------
\* The simulation is never more than one sample period ahead of what the user
\* sees, however the timers, pauses and extra go signals fall.
NeverFarAhead == ahead <= 1

\* Every pause message gets a dialog once: it is in exactly one place on its way
\* from PyViz over simulation.pause_messages to the dialog.
MessagesOnce ==
  LET all == shown \o taken \o pauseMessages
               \o (IF simPc = "save" THEN helper ELSE <<>>)
  IN all = [i \in 1..raised |-> i]

\* While the play button is down the simulation goes on: no go signal, timer or
\* source is lost for good, whatever was pressed in the loop inside
\* update_view_timeout.
PlayingGoesOn == (play /\ ~quit) ~> (simPc = "run" \/ ~play \/ quit)

\* Once paused for good, no update timer is left and the simulation rests.
PauseSettles ==
  (<>[](~play /\ ~quit)) => <>[](sources = {} /\ simPc = "wait")

\* Closing the window ends both threads: join meets a thread that is on its way
\* out, wherever the signal caught it.
QuitEnds == quit ~> (guiPc = "ended" /\ simPc = "exit")
=============================================================================
