------------------------------- MODULE Timer --------------------------------
(***************************************************************************)
(* Timer (timer.h, timer.cc): start() creates a timer of the C library and *)
(* keeps its handle, stop() deletes the timer of that handle.  The library *)
(* may give the handle of a deleted timer to the next one that is created, *)
(* by any Timer.  Module Session has the steps that call these operations. *)
(***************************************************************************)

CONSTANTS
  Timer,            \* the Timer objects
  Handle,           \* bound: timers of the C library at one time
  None

ASSUME TimerAssumption == None \notin Timer \union Handle

VARIABLES
  stopped,          \* Timer::stopped
  timer_,           \* Timer::timer_
  armed,            \* the object that the timer of each handle calls
  fate,             \* "running", or how the process ended
  stale             \* timer_delete was given a handle that was not its own

timerVars == <<stopped, timer_, armed, fate, stale>>

TimerInit ==
  /\ stopped = [t \in Timer |-> TRUE]
  /\ timer_ = [t \in Timer |-> None]
  /\ armed = [h \in Handle |-> None]
  /\ fate = "running"
  /\ stale = FALSE

\* start() up to timer_settime: a timer that timer_ still names goes on.
TimerCreate(t) ==
  /\ \E h \in Handle :
       /\ armed[h] = None
       /\ armed' = [armed EXCEPT ![h] = t]
       /\ timer_' = [timer_ EXCEPT ![t] = h]
  /\ UNCHANGED <<stopped, fate, stale>>

\* stopped = false, at the end of start().
TimerStarted(t) ==
  /\ stopped' = [stopped EXCEPT ![t] = FALSE]
  /\ UNCHANGED <<timer_, armed, fate, stale>>

\* stop().  It never sets `stopped`, so it deletes again on every call.  The
\* handle of a timer that is gone makes timer_delete fail or crash.
TimerStop(t) ==
  LET h == timer_[t] IN
  IF stopped[t] THEN UNCHANGED timerVars
  ELSE /\ armed' = [armed EXCEPT ![h] = None]
       /\ stale' = (stale \/ armed[h] # t)
       /\ fate' \in IF armed[h] = None THEN {fate, "crashed"} ELSE {fate}
       /\ UNCHANGED <<stopped, timer_>>

TimerTypeOK ==
  /\ stopped \in [Timer -> BOOLEAN]
  /\ timer_ \in [Timer -> Handle \union {None}]
  /\ armed \in [Handle -> Timer \union {None}]
  /\ fate \in {"running", "crashed"}
  /\ stale \in BOOLEAN

=============================================================================
