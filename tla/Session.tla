------------------------------ MODULE Session -------------------------------
(***************************************************************************)
(* The application of example/main.cc: what its callbacks do with three    *)
(* Timers when a link is connected or lost, the INH that is repeated until *)
(* a response comes, and the reconnection.  The callbacks run in the       *)
(* notification threads of the links, the timers' handlers in threads of   *)
(* their own, on_cloud2veh_inh_res in the receive thread: nothing orders   *)
(* them.                                                                   *)
(*                                                                         *)
(* The controller is reduced to what the application sees of it (module    *)
(* Controller has the rest): a link that start() opened is reported        *)
(* CONNECTED, then LOST, and stop() closes both.  As with OneLossAtATime   *)
(* there, a loss overlaps with no other report: it is reported when no     *)
(* callback runs, and then nothing more until stop().  Callbacks for       *)
(* connections overlap with each other, and all with handlers and          *)
(* responses.                                                              *)
(***************************************************************************)
EXTENDS Timer, Naturals, Sequences, FiniteSets

CONSTANTS
  Up, Down,         \* the links
  Hb, State, Inh,   \* g_hb_timer, g_state_timer, g_inh_timer
  MaxHandler        \* bound: handlers of g_inh_timer at one time

Link == {Up, Down}

ASSUME SessionAssumption ==
  /\ Up # Down
  /\ Timer = {Hb, State, Inh} /\ Cardinality(Timer) = 3
  /\ MaxHandler \in Nat \ {0}

VARIABLES
  link,             \* the links, as reported
  callback,         \* what is left to do in the callback of each link
  testing,          \* handlers of g_inh_timer that have not tested the count,
  counting,         \* and those that have sent an INH and not counted it
  g_inh_count,
  due,              \* main, or a reconnection thread, is to call start()
  sent              \* INHs sent since g_inh_count was last reset

appVars == <<link, callback, testing, counting, g_inh_count, due, sent>>
vars == <<timerVars, appVars>>

\* A step of a callback, and the Timer it is about, if any.
Do(op, t) == [op |-> op, timer |-> t]

WhenConnected(c) ==
  IF c = Up
    THEN <<Do("create", Inh), Do("started", Inh),
           Do("create", State), Do("started", State)>>
    ELSE <<Do("create", Hb), Do("started", Hb)>>

WhenLost_KeepsState(c) ==
  <<Do("stop", Hb), Do("stop", Inh)>>
  \o <<Do("reset", None), Do("halt", None), Do("schedule", None)>>

\* The flag g_inh_res, which is reset along with the count, is never read.
WhenLost(c) ==
  (IF c = Up THEN <<Do("stop", Hb), Do("stop", Inh), Do("stop", State)>>
             ELSE <<Do("stop", Hb), Do("stop", State), Do("stop", Inh)>>)
  \o <<Do("reset", None), Do("halt", None), Do("schedule", None)>>

Init ==
  /\ TimerInit
  /\ link = [c \in Link |-> "closed"]
  /\ callback = [c \in Link |-> <<>>]
  /\ testing = 0
  /\ counting = 0
  /\ g_inh_count = 0
  /\ due = TRUE
  /\ sent = 0

-----------------------------------------------------------------------------
(* The controller, as the application sees it. *)

\* start(), called by main or by a reconnection thread.  A link whose open()
\* fails makes no reports and stays closed here.
Start ==
  /\ fate = "running"
  /\ due
  /\ due' = FALSE
  /\ link' \in [Link -> {"open", "closed"}]
  /\ UNCHANGED <<timerVars, callback, testing, counting, g_inh_count, sent>>

Calls(c, script) == callback' = [callback EXCEPT ![c] = script]

Connected(c) ==
  /\ fate = "running"
  /\ link[c] = "open"
  /\ \A d \in Link : link[d] # "lost"
  /\ link' = [link EXCEPT ![c] = "connected"]
  /\ Calls(c, WhenConnected(c))
  /\ UNCHANGED <<timerVars, testing, counting, g_inh_count, due, sent>>

Lost(c) ==
  /\ fate = "running"
  /\ link[c] \in {"open", "connected"}
  /\ \A d \in Link : callback[d] = <<>>
  /\ link' = [link EXCEPT ![c] = "lost"]
  /\ Calls(c, WhenLost(c))
  /\ UNCHANGED <<timerVars, testing, counting, g_inh_count, due, sent>>

-----------------------------------------------------------------------------
(* The callbacks on_up_connect_state and on_down_connect_state. *)

\* The next thing the callback of c does is op.
Doing(c, op) ==
  /\ fate = "running"
  /\ callback[c] # <<>>
  /\ Head(callback[c]).op = op
  /\ Calls(c, Tail(callback[c]))

CallbackTimer(c) == Head(callback[c]).timer

CreateTimer(c) ==
  /\ Doing(c, "create")
  /\ TimerCreate(CallbackTimer(c))
  /\ UNCHANGED <<link, testing, counting, g_inh_count, due, sent>>

StartedTimer(c) ==
  /\ Doing(c, "started")
  /\ TimerStarted(CallbackTimer(c))
  /\ UNCHANGED <<link, testing, counting, g_inh_count, due, sent>>

StopTimer(c) ==
  /\ Doing(c, "stop")
  /\ TimerStop(CallbackTimer(c))
  /\ UNCHANGED <<link, testing, counting, g_inh_count, due, sent>>

\* g_inh_count = 0
Reset(c) ==
  /\ Doing(c, "reset")
  /\ g_inh_count' = 0
  /\ sent' = 0
  /\ UNCHANGED <<timerVars, link, testing, counting, due>>

\* g_controller.stop()
Halt(c) ==
  /\ Doing(c, "halt")
  /\ link' = [d \in Link |-> "closed"]
  /\ UNCHANGED <<timerVars, testing, counting, g_inh_count, due, sent>>

\* The detached thread that will call start().
Schedule(c) ==
  /\ Doing(c, "schedule")
  /\ due' = TRUE
  /\ UNCHANGED <<timerVars, link, testing, counting, g_inh_count, sent>>

-----------------------------------------------------------------------------
(* The handler of g_inh_timer, and the response. *)

\* A timer of g_inh_timer expires and starts a thread.
Expire(h) ==
  /\ fate = "running"
  /\ armed[h] = Inh
  /\ testing + counting < MaxHandler
  /\ testing' = testing + 1
  /\ UNCHANGED <<timerVars, link, callback, counting, g_inh_count, due, sent>>

GiveUp_KeepsTimer ==
  /\ fate = "running"
  /\ testing > 0
  /\ g_inh_count >= 3
  /\ testing' = testing - 1
  /\ UNCHANGED <<timerVars, link, callback, counting, g_inh_count, due, sent>>

\* Three INHs without a response: the timer is stopped.
GiveUp ==
  /\ fate = "running"
  /\ testing > 0
  /\ g_inh_count >= 3
  /\ TimerStop(Inh)
  /\ testing' = testing - 1
  /\ UNCHANGED <<link, callback, counting, g_inh_count, due, sent>>

SendInh_NoTest ==
  /\ fate = "running"
  /\ testing > 0
  /\ sent' = sent + 1
  /\ testing' = testing - 1
  /\ counting' = counting + 1
  /\ UNCHANGED <<timerVars, link, callback, g_inh_count, due>>

\* g_controller.send(msg)
SendInh ==
  /\ fate = "running"
  /\ testing > 0
  /\ g_inh_count < 3
  /\ sent' = sent + 1
  /\ testing' = testing - 1
  /\ counting' = counting + 1
  /\ UNCHANGED <<timerVars, link, callback, g_inh_count, due>>

CountInh_Anytime ==
  /\ fate = "running"
  /\ g_inh_count < 3
  /\ g_inh_count' = g_inh_count + 1
  /\ counting' = counting - 1
  /\ UNCHANGED <<timerVars, link, callback, testing, due, sent>>

\* g_inh_count++
CountInh ==
  /\ fate = "running"
  /\ counting > 0
  /\ g_inh_count' = g_inh_count + 1
  /\ counting' = counting - 1
  /\ UNCHANGED <<timerVars, link, callback, testing, due, sent>>

Response_StopsState ==
  /\ fate = "running"
  /\ link[Up] # "closed"
  /\ TimerStop(State)
  /\ UNCHANGED appVars

\* on_cloud2veh_inh_res: as often as the peer likes, for as long as the
\* receive thread of the uplink may run.
Response ==
  /\ fate = "running"
  /\ link[Up] # "closed"
  /\ TimerStop(Inh)
  /\ UNCHANGED appVars

-----------------------------------------------------------------------------

Callback(c) ==
  \/ CreateTimer(c) \/ StartedTimer(c) \/ StopTimer(c)
  \/ Reset(c) \/ Halt(c) \/ Schedule(c)
Handler == GiveUp \/ SendInh \/ CountInh
AnyExpires == \E h \in Handle : Expire(h)

Next ==
  \/ Start \/ Response \/ Handler \/ AnyExpires
  \/ \E c \in Link : Connected(c) \/ Lost(c) \/ Callback(c)

Spec == Init /\ [][Next]_vars

\* Callbacks that began run on, timers expire, and of the handlers that began
\* always one runs on.
FairSpec ==
  /\ Spec
  /\ \A c \in Link : WF_vars(Callback(c))
  /\ WF_vars(Handler)
  /\ WF_vars(AnyExpires)

-----------------------------------------------------------------------------
(* Safety. *)

TypeOK ==
  /\ TimerTypeOK
  /\ link \in [Link -> {"closed", "open", "connected", "lost"}]
  /\ callback \in [Link -> Seq([timer : Timer \union {None},
       op : {"create", "started", "stop", "reset", "halt", "schedule"}])]
  /\ testing \in Nat
  /\ counting \in Nat
  /\ g_inh_count \in Nat
  /\ due \in BOOLEAN
  /\ sent \in Nat

Armed(t) == {h \in Handle : armed[h] = t}

\* Between two resets of g_inh_count no more than three INHs are sent (the
\* test in main.cc:31), plus one for each other handler that runs meanwhile,
\* because the count is raised only after the sending.
RetriesBounded == sent <= 2 + MaxHandler

\* The application has no timer when it reconnects and never two for one
\* Timer, whatever responses and handlers under way stop in between.
NoLeftoverTimer ==
  /\ \A t \in Timer : Cardinality(Armed(t)) <= 1
  /\ due => \A t \in Timer : Armed(t) = {}

\* Once the callback for its connection is done and until a loss, the
\* heartbeat and the state timer go on, unless a stop() has deleted through a
\* stale handle (which a second response is enough for).
TimersKept ==
  ~stale /\ (\A c \in Link : link[c] # "lost") =>
    /\ link[Down] = "connected" /\ callback[Down] = <<>> => Armed(Hb) # {}
    /\ link[Up] = "connected" /\ callback[Up] = <<>> => Armed(State) # {}

-----------------------------------------------------------------------------
(* Liveness. *)

\* The repetition of the INH ends, be it by a response, by a loss or because
\* the handler gives up, also when a response or a loss overlaps with that.
RetriesEnd == Armed(Inh) # {} ~> Armed(Inh) = {} \/ fate # "running"

=============================================================================
