--------------------------- MODULE SessionProofs ----------------------------
(***************************************************************************)
(* The types of Session, the bound on the INHs sent, and which timers run  *)
(* when, for any number of handlers at one time and any set of handles.    *)
(***************************************************************************)
EXTENDS Session, FiniteSetTheorems, SequenceTheorems, TLAPS

\* A step of a callback, as it waits in the variable callback.
CallbackStep ==
  [timer : Timer \union {None},
   op : {"create", "started", "stop", "reset", "halt", "schedule"}]

LEMMA ConnectedSteps ==
  ASSUME NEW c \in Link
  PROVE  WhenConnected(c) \in Seq(CallbackStep)
<1>1. {Hb, State, Inh} \subseteq Timer
  BY SessionAssumption
<1>2. \A t \in Timer : Do("create", t) \in CallbackStep /\ Do("started", t) \in CallbackStep
  BY DEF Do, CallbackStep
<1> QED
  BY <1>1, <1>2 DEF WhenConnected

LEMMA LostSteps ==
  ASSUME NEW c \in Link
  PROVE  WhenLost(c) \in Seq(CallbackStep)
<1>1. {Hb, State, Inh} \subseteq Timer
  BY SessionAssumption
<1>2. \A t \in Timer : Do("stop", t) \in CallbackStep
  BY DEF Do, CallbackStep
<1>3. /\ Do("reset", None) \in CallbackStep
      /\ Do("halt", None) \in CallbackStep
      /\ Do("schedule", None) \in CallbackStep
  BY DEF Do, CallbackStep
<1>4. /\ <<Do("stop", Hb), Do("stop", Inh), Do("stop", State)>> \in Seq(CallbackStep)
      /\ <<Do("stop", Hb), Do("stop", State), Do("stop", Inh)>> \in Seq(CallbackStep)
  BY <1>1, <1>2
<1>5. <<Do("reset", None), Do("halt", None), Do("schedule", None)>> \in Seq(CallbackStep)
  BY <1>3
<1> QED
  BY <1>4, <1>5 DEF WhenLost

LEMMA StopTypes ==
  ASSUME TimerTypeOK, NEW t, TimerStop(t)
  PROVE  TimerTypeOK'
<1>1. CASE stopped[t]
  BY <1>1 DEF TimerStop, TimerTypeOK, timerVars
<1>2. CASE ~stopped[t]
  <2>1. armed' \in [Handle -> Timer \union {None}]
    BY <1>2 DEF TimerStop, TimerTypeOK
  <2>2. stale' \in BOOLEAN
    BY <1>2 DEF TimerStop, TimerTypeOK
  <2>3. fate' \in {"running", "crashed"}
    BY <1>2 DEF TimerStop, TimerTypeOK
  <2> QED
    BY <1>2, <2>1, <2>2, <2>3 DEF TimerStop, TimerTypeOK
<1> QED
  BY <1>1, <1>2

LEMMA DoingTypes ==
  ASSUME TypeOK, NEW c \in Link, NEW op, Doing(c, op)
  PROVE  /\ callback' \in [Link -> Seq(CallbackStep)]
         /\ CallbackTimer(c) \in Timer \union {None}
<1>1. callback \in [Link -> Seq(CallbackStep)]
  BY DEF TypeOK, CallbackStep
<1>2. callback[c] # <<>>
  BY DEF Doing
<1>3. Tail(callback[c]) \in Seq(CallbackStep) /\ Head(callback[c]) \in CallbackStep
  BY <1>1, <1>2
<1>4. callback' = [callback EXCEPT ![c] = Tail(callback[c])]
  BY DEF Doing, Calls
<1>5. Head(callback[c]).timer \in Timer \union {None}
  BY <1>3 DEF CallbackStep
<1> QED
  BY <1>1, <1>3, <1>4, <1>5 DEF CallbackTimer

\* The callbacks hold only steps of the kinds that WhenConnected and WhenLost
\* are made of, and every variable of the timers and the application keeps its
\* type, whatever the order of callbacks, handlers and responses.
THEOREM TypeCorrect == Spec => []TypeOK
<1>1. Init => TypeOK
  <2> SUFFICES ASSUME Init PROVE TypeOK
    OBVIOUS
  <2>1. TimerTypeOK
    BY TimerAssumption DEF Init, TimerInit, TimerTypeOK
  <2>2. callback \in [Link -> Seq(CallbackStep)]
    BY DEF Init
  <2> QED
    BY <2>1, <2>2 DEF Init, TypeOK, CallbackStep
<1>2. TypeOK /\ [Next]_vars => TypeOK'
  <2> SUFFICES ASSUME TypeOK, [Next]_vars
               PROVE  TypeOK'
    OBVIOUS
  <2> USE DEF Link
  <2>0. TimerTypeOK /\ callback \in [Link -> Seq(CallbackStep)]
    BY DEF TypeOK, CallbackStep
  <2>1. TimerTypeOK /\ UNCHANGED timerVars => TimerTypeOK'
    BY DEF TimerTypeOK, timerVars
  <2>2. CASE UNCHANGED vars
    BY <2>0, <2>1, <2>2 DEF TypeOK, vars, appVars
  <2>3. CASE Start
    BY <2>0, <2>1, <2>3 DEF TypeOK, Start
  <2>4. CASE Response
    <3>1. TimerTypeOK'
      BY <2>0, <2>4, StopTypes DEF Response
    <3> QED
      BY <3>1, <2>4 DEF Response, TypeOK, appVars
  <2>5. CASE GiveUp
    <3>1. TimerTypeOK'
      BY <2>0, <2>5, StopTypes DEF GiveUp
    <3> QED
      BY <3>1, <2>5 DEF GiveUp, TypeOK
  <2>6. CASE SendInh
    BY <2>0, <2>1, <2>6 DEF SendInh, TypeOK
  <2>7. CASE CountInh
    BY <2>0, <2>1, <2>7 DEF CountInh, TypeOK
  <2>8. ASSUME NEW h \in Handle, Expire(h)
        PROVE  TypeOK'
    BY <2>0, <2>1, <2>8 DEF Expire, TypeOK
  <2>9. ASSUME NEW c \in Link, Connected(c)
        PROVE  TypeOK'
    <3>1. callback' \in [Link -> Seq(CallbackStep)]
      BY <2>0, <2>9, ConnectedSteps DEF Connected, Calls, TypeOK
    <3> QED
      BY <3>1, <2>0, <2>1, <2>9 DEF Connected, TypeOK, CallbackStep
  <2>10. ASSUME NEW c \in Link, Lost(c)
         PROVE  TypeOK'
    <3>1. callback' \in [Link -> Seq(CallbackStep)]
      BY <2>0, <2>10, LostSteps DEF Lost, Calls, TypeOK
    <3> QED
      BY <3>1, <2>0, <2>1, <2>10 DEF Lost, TypeOK, CallbackStep
  <2>11. ASSUME NEW c \in Link, Callback(c)
         PROVE  TypeOK'
    <3>1. CASE CreateTimer(c)
      <4>1. /\ callback' \in [Link -> Seq(CallbackStep)]
            /\ CallbackTimer(c) \in Timer \union {None}
        BY <3>1, DoingTypes DEF CreateTimer
      <4>2. TimerTypeOK'
        BY <3>1, <4>1, <2>0 DEF CreateTimer, TimerCreate, TimerTypeOK
      <4> QED
        BY <3>1, <4>1, <4>2 DEF CreateTimer, TypeOK, CallbackStep
    <3>2. CASE StartedTimer(c)
      <4>1. callback' \in [Link -> Seq(CallbackStep)]
        BY <3>2, DoingTypes DEF StartedTimer
      <4>2. TimerTypeOK'
        BY <3>2, <2>0 DEF StartedTimer, TimerStarted, TimerTypeOK
      <4> QED
        BY <3>2, <4>1, <4>2 DEF StartedTimer, TypeOK, CallbackStep
    <3>3. CASE StopTimer(c)
      <4>1. callback' \in [Link -> Seq(CallbackStep)]
        BY <3>3, DoingTypes DEF StopTimer
      <4>2. TimerTypeOK'
        BY <3>3, <2>0, StopTypes DEF StopTimer
      <4> QED
        BY <3>3, <4>1, <4>2 DEF StopTimer, TypeOK, CallbackStep
    <3>4. CASE Reset(c)
      <4>1. callback' \in [Link -> Seq(CallbackStep)]
        BY <3>4, DoingTypes DEF Reset
      <4> QED
        BY <3>4, <4>1, <2>0, <2>1 DEF Reset, TypeOK, CallbackStep
    <3>5. CASE Halt(c)
      <4>1. callback' \in [Link -> Seq(CallbackStep)]
        BY <3>5, DoingTypes DEF Halt
      <4> QED
        BY <3>5, <4>1, <2>0, <2>1 DEF Halt, TypeOK, CallbackStep
    <3>6. CASE Schedule(c)
      <4>1. callback' \in [Link -> Seq(CallbackStep)]
        BY <3>6, DoingTypes DEF Schedule
      <4> QED
        BY <3>6, <4>1, <2>0, <2>1 DEF Schedule, TypeOK, CallbackStep
    <3> QED
      BY <2>11, <3>1, <3>2, <3>3, <3>4, <3>5, <3>6 DEF Callback
  <2> QED
    BY <2>2, <2>3, <2>4, <2>5, <2>6, <2>7, <2>8, <2>9, <2>10, <2>11
       DEF Next, Handler, AnyExpires
<1> QED
  BY <1>1, <1>2, PTL DEF Spec

-----------------------------------------------------------------------------

\* An INH that was sent has been counted or its handler is about to count it.
\* The handlers that straddle a reset make the left side larger, never smaller.
Counted == sent <= g_inh_count + counting

SentInv ==
  /\ RetriesBounded
  /\ Counted
  /\ testing + counting <= MaxHandler

\* However many handlers of the INH timer run at one time, and however resets
\* of the count fall between their steps, no more than 2 + MaxHandler INHs are
\* sent between two resets.
THEOREM RetriesBoundedAlways == Spec => []RetriesBounded
<1>1. Init => SentInv
  BY SessionAssumption DEF Init, SentInv, RetriesBounded, Counted
<1>2. TypeOK /\ SentInv /\ [Next]_vars => SentInv'
  <2> SUFFICES ASSUME TypeOK, SentInv, [Next]_vars
               PROVE  SentInv'
    OBVIOUS
  <2> USE DEF SentInv, RetriesBounded, Counted
  <2>0. /\ MaxHandler \in Nat \ {0}
        /\ testing \in Nat /\ counting \in Nat /\ g_inh_count \in Nat /\ sent \in Nat
    BY SessionAssumption DEF TypeOK
  <2>1. CASE UNCHANGED <<testing, counting, g_inh_count, sent>>
    BY <2>1
  <2>2. CASE GiveUp
    BY <2>0, <2>2 DEF GiveUp
  <2>3. CASE SendInh
    BY <2>0, <2>3 DEF SendInh
  <2>4. CASE CountInh
    BY <2>0, <2>4 DEF CountInh
  <2>5. ASSUME NEW h \in Handle, Expire(h)
        PROVE  SentInv'
    BY <2>0, <2>5 DEF Expire
  <2>6. ASSUME NEW c \in Link, Reset(c)
        PROVE  SentInv'
    BY <2>0, <2>6 DEF Reset
  <2>7. ASSUME NEW c \in Link, Callback(c), ~Reset(c)
        PROVE  UNCHANGED <<testing, counting, g_inh_count, sent>>
    BY <2>7 DEF Callback, CreateTimer, StartedTimer, StopTimer, Halt, Schedule
  <2>8. ASSUME NEW c \in Link, Connected(c) \/ Lost(c)
        PROVE  UNCHANGED <<testing, counting, g_inh_count, sent>>
    BY <2>8 DEF Connected, Lost
  <2>9. CASE Start \/ Response \/ UNCHANGED vars
    BY <2>1, <2>9 DEF Start, Response, vars, appVars
  <2> QED
    BY <2>1, <2>2, <2>3, <2>4, <2>5, <2>6, <2>7, <2>8, <2>9 DEF Next, Handler, AnyExpires
<1>3. SentInv => RetriesBounded
  BY DEF SentInv
<1> QED
  BY <1>1, <1>2, <1>3, TypeCorrect, PTL DEF Spec

-----------------------------------------------------------------------------
(* The timers over a connection's life.  The session is in one of four       *)
(* phases, and in each of them the callbacks' remaining steps tell which     *)
(* timers there may be and, while no stale handle was deleted, must be.      *)

Left(c) == Len(callback[c])

\* The callback for a connection, before each of its steps and at its end.
UpConnecting ==
  {<<Do("create", Inh), Do("started", Inh), Do("create", State), Do("started", State)>>,
   <<Do("started", Inh), Do("create", State), Do("started", State)>>,
   <<Do("create", State), Do("started", State)>>,
   <<Do("started", State)>>,
   <<>>}
DownConnecting ==
  {<<Do("create", Hb), Do("started", Hb)>>, <<Do("started", Hb)>>, <<>>}

\* The callback for a loss, before each of its steps up to halt; it stops the
\* Timers t, u and v in this order.
Stopping(t, u, v) ==
  {<<Do("stop", t), Do("stop", u), Do("stop", v), Do("reset", None), Do("halt", None), Do("schedule", None)>>,
   <<Do("stop", u), Do("stop", v), Do("reset", None), Do("halt", None), Do("schedule", None)>>,
   <<Do("stop", v), Do("reset", None), Do("halt", None), Do("schedule", None)>>,
   <<Do("reset", None), Do("halt", None), Do("schedule", None)>>,
   <<Do("halt", None), Do("schedule", None)>>}

\* A timer, once made, is known to its Timer by the handle it has.
Named == \A h \in Handle, t \in Timer : armed[h] = t => timer_[t] = h

\* The callback for a connection has created t, has come to the end of start().
Created(t) ==
  \/ t = Hb /\ link[Down] = "connected" /\ Left(Down) < 2
  \/ t = Inh /\ link[Up] = "connected" /\ Left(Up) < 4
  \/ t = State /\ link[Up] = "connected" /\ Left(Up) < 2
Started(t) ==
  \/ t = Hb /\ link[Down] = "connected" /\ Left(Down) < 1
  \/ t = Inh /\ link[Up] = "connected" /\ Left(Up) < 3
  \/ t = State /\ link[Up] = "connected" /\ Left(Up) < 1

\* The links are being connected or are up.
Working ==
  /\ ~due
  /\ \A c \in Link : link[c] # "lost" /\ (link[c] # "connected" => callback[c] = <<>>)
  /\ callback[Up] \in UpConnecting
  /\ callback[Down] \in DownConnecting
  /\ \A t \in Timer :
       /\ Armed(t) # {} => Created(t)
       /\ Created(t) /\ t # Inh /\ ~stale => Armed(t) # {}
       /\ Started(t) => ~stopped[t]

\* The callback for the loss of c has yet to stop t.
YetToStop(c, t) ==
  \/ t = Hb /\ Left(c) > 5
  \/ t = Inh /\ Left(c) > (IF c = Up THEN 4 ELSE 3)
  \/ t = State /\ Left(c) > (IF c = Up THEN 3 ELSE 4)

Losing(c) ==
  /\ ~due
  /\ link[c] = "lost"
  /\ \A d \in Link : d # c => link[d] # "lost" /\ callback[d] = <<>>
  /\ callback[c] \in IF c = Up THEN Stopping(Hb, Inh, State) ELSE Stopping(Hb, State, Inh)
  /\ \A t \in Timer : Armed(t) # {} => ~stopped[t] /\ YetToStop(c, t)

\* Both links are closed and the application has no timer: stop() has returned
\* in the callback of c, or a start() is due.
NoTimer == \A t \in Timer : Armed(t) = {}
Cleared == NoTimer /\ \A c \in Link : link[c] = "closed"
Halted(c) ==
  /\ ~due /\ Cleared
  /\ callback[c] = <<Do("schedule", None)>>
  /\ \A d \in Link : d # c => callback[d] = <<>>
Waiting == due /\ Cleared /\ \A c \in Link : callback[c] = <<>>

Phase ==
  \/ Working
  \/ \E c \in Link : Losing(c) \/ Halted(c)
  \/ Waiting
TimersInv == Named /\ Phase

-----------------------------------------------------------------------------
(* The Timers and the scripts. *)

LEMMA TimersDiffer ==
  /\ Hb # State /\ Hb # Inh /\ State # Inh
  /\ Timer = {Hb, State, Inh}
<1>1. ASSUME NEW x, NEW y PROVE Timer # {x, y}
  <2>1. IsFiniteSet({x}) /\ Cardinality({x}) = 1
    BY FS_Singleton
  <2>2. {x} \cup {y} = {x, y}
    OBVIOUS
  <2>3. Cardinality({x} \cup {y}) = IF y \in {x} THEN 1 ELSE 1 + 1
    BY <2>1, FS_AddElement
  <2>4. Cardinality({x, y}) # 3
    BY <2>2, <2>3
  <2>5. Cardinality(Timer) = 3
    BY SessionAssumption
  <2> QED
    BY <2>4, <2>5
<1>2. /\ Hb = State => Timer = {Hb, Inh}
      /\ Hb = Inh => Timer = {Hb, State}
      /\ State = Inh => Timer = {Hb, State}
  BY SessionAssumption
<1> QED
  BY <1>1, <1>2, SessionAssumption

\* The callback for a connection of the uplink makes the timer of the INH and
\* then that of the state messages.
LEMMA UpScript ==
  ASSUME NEW s \in UpConnecting, s # <<>>
  PROVE  /\ Tail(s) \in UpConnecting /\ Len(Tail(s)) = Len(s) - 1
         /\ \/ Head(s) = Do("create", Inh) /\ Len(s) = 4
            \/ Head(s) = Do("started", Inh) /\ Len(s) = 3
            \/ Head(s) = Do("create", State) /\ Len(s) = 2
            \/ Head(s) = Do("started", State) /\ Len(s) = 1
<1>1. CASE s = <<Do("create", Inh), Do("started", Inh), Do("create", State), Do("started", State)>>
  BY <1>1 DEF UpConnecting
<1>2. CASE s = <<Do("started", Inh), Do("create", State), Do("started", State)>>
  BY <1>2 DEF UpConnecting
<1>3. CASE s = <<Do("create", State), Do("started", State)>>
  BY <1>3 DEF UpConnecting
<1>4. CASE s = <<Do("started", State)>>
  BY <1>4 DEF UpConnecting
<1> QED
  BY <1>1, <1>2, <1>3, <1>4 DEF UpConnecting

LEMMA DownScript ==
  ASSUME NEW s \in DownConnecting, s # <<>>
  PROVE  /\ Tail(s) \in DownConnecting /\ Len(Tail(s)) = Len(s) - 1
         /\ \/ Head(s) = Do("create", Hb) /\ Len(s) = 2
            \/ Head(s) = Do("started", Hb) /\ Len(s) = 1
<1>1. CASE s = <<Do("create", Hb), Do("started", Hb)>>
  BY <1>1 DEF DownConnecting
<1>2. CASE s = <<Do("started", Hb)>>
  BY <1>2 DEF DownConnecting
<1> QED
  BY <1>1, <1>2 DEF DownConnecting

LEMMA StoppingScript ==
  ASSUME NEW t, NEW u, NEW v, NEW s \in Stopping(t, u, v)
  PROVE  /\ s # <<>>
         /\ Len(Tail(s)) = Len(s) - 1
         /\ Len(s) > 2 => Tail(s) \in Stopping(t, u, v)
         /\ Len(s) = 2 => Tail(s) = <<Do("schedule", None)>>
         /\ \/ Head(s) = Do("stop", t) /\ Len(s) = 6
            \/ Head(s) = Do("stop", u) /\ Len(s) = 5
            \/ Head(s) = Do("stop", v) /\ Len(s) = 4
            \/ Head(s) = Do("reset", None) /\ Len(s) = 3
            \/ Head(s) = Do("halt", None) /\ Len(s) = 2
<1>1. CASE s = <<Do("stop", t), Do("stop", u), Do("stop", v), Do("reset", None), Do("halt", None), Do("schedule", None)>>
  BY <1>1 DEF Stopping
<1>2. CASE s = <<Do("stop", u), Do("stop", v), Do("reset", None), Do("halt", None), Do("schedule", None)>>
  BY <1>2 DEF Stopping
<1>3. CASE s = <<Do("stop", v), Do("reset", None), Do("halt", None), Do("schedule", None)>>
  BY <1>3 DEF Stopping
<1>4. CASE s = <<Do("reset", None), Do("halt", None), Do("schedule", None)>>
  BY <1>4 DEF Stopping
<1>5. CASE s = <<Do("halt", None), Do("schedule", None)>>
  BY <1>5 DEF Stopping
<1> QED
  BY <1>1, <1>2, <1>3, <1>4, <1>5 DEF Stopping

LEMMA Joined ==
  ASSUME NEW S, NEW a \in S, NEW b \in S, NEW c \in S, NEW d \in S, NEW e \in S, NEW f \in S
  PROVE  <<a, b, c>> \o <<d, e, f>> = <<a, b, c, d, e, f>>
<1> DEFINE left == <<a, b, c>>
           right == <<d, e, f>>
           whole == <<a, b, c, d, e, f>>
<1>1. left \in Seq(S) /\ Len(left) = 3 /\ right \in Seq(S) /\ Len(right) = 3
  OBVIOUS
<1>2. whole \in Seq(S) /\ Len(whole) = 6
  OBVIOUS
<1>3. /\ left \o right \in Seq(S) /\ Len(left \o right) = 6
      /\ \A i \in 1..6 : (left \o right)[i] = IF i <= 3 THEN left[i] ELSE right[i - 3]
  <2> HIDE DEF left, right
  <2>1. /\ left \o right \in Seq(S)
        /\ Len(left \o right) = Len(left) + Len(right)
        /\ \A i \in 1..Len(left) + Len(right) :
             (left \o right)[i] = IF i <= Len(left) THEN left[i] ELSE right[i - Len(left)]
    BY <1>1, ConcatProperties, Zenon
  <2>2. Len(left) + Len(right) = 6
    BY <1>1
  <2> QED
    BY <1>1, <2>1, <2>2
<1>4. /\ left[1] = a /\ left[2] = b /\ left[3] = c
      /\ right[1] = d /\ right[2] = e /\ right[3] = f
  OBVIOUS
<1>5. \A i \in 1..6 : whole[i] = IF i <= 3 THEN left[i] ELSE right[i - 3]
  <2>1. /\ whole[1] = a /\ whole[2] = b /\ whole[3] = c
        /\ whole[4] = d /\ whole[5] = e /\ whole[6] = f
    OBVIOUS
  <2> HIDE DEF left, right, whole
  <2> QED
    BY <2>1, <1>4
<1> HIDE DEF left, right, whole
<1>6. left \o right = whole
  <2>1. \A i \in 1..Len(left \o right) : (left \o right)[i] = whole[i]
    BY <1>3, <1>5
  <2>2. Len(left \o right) = Len(whole)
    BY <1>2, <1>3
  <2> QED
    BY <1>2, <1>3, <2>1, <2>2, SeqEqual, Zenon
<1> QED
  BY <1>6 DEF left, right, whole

\* The callback for a loss starts with all its six steps before it.
LEMMA LostScript ==
  ASSUME NEW c \in Link
  PROVE  /\ WhenLost(c) \in IF c = Up THEN Stopping(Hb, Inh, State) ELSE Stopping(Hb, State, Inh)
         /\ Len(WhenLost(c)) = 6
<1>1. /\ \A t \in Timer : Do("stop", t) \in CallbackStep
      /\ Do("reset", None) \in CallbackStep
      /\ Do("halt", None) \in CallbackStep
      /\ Do("schedule", None) \in CallbackStep
  BY DEF Do, CallbackStep
<1>2. Hb \in Timer /\ State \in Timer /\ Inh \in Timer
  BY SessionAssumption
<1>3. CASE c = Up
  <2>1. WhenLost(c) = <<Do("stop", Hb), Do("stop", Inh), Do("stop", State),
                        Do("reset", None), Do("halt", None), Do("schedule", None)>>
    BY <1>1, <1>2, <1>3, Joined DEF WhenLost
  <2> QED
    BY <2>1, <1>3 DEF Stopping
<1>4. CASE c # Up
  <2>1. WhenLost(c) = <<Do("stop", Hb), Do("stop", State), Do("stop", Inh),
                        Do("reset", None), Do("halt", None), Do("schedule", None)>>
    BY <1>1, <1>2, <1>4, Joined DEF WhenLost
  <2> QED
    BY <2>1, <1>4 DEF Stopping
<1> QED
  BY <1>3, <1>4

\* stop() deletes the timer of t, unless it is ignored, and another one only
\* through a stale handle.
LEMMA StopEffect ==
  ASSUME TimerTypeOK, Named, NEW t \in Timer, TimerStop(t)
  PROVE  /\ Named'
         /\ UNCHANGED stopped
         /\ \A u \in Timer : Armed(u)' \subseteq Armed(u)
         /\ ~stopped[t] => Armed(t)' = {}
         /\ ~stale' => ~stale /\ \A u \in Timer : u # t => Armed(u)' = Armed(u)
<1>1. CASE stopped[t]
  BY <1>1 DEF TimerStop, timerVars, Named, Armed
<1>2. CASE ~stopped[t]
  <2>1. /\ armed' = [armed EXCEPT ![timer_[t]] = None]
        /\ stale' = (stale \/ armed[timer_[t]] # t)
        /\ UNCHANGED <<stopped, timer_>>
    BY <1>2 DEF TimerStop
  <2>2. None \notin Timer
    BY TimerAssumption
  <2>3. \A h \in Handle : armed'[h] = IF h = timer_[t] THEN None ELSE armed[h]
    BY <2>1 DEF TimerTypeOK
  <2>4. Named'
    BY <2>1, <2>2, <2>3 DEF Named
  <2>5. \A u \in Timer : Armed(u)' \subseteq Armed(u)
    BY <2>2, <2>3 DEF Armed
  <2>6. Armed(t)' = {}
    BY <2>2, <2>3 DEF Armed, Named
  <2>7. ~stale' => ~stale /\ \A u \in Timer : u # t => Armed(u)' = Armed(u)
    <3> SUFFICES ASSUME ~stale' PROVE ~stale /\ \A u \in Timer : u # t => Armed(u)' = Armed(u)
      OBVIOUS
    <3>1. ~stale /\ armed[timer_[t]] = t
      BY <2>1
    <3> QED
      BY <3>1, <2>2, <2>3 DEF Armed
  <2> QED
    BY <2>1, <2>4, <2>5, <2>6, <2>7
<1> QED
  BY <1>1, <1>2

\* start() gives a Timer that has none a timer, and touches no other.
LEMMA CreateEffect ==
  ASSUME TimerTypeOK, Named, NEW t \in Timer, Armed(t) = {}, TimerCreate(t)
  PROVE  /\ Named'
         /\ UNCHANGED <<stopped, stale>>
         /\ Armed(t)' # {}
         /\ \A u \in Timer : u # t => Armed(u)' = Armed(u)
<1>1. PICK h \in Handle : /\ armed[h] = None
                          /\ armed' = [armed EXCEPT ![h] = t]
                          /\ timer_' = [timer_ EXCEPT ![t] = h]
  BY DEF TimerCreate
<1>2. None \notin Timer
  BY TimerAssumption
<1>3. /\ \A g \in Handle : armed'[g] = IF g = h THEN t ELSE armed[g]
      /\ \A u \in Timer : timer_'[u] = IF u = t THEN h ELSE timer_[u]
  BY <1>1 DEF TimerTypeOK
<1>4. Named'
  BY <1>3 DEF Named, Armed
<1>5. Armed(t)' # {}
  BY <1>3 DEF Armed
<1>6. \A u \in Timer : u # t => Armed(u)' = Armed(u)
  BY <1>1, <1>2, <1>3 DEF Armed
<1> QED
  BY <1>4, <1>5, <1>6 DEF TimerCreate

-----------------------------------------------------------------------------
(* The steps. *)

\* What a step of the callback of c, that takes op, does to the callbacks.
LEMMA DoingEffect ==
  ASSUME TypeOK, NEW c \in Link, NEW op, Doing(c, op)
  PROVE  /\ callback[c] # <<>>
         /\ Head(callback[c]).op = op
         /\ callback'[c] = Tail(callback[c])
         /\ \A d \in Link : d # c => callback'[d] = callback[d]
BY DEF TypeOK, Doing, Calls

LEMMA KeepStep ==
  ASSUME TimersInv, UNCHANGED <<timerVars, link, callback, due>>
  PROVE  TimersInv'
BY DEF TimersInv, Phase, Named, Working, Losing, Halted, Waiting, Cleared, NoTimer,
       YetToStop, Created, Started, Left, Armed, timerVars

\* The INH's timer may be stopped at any time: by the response, by its handler.
LEMMA StopInhStep ==
  ASSUME TypeOK, TimersInv, TimerStop(Inh), UNCHANGED <<link, callback, due>>
  PROVE  TimersInv'
<1>1. Inh \in Timer
  BY TimersDiffer
<1>2. /\ Named'
      /\ UNCHANGED stopped
      /\ \A u \in Timer : Armed(u)' \subseteq Armed(u)
      /\ ~stale' => ~stale /\ \A u \in Timer : u # Inh => Armed(u)' = Armed(u)
  BY <1>1, StopEffect DEF TypeOK, TimersInv
<1>3. \A t \in Timer : Armed(t)' # {} => Armed(t) # {}
  BY <1>2
<1>4. \A t \in Timer : (Created(t)' <=> Created(t)) /\ (Started(t)' <=> Started(t))
  BY DEF Created, Started, Left
<1>5. Working => Working'
  BY <1>2, <1>3, <1>4 DEF Working
<1>6. \A c \in Link : Losing(c) => Losing(c)'
  BY <1>2, <1>3 DEF Losing, YetToStop, Left
<1>7. Cleared => Cleared'
  BY <1>3 DEF Cleared, NoTimer
<1> QED
  BY <1>2, <1>5, <1>6, <1>7 DEF TimersInv, Phase, Halted, Waiting

\* A callback for a connection starts its timers: each Timer's start() finds
\* none of its own.
LEMMA WorkingStep ==
  ASSUME TypeOK, Named, Working, NEW c \in Link, Callback(c)
  PROVE  Named' /\ Working'
<1>1. Up # Down /\ Up \in Link /\ Down \in Link
  BY SessionAssumption DEF Link
<1>2. TimerTypeOK /\ link \in [Link -> {"closed", "open", "connected", "lost"}]
      /\ callback \in [Link -> Seq(CallbackStep)]
  BY DEF TypeOK, CallbackStep
<1>3. PICK op : Doing(c, op)
  BY DEF Callback, CreateTimer, StartedTimer, StopTimer, Reset, Halt, Schedule
<1>4. /\ callback[c] # <<>>
      /\ callback'[c] = Tail(callback[c])
      /\ \A d \in Link : d # c => callback'[d] = callback[d]
  BY <1>3, DoingEffect
<1>5. link[c] = "connected"
  BY <1>4 DEF Working
<1>6. /\ callback'[Up] \in UpConnecting
      /\ callback'[Down] \in DownConnecting
      /\ Left(c)' = Left(c) - 1
      /\ \A d \in Link : d # c => Left(d)' = Left(d)
      /\ \/ c = Up /\ Head(callback[c]) = Do("create", Inh) /\ Left(c) = 4
         \/ c = Up /\ Head(callback[c]) = Do("started", Inh) /\ Left(c) = 3
         \/ c = Up /\ Head(callback[c]) = Do("create", State) /\ Left(c) = 2
         \/ c = Up /\ Head(callback[c]) = Do("started", State) /\ Left(c) = 1
         \/ c = Down /\ Head(callback[c]) = Do("create", Hb) /\ Left(c) = 2
         \/ c = Down /\ Head(callback[c]) = Do("started", Hb) /\ Left(c) = 1
  <2>1. CASE c = Up
    BY <1>1, <1>4, <2>1, UpScript DEF Working, Left
  <2>2. CASE c = Down
    BY <1>1, <1>4, <2>2, DownScript DEF Working, Left
  <2> QED
    BY <2>1, <2>2 DEF Link
<1>7. \A d \in Link : Left(d) \in Nat
  BY <1>2 DEF Left
<1>8. CreateTimer(c) \/ StartedTimer(c)
  <2>1. Head(callback[c]).op \in {"create", "started"}
    BY <1>6 DEF Do
  <2> QED
    BY <2>1 DEF Callback, StopTimer, Reset, Halt, Schedule, Doing
<1>9. UNCHANGED <<link, due>>
  BY <1>8 DEF CreateTimer, StartedTimer
<1>10. ~due' /\ \A d \in Link : link'[d] # "lost" /\ (link'[d] # "connected" => callback'[d] = <<>>)
  BY <1>4, <1>5, <1>9 DEF Working
<1>11. PICK t \in Timer : t = CallbackTimer(c)
  BY <1>6, TimersDiffer DEF CallbackTimer, Do
<1>12. ASSUME NEW u \in Timer, u # t
       PROVE  (Created(u)' <=> Created(u)) /\ (Started(u)' <=> Started(u))
  BY <1>1, <1>5, <1>6, <1>7, <1>9, <1>11, <1>12, TimersDiffer
     DEF Created, Started, CallbackTimer, Do
<1>13. CASE CreateTimer(c)
  <2>1. ~Created(t) /\ Created(t)' /\ ~Started(t)'
    <3>1. Head(callback[c]).op = "create"
      BY <1>13 DEF CreateTimer, Doing
    <3> QED
      BY <3>1, <1>1, <1>5, <1>6, <1>7, <1>9, <1>11, TimersDiffer
         DEF Created, Started, CallbackTimer, Do
  <2>2. Armed(t) = {}
    BY <2>1 DEF Working
  <2>3. TimerCreate(t)
    BY <1>11, <1>13 DEF CreateTimer
  <2>4. /\ Named'
        /\ UNCHANGED <<stopped, stale>>
        /\ Armed(t)' # {}
        /\ \A u \in Timer : u # t => Armed(u)' = Armed(u)
    BY <1>2, <2>2, <2>3, CreateEffect
  <2> QED
    BY <1>6, <1>10, <1>12, <2>1, <2>4 DEF Working
<1>14. CASE StartedTimer(c)
  <2>1. Created(t) /\ Created(t)'
    <3>1. Head(callback[c]).op = "started"
      BY <1>14 DEF StartedTimer, Doing
    <3> QED
      BY <3>1, <1>1, <1>5, <1>6, <1>7, <1>9, <1>11, TimersDiffer
         DEF Created, CallbackTimer, Do
  <2>2. /\ stopped' = [stopped EXCEPT ![t] = FALSE]
        /\ UNCHANGED <<timer_, armed, stale>>
    BY <1>11, <1>14 DEF StartedTimer, TimerStarted
  <2>3. ~stopped'[t] /\ \A u \in Timer : u # t => stopped'[u] = stopped[u]
    BY <1>2, <2>2 DEF TimerTypeOK
  <2>4. Named' /\ \A u \in Timer : Armed(u)' = Armed(u)
    BY <2>2 DEF Named, Armed
  <2> QED
    BY <1>6, <1>10, <1>12, <2>1, <2>2, <2>3, <2>4 DEF Working
<1> QED
  BY <1>8, <1>13, <1>14

\* The callback for a loss stops the Timers one by one, then halts the links.
LEMMA LosingStep ==
  ASSUME TypeOK, Named, NEW c \in Link, Losing(c), NEW d \in Link, Callback(d)
  PROVE  Named' /\ (Losing(c)' \/ Halted(c)')
<1>1. Up # Down /\ Up \in Link /\ Down \in Link
  BY SessionAssumption DEF Link
<1>2. TimerTypeOK /\ callback \in [Link -> Seq(CallbackStep)]
  BY DEF TypeOK, CallbackStep
<1>3. PICK op : Doing(d, op)
  BY DEF Callback, CreateTimer, StartedTimer, StopTimer, Reset, Halt, Schedule
<1>4. d = c
  BY <1>3, DoingEffect DEF Losing
<1>5. /\ callback'[c] = Tail(callback[c])
      /\ \A e \in Link : e # c => callback'[e] = <<>>
  BY <1>3, <1>4, DoingEffect DEF Losing
<1> DEFINE second == IF c = Up THEN Inh ELSE State
           third == IF c = Up THEN State ELSE Inh
<1>6. callback[c] \in Stopping(Hb, second, third)
  BY DEF Losing
<1>7. /\ Left(c)' = Left(c) - 1
      /\ Left(c) > 2 => callback'[c] \in Stopping(Hb, second, third)
      /\ Left(c) = 2 => callback'[c] = <<Do("schedule", None)>>
      /\ \/ Head(callback[c]) = Do("stop", Hb) /\ Left(c) = 6
         \/ Head(callback[c]) = Do("stop", second) /\ Left(c) = 5
         \/ Head(callback[c]) = Do("stop", third) /\ Left(c) = 4
         \/ Head(callback[c]) = Do("reset", None) /\ Left(c) = 3
         \/ Head(callback[c]) = Do("halt", None) /\ Left(c) = 2
  <2> HIDE DEF second, third
  <2>1. /\ Len(Tail(callback[c])) = Len(callback[c]) - 1
        /\ Len(callback[c]) > 2 => Tail(callback[c]) \in Stopping(Hb, second, third)
        /\ Len(callback[c]) = 2 => Tail(callback[c]) = <<Do("schedule", None)>>
        /\ \/ Head(callback[c]) = Do("stop", Hb) /\ Len(callback[c]) = 6
           \/ Head(callback[c]) = Do("stop", second) /\ Len(callback[c]) = 5
           \/ Head(callback[c]) = Do("stop", third) /\ Len(callback[c]) = 4
           \/ Head(callback[c]) = Do("reset", None) /\ Len(callback[c]) = 3
           \/ Head(callback[c]) = Do("halt", None) /\ Len(callback[c]) = 2
    BY <1>6, StoppingScript
  <2> QED
    BY <1>5, <2>1 DEF Left
<1>8. StopTimer(c) \/ Reset(c) \/ Halt(c)
  <2>1. Head(callback[c]).op \in {"stop", "reset", "halt"}
    BY <1>7 DEF Do
  <2> QED
    BY <2>1, <1>4 DEF Callback, CreateTimer, StartedTimer, Schedule, Doing
<1>9. CASE StopTimer(c)
  <2>1. Head(callback[c]).op = "stop" /\ UNCHANGED <<link, due>>
    BY <1>9 DEF StopTimer, Doing
  <2>2. callback'[c] \in Stopping(Hb, second, third)
    BY <1>7, <2>1 DEF Do
  <2>3. /\ \/ CallbackTimer(c) = Hb /\ Left(c) = 6
           \/ CallbackTimer(c) = second /\ Left(c) = 5
           \/ CallbackTimer(c) = third /\ Left(c) = 4
    BY <1>7, <2>1 DEF Do, CallbackTimer
  <2>4. PICK t \in Timer : t = CallbackTimer(c)
    BY <2>3, TimersDiffer
  <2>5. /\ Named'
        /\ UNCHANGED stopped
        /\ \A u \in Timer : Armed(u)' \subseteq Armed(u)
        /\ ~stopped[t] => Armed(t)' = {}
    <3>1. TimerStop(t)
      BY <1>9, <2>4 DEF StopTimer
    <3> QED
      BY <3>1, <1>2, StopEffect
  <2>6. Armed(t)' = {}
    BY <2>5 DEF Losing
  <2>7. \A u \in Timer : u # t /\ YetToStop(c, u) => YetToStop(c, u)'
    BY <1>7, <2>3, <2>4, TimersDiffer DEF YetToStop
  <2>8. \A u \in Timer : Armed(u)' # {} => ~stopped'[u] /\ YetToStop(c, u)'
    BY <2>5, <2>6, <2>7 DEF Losing
  <2>9. Losing(c)'
    BY <1>5, <2>1, <2>2, <2>8 DEF Losing
  <2> QED
    BY <2>5, <2>9
<1>10. \A u \in Timer : Left(c) < 4 => Armed(u) = {}
  BY <1>7 DEF Losing, YetToStop
<1>11. CASE Reset(c)
  <2>1. Head(callback[c]).op = "reset" /\ UNCHANGED <<stopped, timer_, armed, link, due>>
    BY <1>11 DEF Reset, Doing, timerVars
  <2>2. callback'[c] \in Stopping(Hb, second, third) /\ Left(c) = 3
    BY <1>7, <2>1 DEF Do
  <2>3. \A u \in Timer : Armed(u)' = {}
    BY <1>10, <2>1, <2>2 DEF Armed
  <2>4. Losing(c)'
    BY <1>5, <2>1, <2>2, <2>3 DEF Losing
  <2> QED
    BY <2>1, <2>4 DEF Named
<1>12. CASE Halt(c)
  <2>1. /\ Head(callback[c]).op = "halt"
        /\ UNCHANGED <<stopped, timer_, armed, due>>
        /\ link' = [e \in Link |-> "closed"]
    BY <1>12 DEF Halt, Doing, timerVars
  <2>2. Left(c) = 2
    BY <1>7, <2>1 DEF Do
  <2>3. callback'[c] = <<Do("schedule", None)>>
    BY <1>7, <2>2
  <2>4. \A u \in Timer : Armed(u)' = {}
    BY <1>10, <2>1, <2>2 DEF Armed
  <2>5. Halted(c)'
    BY <1>5, <2>1, <2>3, <2>4 DEF Halted, Cleared, NoTimer, Losing
  <2> QED
    BY <2>1, <2>5 DEF Named
<1> QED
  BY <1>8, <1>9, <1>11, <1>12

\* The callback for a loss ends: a start() is due.
LEMMA HaltedStep ==
  ASSUME TypeOK, Named, NEW c \in Link, Halted(c), NEW d \in Link, Callback(d)
  PROVE  Named' /\ Waiting'
<1>1. PICK op : Doing(d, op)
  BY DEF Callback, CreateTimer, StartedTimer, StopTimer, Reset, Halt, Schedule
<1>2. d = c
  BY <1>1, DoingEffect DEF Halted
<1>3. callback'[c] = <<>> /\ \A e \in Link : e # c => callback'[e] = <<>>
  <2>1. Tail(<<Do("schedule", None)>>) = <<>>
    OBVIOUS
  <2> QED
    BY <2>1, <1>1, <1>2, DoingEffect DEF Halted
<1>4. Head(callback[c]).op = "schedule"
  BY DEF Halted, Do
<1>5. Schedule(c)
  BY <1>2, <1>4 DEF Callback, CreateTimer, StartedTimer, StopTimer, Reset, Halt, Doing
<1>6. due' /\ UNCHANGED <<timer_, armed, link>>
  BY <1>5 DEF Schedule, timerVars
<1>7. Cleared'
  BY <1>6 DEF Halted, Cleared, NoTimer, Armed
<1> QED
  BY <1>3, <1>6, <1>7 DEF Named, Waiting

LEMMA ConnectedStep ==
  ASSUME TypeOK, TimersInv, NEW c \in Link, Connected(c)
  PROVE  TimersInv'
<1>1. Up # Down /\ Link = {Up, Down}
  BY SessionAssumption DEF Link
<1>2. /\ link \in [Link -> {"closed", "open", "connected", "lost"}]
      /\ callback \in [Link -> Seq(CallbackStep)]
  BY DEF TypeOK, CallbackStep
<1>3. /\ link[c] = "open"
      /\ \A d \in Link : link[d] # "lost"
      /\ link' = [link EXCEPT ![c] = "connected"]
      /\ callback' = [callback EXCEPT ![c] = WhenConnected(c)]
      /\ UNCHANGED <<stopped, timer_, armed, stale, due>>
  BY DEF Connected, Calls, timerVars
<1>4. Working
  BY <1>3 DEF TimersInv, Phase, Losing, Halted, Waiting, Cleared
<1>5. /\ link'[c] = "connected" /\ callback'[c] = WhenConnected(c)
      /\ \A d \in Link : d # c => link'[d] = link[d] /\ callback'[d] = callback[d]
  BY <1>2, <1>3
<1>6. /\ Len(WhenConnected(Up)) = 4 /\ WhenConnected(Up) \in UpConnecting
      /\ Len(WhenConnected(Down)) = 2 /\ WhenConnected(Down) \in DownConnecting
  BY <1>1 DEF WhenConnected, UpConnecting, DownConnecting
<1>7. \A t \in Timer : (Created(t)' <=> Created(t)) /\ (Started(t)' => Started(t))
  <2>1. CASE c = Up
    <3>1. link[Up] = "open" /\ Left(Up)' = 4
      BY <2>1, <1>3, <1>5, <1>6 DEF Left
    <3>2. link'[Down] = link[Down] /\ Left(Down)' = Left(Down)
      BY <2>1, <1>1, <1>5 DEF Left
    <3> QED
      BY <3>1, <3>2 DEF Created, Started
  <2>2. CASE c = Down
    <3>1. link[Down] = "open" /\ Left(Down)' = 2
      BY <2>2, <1>3, <1>5, <1>6 DEF Left
    <3>2. link'[Up] = link[Up] /\ Left(Up)' = Left(Up)
      BY <2>2, <1>1, <1>5 DEF Left
    <3> QED
      BY <3>1, <3>2 DEF Created, Started
  <2> QED
    BY <1>1, <2>1, <2>2
<1>8. \A t \in Timer : Armed(t)' = Armed(t)
  BY <1>3 DEF Armed
<1>9. callback'[Up] \in UpConnecting /\ callback'[Down] \in DownConnecting
  BY <1>1, <1>4, <1>5, <1>6 DEF Working
<1>10. Working'
  BY <1>3, <1>4, <1>5, <1>7, <1>8, <1>9 DEF Working
<1> QED
  BY <1>3, <1>10 DEF TimersInv, Phase, Named

\* A loss is reported when no callback runs: every Timer that has a timer has
\* come to the end of start(), so that stop() will not be ignored.
LEMMA LostStep ==
  ASSUME TypeOK, TimersInv, NEW c \in Link, Lost(c)
  PROVE  TimersInv'
<1>1. /\ link \in [Link -> {"closed", "open", "connected", "lost"}]
      /\ callback \in [Link -> Seq(CallbackStep)]
  BY DEF TypeOK, CallbackStep
<1>2. /\ link[c] \in {"open", "connected"}
      /\ \A d \in Link : callback[d] = <<>>
      /\ link' = [link EXCEPT ![c] = "lost"]
      /\ callback' = [callback EXCEPT ![c] = WhenLost(c)]
      /\ UNCHANGED <<stopped, timer_, armed, stale, due>>
  BY DEF Lost, Calls, timerVars
<1>3. Working
  <2>1. ASSUME NEW d \in Link PROVE ~Losing(d) /\ ~Halted(d)
    BY <1>2 DEF Losing, Halted, Stopping
  <2> QED
    BY <1>2, <2>1 DEF TimersInv, Phase, Waiting, Cleared
<1>4. /\ link'[c] = "lost" /\ callback'[c] = WhenLost(c)
      /\ \A d \in Link : d # c => link'[d] = link[d] /\ callback'[d] = <<>>
  BY <1>1, <1>2
<1>5. Left(c)' = 6
  BY <1>4, LostScript DEF Left
<1>6. \A t \in Timer : Armed(t)' = Armed(t) /\ stopped'[t] = stopped[t]
  BY <1>2 DEF Armed
<1>7. \A t \in Timer : Armed(t) # {} => ~stopped[t]
  <2>1. Left(Up) = 0 /\ Left(Down) = 0
    BY <1>2 DEF Left, Link
  <2>2. \A t \in Timer : Created(t) => Started(t)
    BY <2>1 DEF Created, Started
  <2> QED
    BY <2>2, <1>3 DEF Working
<1>8. \A t \in Timer : YetToStop(c, t)'
  BY <1>5, TimersDiffer DEF YetToStop
<1>9. Losing(c)'
  BY <1>2, <1>3, <1>4, <1>6, <1>7, <1>8, LostScript DEF Losing, Working
<1> QED
  BY <1>2, <1>9 DEF TimersInv, Phase, Named

LEMMA StartStep ==
  ASSUME TypeOK, TimersInv, Start
  PROVE  TimersInv'
<1>1. /\ due /\ ~due'
      /\ link' \in [Link -> {"open", "closed"}]
      /\ UNCHANGED <<stopped, timer_, armed, stale, callback>>
  BY DEF Start, timerVars
<1>2. Waiting
  BY <1>1 DEF TimersInv, Phase, Working, Losing, Halted
<1>3. \A t \in Timer : Armed(t)' = {}
  BY <1>1, <1>2 DEF Waiting, Cleared, NoTimer, Armed
<1>4. \A d \in Link : link'[d] # "connected" /\ link'[d] # "lost" /\ callback'[d] = <<>>
  BY <1>1, <1>2 DEF Waiting
<1>5. \A t \in Timer : ~Created(t)' /\ ~Started(t)'
  BY <1>4 DEF Created, Started, Link
<1>6. Working'
  BY <1>1, <1>3, <1>4, <1>5 DEF Working, UpConnecting, DownConnecting, Link
<1> QED
  BY <1>1, <1>6 DEF TimersInv, Phase, Named

LEMMA TimersStep ==
  ASSUME TypeOK, TimersInv, [Next]_vars
  PROVE  TimersInv'
<1>1. CASE UNCHANGED <<timerVars, link, callback, due>>
  BY <1>1, KeepStep
<1>2. CASE Start
  BY <1>2, StartStep
<1>3. CASE Response
  BY <1>3, StopInhStep DEF Response, appVars
<1>4. CASE GiveUp
  BY <1>4, StopInhStep DEF GiveUp
<1>5. CASE SendInh \/ CountInh \/ AnyExpires \/ UNCHANGED vars
  BY <1>1, <1>5 DEF SendInh, CountInh, AnyExpires, Expire, vars, appVars
<1>6. ASSUME NEW c \in Link, Connected(c)
      PROVE  TimersInv'
  BY <1>6, ConnectedStep
<1>7. ASSUME NEW c \in Link, Lost(c)
      PROVE  TimersInv'
  BY <1>7, LostStep
<1>8. ASSUME NEW c \in Link, Callback(c)
      PROVE  TimersInv'
  <2>1. Named
    BY DEF TimersInv
  <2>2. CASE Working
    BY <1>8, <2>1, <2>2, WorkingStep DEF TimersInv, Phase
  <2>3. ASSUME NEW d \in Link, Losing(d)
        PROVE  TimersInv'
    BY <1>8, <2>1, <2>3, LosingStep DEF TimersInv, Phase
  <2>4. ASSUME NEW d \in Link, Halted(d)
        PROVE  TimersInv'
    BY <1>8, <2>1, <2>4, HaltedStep DEF TimersInv, Phase
  <2>5. ~Waiting
    BY <1>8 DEF Callback, CreateTimer, StartedTimer, StopTimer, Reset, Halt, Schedule, Doing, Waiting
  <2> QED
    BY <2>2, <2>3, <2>4, <2>5 DEF TimersInv, Phase
<1> QED
  BY <1>2, <1>3, <1>4, <1>5, <1>6, <1>7, <1>8 DEF Next, Handler

LEMMA TimersAlways == Spec => []TimersInv
<1>1. Init => TimersInv
  <2> SUFFICES ASSUME Init PROVE TimersInv
    OBVIOUS
  <2>1. \A h \in Handle : armed[h] \notin Timer
    BY TimerAssumption DEF Init, TimerInit
  <2>2. Waiting
    BY <2>1 DEF Init, Waiting, Cleared, NoTimer, Armed
  <2> QED
    BY <2>1, <2>2 DEF TimersInv, Phase, Named
<1>2. TypeOK /\ TimersInv /\ [Next]_vars => TimersInv'
  BY TimersStep
<1> QED
  BY <1>1, <1>2, TypeCorrect, PTL DEF Spec

\* However responses, handlers and the callbacks for connections interleave,
\* a Timer never has two timers, and main or a reconnection thread calls
\* start() with none, as long as a loss overlaps with no other report.
THEOREM NoLeftoverTimerAlways == Spec => []NoLeftoverTimer
<1>1. TypeOK /\ TimersInv => NoLeftoverTimer
  <2> SUFFICES ASSUME TypeOK, TimersInv PROVE NoLeftoverTimer
    OBVIOUS
  <2>1. ASSUME NEW t \in Timer PROVE Cardinality(Armed(t)) <= 1
    <3>1. \A h \in Armed(t) : h = timer_[t]
      BY <2>1 DEF TimersInv, Named, Armed
    <3>2. CASE Armed(t) = {}
      BY <3>2, FS_EmptySet
    <3>3. CASE Armed(t) # {}
      <4>1. Armed(t) = {timer_[t]}
        BY <3>1, <3>3
      <4> QED
        BY <4>1, FS_Singleton
    <3> QED
      BY <3>2, <3>3
  <2>2. due => \A t \in Timer : Armed(t) = {}
    BY DEF TimersInv, Phase, Working, Losing, Halted, Waiting, Cleared, NoTimer
  <2> QED
    BY <2>1, <2>2 DEF NoLeftoverTimer
<1> QED
  BY <1>1, TypeCorrect, TimersAlways, PTL

\* Responses and handlers that give up stop the timer of the INH and, as long as
\* no stale handle was deleted, never the heartbeat's or the state messages'.
THEOREM TimersKeptAlways == Spec => []TimersKept
<1>1. TimersInv => TimersKept
  <2> SUFFICES ASSUME TimersInv, ~stale, \A c \in Link : link[c] # "lost"
               PROVE  /\ link[Down] = "connected" /\ callback[Down] = <<>> => Armed(Hb) # {}
                      /\ link[Up] = "connected" /\ callback[Up] = <<>> => Armed(State) # {}
    BY DEF TimersKept
  <2>1. \A c \in Link : link[c] = "connected" => Working
    BY DEF TimersInv, Phase, Losing, Halted, Waiting, Cleared
  <2>2. Hb \in Timer /\ State \in Timer /\ Hb # Inh /\ State # Inh
    BY TimersDiffer
  <2> QED
    BY <2>1, <2>2 DEF Working, Created, Left, Link
<1> QED
  BY <1>1, TimersAlways, PTL

=============================================================================
