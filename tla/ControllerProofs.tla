-------------------------- MODULE ControllerProofs --------------------------
(***************************************************************************)
(* Proofs about Controller, for any number of threads that call start():   *)
(* the types, and, if losses come one at a time, that start() and stop()   *)
(* never overlap, never misuse a std::thread, and find what the other left.*)
(***************************************************************************)
EXTENDS Controller, FiniteSetTheorems, TLAPS

(* Type correctness. *)

NotifierPC == StopPC \union {"idle", "CONNECTED", "LOST", "invalid"}

\* The steps of start() keep the types.
LEMMA StartTypes ==
  ASSUME TypeOK, NEW s \in Starter, Start(s)
  PROVE  TypeOK'
<1> USE DEF TypeOK, StartAt, StartGoes, At, Idle, Link, StartPC, ReceiverPC, SenderPC,
            linkVars, threadVars
<1>1. CASE Awake(s)
  BY <1>1 DEF Awake
<1>2. CASE ClearFlag(s)
  BY <1>2 DEF ClearFlag
<1>3. CASE Open(s)
  <2> DEFINE c == starter[s].link
  <2>1. c \in Link
    OBVIOUS
  <2> HIDE DEF c
  <2>2. conn' \in [Link -> {"closed", "unconnected", "up", "lost", "shut"}]
    BY <1>3, <2>1 DEF Open, c
  <2>3. watched' \in [Link -> BOOLEAN] /\ orphan' \in [Link -> BOOLEAN]
    <3>1. CASE UNCHANGED <<watched, orphan>>
      BY <3>1
    <3>2. CASE /\ watched' = [watched EXCEPT ![c] = TRUE]
               /\ orphan' = [orphan EXCEPT ![c] = @ \/ watched[c]]
      BY <2>1, <3>2
    <3> QED
      BY <1>3, <3>1, <3>2 DEF Open, c
  <2>4. receiver' \in [Link -> ReceiverPC] /\ news' \in [Link -> {"none", "heard", "owed"}]
    BY <1>3, <2>1 DEF Open, c
  <2>5. starter' \in [Starter -> [link : Link, pc : StartPC \union {"idle"}]]
    BY <1>3, <2>1 DEF Open, c
  <2> QED
    BY <1>3, <2>2, <2>3, <2>4, <2>5 DEF Open
<1>4. CASE NewReceiver(s)
  BY <1>4 DEF NewReceiver
<1>5. CASE NewSender(s)
  BY <1>5 DEF NewSender, ThenDown
<1> QED
  BY <1>1, <1>2, <1>3, <1>4, <1>5 DEF Start

\* So do those of the receive and send threads and of the peer.
LEMMA WorkerTypes ==
  ASSUME TypeOK, NEW c \in Link,
         \/ ReceiveEnds(c) \/ ReceiveData(c) \/ SendLoop(c)
         \/ TakeWaits(c) \/ TakeSends(c) \/ Break(c)
  PROVE  TypeOK'
<1> USE DEF TypeOK, ReceiverPC, SenderPC, linkVars, threadVars
<1>1. CASE ReceiveEnds(c)
  BY <1>1 DEF ReceiveEnds
<1>2. CASE ReceiveData(c)
  BY <1>2 DEF ReceiveData
<1>3. CASE SendLoop(c)
  BY <1>3 DEF SendLoop, SenderGoes
<1>4. CASE TakeWaits(c)
  BY <1>4 DEF TakeWaits, SenderGoes
<1>5. CASE TakeSends(c)
  BY <1>5 DEF TakeSends, Send, SenderGoes
<1>6. CASE Break(c)
  BY <1>6 DEF Break
<1> QED
  BY <1>1, <1>2, <1>3, <1>4, <1>5, <1>6

\* And those of listen(): it writes CONNECTED or LOST.
LEMMA ListenTypes ==
  ASSUME TypeOK, NEW n \in Link, Listen(n)
  PROVE  TypeOK'
<1> USE DEF TypeOK, NotifierGoes, At, Idle, StopPC, linkVars, threadVars
<1>1. CASE Expire(n)
  <2>1. PICK v \in TcpState(conn[n]) : NotifierGoes(n, At(v, n))
    BY <1>1 DEF Expire
  <2>2. v \in {"CONNECTED", "LOST", "invalid"}
    BY <2>1 DEF TcpState
  <2>3. notifier' \in [Link -> [link : Link, pc : NotifierPC]]
    BY <2>1, <2>2 DEF NotifierPC
  <2> QED
    BY <1>1, <2>3 DEF Expire, NotifierPC
<1>2. CASE Report(n)
  <2>1. Verdict(n) \in {"CONNECTED", "LOST"}
    BY <1>2 DEF Report, Verdict
  <2>2. At("test", Up) \in [link : Link, pc : NotifierPC] /\ Idle \in [link : Link, pc : NotifierPC]
    BY DEF NotifierPC, Link
  <2>3. notifier' \in [Link -> [link : Link, pc : NotifierPC]]
    BY <1>2, <2>2 DEF Report, NotifierPC
  <2>4. state_' \in [Link -> {"CLOSED", "CONNECTED", "LOST"}]
    BY <1>2, <2>1 DEF Report
  <2>5. news' \in [Link -> {"none", "heard", "owed"}]
    BY <1>2 DEF Report
  <2> QED
    BY <1>2, <2>3, <2>4, <2>5 DEF Report, NotifierPC
<1> QED
  BY <1>1, <1>2 DEF Listen

\* And those of stop() and of the callback around it.
LEMMA StopTypes ==
  ASSUME TypeOK, NEW n \in Link, Stop(n)
  PROVE  TypeOK'
<1> USE DEF TypeOK, NotifierAt, NotifierGoes, At, Idle, Link, StopPC, StartPC,
            ReceiverPC, SenderPC, linkVars, threadVars
<1>0. notifier[n].link \in Link
  OBVIOUS
<1>1. CASE TestFlag(n)
  BY <1>1 DEF TestFlag
<1>2. CASE SetFlag(n)
  BY <1>2 DEF SetFlag
<1>3. CASE Close(n)
  <2>1. notifier' \in [Link -> [link : Link, pc : NotifierPC]]
    BY <1>0, <1>3 DEF Close, NotifierPC
  <2>2. watched' \in [Link -> BOOLEAN]
    <3>1. CASE watched' = watched
      BY <3>1
    <3>2. CASE watched' = [watched EXCEPT ![notifier[n].link] = FALSE]
      BY <1>0, <3>2
    <3> QED
      BY <1>3, <3>1, <3>2 DEF Close
  <2>3. conn' \in [Link -> {"closed", "unconnected", "up", "lost", "shut"}]
    BY <1>0, <1>3 DEF Close
  <2> QED
    BY <1>3, <2>1, <2>2, <2>3 DEF Close, NotifierPC
<1>4. CASE Release(n)
  BY <1>0, <1>4 DEF Release
<1>5. CASE JoinReceiver(n)
  BY <1>0, <1>5 DEF JoinReceiver, Send, SenderGoes
<1>6. CASE JoinSender(n)
  BY <1>0, <1>6 DEF JoinSender, ThenDown
<1>7. CASE Schedule(n)
  BY <1>7 DEF Schedule, StartGoes
<1> QED
  BY <1>1, <1>2, <1>3, <1>4, <1>5, <1>6, <1>7 DEF Stop

\* The types hold in every state, whether or not losses overlap.
THEOREM TypeCorrect == Spec => []TypeOK
<1>1. Init => TypeOK
  BY ControllerAssumption
     DEF Init, TypeOK, At, Idle, Link, StopPC, StartPC, ReceiverPC, SenderPC
<1>2. TypeOK /\ [Next]_vars => TypeOK'
  <2> SUFFICES ASSUME TypeOK, [Next]_vars PROVE TypeOK'
    OBVIOUS
  <2>1. CASE UNCHANGED vars
    BY <2>1 DEF TypeOK, vars, linkVars, threadVars
  <2> QED
    BY <2>1, StartTypes, WorkerTypes, ListenTypes, StopTypes DEF Next
<1> QED
  BY <1>1, <1>2, PTL DEF Spec

-----------------------------------------------------------------------------
(* The lifecycle, if losses come one at a time.  One thread at most is in    *)
(* start(), in stop() or about to call start(), and its place tells what the *)
(* flag, the thread handles, the sockets and the timers are.                 *)

\* start() has yet to open c, to create its receive thread, its send thread.
AwaitsOpen(at, c) ==
  \/ at.pc \in {"due", "clear"}
  \/ at = At("open", c)
  \/ at.link = Up /\ c = Down
AwaitsReceiver(at, c) == AwaitsOpen(at, c) \/ at = At("new_recv", c)
AwaitsSender(at, c) == AwaitsReceiver(at, c) \/ at = At("new_send", c)

\* stop() has finished with c, joined its receive thread, closed its socket.
Finished(at, c) ==
  \/ at.pc = "schedule"
  \/ c = Up /\ at.link = Down /\ at.pc \in {"close", "release", "join_recv", "join_send"}
ReceiverJoined(at, c) == Finished(at, c) \/ at = At("join_send", c)
Closed(at, c) == ReceiverJoined(at, c) \/ at = At("join_recv", c)

\* A link that has reported since open() is not CLOSED, for close() to skip.
Reported(c) == news[c] # "owed" /\ (news[c] = "heard" => state_[c] # "CLOSED")

\* What open() should find on a link that had reported before the stop().
LeftClean(c) == news[c] = "owed" => conn[c] = "closed" /\ ~watched[c]

\* s is the only such thread, in start() or waiting to call it.
Starting(s) ==
  /\ starter[s].pc # "idle"
  /\ \A r \in Starter : r # s => starter[r] = Idle
  /\ \A n \in Link : ~Stopping(n)
  /\ stopped <=> starter[s].pc \in {"due", "clear"}
  /\ \A c \in Link :
       /\ receiver[c] = "none" <=> AwaitsReceiver(starter[s], c)
       /\ sender[c] = "none" <=> AwaitsSender(starter[s], c)
       /\ IF AwaitsOpen(starter[s], c) THEN LeftClean(c) ELSE Reported(c)

\* What stop() has done for a link that had reported before it set the flag.
CloseOwes(at, c) ==
  IF at.pc \in {"test", "set"} THEN Reported(c)
  ELSE IF Closed(at, c) THEN LeftClean(c)
  ELSE IF at = At("release", c) THEN news[c] = "owed" => ~watched[c]
  ELSE news[c] = "owed" => state_[c] # "CLOSED"

\* n is the only such thread, in stop() or about to schedule a reconnection.
StoppingAlone(n) ==
  /\ Stopping(n)
  /\ \A m \in Link : m # n => ~Stopping(m)
  /\ \A s \in Starter : starter[s] = Idle
  /\ stopped <=> notifier[n].pc \notin {"test", "set"}
  /\ \A c \in Link :
       /\ receiver[c] = "none" <=> ReceiverJoined(notifier[n], c)
       /\ sender[c] = "none" <=> Finished(notifier[n], c)
       /\ CloseOwes(notifier[n], c)

\* There is none: the controller is running.
Running ==
  /\ AllQuiet
  /\ ~stopped
  /\ \A c \in Link : receiver[c] # "none" /\ sender[c] # "none" /\ Reported(c)

Lifecycle ==
  /\ fate # "terminated"
  /\ \/ Running
     \/ \E s \in Starter : Starting(s)
     \/ \E n \in Link : StoppingAlone(n)

\* What a step outside start() and stop() leaves as the lifecycle needs it.
Undisturbed ==
  /\ fate' # "terminated"
  /\ UNCHANGED <<stopped, starter, watched>>
  /\ \A n \in Link :
       /\ Stopping(n)' <=> Stopping(n)
       /\ Stopping(n) => notifier'[n] = notifier[n]
  /\ \A c \in Link :
       /\ receiver'[c] = "none" <=> receiver[c] = "none"
       /\ sender'[c] = "none" <=> sender[c] = "none"
       /\ conn[c] = "closed" => conn'[c] = "closed"
       /\ state_'[c] = state_[c] \/ state_'[c] # "CLOSED"
       /\ \/ news'[c] = news[c]
          \/ news[c] = "none" /\ news'[c] = "heard" /\ state_'[c] # "CLOSED"

LEMMA UndisturbedLifecycle ==
  ASSUME TypeOK, Lifecycle, Undisturbed
  PROVE  Lifecycle'
<1>1. fate' # "terminated"
  BY DEF Undisturbed
<1>2. \A c \in Link : /\ Reported(c) => Reported(c)'
                      /\ LeftClean(c) => LeftClean(c)'
  BY DEF Undisturbed, Reported, LeftClean
<1>3. \A c \in Link : (news[c] = "owed" => state_[c] # "CLOSED")
                        => (news[c] = "owed" => state_[c] # "CLOSED")'
  BY DEF Undisturbed
<1>4. \A c \in Link : (news[c] = "owed" => ~watched[c])
                        => (news[c] = "owed" => ~watched[c])'
  BY DEF Undisturbed
<1>5. CASE Running
  <2>1. Running'
    BY <1>2, <1>5 DEF Running, AllQuiet, Undisturbed
  <2> QED
    BY <1>1, <2>1 DEF Lifecycle
<1>6. ASSUME NEW s \in Starter, Starting(s)
      PROVE  Lifecycle'
  <2>1. Starting(s)'
    BY <1>2, <1>6 DEF Starting, Undisturbed, AwaitsOpen, AwaitsReceiver, AwaitsSender
  <2> QED
    BY <1>1, <2>1 DEF Lifecycle
<1>7. ASSUME NEW n \in Link, StoppingAlone(n)
      PROVE  Lifecycle'
  <2>1. notifier'[n] = notifier[n] /\ Stopping(n)' /\ \A m \in Link : m # n => ~Stopping(m)'
    BY <1>7 DEF StoppingAlone, Undisturbed
  <2>2. \A c \in Link : CloseOwes(notifier[n], c)'
    BY <1>2, <1>3, <1>4, <1>7, <2>1
       DEF StoppingAlone, CloseOwes, Closed, ReceiverJoined, Finished
  <2>3. StoppingAlone(n)'
    BY <1>7, <2>1, <2>2 DEF StoppingAlone, Undisturbed, ReceiverJoined, Finished
  <2> QED
    BY <1>1, <2>3 DEF Lifecycle
<1> QED
  BY <1>5, <1>6, <1>7 DEF Lifecycle

\* The steps of the receive and send threads, and of the peer.
LEMMA WorkerLifecycle ==
  ASSUME TypeOK, Lifecycle, NEW c \in Link,
         \/ ReceiveEnds(c) \/ ReceiveData(c) \/ SendLoop(c)
         \/ TakeWaits(c) \/ TakeSends(c) \/ Break(c)
  PROVE  Lifecycle'
<1> USE DEF Undisturbed, TypeOK, linkVars, threadVars, Stopping
<1>0. fate # "terminated"
  BY DEF Lifecycle
<1>1. CASE ReceiveEnds(c)
  BY <1>0, <1>1, UndisturbedLifecycle DEF ReceiveEnds
<1>2. CASE ReceiveData(c)
  BY <1>0, <1>2, UndisturbedLifecycle DEF ReceiveData
<1>3. CASE SendLoop(c)
  BY <1>0, <1>3, UndisturbedLifecycle DEF SendLoop, SenderGoes
<1>4. CASE TakeWaits(c)
  BY <1>0, <1>4, UndisturbedLifecycle DEF TakeWaits, SenderGoes
<1>5. CASE TakeSends(c)
  BY <1>0, <1>5, UndisturbedLifecycle DEF TakeSends, Send, SenderGoes
<1>6. CASE Break(c)
  BY <1>0, <1>6, UndisturbedLifecycle DEF Break
<1> QED
  BY <1>1, <1>2, <1>3, <1>4, <1>5, <1>6

\* Only the report of a loss begins a stop(), and then there was no other
\* thread: the controller was running.
LEMMA ListenLifecycle ==
  ASSUME TypeOK, Lifecycle, OneLossAtATime, NEW n \in Link, Listen(n)
  PROVE  Lifecycle'
<1>0. fate # "terminated"
  BY DEF Lifecycle
<1>1. CASE Expire(n)
  <2>1. PICK v \in TcpState(conn[n]) : NotifierGoes(n, At(v, n))
    BY <1>1 DEF Expire
  <2>0. v \in {"CONNECTED", "LOST", "invalid"}
    BY <2>1 DEF TcpState, TypeOK
  <2>2. Undisturbed
    BY <1>0, <1>1, <2>0, <2>1
       DEF Expire, NotifierAt, NotifierGoes, At, Undisturbed, Stopping, StopPC, TypeOK,
           linkVars, threadVars
  <2> QED
    BY <2>2, UndisturbedLifecycle
<1>2. CASE Report(n) /\ (Verdict(n) = state_[n] \/ Verdict(n) # "LOST")
  <2>1. Verdict(n) \in {"CONNECTED", "LOST"} \/ Verdict(n) = state_[n]
    BY <1>2 DEF Report, Verdict
  <2>2. NotifierGoes(n, Idle) /\ ~Stopping(n)
    BY <1>2 DEF Report, Stopping, StopPC
  <2>3. \A m \in Link : /\ Stopping(m)' <=> Stopping(m)
                        /\ Stopping(m) => notifier'[m] = notifier[m]
    BY <2>2 DEF NotifierGoes, Idle, At, Stopping, StopPC, TypeOK
  <2>4. Undisturbed
    BY <1>0, <1>2, <2>1, <2>3 DEF Report, Undisturbed, TypeOK, threadVars
  <2> QED
    BY <2>4, UndisturbedLifecycle
<1>3. CASE Report(n) /\ Verdict(n) # state_[n] /\ Verdict(n) = "LOST"
  <2>1. AllQuiet
    BY <1>3 DEF Report
  <2>2. Running
    BY <2>1 DEF Lifecycle, AllQuiet, Starting, StoppingAlone, Idle, At
  <2>3. notifier' = [notifier EXCEPT ![n] = At("test", Up)]
    BY <1>3 DEF Report, NotifierGoes
  <2>4. Stopping(n)' /\ \A m \in Link : m # n => ~Stopping(m)'
    BY <2>1, <2>3 DEF AllQuiet, Stopping, StopPC, At, TypeOK
  <2>5. \A c \in Link : Reported(c)'
    BY <1>3, <2>2 DEF Report, Running, Reported, TypeOK
  <2>6. StoppingAlone(n)'
    BY <1>3, <2>1, <2>2, <2>3, <2>4, <2>5
       DEF StoppingAlone, Report, Running, AllQuiet, CloseOwes, ReceiverJoined, Finished, At,
           TypeOK, threadVars
  <2> QED
    BY <1>0, <1>3, <2>6 DEF Lifecycle, Report
<1> QED
  BY <1>1, <1>2, <1>3 DEF Listen

\* start() is run by the only thread there is, finds every handle free, and
\* ends with the controller running.
LEMMA StartLifecycle ==
  ASSUME TypeOK, Lifecycle, NEW s \in Starter, Start(s)
  PROVE  Lifecycle'
<1> USE DEF Link, linkVars, threadVars
<1>0. fate # "terminated" /\ fate = "running"
  BY DEF Lifecycle, Start, StartAt, Awake, ClearFlag, Open, NewReceiver, NewSender
<1>1. starter[s].pc \in StartPC
  BY DEF Start, StartAt, Awake, ClearFlag, Open, NewReceiver, NewSender, StartPC
<1>2. Starting(s)
  BY <1>1 DEF Lifecycle, Running, AllQuiet, Starting, StoppingAlone, Idle, At, StartPC
<1>3. /\ \A r \in Starter : r # s => starter[r] = Idle
      /\ \A n \in Link : ~Stopping(n)
  BY <1>2 DEF Starting
<1>4. CASE Awake(s)
  <2>1. Starting(s)'
    BY <1>2, <1>4
       DEF Awake, StartAt, StartGoes, Starting, AwaitsOpen, AwaitsReceiver, AwaitsSender,
           LeftClean, Stopping, At, TypeOK
  <2> QED
    BY <1>0, <1>4, <2>1 DEF Lifecycle, Awake
<1>5. CASE ClearFlag(s)
  <2>1. Starting(s)'
    BY <1>2, <1>5, ControllerAssumption
       DEF ClearFlag, StartAt, StartGoes, Starting, AwaitsOpen, AwaitsReceiver, AwaitsSender,
           LeftClean, Stopping, At, TypeOK
  <2> QED
    BY <1>0, <1>5, <2>1 DEF Lifecycle, ClearFlag
<1>6. CASE Open(s)
  <2>0. PICK c \in Link : c = starter[s].link
    BY DEF TypeOK
  <2>1. starter[s] = At("open", c) /\ starter'[s] = At("new_recv", c)
    BY <1>6, <2>0 DEF Open, StartAt, StartGoes, At, TypeOK
  <2>2. news'[c] = "none" /\ \A d \in Link : d # c => UNCHANGED <<news[d], conn[d], watched[d]>>
    BY <1>6, <2>0 DEF Open, TypeOK
  <2>3. \A d \in Link : receiver'[d] = "none" <=> receiver[d] = "none"
    BY <1>6, <2>0 DEF Open, TypeOK
  <2>4. Reported(c)'
    BY <2>2 DEF Reported
  <2>5. \A d \in Link : d # c => /\ Reported(d) => Reported(d)'
                                 /\ LeftClean(d) => LeftClean(d)'
    BY <1>6, <2>2 DEF Reported, LeftClean, Open
  <2>6. /\ ~AwaitsOpen(starter'[s], c)
        /\ \A d \in Link : d # c => (AwaitsOpen(starter'[s], d) <=> AwaitsOpen(starter[s], d))
        /\ \A d \in Link : /\ AwaitsReceiver(starter'[s], d) <=> AwaitsReceiver(starter[s], d)
                           /\ AwaitsSender(starter'[s], d) <=> AwaitsSender(starter[s], d)
    BY <2>1, ControllerAssumption DEF AwaitsOpen, AwaitsReceiver, AwaitsSender, At
  <2>7. Starting(s)'
    BY <1>2, <1>6, <2>1, <2>3, <2>4, <2>5, <2>6
       DEF Open, Starting, StartGoes, Stopping, At, TypeOK
  <2> QED
    BY <1>0, <1>6, <2>7 DEF Lifecycle, Open
<1>7. CASE NewReceiver(s)
  <2>0. PICK c \in Link : c = starter[s].link
    BY DEF TypeOK
  <2>1. starter[s] = At("new_recv", c)
    BY <1>7, <2>0 DEF NewReceiver, StartAt, At, TypeOK
  <2>2. receiver[c] = "none"
    BY <1>2, <2>1 DEF Starting, AwaitsReceiver
  <2>3. /\ receiver' = [receiver EXCEPT ![c] = "recv"]
        /\ starter' = [starter EXCEPT ![s] = At("new_send", c)]
        /\ UNCHANGED <<stopped, conn, watched, state_, notifier, sender, fate, news>>
    BY <1>7, <2>0, <2>2 DEF NewReceiver, StartGoes
  <2>4. \A d \in Link : /\ AwaitsOpen(starter'[s], d) <=> AwaitsOpen(starter[s], d)
                        /\ AwaitsReceiver(starter'[s], d) <=> AwaitsReceiver(starter[s], d) /\ d # c
                        /\ AwaitsSender(starter'[s], d) <=> AwaitsSender(starter[s], d)
    BY <2>1, <2>3, ControllerAssumption DEF AwaitsOpen, AwaitsReceiver, AwaitsSender, At, TypeOK
  <2>5. \A d \in Link : receiver'[d] = "none" <=> receiver[d] = "none" /\ d # c
    BY <2>1, <2>3 DEF TypeOK
  <2>6. Starting(s)'
    BY <1>2, <2>1, <2>3, <2>4, <2>5
       DEF Starting, LeftClean, Reported, Stopping, At, TypeOK
  <2> QED
    BY <1>0, <2>3, <2>6 DEF Lifecycle
<1>8. CASE NewSender(s)
  <2>0. PICK c \in Link : c = starter[s].link
    BY DEF TypeOK
  <2>1. starter[s] = At("new_send", c)
    BY <1>8, <2>0 DEF NewSender, StartAt, At, TypeOK
  <2>2. sender[c] = "none"
    BY <1>2, <2>1 DEF Starting, AwaitsSender
  <2>3. /\ sender' = [sender EXCEPT ![c] = "loop"]
        /\ starter' = [starter EXCEPT ![s] = IF c = Up THEN At("open", Down) ELSE Idle]
        /\ UNCHANGED <<stopped, conn, watched, state_, notifier, receiver, fate, news>>
    BY <1>8, <2>0, <2>2 DEF NewSender, StartGoes, ThenDown, Idle
  <2>4. ~stopped
    BY <1>2, <2>1 DEF Starting, At
  <2>5. \A d \in Link : sender'[d] = "none" <=> sender[d] = "none" /\ d # c
    BY <2>1, <2>3 DEF TypeOK
  <2>6. CASE c = Up
    <3>1. starter'[s] = At("open", Down)
      BY <2>3, <2>6 DEF TypeOK
    <3>2. \A d \in Link : /\ AwaitsOpen(starter'[s], d) <=> AwaitsOpen(starter[s], d)
                          /\ AwaitsReceiver(starter'[s], d) <=> AwaitsReceiver(starter[s], d)
                          /\ AwaitsSender(starter'[s], d) <=> AwaitsSender(starter[s], d) /\ d # c
      BY <2>1, <2>6, <3>1, ControllerAssumption DEF AwaitsOpen, AwaitsReceiver, AwaitsSender, At
    <3>3. Starting(s)'
      BY <1>2, <2>3, <2>4, <2>5, <3>1, <3>2
         DEF Starting, LeftClean, Reported, Stopping, At, TypeOK
    <3> QED
      BY <1>0, <2>3, <3>3 DEF Lifecycle
  <2>7. CASE c = Down
    <3>1. \A r \in Starter : starter'[r] = Idle
      BY <1>3, <2>3, <2>7, ControllerAssumption DEF TypeOK
    <3>2. \A d \in Link : /\ ~AwaitsOpen(starter[s], d) /\ ~AwaitsReceiver(starter[s], d)
                          /\ AwaitsSender(starter[s], d) => d = c
      BY <2>1, <2>7, ControllerAssumption DEF AwaitsOpen, AwaitsReceiver, AwaitsSender, At
    <3>3. \A d \in Link : receiver[d] # "none" /\ sender'[d] # "none" /\ Reported(d)
      BY <1>2, <2>5, <3>2 DEF Starting
    <3>4. Running'
      BY <1>3, <2>3, <2>4, <3>1, <3>3 DEF Running, AllQuiet, Reported, Stopping
    <3> QED
      BY <1>0, <2>3, <3>4 DEF Lifecycle
  <2> QED
    BY <2>1, <2>6, <2>7
<1> QED
  BY <1>4, <1>5, <1>6, <1>7, <1>8 DEF Start

\* stop() is run by the only thread there is, finds every thread to join, and
\* leaves the reconnection to the only thread that will call start().
LEMMA StopLifecycle ==
  ASSUME TypeOK, Lifecycle, NEW n \in Link, Stop(n)
  PROVE  Lifecycle'
<1> USE DEF Link, linkVars, threadVars
<1>0. fate # "terminated"
  BY DEF Lifecycle
<1>1. notifier[n].pc \in StopPC
  BY DEF Stop, NotifierAt, TestFlag, SetFlag, Close, Release, JoinReceiver, JoinSender,
         Schedule, StopPC
<1>2. StoppingAlone(n)
  BY <1>1 DEF Lifecycle, Running, AllQuiet, Starting, StoppingAlone, Stopping
<1>3. /\ \A m \in Link : m # n => notifier[m].pc \notin StopPC
      /\ \A s \in Starter : starter[s] = Idle
  BY <1>2 DEF StoppingAlone, Stopping
<1>4. ASSUME NEW there \in [link : Link, pc : StopPC],
             NotifierGoes(n, there), UNCHANGED starter
      PROVE  /\ notifier'[n] = there
             /\ Stopping(n)'
             /\ \A m \in Link : m # n => ~Stopping(m)'
             /\ \A s \in Starter : starter'[s] = Idle
  BY <1>3, <1>4 DEF NotifierGoes, Stopping, TypeOK
<1>5. CASE TestFlag(n)
  <2>1. ~stopped
    BY <1>2, <1>5 DEF TestFlag, NotifierAt, StoppingAlone
  <2>2. NotifierGoes(n, At("set", Up)) /\ At("set", Up) \in [link : Link, pc : StopPC]
    BY <1>5, <2>1 DEF TestFlag, At, StopPC
  <2>3. StoppingAlone(n)'
    BY <1>2, <1>4, <1>5, <2>1, <2>2
       DEF TestFlag, NotifierAt, StoppingAlone, CloseOwes, Reported, ReceiverJoined, Finished, At
  <2> QED
    BY <1>0, <1>5, <2>3 DEF Lifecycle, TestFlag
<1>6. CASE SetFlag(n)
  <2>1. NotifierGoes(n, At("close", Up)) /\ At("close", Up) \in [link : Link, pc : StopPC]
    BY <1>6 DEF SetFlag, At, StopPC
  <2>2. \A c \in Link : /\ ~ReceiverJoined(At("close", Up), c) /\ ~Finished(At("close", Up), c)
                        /\ ~Closed(At("close", Up), c)
    BY ControllerAssumption DEF Closed, ReceiverJoined, Finished, At
  <2>3. \A c \in Link : receiver[c] # "none" /\ sender[c] # "none" /\ Reported(c)
    BY <1>2, <1>6
       DEF SetFlag, NotifierAt, StoppingAlone, ReceiverJoined, Finished, CloseOwes, At
  <2>4. \A c \in Link : news'[c] = "owed" => state_'[c] # "CLOSED"
    BY <1>6, <2>3 DEF SetFlag, Reported, TypeOK
  <2>5. \A c \in Link : CloseOwes(notifier[n], c)'
    BY <1>4, <1>6, <2>1, <2>2, <2>4 DEF SetFlag, CloseOwes, At
  <2>6. StoppingAlone(n)'
    BY <1>4, <1>6, <2>1, <2>2, <2>3, <2>5 DEF SetFlag, StoppingAlone, At
  <2> QED
    BY <1>0, <1>6, <2>6 DEF Lifecycle, SetFlag
<1>7. CASE Close(n)
  <2>0. PICK c \in Link : c = notifier[n].link
    BY DEF TypeOK
  <2>1. notifier[n] = At("close", c)
    BY <1>7, <2>0 DEF Close, NotifierAt, At, TypeOK
  <2>2. PICK pc \in {"release", "join_recv"} :
          /\ NotifierGoes(n, At(pc, c))
          /\ pc = "join_recv" => state_[c] = "CLOSED" /\ UNCHANGED <<conn, watched>>
          /\ pc = "release" => ~watched'[c]
    BY <1>7, <2>0 DEF Close, TypeOK
  <2>3. At(pc, c) \in [link : Link, pc : StopPC]
    BY DEF At, StopPC
  <2>4. \A d \in Link : /\ ReceiverJoined(At(pc, c), d) <=> ReceiverJoined(notifier[n], d)
                        /\ Finished(At(pc, c), d) <=> Finished(notifier[n], d)
                        /\ d # c => (Closed(At(pc, c), d) <=> Closed(notifier[n], d))
                        /\ ~Closed(notifier[n], c)
                        /\ Closed(At(pc, c), c) <=> pc = "join_recv"
    BY <2>1, ControllerAssumption DEF Closed, ReceiverJoined, Finished, At
  <2>5. \A d \in Link : d # c => UNCHANGED <<conn[d], watched[d]>>
    BY <1>7, <2>0 DEF Close, TypeOK
  <2>6. \A d \in Link : CloseOwes(notifier[n], d)
    BY <1>2 DEF StoppingAlone
  <2>7. news[c] = "owed" => state_[c] # "CLOSED"
    BY <2>1, <2>4, <2>6 DEF CloseOwes, At
  <2>8. CloseOwes(At(pc, c), c)'
    BY <1>7, <2>2, <2>4, <2>7 DEF Close, CloseOwes, LeftClean, At
  <2>9. \A d \in Link : d # c => CloseOwes(At(pc, c), d)'
    BY <1>7, <2>1, <2>4, <2>5, <2>6 DEF Close, CloseOwes, LeftClean, At
  <2>10. UNCHANGED <<stopped, starter, receiver, sender, fate>>
    BY <1>7 DEF Close
  <2>11. StoppingAlone(n)'
    BY <1>2, <1>4, <2>1, <2>2, <2>3, <2>4, <2>8, <2>9, <2>10 DEF StoppingAlone, At
  <2> QED
    BY <1>0, <2>10, <2>11 DEF Lifecycle
<1>8. CASE Release(n)
  <2>0. PICK c \in Link : c = notifier[n].link
    BY DEF TypeOK
  <2>1. notifier[n] = At("release", c)
    BY <1>8, <2>0 DEF Release, NotifierAt, At, TypeOK
  <2>2. /\ NotifierGoes(n, At("join_recv", c))
        /\ conn' = [conn EXCEPT ![c] = "closed"]
        /\ state_' = [state_ EXCEPT ![c] = "CLOSED"]
        /\ UNCHANGED <<stopped, starter, watched, receiver, sender, fate, news>>
    BY <1>8, <2>0 DEF Release
  <2>3. At("join_recv", c) \in [link : Link, pc : StopPC]
    BY DEF At, StopPC
  <2>4. \A d \in Link : /\ ReceiverJoined(At("join_recv", c), d) <=> ReceiverJoined(notifier[n], d)
                        /\ Finished(At("join_recv", c), d) <=> Finished(notifier[n], d)
                        /\ d # c => (Closed(At("join_recv", c), d) <=> Closed(notifier[n], d))
                        /\ ~Closed(notifier[n], c)
                        /\ Closed(At("join_recv", c), c)
    BY <2>1, ControllerAssumption DEF Closed, ReceiverJoined, Finished, At
  <2>5. \A d \in Link : CloseOwes(notifier[n], d)
    BY <1>2 DEF StoppingAlone
  <2>6. news[c] = "owed" => ~watched[c]
    BY <2>1, <2>4, <2>5 DEF CloseOwes, At
  <2>7. CloseOwes(At("join_recv", c), c)'
    BY <2>2, <2>4, <2>6 DEF CloseOwes, LeftClean, At, TypeOK
  <2>8. \A d \in Link : d # c => CloseOwes(At("join_recv", c), d)'
    BY <2>1, <2>2, <2>4, <2>5 DEF CloseOwes, LeftClean, At, TypeOK
  <2>9. StoppingAlone(n)'
    BY <1>2, <1>4, <2>1, <2>2, <2>3, <2>4, <2>7, <2>8 DEF StoppingAlone, At
  <2> QED
    BY <1>0, <2>2, <2>9 DEF Lifecycle
<1>9. CASE JoinReceiver(n)
  <2>0. PICK c \in Link : c = notifier[n].link
    BY DEF TypeOK
  <2>1. notifier[n] = At("join_recv", c)
    BY <1>9, <2>0 DEF JoinReceiver, NotifierAt, At, TypeOK
  <2>2. receiver[c] # "none"
    BY <1>2, <2>1, ControllerAssumption DEF StoppingAlone, ReceiverJoined, Finished, At
  <2>3. /\ receiver' = [receiver EXCEPT ![c] = "none"]
        /\ NotifierGoes(n, At("join_send", c))
        /\ UNCHANGED <<stopped, conn, watched, state_, starter, news>>
    BY <1>9, <2>0, <2>2 DEF JoinReceiver
  <2>4. fate' # "terminated" /\ \A d \in Link : sender'[d] = "none" <=> sender[d] = "none"
    BY <1>0, <1>9, <2>0, <2>2 DEF JoinReceiver, Send, SenderGoes, TypeOK
  <2>5. At("join_send", c) \in [link : Link, pc : StopPC]
    BY DEF At, StopPC
  <2>6. \A d \in Link : /\ ReceiverJoined(At("join_send", c), d)
                             <=> ReceiverJoined(notifier[n], d) \/ d = c
                        /\ Finished(At("join_send", c), d) <=> Finished(notifier[n], d)
                        /\ Closed(At("join_send", c), d) <=> Closed(notifier[n], d)
    BY <2>1, ControllerAssumption DEF Closed, ReceiverJoined, Finished, At
  <2>7. \A d \in Link : CloseOwes(notifier[n], d)
    BY <1>2 DEF StoppingAlone
  <2>8. \A d \in Link : CloseOwes(At("join_send", c), d)'
    BY <2>1, <2>3, <2>6, <2>7 DEF CloseOwes, LeftClean, At
  <2>9. \A d \in Link : receiver'[d] = "none" <=> receiver[d] = "none" \/ d = c
    BY <2>3 DEF TypeOK
  <2>10. StoppingAlone(n)'
    BY <1>2, <1>4, <2>1, <2>3, <2>4, <2>5, <2>6, <2>8, <2>9 DEF StoppingAlone, At
  <2> QED
    BY <2>4, <2>10 DEF Lifecycle
<1>10. CASE JoinSender(n)
  <2>0. PICK c \in Link : c = notifier[n].link
    BY DEF TypeOK
  <2>1. notifier[n] = At("join_send", c)
    BY <1>10, <2>0 DEF JoinSender, NotifierAt, At, TypeOK
  <2>2. sender[c] # "none"
    BY <1>2, <2>1, ControllerAssumption DEF StoppingAlone, Finished, At
  <2> DEFINE there == ThenDown(c, "close", "schedule")
  <2>3. /\ sender' = [sender EXCEPT ![c] = "none"]
        /\ NotifierGoes(n, there)
        /\ UNCHANGED <<stopped, conn, watched, state_, starter, receiver, fate, news>>
    BY <1>10, <2>0, <2>2 DEF JoinSender
  <2>4. there \in [link : Link, pc : StopPC] /\ there.pc \in {"close", "schedule"}
    BY DEF ThenDown, At, StopPC
  <2>5. \A d \in Link : /\ ReceiverJoined(there, d) <=> ReceiverJoined(notifier[n], d)
                        /\ Finished(there, d) <=> Finished(notifier[n], d) \/ d = c
                        /\ Closed(there, d) <=> Closed(notifier[n], d)
    BY <2>1, ControllerAssumption DEF ThenDown, Closed, ReceiverJoined, Finished, At
  <2>6. \A d \in Link : CloseOwes(notifier[n], d)
    BY <1>2 DEF StoppingAlone
  <2>7. \A d \in Link : CloseOwes(there, d)'
    BY <2>1, <2>3, <2>4, <2>5, <2>6 DEF CloseOwes, LeftClean, At
  <2>8. \A d \in Link : sender'[d] = "none" <=> sender[d] = "none" \/ d = c
    BY <2>3 DEF TypeOK
  <2> HIDE DEF there
  <2>9. StoppingAlone(n)'
    BY <1>2, <1>4, <2>1, <2>3, <2>4, <2>5, <2>7, <2>8 DEF StoppingAlone, At
  <2> QED
    BY <1>0, <2>3, <2>9 DEF Lifecycle
<1>11. CASE Schedule(n)
  <2>1. notifier[n].pc = "schedule"
    BY <1>11 DEF Schedule, NotifierAt
  <2>2. PICK s \in Starter : starter' = [starter EXCEPT ![s] = At("due", Up)]
    BY <1>11 DEF Schedule, StartGoes
  <2>3. /\ notifier' = [notifier EXCEPT ![n] = Idle]
        /\ UNCHANGED <<stopped, conn, watched, state_, receiver, sender, fate, news>>
    BY <1>11 DEF Schedule, NotifierGoes
  <2>4. starter'[s] = At("due", Up) /\ \A r \in Starter : r # s => starter'[r] = Idle
    BY <1>3, <2>2 DEF TypeOK
  <2>5. \A m \in Link : ~Stopping(m)'
    BY <1>3, <2>3 DEF Stopping, StopPC, Idle, At, TypeOK
  <2>6. stopped /\ \A c \in Link : receiver[c] = "none" /\ sender[c] = "none" /\ LeftClean(c)
    BY <1>2, <2>1 DEF StoppingAlone, CloseOwes, Closed, ReceiverJoined, Finished
  <2>7. Starting(s)'
    BY <2>3, <2>4, <2>5, <2>6
       DEF Starting, AwaitsOpen, AwaitsReceiver, AwaitsSender, LeftClean, At
  <2> QED
    BY <1>0, <2>3, <2>7 DEF Lifecycle
<1> QED
  BY <1>5, <1>6, <1>7, <1>8, <1>9, <1>10, <1>11 DEF Stop

\* The lifecycle is an invariant if losses come one at a time.
LEMMA LifecycleAlways == Spec => [](OneLossAtATime => Lifecycle)
<1>1. Init => Lifecycle
  <2> SUFFICES ASSUME Init PROVE Lifecycle
    OBVIOUS
  <2>1. Starting(Main)
    BY ControllerAssumption
       DEF Init, Starting, AwaitsOpen, AwaitsReceiver, AwaitsSender, LeftClean, Stopping,
           StopPC, Idle, At
  <2> QED
    BY <2>1, ControllerAssumption DEF Init, Lifecycle
<1>2. TypeOK /\ (OneLossAtATime => Lifecycle) /\ [Next]_vars => (OneLossAtATime => Lifecycle)'
  <2> SUFFICES ASSUME TypeOK, OneLossAtATime, Lifecycle, [Next]_vars PROVE Lifecycle'
    OBVIOUS
  <2>1. CASE UNCHANGED vars
    <3>1. Undisturbed
      BY <2>1 DEF Lifecycle, Undisturbed, Stopping, vars, linkVars, threadVars
    <3> QED
      BY <3>1, UndisturbedLifecycle
  <2> QED
    BY <2>1, StartLifecycle, WorkerLifecycle, ListenLifecycle, StopLifecycle DEF Next
<1> QED
  BY <1>1, <1>2, TypeCorrect, PTL DEF Spec

-----------------------------------------------------------------------------

\* If losses come one at a time, std::terminate is never called: stop() joins
\* only threads that were started and start() assigns only over free handles.
THEOREM NoMisuseAlways == Spec => []NoMisuse
<1>1. (OneLossAtATime => Lifecycle) => NoMisuse
  BY DEF Lifecycle, NoMisuse
<1> QED
  BY <1>1, LifecycleAlways, PTL

\* If losses come one at a time, one thread at most is in start(), in stop()
\* or waiting to reconnect, however many threads may call start().
THEOREM OneAtATimeAlways == Spec => []OneAtATime
<1>1. (OneLossAtATime => Lifecycle) => OneAtATime
  <2> SUFFICES ASSUME Lifecycle
               PROVE  Cardinality({s \in Starter : starter[s] # Idle}
                                  \union {n \in Link : Stopping(n)}) <= 1
    BY DEF OneAtATime
  <2> DEFINE Busy == {s \in Starter : starter[s] # Idle} \union {n \in Link : Stopping(n)}
  <2>1. Busy = {} \/ \E x : Busy = {x}
    <3>1. CASE Running
      BY <3>1 DEF Running, AllQuiet
    <3>2. ASSUME NEW s \in Starter, Starting(s)
          PROVE  Busy = {s}
      BY <3>2 DEF Starting, Idle, At
    <3>3. ASSUME NEW n \in Link, StoppingAlone(n)
          PROVE  Busy = {n}
      BY <3>3 DEF StoppingAlone
    <3> QED
      BY <3>1, <3>2, <3>3 DEF Lifecycle
  <2> HIDE DEF Busy
  <2>2. Cardinality(Busy) \in {0, 1}
    <3>1. CASE Busy = {}
      BY <3>1, FS_EmptySet
    <3>2. CASE \E x : Busy = {x}
      BY <3>2, FS_Singleton
    <3> QED
      BY <2>1, <3>1, <3>2
  <2>3. Cardinality(Busy) <= 1
    BY <2>2
  <2> QED
    BY <2>3 DEF Busy
<1> QED
  BY <1>1, LifecycleAlways, PTL

\* If losses come one at a time, open() finds no thread of the link, and no
\* timer and no open socket of a link that had reported before the stop().
THEOREM CleanStartAlways == Spec => []CleanStart
<1>1. TypeOK /\ (OneLossAtATime => Lifecycle) => CleanStart
  <2> SUFFICES ASSUME TypeOK, Lifecycle, NEW s \in Starter, StartAt(s, "open"),
                      NEW c \in Link, c = starter[s].link
               PROVE  /\ receiver[c] = "none" /\ sender[c] = "none"
                      /\ news[c] = "owed" => conn[c] = "closed" /\ ~watched[c]
    BY DEF CleanStart, TypeOK
  <2>1. starter[s] = At("open", c)
    BY DEF StartAt, At, TypeOK
  <2>2. starter[s] # Idle
    BY <2>1 DEF Idle, At
  <2>3. Starting(s)
    BY <2>2 DEF Lifecycle, Running, AllQuiet, Starting, StoppingAlone
  <2> QED
    BY <2>1, <2>3 DEF Starting, AwaitsOpen, AwaitsReceiver, AwaitsSender, LeftClean, At
<1> QED
  BY <1>1, TypeCorrect, LifecycleAlways, PTL
-----------------------------------------------------------------------------
(* The threads give the application one service (module Reconnection). *)

\* The mapping, as operators of what it depends on.
Created == {"recv", "send"} \X Link
AliveIn(r, s) ==
  {<<"recv", c>> : c \in {d \in Link : r[d] # "none"}}
  \union {<<"send", c>> : c \in {d \in Link : s[d] # "none"}}
PhaseIn(f, ns, ss) ==
  IF f # "running" THEN f
  ELSE IF \E n \in Link : ns[n].pc \in StopPC THEN "stopping"
  ELSE IF \A s \in Starter : ss[s] = Idle THEN "running"
  ELSE IF \E s \in Starter : ss[s].pc = "due" THEN "due" ELSE "starting"

LEMMA Mapping ==
  /\ Threads = AliveIn(receiver, sender) /\ Threads' = AliveIn(receiver', sender')
  /\ Phase = PhaseIn(fate, notifier, starter) /\ Phase' = PhaseIn(fate', notifier', starter')
BY DEF Threads, AliveIn, Phase, PhaseIn, AllQuiet, Stopping

LEMMA AliveMember ==
  ASSUME NEW r, NEW s, NEW c \in Link
  PROVE  /\ <<"recv", c>> \in AliveIn(r, s) <=> r[c] # "none"
         /\ <<"send", c>> \in AliveIn(r, s) <=> s[c] # "none"
         /\ <<"recv", c>> \in Created /\ <<"send", c>> \in Created
BY DEF AliveIn, Created

LEMMA AliveAll ==
  ASSUME NEW r, NEW s
  PROVE  AliveIn(r, s) = Created <=> \A c \in Link : r[c] # "none" /\ s[c] # "none"
<1>1. AliveIn(r, s) \subseteq Created
  BY DEF AliveIn, Created
<1>2. ASSUME \A c \in Link : r[c] # "none" /\ s[c] # "none", NEW x \in Created
      PROVE  x \in AliveIn(r, s)
  <2>1. PICK c \in Link : x = <<"recv", c>> \/ x = <<"send", c>>
    BY DEF Created
  <2> QED
    BY <1>2, <2>1, AliveMember
<1>3. ASSUME AliveIn(r, s) = Created, NEW c \in Link
      PROVE  r[c] # "none" /\ s[c] # "none"
  BY <1>3, AliveMember
<1> QED
  BY <1>1, <1>2, <1>3

LEMMA AliveNone ==
  ASSUME NEW r, NEW s, \A c \in Link : r[c] = "none" /\ s[c] = "none"
  PROVE  AliveIn(r, s) = {}
BY DEF AliveIn

\* The handles that are none tell which threads there are.
SameNone(f, g) == \A d \in Link : g[d] = "none" <=> f[d] = "none"
Filled(f, g, c) == \A d \in Link : g[d] = "none" <=> f[d] = "none" /\ d # c
Emptied(f, g, c) == \A d \in Link : g[d] = "none" <=> f[d] = "none" \/ d = c

LEMMA AliveSame ==
  ASSUME NEW r, NEW s, NEW q, NEW t, SameNone(r, q), SameNone(s, t)
  PROVE  AliveIn(q, t) = AliveIn(r, s)
BY DEF AliveIn, SameNone

\* What the service is doing, by the lifecycle.
LEMMA PhaseIs ==
  ASSUME fate = "running"
  PROVE  /\ Running => Phase = "running"
         /\ \A s \in Starter : Starting(s) =>
              Phase = IF starter[s].pc = "due" THEN "due" ELSE "starting"
         /\ \A n \in Link : StoppingAlone(n) => Phase = "stopping"
BY DEF Phase, Running, Starting, StoppingAlone, AllQuiet, Idle, At

\* A step that keeps all of it is none of the service's.
LEMMA ServiceIdle ==
  ASSUME UNCHANGED <<fate, starter>>,
         \A n \in Link : notifier'[n].pc \in StopPC <=> notifier[n].pc \in StopPC,
         SameNone(receiver, receiver'), SameNone(sender, sender')
  PROVE  UNCHANGED Service!vars
<1>1. Threads' = Threads
  BY Mapping, AliveSame
<1>2. Phase' = Phase
  BY Mapping DEF PhaseIn
<1> QED
  BY <1>1, <1>2 DEF Service!vars

\* SIGPIPE ends the service only while it has a thread.
LEMMA ServiceKilled ==
  ASSUME Lifecycle, fate = "running", fate' = "killed", PipeKills,
         NEW c \in Link, sender[c] # "none"
  PROVE  Service!Kill
<1>1. Phase' = "killed"
  BY Mapping DEF PhaseIn
<1>2. Threads # {}
  BY Mapping, AliveMember
<1>3. Phase \in {"starting", "running", "stopping"}
  <2>1. ASSUME NEW s \in Starter, Starting(s) PROVE starter[s].pc # "due"
    BY <2>1 DEF Starting, AwaitsSender, AwaitsReceiver, AwaitsOpen
  <2> QED
    BY <2>1, PhaseIs DEF Lifecycle
<1> QED
  BY <1>1, <1>2, <1>3 DEF Service!Kill

LEMMA WorkerService ==
  ASSUME TypeOK, Lifecycle, NEW c \in Link,
         ReceiveEnds(c) \/ ReceiveData(c) \/ SendLoop(c) \/ TakeWaits(c)
           \/ TakeSends(c) \/ Break(c)
  PROVE  [Service!Next]_(Service!vars)
<1> USE DEF SameNone, TypeOK, linkVars, threadVars
<1>1. CASE ReceiveEnds(c)
  BY <1>1, ServiceIdle DEF ReceiveEnds
<1>2. CASE ReceiveData(c)
  BY <1>2, ServiceIdle DEF ReceiveData
<1>3. CASE SendLoop(c)
  BY <1>3, ServiceIdle DEF SendLoop, SenderGoes
<1>4. CASE TakeWaits(c)
  BY <1>4, ServiceIdle DEF TakeWaits, SenderGoes
<1>5. CASE TakeSends(c)
  <2>1. CASE SenderGoes(c, "loop")
    BY <1>5, <2>1, ServiceIdle DEF TakeSends, SenderGoes
  <2>2. CASE PipeKills /\ fate' = "killed" /\ UNCHANGED sender
    <3>1. sender[c] # "none" /\ fate = "running" /\ UNCHANGED receiver
      BY <1>5 DEF TakeSends
    <3>2. Service!Kill
      BY <2>2, <3>1, ServiceKilled
    <3>3. Threads' = Threads
      BY <2>2, <3>1 DEF Threads
    <3> QED
      BY <3>2, <3>3 DEF Service!Next
  <2> QED
    BY <1>5, <2>1, <2>2 DEF TakeSends, Send
<1>6. CASE Break(c)
  BY <1>6, ServiceIdle DEF Break
<1> QED
  BY <1>1, <1>2, <1>3, <1>4, <1>5, <1>6

\* Only the report of a loss that begins a stop() is the service's.
LEMMA ListenService ==
  ASSUME TypeOK, Lifecycle, OneLossAtATime, NEW n \in Link, Listen(n)
  PROVE  [Service!Next]_(Service!vars)
<1>1. CASE Expire(n)
  <2>1. PICK v \in TcpState(conn[n]) : NotifierGoes(n, At(v, n))
    BY <1>1 DEF Expire
  <2>2. v \in {"CONNECTED", "LOST", "invalid"}
    BY DEF TcpState, TypeOK
  <2>3. \A m \in Link : notifier'[m].pc \in StopPC <=> notifier[m].pc \in StopPC
    BY <1>1, <2>1, <2>2 DEF Expire, NotifierAt, NotifierGoes, StopPC, At, TypeOK
  <2> QED
    BY <1>1, <2>3, ServiceIdle DEF Expire, SameNone, threadVars
<1>2. CASE Report(n) /\ (Verdict(n) = state_[n] \/ Verdict(n) # "LOST")
  <2>1. NotifierGoes(n, Idle) /\ notifier[n].pc \notin StopPC
    BY <1>2 DEF Report, StopPC
  <2>2. \A m \in Link : notifier'[m].pc \in StopPC <=> notifier[m].pc \in StopPC
    BY <2>1 DEF NotifierGoes, StopPC, Idle, At, TypeOK
  <2> QED
    BY <1>2, <2>2, ServiceIdle DEF Report, SameNone, threadVars
<1>3. CASE Report(n) /\ Verdict(n) # state_[n] /\ Verdict(n) = "LOST"
  <2>1. AllQuiet /\ fate = "running"
    BY <1>3 DEF Report
  <2>2. Phase = "running"
    BY <2>1 DEF Phase, AllQuiet
  <2>3. notifier'[n].pc = "test" /\ fate' = "running"
    BY <1>3, <2>1 DEF Report, NotifierGoes, At, TypeOK
  <2>4. Phase' = "stopping"
    BY <2>3, Mapping DEF PhaseIn, StopPC
  <2>5. Threads' = Threads
    BY <1>3 DEF Report, threadVars, Threads
  <2> QED
    BY <2>2, <2>4, <2>5 DEF Service!Next, Service!Lose
<1> QED
  BY <1>1, <1>2, <1>3 DEF Listen

\* The thread that is in start() launches the service's threads, and the last
\* one completes it.
LEMMA StartService ==
  ASSUME TypeOK, Lifecycle, NEW s \in Starter, Start(s)
  PROVE  [Service!Next]_(Service!vars)
<1> USE DEF linkVars, threadVars
<1>0. fate = "running"
  BY DEF Start, StartAt, Awake, ClearFlag, Open, NewReceiver, NewSender
<1>1. starter[s].pc \in StartPC
  BY DEF Start, StartAt, Awake, ClearFlag, Open, NewReceiver, NewSender, StartPC
<1>2. Starting(s)
  BY <1>1 DEF Lifecycle, Running, AllQuiet, Starting, StoppingAlone, Idle, At, StartPC
<1>3. /\ \A r \in Starter : r # s => starter[r] = Idle
      /\ \A n \in Link : notifier[n].pc \notin StopPC
  BY <1>2 DEF Starting, Stopping
<1>4. Phase = IF starter[s].pc = "due" THEN "due" ELSE "starting"
  BY <1>0, <1>2, PhaseIs
\* The phase, when s has gone there.
<1>5. ASSUME NEW there, starter' = [starter EXCEPT ![s] = there], there.pc \in StartPC \ {"due"},
             UNCHANGED <<notifier, fate>>
      PROVE  Phase' = "starting"
  <2>1. starter'[s] = there /\ \A r \in Starter : r # s => starter'[r] = Idle
    BY <1>3, <1>5 DEF TypeOK
  <2>2. there # Idle /\ \A r \in Starter : starter'[r].pc # "due"
    BY <1>5, <2>1 DEF Idle, At, StartPC
  <2> QED
    BY <1>0, <1>3, <1>5, <2>1, <2>2, Mapping DEF PhaseIn
<1>6. CASE Awake(s)
  <2>1. Phase = "due"
    BY <1>4, <1>6 DEF Awake, StartAt
  <2>2. Phase' = "starting"
    BY <1>5, <1>6 DEF Awake, StartGoes, At, StartPC
  <2>3. Threads' = Threads
    BY <1>6 DEF Awake, Threads
  <2> QED
    BY <2>1, <2>2, <2>3 DEF Service!Next, Service!Awake
<1>7. CASE ClearFlag(s)
  <2>1. Phase = "starting"
    BY <1>4, <1>7 DEF ClearFlag, StartAt
  <2>2. Phase' = "starting"
    BY <1>5, <1>7 DEF ClearFlag, StartGoes, At, StartPC
  <2>3. Threads' = Threads
    BY <1>7 DEF ClearFlag, Threads
  <2> QED
    BY <2>1, <2>2, <2>3 DEF Service!vars
<1>8. CASE Open(s)
  <2>1. Phase = "starting"
    BY <1>4, <1>8 DEF Open, StartAt
  <2>2. Phase' = "starting"
    BY <1>5, <1>8 DEF Open, StartGoes, At, StartPC
  <2>3. SameNone(receiver, receiver') /\ SameNone(sender, sender')
    BY <1>8 DEF Open, SameNone, TypeOK
  <2>4. Threads' = Threads
    BY <2>3, Mapping, AliveSame
  <2> QED
    BY <2>1, <2>2, <2>4 DEF Service!vars
<1>9. CASE NewReceiver(s)
  <2>0. PICK c \in Link : c = starter[s].link
    BY DEF TypeOK
  <2>1. starter[s] = At("new_recv", c)
    BY <1>9, <2>0 DEF NewReceiver, StartAt, At, TypeOK
  <2>2. receiver[c] = "none" /\ sender[c] = "none"
    BY <1>2, <2>1 DEF Starting, AwaitsReceiver, AwaitsSender
  <2>3. /\ receiver' = [receiver EXCEPT ![c] = "recv"]
        /\ starter' = [starter EXCEPT ![s] = At("new_send", c)]
        /\ UNCHANGED <<notifier, sender, fate>>
    BY <1>9, <2>0, <2>2 DEF NewReceiver, StartGoes
  <2>4. Phase = "starting" /\ Phase' = "starting"
    <3>1. Phase = "starting"
      BY <1>4, <2>1 DEF At
    <3>2. At("new_send", c).pc \in StartPC \ {"due"}
      BY DEF At, StartPC
    <3>3. Phase' = "starting"
      BY <1>5, <2>3, <3>2, Zenon
    <3> QED
      BY <3>1, <3>3
  <2>5. Threads' = Threads \union {<<"recv", c>>}
    <3>1. Filled(receiver, receiver', c) /\ SameNone(sender, sender')
      BY <2>3 DEF Filled, SameNone, TypeOK
    <3>2. AliveIn(receiver', sender') = AliveIn(receiver, sender) \union {<<"recv", c>>}
      BY <3>1 DEF AliveIn, SameNone, Filled
    <3> QED
      BY <3>2, Mapping, Zenon
  <2>6. <<"recv", c>> \in Created \ Threads
    BY <2>2, Mapping, AliveMember
  <2>7. Threads' # Created
    BY <2>2, <2>3, Mapping, AliveAll
  <2>8. Service!Launch
    BY <2>4, <2>5, <2>6, <2>7 DEF Service!Launch, Created
  <2> QED
    BY <2>8 DEF Service!Next
<1>10. CASE NewSender(s)
  <2>0. PICK c \in Link : c = starter[s].link
    BY DEF TypeOK
  <2>1. starter[s] = At("new_send", c)
    BY <1>10, <2>0 DEF NewSender, StartAt, At, TypeOK
  <2>2. sender[c] = "none"
    BY <1>2, <2>1 DEF Starting, AwaitsSender
  <2>3. /\ sender' = [sender EXCEPT ![c] = "loop"]
        /\ starter' = [starter EXCEPT ![s] = IF c = Up THEN At("open", Down) ELSE Idle]
        /\ UNCHANGED <<notifier, receiver, fate>>
    BY <1>10, <2>0, <2>2 DEF NewSender, StartGoes, ThenDown, Idle
  <2>4. Phase = "starting"
    BY <1>4, <2>1 DEF At
  <2>5. Threads' = Threads \union {<<"send", c>>}
    <3>1. SameNone(receiver, receiver') /\ Filled(sender, sender', c)
      BY <2>3 DEF Filled, SameNone, TypeOK
    <3>2. AliveIn(receiver', sender') = AliveIn(receiver, sender) \union {<<"send", c>>}
      BY <3>1 DEF AliveIn, SameNone, Filled
    <3> QED
      BY <3>2, Mapping, Zenon
  <2>6. <<"send", c>> \in Created \ Threads
    BY <2>2, Mapping, AliveMember
  <2>7. CASE c = Up
    <3>1. Phase' = "starting"
      <4>1. At("open", Down).pc \in StartPC \ {"due"}
        BY DEF At, StartPC
      <4>2. starter' = [starter EXCEPT ![s] = At("open", Down)]
        BY <2>3, <2>7
      <4> QED
        BY <1>5, <2>3, <4>1, <4>2, Zenon
    <3>2. receiver[Down] = "none"
      BY <1>2, <2>1, <2>7, ControllerAssumption
         DEF Starting, AwaitsReceiver, AwaitsOpen, Link, At
    <3>3. Threads' # Created
      BY <2>3, <3>2, Mapping, AliveAll DEF Link
    <3>4. Service!Launch
      BY <2>4, <2>5, <2>6, <3>1, <3>3 DEF Service!Launch, Created
    <3> QED
      BY <3>4 DEF Service!Next
  <2>8. CASE c = Down
    <3>1. \A r \in Starter : starter'[r] = Idle
      BY <1>3, <2>3, <2>8, ControllerAssumption DEF TypeOK
    <3>2. Phase' = "running"
      BY <1>0, <1>3, <2>3, <3>1, Mapping DEF PhaseIn
    <3>3. \A d \in Link : ~AwaitsReceiver(starter[s], d) /\ (AwaitsSender(starter[s], d) => d = c)
      BY <2>1, <2>8, ControllerAssumption DEF AwaitsOpen, AwaitsReceiver, AwaitsSender, At
    <3>4. \A d \in Link : receiver'[d] # "none" /\ sender'[d] # "none"
      BY <1>2, <2>3, <3>3 DEF Starting, TypeOK
    <3>5. Threads' = Created
      BY <3>4, Mapping, AliveAll
    <3>6. Service!Launch
      BY <2>4, <2>5, <2>6, <3>2, <3>5 DEF Service!Launch, Created
    <3> QED
      BY <3>6 DEF Service!Next
  <2> QED
    BY <2>0, <2>7, <2>8 DEF Link
<1> QED
  BY <1>6, <1>7, <1>8, <1>9, <1>10 DEF Start

\* The thread that is in stop() joins the service's threads, and when it has
\* joined them all the next start is due.
LEMMA StopService ==
  ASSUME TypeOK, Lifecycle, NEW n \in Link, Stop(n)
  PROVE  [Service!Next]_(Service!vars)
<1> USE DEF linkVars, threadVars
<1>0. fate = "running"
  BY DEF Stop, NotifierAt, TestFlag, SetFlag, Close, Release, JoinReceiver, JoinSender, Schedule
<1>1. notifier[n].pc \in StopPC
  BY DEF Stop, NotifierAt, TestFlag, SetFlag, Close, Release, JoinReceiver, JoinSender,
         Schedule, StopPC
<1>2. StoppingAlone(n)
  BY <1>1 DEF Lifecycle, Running, AllQuiet, Starting, StoppingAlone, Stopping
<1>3. /\ \A m \in Link : m # n => notifier[m].pc \notin StopPC
      /\ \A s \in Starter : starter[s] = Idle
  BY <1>2 DEF StoppingAlone, Stopping
<1>4. Phase = "stopping"
  BY <1>0, <1>2, PhaseIs
\* The phase, when n has gone there.
<1>5. ASSUME NEW there, NotifierGoes(n, there), there.pc \in StopPC
      PROVE  /\ Phase' = IF fate' # "running" THEN fate' ELSE "stopping"
             /\ \A m \in Link : notifier'[m].pc \in StopPC <=> notifier[m].pc \in StopPC
  <2>1. notifier'[n] = there /\ \A m \in Link : m # n => notifier'[m] = notifier[m]
    BY <1>5 DEF NotifierGoes, TypeOK
  <2> QED
    BY <1>1, <1>5, <2>1, Mapping DEF PhaseIn
<1>6. CASE TestFlag(n)
  <2>1. \E pc \in StopPC : NotifierGoes(n, At(pc, Up))
    BY <1>6 DEF TestFlag, StopPC
  <2> QED
    BY <1>5, <1>6, <2>1, ServiceIdle DEF TestFlag, SameNone, At
<1>7. CASE SetFlag(n)
  <2>1. NotifierGoes(n, At("close", Up)) /\ At("close", Up).pc \in StopPC
    BY <1>7 DEF SetFlag, StopPC, At
  <2> QED
    BY <1>5, <1>7, <2>1, ServiceIdle DEF SetFlag, SameNone
<1>8. CASE Close(n)
  <2>1. \E pc \in StopPC : NotifierGoes(n, At(pc, notifier[n].link))
    BY <1>8 DEF Close, StopPC
  <2>2. UNCHANGED <<fate, starter, receiver, sender>>
    BY <1>8 DEF Close
  <2> QED
    BY <1>5, <2>1, <2>2, ServiceIdle DEF SameNone, At
<1>9. CASE Release(n)
  <2>1. NotifierGoes(n, At("join_recv", notifier[n].link))
    BY <1>9 DEF Release
  <2>2. UNCHANGED <<fate, starter, receiver, sender>>
    BY <1>9 DEF Release
  <2>3. At("join_recv", notifier[n].link).pc \in StopPC
    BY DEF At, StopPC
  <2> QED
    BY <1>5, <2>1, <2>2, <2>3, ServiceIdle DEF SameNone
<1>10. CASE JoinReceiver(n)
  <2>0. PICK c \in Link : c = notifier[n].link
    BY DEF TypeOK
  <2>1. notifier[n] = At("join_recv", c)
    BY <1>10, <2>0 DEF JoinReceiver, NotifierAt, At, TypeOK
  <2>2. receiver[c] # "none"
    BY <1>2, <2>1, ControllerAssumption DEF StoppingAlone, ReceiverJoined, Finished, At, Link
  <2>3. /\ receiver' = [receiver EXCEPT ![c] = "none"]
        /\ NotifierGoes(n, At("join_send", c))
        /\ UNCHANGED starter
    BY <1>10, <2>0, <2>2 DEF JoinReceiver
  <2>4. At("join_send", c).pc \in StopPC
    BY DEF At, StopPC
  <2>5. /\ SameNone(sender, sender')
        /\ \/ fate' = fate
           \/ fate' = "killed" /\ PipeKills /\ sender[c] = "wait"
    BY <1>10, <2>0, <2>2 DEF JoinReceiver, Send, SenderGoes, SameNone, TypeOK
  <2>6. Threads' = Threads \ {<<"recv", c>>}
    <3>1. Emptied(receiver, receiver', c)
      BY <2>3 DEF Emptied, TypeOK
    <3>2. AliveIn(receiver', sender') = AliveIn(receiver, sender) \ {<<"recv", c>>}
      BY <2>5, <3>1 DEF AliveIn, SameNone, Emptied
    <3> QED
      BY <3>2, Mapping, Zenon
  <2>7. <<"recv", c>> \in Threads
    BY <2>2, Mapping, AliveMember
  <2>8. CASE fate' = fate
    <3>1. Phase' = "stopping"
      BY <1>0, <1>5, <2>3, <2>4, <2>8
    <3>2. Service!Join
      BY <1>4, <2>6, <2>7, <3>1 DEF Service!Join
    <3> QED
      BY <3>2 DEF Service!Next
  <2>9. CASE fate' = "killed" /\ PipeKills /\ sender[c] = "wait"
    <3>1. Service!Kill
      BY <1>0, <2>9, ServiceKilled
    <3>2. Service!Join
      BY <1>4, <2>6, <2>7, <3>1 DEF Service!Join
    <3> QED
      BY <3>2 DEF Service!Next
  <2> QED
    BY <2>5, <2>8, <2>9
<1>11. CASE JoinSender(n)
  <2>0. PICK c \in Link : c = notifier[n].link
    BY DEF TypeOK
  <2>1. notifier[n] = At("join_send", c)
    BY <1>11, <2>0 DEF JoinSender, NotifierAt, At, TypeOK
  <2>2. sender[c] # "none"
    BY <1>2, <2>1, ControllerAssumption DEF StoppingAlone, Finished, At, Link
  <2>3. /\ sender' = [sender EXCEPT ![c] = "none"]
        /\ NotifierGoes(n, ThenDown(c, "close", "schedule"))
        /\ UNCHANGED <<starter, receiver, fate>>
    BY <1>11, <2>0, <2>2 DEF JoinSender
  <2>4. ThenDown(c, "close", "schedule").pc \in StopPC
    BY DEF ThenDown, At, StopPC
  <2>5. Phase' = "stopping"
    BY <1>0, <1>5, <2>3, <2>4
  <2>6. Threads' = Threads \ {<<"send", c>>}
    <3>1. SameNone(receiver, receiver') /\ Emptied(sender, sender', c)
      BY <2>3 DEF Emptied, SameNone, TypeOK
    <3>2. AliveIn(receiver', sender') = AliveIn(receiver, sender) \ {<<"send", c>>}
      BY <3>1 DEF AliveIn, SameNone, Emptied
    <3> QED
      BY <3>2, Mapping, Zenon
  <2>7. <<"send", c>> \in Threads
    BY <2>2, Mapping, AliveMember
  <2>8. Service!Join
    BY <1>4, <2>5, <2>6, <2>7 DEF Service!Join
  <2> QED
    BY <2>8 DEF Service!Next
<1>12. CASE Schedule(n)
  <2>1. notifier[n].pc = "schedule"
    BY <1>12 DEF Schedule, NotifierAt
  <2>2. PICK s \in Starter : starter' = [starter EXCEPT ![s] = At("due", Up)]
    BY <1>12 DEF Schedule, StartGoes
  <2>3. notifier' = [notifier EXCEPT ![n] = Idle] /\ UNCHANGED <<receiver, sender, fate>>
    BY <1>12 DEF Schedule, NotifierGoes
  <2>4. starter'[s].pc = "due" /\ starter'[s] # Idle
    BY <2>2 DEF TypeOK, At, Idle
  <2>5. \A m \in Link : notifier'[m].pc \notin StopPC
    BY <1>3, <2>3 DEF StopPC, Idle, At, TypeOK
  <2>6. Phase' = "due"
    BY <1>0, <2>3, <2>4, <2>5, Mapping DEF PhaseIn
  <2>7. \A c \in Link : receiver[c] = "none" /\ sender[c] = "none"
    BY <1>2, <2>1 DEF StoppingAlone, ReceiverJoined, Finished
  <2>8. Threads = {} /\ Threads' = {}
    BY <2>3, <2>7, Mapping, AliveNone
  <2> QED
    BY <1>4, <2>6, <2>8 DEF Service!Next, Service!Schedule
<1> QED
  BY <1>6, <1>7, <1>8, <1>9, <1>10, <1>11, <1>12 DEF Stop

\* If losses come one at a time, the threads that run start(), stop() and the
\* callbacks implement the service, however many may call start(): every step
\* is one of its steps, or none of its business.
THEOREM ReconnectsAlways == OneLossAtATime => (Spec => Reconnects)
<1> SUFFICES ASSUME OneLossAtATime PROVE Spec => Reconnects
  OBVIOUS
<1>1. Init => Service!Init
  <2> SUFFICES ASSUME Init PROVE Phase = "starting" /\ Threads = {}
    BY DEF Service!Init
  <2>1. \A c \in Link : receiver[c] = "none" /\ sender[c] = "none"
    BY DEF Init
  <2>2. Threads = {}
    BY <2>1, Mapping, AliveNone
  <2>3. /\ \A n \in Link : notifier[n].pc \notin StopPC
        /\ fate = "running" /\ starter[Main] # Idle
        /\ \A s \in Starter : starter[s].pc # "due"
    BY ControllerAssumption DEF Init, Idle, At, StopPC
  <2>4. Phase = "starting"
    BY <2>3, Mapping, ControllerAssumption DEF PhaseIn
  <2> QED
    BY <2>2, <2>4
<1>2. TypeOK /\ (OneLossAtATime => Lifecycle) /\ [Next]_vars
        => [Service!Next]_(Service!vars)
  <2> SUFFICES ASSUME TypeOK, Lifecycle, [Next]_vars
               PROVE  [Service!Next]_(Service!vars)
    OBVIOUS
  <2>1. CASE UNCHANGED vars
    BY <2>1, ServiceIdle DEF vars, linkVars, threadVars, SameNone
  <2> QED
    BY <2>1, StartService, WorkerService, ListenService, StopService DEF Next
<1> QED
  BY <1>1, <1>2, TypeCorrect, LifecycleAlways, PTL DEF Spec, Reconnects, Service!Spec

-----------------------------------------------------------------------------
(* The safety half of LostReconnects. *)

\* No receive thread outlives its socket's open().
NoneAstray == OneLossAtATime => \A c \in Link : receiver[c] # "astray"

\* If losses come one at a time, no receive thread is blocked on a socket
\* that open() has replaced, where close() could not reach it.
THEOREM NoneAstrayAlways == Spec => []NoneAstray
<1>1. Init => NoneAstray
  BY DEF Init, NoneAstray
<1>2. TypeOK /\ CleanStart /\ NoneAstray /\ [Next]_vars => NoneAstray'
  <2> SUFFICES ASSUME TypeOK, OneLossAtATime, CleanStart, NoneAstray, [Next]_vars,
                      NEW d \in Link
               PROVE  receiver'[d] # "astray"
    BY DEF NoneAstray
  <2>0. receiver[d] # "astray"
    BY DEF NoneAstray
  <2> USE DEF linkVars, threadVars
  <2>1. CASE UNCHANGED vars
    BY <2>0, <2>1 DEF vars
  <2>2. ASSUME NEW s \in Starter, Open(s)
        PROVE  receiver'[d] # "astray"
    <3>1. StartAt(s, "open")
      BY <2>2 DEF Open
    <3>2. receiver[starter[s].link] = "none"
      BY <3>1 DEF CleanStart
    <3> QED
      BY <2>0, <2>2, <3>2 DEF Open, TypeOK
  <2>3. ASSUME NEW s \in Starter, NewReceiver(s)
        PROVE  receiver'[d] # "astray"
    BY <2>0, <2>3 DEF NewReceiver, TypeOK
  <2>4. ASSUME NEW s \in Starter, Awake(s) \/ ClearFlag(s) \/ NewSender(s)
        PROVE  receiver'[d] # "astray"
    BY <2>0, <2>4 DEF Awake, ClearFlag, NewSender
  <2>5. ASSUME NEW c \in Link, ReceiveEnds(c) \/ ReceiveData(c)
        PROVE  receiver'[d] # "astray"
    BY <2>0, <2>5 DEF ReceiveEnds, ReceiveData, TypeOK
  <2>6. ASSUME NEW c \in Link, JoinReceiver(c)
        PROVE  receiver'[d] # "astray"
    BY <2>0, <2>6 DEF JoinReceiver, TypeOK
  <2>7. ASSUME NEW c \in Link,
               \/ SendLoop(c) \/ TakeWaits(c) \/ TakeSends(c) \/ Break(c) \/ Listen(c)
               \/ TestFlag(c) \/ SetFlag(c) \/ Close(c) \/ Release(c) \/ JoinSender(c)
               \/ Schedule(c)
        PROVE  receiver'[d] # "astray"
    <3>1. UNCHANGED receiver
      BY <2>7 DEF SendLoop, TakeWaits, TakeSends, Break, Listen, Expire, Report, TestFlag,
                  SetFlag, Close, Release, JoinSender, Schedule
    <3> QED
      BY <2>0, <3>1
  <2> QED
    BY <2>1, <2>2, <2>3, <2>4, <2>5, <2>6, <2>7 DEF Next, Start, Stop
<1> QED
  BY <1>1, <1>2, TypeCorrect, CleanStartAlways, PTL DEF Spec

\* What the thread in stop() may have to wait for: a receive thread that has
\* returned or returns because its connection is not up, or LeftOpen on a link
\* that had not reported before the stop(); a send thread that goes on or
\* MissedNotify; and the end finds a thread to call start().
StopHangsOnlySo ==
  OneLossAtATime =>
    \A n, c \in Link :
      /\ notifier[n] = At("join_recv", c) =>
           \/ receiver[c] = "done"
           \/ /\ receiver[c] = "recv"
              /\ conn[c] # "up" \/ (LeftOpen /\ news[c] # "owed")
      /\ notifier[n] = At("join_send", c) =>
           sender[c] \in {"loop", "take", "done"} \/ MissedNotify
      /\ notifier[n].pc = "schedule" => \E s \in Starter : starter[s] = Idle

\* If losses come one at a time, the two hangs that LostReconnects excepts are
\* the only ones, and the second needs a link that had not reported yet.
THEOREM StopHangsOnlySoAlways == Spec => []StopHangsOnlySo
<1>1. TypeOK /\ NoneAstray /\ (OneLossAtATime => Lifecycle) => StopHangsOnlySo
  <2> SUFFICES ASSUME TypeOK, NoneAstray, OneLossAtATime, Lifecycle,
                      NEW n \in Link, NEW c \in Link
               PROVE  /\ notifier[n] = At("join_recv", c) =>
                           \/ receiver[c] = "done"
                           \/ /\ receiver[c] = "recv"
                              /\ conn[c] # "up" \/ (LeftOpen /\ news[c] # "owed")
                      /\ notifier[n] = At("join_send", c) =>
                           sender[c] \in {"loop", "take", "done"} \/ MissedNotify
                      /\ notifier[n].pc = "schedule" => \E s \in Starter : starter[s] = Idle
    BY DEF StopHangsOnlySo
  <2>1. ASSUME notifier[n].pc \in {"join_recv", "join_send", "schedule"}
        PROVE  StoppingAlone(n)
    <3>1. Stopping(n)
      BY <2>1 DEF Stopping, StopPC
    <3> QED
      BY <3>1 DEF Lifecycle, Running, AllQuiet, Starting, StoppingAlone
  <2>2. CASE notifier[n] = At("join_recv", c)
    <3>1. StoppingAlone(n)
      BY <2>1, <2>2 DEF At
    <3>0. notifier[n].pc = "join_recv" /\ notifier[n].link = c
      BY <2>2 DEF At
    <3>2. receiver[c] # "none"
      <4>1. ~ReceiverJoined(notifier[n], c)
        BY <3>0, ControllerAssumption DEF ReceiverJoined, Finished, At
      <4> QED
        BY <3>1, <4>1 DEF StoppingAlone
    <3>3. receiver[c] \in {"recv", "done"}
      BY <3>2 DEF NoneAstray, TypeOK, ReceiverPC
    <3>4. news[c] = "owed" => conn[c] = "closed"
      <4>1. Closed(notifier[n], c)
        BY <2>2 DEF Closed
      <4>2. CloseOwes(notifier[n], c)
        BY <3>1 DEF StoppingAlone
      <4> QED
        BY <3>0, <4>1, <4>2 DEF CloseOwes, LeftClean
    <3>5. receiver[c] = "recv" /\ conn[c] = "up" => LeftOpen
      BY <2>2 DEF LeftOpen
    <3> QED
      BY <3>0, <3>3, <3>4, <3>5 DEF At
  <2>3. CASE notifier[n] = At("join_send", c)
    <3>1. StoppingAlone(n)
      BY <2>1, <2>3 DEF At
    <3>2. sender[c] # "none"
      BY <2>3, <3>1, ControllerAssumption DEF StoppingAlone, Finished, At
    <3>3. sender[c] = "wait" => MissedNotify
      BY <2>3 DEF MissedNotify
    <3> QED
      BY <2>3, <3>2, <3>3 DEF At, TypeOK, SenderPC
  <2>4. CASE notifier[n].pc = "schedule"
    <3>1. starter[Main] = Idle
      BY <2>1, <2>4, ControllerAssumption DEF StoppingAlone
    <3> QED
      BY <2>4, <3>1, ControllerAssumption DEF At
  <2> QED
    BY <2>2, <2>3, <2>4
<1> QED
  BY <1>1, TypeCorrect, NoneAstrayAlways, LifecycleAlways, PTL


=============================================================================
