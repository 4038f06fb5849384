----------------------------- MODULE Controller -----------------------------
(***************************************************************************)
(* Both links together: Controller::start and Controller::stop, the four   *)
(* threads they create and join, the notification threads that report a    *)
(* link as lost, and the application's callback, which stops the           *)
(* controller and leaves the reconnection to a new thread (main.cc).       *)
(*                                                                         *)
(* Module Client has the inside of one link and BlockQueue that of one     *)
(* queue.  Here listen() is two steps (read the TCP state; judge it, write *)
(* state_ and call back) and close() is two (timer and shutdown; socket    *)
(* and state_); whether a queue holds a message is left open, and so is    *)
(* whether the peer sends one.  A notification thread begins while a timer *)
(* is armed; of the ways open() can fail, only connect() is here.  What    *)
(* the module adds is the order in which several threads run start() and   *)
(* stop() over the same two links, and the rules of std::thread: joining a *)
(* thread that is not joinable and assigning over one that is end the      *)
(* process.                                                                *)
(***************************************************************************)
EXTENDS Naturals, FiniteSets

CONSTANTS
  Up, Down,         \* the links
  Starter,          \* bound: threads that call start() or wait to do so
  Main,             \* the first of them
  PipeKills,        \* SIGPIPE has its default action
  OneLossAtATime    \* no link is reported lost while a start(), a stop() or a
                    \* reconnection is under way

Link == {Up, Down}

ASSUME ControllerAssumption ==
  /\ Up # Down
  /\ Main \in Starter
  /\ PipeKills \in BOOLEAN
  /\ OneLossAtATime \in BOOLEAN

VARIABLES
  stopped,          \* Controller::stopped
  conn,             \* the socket of each link
  watched,          \* the timer that timer_ names is armed
  orphan,           \* an armed timer that timer_ no longer names exists
  state_,           \* Client::state_
  notifier,         \* the notification thread of each link (bound: one)
  starter,          \* the threads that call start()
  receiver,         \* up_recv_thread_, down_recv_thread_
  sender,           \* up_send_thread_, down_send_thread_
  fate,             \* "running", or how the process ended
  news              \* "heard": the link has reported since its last open();
                    \* "owed": it had when stop() set the flag

linkVars   == <<conn, watched, orphan, state_>>
threadVars == <<receiver, sender>>
vars == <<stopped, linkVars, notifier, starter, threadVars, fate, news>>

\* "done": returned, not joined yet.  "astray": a receive thread blocked on a
\* socket that open() has replaced.
ReceiverPC == {"none", "recv", "astray", "done"}
SenderPC   == {"none", "loop", "take", "wait", "done"}

StopPC  == {"test", "set", "close", "release", "join_recv", "join_send", "schedule"}
StartPC == {"due", "clear", "open", "new_recv", "new_send"}

\* A thread's place in start() or stop(), and the link it deals with there.
At(pc, c) == [pc |-> pc, link |-> c]
Idle == At("idle", Up)

\* After the last step for one link comes the other link, then the end.
ThenDown(c, pc, last) == IF c = Up THEN At(pc, Down) ELSE At(last, Up)

Init ==
  /\ stopped = TRUE
  /\ conn = [c \in Link |-> "closed"]
  /\ watched = [c \in Link |-> FALSE]
  /\ orphan = [c \in Link |-> FALSE]
  /\ state_ = [c \in Link |-> "CLOSED"]
  /\ notifier = [c \in Link |-> Idle]
  /\ starter = [s \in Starter |-> IF s = Main THEN At("clear", Up) ELSE Idle]
  /\ receiver = [c \in Link |-> "none"]
  /\ sender = [c \in Link |-> "none"]
  /\ fate = "running"
  /\ news = [c \in Link |-> "none"]

-----------------------------------------------------------------------------
(* Controller::start. *)

StartAt(s, pc) == fate = "running" /\ starter[s].pc = pc
StartGoes(s, there) == starter' = [starter EXCEPT ![s] = there]

\* The five seconds of a reconnection thread are over.
Awake(s) ==
  /\ StartAt(s, "due")
  /\ StartGoes(s, At("clear", Up))
  /\ UNCHANGED <<stopped, linkVars, notifier, threadVars, fate, news>>

\* stopped = false
ClearFlag(s) ==
  /\ StartAt(s, "clear")
  /\ stopped' = FALSE
  /\ StartGoes(s, At("open", Up))
  /\ UNCHANGED <<linkVars, notifier, threadVars, fate, news>>

\* Client::open, whose result is ignored.  When connect() fails no timer is
\* set; when it succeeds, one that timer_ still named is forgotten.
Open(s) ==
  LET c == starter[s].link IN
  /\ StartAt(s, "open")
  /\ \/ /\ conn' = [conn EXCEPT ![c] = "up"]
        /\ watched' = [watched EXCEPT ![c] = TRUE]
        /\ orphan' = [orphan EXCEPT ![c] = @ \/ watched[c]]
     \/ /\ conn' = [conn EXCEPT ![c] = "unconnected"]
        /\ UNCHANGED <<watched, orphan>>
  /\ receiver' = [receiver EXCEPT ![c] = IF @ = "recv" THEN "astray" ELSE @]
  /\ news' = [news EXCEPT ![c] = "none"]
  /\ StartGoes(s, At("new_recv", c))
  /\ UNCHANGED <<stopped, state_, notifier, sender, fate>>

\* up_recv_thread_ = std::thread(...)
NewReceiver(s) ==
  LET c == starter[s].link IN
  /\ StartAt(s, "new_recv")
  /\ IF receiver[c] = "none"
       THEN /\ receiver' = [receiver EXCEPT ![c] = "recv"]
            /\ StartGoes(s, At("new_send", c))
            /\ UNCHANGED fate
       ELSE /\ fate' = "terminated"
            /\ UNCHANGED <<receiver, starter>>
  /\ UNCHANGED <<stopped, linkVars, notifier, sender, news>>

\* up_send_thread_ = std::thread(...)
NewSender(s) ==
  LET c == starter[s].link IN
  /\ StartAt(s, "new_send")
  /\ IF sender[c] = "none"
       THEN /\ sender' = [sender EXCEPT ![c] = "loop"]
            /\ StartGoes(s, ThenDown(c, "open", "idle"))
            /\ UNCHANGED fate
       ELSE /\ fate' = "terminated"
            /\ UNCHANGED <<sender, starter>>
  /\ UNCHANGED <<stopped, linkVars, notifier, receiver, news>>

-----------------------------------------------------------------------------
(* The receive and send threads, the callers of send(), the peer.            *)

\* recv() returns 0 or -1 once the connection is not up.
ReceiveEnds(c) ==
  /\ fate = "running"
  /\ receiver[c] = "recv"
  /\ conn[c] # "up"
  /\ receiver' = [receiver EXCEPT ![c] = "done"]
  /\ UNCHANGED <<stopped, linkVars, notifier, starter, sender, fate, news>>

\* Data arrives, and while (!stopped) is tested again.
ReceiveData(c) ==
  /\ fate = "running"
  /\ (receiver[c] = "recv" /\ conn[c] = "up") \/ receiver[c] = "astray"
  /\ receiver' = [receiver EXCEPT ![c] = IF stopped THEN "done" ELSE "recv"]
  /\ UNCHANGED <<stopped, linkVars, notifier, starter, sender, fate, news>>

SenderGoes(c, pc) == sender' = [sender EXCEPT ![c] = pc] /\ UNCHANGED fate

\* Whether ::send raises SIGPIPE.  On a connection that the peer has ended
\* only a later send does, after the peer's reset.
Pipe(k) ==
  CASE k \in {"up", "closed"}        -> {FALSE}
    [] k = "lost"                    -> BOOLEAN
    [] k \in {"unconnected", "shut"} -> {TRUE}

\* Client::send and pull().
Send(c) ==
  \E raised \in Pipe(conn[c]) :
    IF raised /\ PipeKills THEN fate' = "killed" /\ UNCHANGED sender
                           ELSE SenderGoes(c, "loop")

\* while (!stopped)
SendLoop(c) ==
  /\ fate = "running"
  /\ sender[c] = "loop"
  /\ SenderGoes(c, IF stopped THEN "done" ELSE "take")
  /\ UNCHANGED <<stopped, linkVars, notifier, starter, receiver, news>>

\* take() finds the queue empty.
TakeWaits(c) ==
  /\ fate = "running"
  /\ sender[c] = "take"
  /\ SenderGoes(c, "wait")
  /\ UNCHANGED <<stopped, linkVars, notifier, starter, receiver, news>>

\* take() returns a message that was or has just been put.
TakeSends(c) ==
  /\ fate = "running"
  /\ sender[c] \in {"take", "wait"}
  /\ Send(c)
  /\ UNCHANGED <<stopped, linkVars, notifier, starter, receiver, news>>

\* The peer or the network ends the connection.
Break(c) ==
  /\ fate = "running"
  /\ conn[c] = "up"
  /\ conn' = [conn EXCEPT ![c] = "lost"]
  /\ UNCHANGED <<stopped, watched, orphan, state_, notifier, starter, threadVars,
                 fate, news>>

-----------------------------------------------------------------------------
(* The notification threads, up to the callback. *)

NotifierAt(n, pc) == fate = "running" /\ notifier[n].pc = pc
NotifierGoes(n, there) == notifier' = [notifier EXCEPT ![n] = there]

\* What listen() reads as the TCP state; a closed descriptor can yield any.
TcpState(k) ==
  CASE k = "up"                              -> {"CONNECTED"}
    [] k \in {"unconnected", "lost", "shut"} -> {"LOST"}
    [] k = "closed"                          -> {"CONNECTED", "LOST", "invalid"}

\* The timer expires, and the thread that this starts reads the TCP state.
Expire(n) ==
  /\ NotifierAt(n, "idle")
  /\ watched[n] \/ orphan[n]
  /\ \E v \in TcpState(conn[n]) : NotifierGoes(n, At(v, n))
  /\ UNCHANGED <<stopped, linkVars, starter, threadVars, fate, news>>

Verdict_Raw(n) == notifier[n].pc

\* What is to be reported; an invalid state is CONNECTED if state_ is CLOSED,
\* and no news otherwise.
Verdict(n) ==
  IF notifier[n].pc # "invalid" THEN notifier[n].pc
  ELSE IF state_[n] = "CLOSED" THEN "CONNECTED" ELSE state_[n]

\* A thread that is inside stop() or about to schedule a reconnection.
Stopping(n) == notifier[n].pc \in StopPC

AllQuiet == (\A s \in Starter : starter[s] = Idle) /\ (\A n \in Link : ~Stopping(n))

\* state_ = state, and the callback.  CONNECTED concerns the application only
\* (module Session); at LOST it calls stop().
Report(n) ==
  LET v == Verdict(n) IN
  /\ fate = "running"
  /\ notifier[n].pc \in {"CONNECTED", "LOST", "invalid"}
  /\ IF v = state_[n]
       THEN /\ NotifierGoes(n, Idle)
            /\ UNCHANGED <<state_, news>>
       ELSE /\ v = "LOST" /\ OneLossAtATime => AllQuiet
            /\ state_' = [state_ EXCEPT ![n] = v]
            /\ news' = [news EXCEPT ![n] = IF @ = "none" THEN "heard" ELSE @]
            /\ NotifierGoes(n, IF v = "LOST" THEN At("test", Up) ELSE Idle)
  /\ UNCHANGED <<stopped, conn, watched, orphan, starter, threadVars, fate>>

-----------------------------------------------------------------------------
(* Controller::stop, called by a notification thread, and the end of the     *)
(* callback.                                                                 *)

\* if (stopped) return
TestFlag(n) ==
  /\ NotifierAt(n, "test")
  /\ NotifierGoes(n, At(IF stopped THEN "schedule" ELSE "set", Up))
  /\ UNCHANGED <<stopped, linkVars, starter, threadVars, fate, news>>

SetFlag_ThreadFirst(n) ==
  /\ NotifierAt(n, "set")
  /\ stopped' = TRUE
  /\ news' = [c \in Link |-> IF news[c] = "heard" THEN "owed" ELSE news[c]]
  /\ \E s \in Starter : starter[s] = Idle /\ StartGoes(s, At("due", Up))
  /\ NotifierGoes(n, At("close", Up))
  /\ UNCHANGED <<linkVars, threadVars, fate>>

\* stopped = true
SetFlag(n) ==
  /\ NotifierAt(n, "set")
  /\ stopped' = TRUE
  /\ news' = [c \in Link |-> IF news[c] = "heard" THEN "owed" ELSE news[c]]
  /\ NotifierGoes(n, At("close", Up))
  /\ UNCHANGED <<linkVars, starter, threadVars, fate>>

Close_KeepsTimer(n) ==
  LET c == notifier[n].link IN
  /\ NotifierAt(n, "close")
  /\ IF state_[c] = "CLOSED"
       THEN /\ NotifierGoes(n, At("join_recv", c))
            /\ UNCHANGED conn
       ELSE /\ NotifierGoes(n, At("release", c))
            /\ conn' = [conn EXCEPT ![c] = IF @ \in {"up", "lost"} THEN "shut" ELSE @]
  /\ UNCHANGED <<stopped, watched, orphan, state_, starter, threadVars, fate, news>>

\* Client::close: the early return, timer_delete, shutdown.
Close(n) ==
  LET c == notifier[n].link IN
  /\ NotifierAt(n, "close")
  /\ IF state_[c] = "CLOSED"
       THEN /\ NotifierGoes(n, At("join_recv", c))
            /\ UNCHANGED <<watched, conn>>
       ELSE /\ NotifierGoes(n, At("release", c))
            /\ watched' = [watched EXCEPT ![c] = FALSE]
            /\ conn' = [conn EXCEPT ![c] = IF @ \in {"up", "lost"} THEN "shut" ELSE @]
  /\ UNCHANGED <<stopped, orphan, state_, starter, threadVars, fate, news>>

Release_KeepsState(n) ==
  LET c == notifier[n].link IN
  /\ NotifierAt(n, "release")
  /\ conn' = [conn EXCEPT ![c] = "closed"]
  /\ NotifierGoes(n, At("join_recv", c))
  /\ UNCHANGED <<stopped, watched, orphan, state_, starter, threadVars, fate, news>>

\* ::close(sockfd_), state_ = CLOSED
Release(n) ==
  LET c == notifier[n].link IN
  /\ NotifierAt(n, "release")
  /\ conn' = [conn EXCEPT ![c] = "closed"]
  /\ state_' = [state_ EXCEPT ![c] = "CLOSED"]
  /\ NotifierGoes(n, At("join_recv", c))
  /\ UNCHANGED <<stopped, watched, orphan, starter, threadVars, fate, news>>

JoinReceiver_NoJoin(n) ==
  LET c == notifier[n].link IN
  /\ NotifierAt(n, "join_recv")
  /\ NotifierGoes(n, At("join_send", c))
  /\ IF sender[c] = "wait" THEN SenderGoes(c, "loop") \/ Send(c)
                           ELSE UNCHANGED <<sender, fate>>
  /\ UNCHANGED <<stopped, linkVars, starter, receiver, news>>

\* up_recv_thread_.join(), and notify(): take() returns the front of the queue,
\* which if null is skipped and if dangling sent (module BlockQueue).  That two
\* threads join the same one at the same time is taken for a join of one that
\* is not joinable.
JoinReceiver(n) ==
  LET c == notifier[n].link IN
  /\ NotifierAt(n, "join_recv")
  /\ \/ /\ receiver[c] = "done"
        /\ receiver' = [receiver EXCEPT ![c] = "none"]
        /\ NotifierGoes(n, At("join_send", c))
        /\ IF sender[c] = "wait" THEN SenderGoes(c, "loop") \/ Send(c)
                                 ELSE UNCHANGED <<sender, fate>>
     \/ /\ receiver[c] = "none"
        /\ fate' = "terminated"
        /\ UNCHANGED <<receiver, sender, notifier>>
  /\ UNCHANGED <<stopped, linkVars, starter, news>>

\* up_send_thread_.join()
JoinSender(n) ==
  LET c == notifier[n].link IN
  /\ NotifierAt(n, "join_send")
  /\ \/ /\ sender[c] = "done"
        /\ sender' = [sender EXCEPT ![c] = "none"]
        /\ NotifierGoes(n, ThenDown(c, "close", "schedule"))
        /\ UNCHANGED fate
     \/ /\ sender[c] = "none"
        /\ fate' = "terminated"
        /\ UNCHANGED <<sender, notifier>>
  /\ UNCHANGED <<stopped, linkVars, starter, receiver, news>>

\* The detached thread that will call start().
Schedule(n) ==
  /\ NotifierAt(n, "schedule")
  /\ \E s \in Starter :
       /\ starter[s] = Idle
       /\ StartGoes(s, At("due", Up))
  /\ NotifierGoes(n, Idle)
  /\ UNCHANGED <<stopped, linkVars, threadVars, fate, news>>

-----------------------------------------------------------------------------

Start(s) == Awake(s) \/ ClearFlag(s) \/ Open(s) \/ NewReceiver(s) \/ NewSender(s)
Listen(n) == Expire(n) \/ Report(n)
Stop(n) ==
  \/ TestFlag(n) \/ SetFlag(n) \/ Close(n) \/ Release(n)
  \/ JoinReceiver(n) \/ JoinSender(n) \/ Schedule(n)

Next ==
  \/ \E s \in Starter : Start(s)
  \/ \E c \in Link :
       \/ Listen(c) \/ Stop(c)
       \/ ReceiveEnds(c) \/ ReceiveData(c)
       \/ SendLoop(c) \/ TakeWaits(c) \/ TakeSends(c)
       \/ Break(c)

Spec == Init /\ [][Next]_vars

\* Threads that can run do, connect() returns, timers expire, the five seconds
\* pass, and recv() returns from a connection that has ended.  Nobody has to
\* send, no data has to arrive, no connection has to break.
FairSpec ==
  /\ Spec
  /\ \A s \in Starter : WF_vars(Start(s))
  /\ \A c \in Link :
       /\ WF_vars(Listen(c))
       /\ WF_vars(Stop(c))
       /\ WF_vars(ReceiveEnds(c))
       /\ WF_vars(SendLoop(c))
       /\ WF_vars(TakeWaits(c) \/ (sender[c] = "take" /\ TakeSends(c)))

-----------------------------------------------------------------------------
(* Safety. *)

TypeOK ==
  /\ stopped \in BOOLEAN
  /\ conn \in [Link -> {"closed", "unconnected", "up", "lost", "shut"}]
  /\ watched \in [Link -> BOOLEAN]
  /\ orphan \in [Link -> BOOLEAN]
  /\ state_ \in [Link -> {"CLOSED", "CONNECTED", "LOST"}]
  /\ notifier \in [Link -> [link : Link, pc : StopPC \union
       {"idle", "CONNECTED", "LOST", "invalid"}]]
  /\ starter \in [Starter -> [link : Link, pc : StartPC \union {"idle"}]]
  /\ receiver \in [Link -> ReceiverPC]
  /\ sender \in [Link -> SenderPC]
  /\ fate \in {"running", "terminated", "killed"}
  /\ news \in [Link -> {"none", "heard", "owed"}]

\* If losses come one at a time, no stop() joins a thread that was not started
\* or was joined before, and no start() assigns over a thread that still runs.
NoMisuse == OneLossAtATime => fate # "terminated"

\* If losses come one at a time, then so do start(), stop() and the wait for a
\* reconnection, though they run in several threads and nothing locks them.
OneAtATime ==
  OneLossAtATime =>
    Cardinality({s \in Starter : starter[s] # Idle}
                \union {n \in Link : Stopping(n)}) <= 1

\* If losses come one at a time, open() finds the controller that stop()
\* should leave: the threads joined, and on every link that had reported
\* before stop() began the timer deleted and the socket closed.
CleanStart ==
  \A s \in Starter :
    OneLossAtATime /\ StartAt(s, "open") =>
      LET c == starter[s].link IN
      /\ receiver[c] = "none" /\ sender[c] = "none"
      /\ news[c] = "owed" => conn[c] = "closed" /\ ~watched[c]

\* A reconnection that the application announced comes about: std::terminate
\* does not end the program while one is due (main.cc:56 and main.cc:90 "a
\* reconnection is scheduled in 5 seconds").
AnnouncedSurvives ==
  fate = "terminated" => \A s \in Starter : starter[s].pc # "due"

-----------------------------------------------------------------------------
(* What the threads do together. *)

\* What the service of module Reconnection is doing.
Phase ==
  IF fate # "running" THEN fate
  ELSE IF \E n \in Link : Stopping(n) THEN "stopping"
  ELSE IF AllQuiet THEN "running"
  ELSE IF \E s \in Starter : starter[s].pc = "due" THEN "due" ELSE "starting"

Threads ==
  {<<"recv", c>> : c \in {d \in Link : receiver[d] # "none"}}
  \union {<<"send", c>> : c \in {d \in Link : sender[d] # "none"}}

Service == INSTANCE Reconnection
  WITH Thread <- {"recv", "send"} \X Link, phase <- Phase, threads <- Threads

\* If losses come one at a time, the threads that run start() and stop() give
\* the application one service, which starts with no thread left of the last
\* start, runs with all four, stops all four, and then starts again.
Reconnects == Service!Spec

-----------------------------------------------------------------------------
(* Liveness. *)

\* stop() waits for a send thread that missed the notification.
MissedNotify == \E n, c \in Link : notifier[n] = At("join_send", c) /\ sender[c] = "wait"

\* stop() waits for a receive thread on a connection that close() left open.
LeftOpen ==
  \E n, c \in Link :
    notifier[n] = At("join_recv", c) /\ receiver[c] = "recv" /\ conn[c] = "up"

Reopened(c) == \E s \in Starter : starter[s] = At("new_recv", c)

\* If losses come one at a time, a link that is lost after a successful open()
\* is opened again, unless the process ends or stop() hangs in one of two ways.
LostReconnects ==
  \A c \in Link :
    OneLossAtATime /\ conn[c] = "lost" /\ watched[c] ~>
      Reopened(c) \/ fate # "running" \/ MissedNotify \/ LeftOpen

=============================================================================
