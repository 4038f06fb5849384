---------------------------- MODULE ClientProofs ----------------------------
(***************************************************************************)
(* What close() of module Client releases and what its callback hears, for *)
(* any number of links, of notification threads that overlap, and of       *)
(* timers without a handle.                                                *)
(***************************************************************************)
EXTENDS Client, TLAPS

ListenerType ==
  [pc : {"idle", "started", "sampled", "write", "call"},
   info : TcpInfo, state : ConnectState]

\* Every variable of a Client keeps its type, whatever threads interleave.
THEOREM TypeCorrect == Spec => []TypeOK
<1> USE OrphansAssumption
<1>1. Init => TypeOK
  BY DEF Init, TypeOK, Socket, ConnectState, TcpInfo, IdleListener
<1>2. TypeOK /\ [Next]_vars => TypeOK'
  <2> SUFFICES ASSUME TypeOK, [Next]_vars
               PROVE  TypeOK'
    OBVIOUS
  <2> USE DEF socketVars, timerVars, callerVars, reportVars
  <2>1. CASE UNCHANGED vars
    BY <2>1 DEF TypeOK, vars
  <2>2. ASSUME NEW c \in Link, SetCallback(c)
        PROVE  TypeOK'
    BY <2>2 DEF SetCallback, TypeOK
  <2>3. ASSUME NEW c \in Link, Open(c)
        PROVE  TypeOK'
    BY <2>3 DEF Open, Begin, TypeOK, Socket
  <2>4. ASSUME NEW c \in Link, OpenFails(c)
        PROVE  TypeOK'
    BY <2>4 DEF OpenFails, Begin, TypeOK, Socket
  <2>5. ASSUME NEW c \in Link, Close(c)
        PROVE  TypeOK'
    BY <2>5 DEF Close, TypeOK
  <2>6. ASSUME NEW c \in Link, CloseStep(c)
        PROVE  TypeOK'
    <3>1. CASE TimerDelete(c)
      BY <3>1 DEF TimerDelete, TypeOK
    <3>2. CASE Shutdown(c)
      BY <3>2 DEF Shutdown, Wake, TypeOK, Socket
    <3>3. CASE Release(c)
      BY <3>3 DEF Release, TypeOK, Socket
    <3>4. CASE Clear(c)
      BY <3>4 DEF Clear, TypeOK, ConnectState
    <3> QED
      BY <2>6, <3>1, <3>2, <3>3, <3>4 DEF CloseStep
  <2>7. ASSUME NEW c \in Link, Recv(c) \/ RecvReturns(c) \/ Break(c)
        PROVE  TypeOK'
    BY <2>7 DEF Recv, RecvReturns, Break, Wake, TypeOK, Socket
  <2>8. ASSUME NEW c \in Link, NEW l \in Listener, Expire(c, l)
        PROVE  TypeOK'
    <3>1. listener' \in [Link -> [Listener -> ListenerType]]
      <4>1. listener \in [Link -> [Listener -> ListenerType]]
        BY DEF TypeOK, ListenerType
      <4>2. [listener[c][l] EXCEPT !.pc = "started"] \in ListenerType
        BY <4>1 DEF ListenerType
      <4>3. listener' = [listener EXCEPT ![c][l] = [listener[c][l] EXCEPT !.pc = "started"]]
        BY <2>8 DEF Expire
      <4> QED
        BY <4>1, <4>2, <4>3
    <3>2. overlap' \in [Link -> BOOLEAN]
      <4>1. (overlap[c] \/ Busy(c) # {}) \in BOOLEAN
        OBVIOUS
      <4> QED
        BY <4>1, <2>8 DEF Expire, TypeOK
    <3> QED
      BY <3>1, <3>2, <2>8 DEF Expire, TypeOK, ListenerType
  <2>9. ASSUME NEW c \in Link, NEW l \in Listener, Listen(c, l)
        PROVE  TypeOK'
    <3>0. listener[c][l] \in ListenerType
      BY DEF TypeOK, ListenerType
    <3>1. CASE Sample(c, l)
      <4>1. \A i \in TcpState(sock[c]) : i \in TcpInfo
        BY DEF TcpState, TcpInfo, TypeOK, Socket
      <4>2. PICK i \in TcpInfo :
              listener' = [listener EXCEPT ![c][l].pc = "sampled", ![c][l].info = i]
        BY <3>1, <4>1 DEF Sample
      <4> DEFINE marked == [listener EXCEPT ![c][l].pc = "sampled"]
      <4>3. marked \in [Link -> [Listener -> ListenerType]]
        <5>1. [listener[c][l] EXCEPT !.pc = "sampled"] \in ListenerType
          BY <3>0 DEF ListenerType
        <5>2. marked = [listener EXCEPT ![c][l] = [listener[c][l] EXCEPT !.pc = "sampled"]]
          OBVIOUS
        <5>3. listener \in [Link -> [Listener -> ListenerType]]
          BY DEF TypeOK, ListenerType
        <5> HIDE DEF marked
        <5> QED
          BY <5>1, <5>2, <5>3
      <4>4. listener' \in [Link -> [Listener -> ListenerType]]
        <5>1. listener' = [marked EXCEPT ![c][l].info = i]
          BY <4>2
        <5> HIDE DEF marked
        <5> QED
          BY <5>1, <4>3 DEF ListenerType
      <4> QED
        BY <3>1, <4>4 DEF Sample, TypeOK, ListenerType
    <3>2. CASE Check(c, l)
      <4>1. Verdict(listener[c][l].info) \in ConnectState
        BY DEF Verdict, ConnectState
      <4>2. IdleListener \in ListenerType
        BY DEF IdleListener, ListenerType, TcpInfo, ConnectState
      <4>3. [listener[c][l] EXCEPT !.pc = "write", !.state = Verdict(listener[c][l].info)]
              \in ListenerType
        BY <3>0, <4>1 DEF ListenerType
      <4>4. \E r \in ListenerType : listener' = [listener EXCEPT ![c][l] = r]
        BY <3>2, <4>2, <4>3 DEF Check
      <4>5. listener' \in [Link -> [Listener -> ListenerType]]
        BY <4>4 DEF TypeOK, ListenerType
      <4> QED
        BY <3>2, <4>5 DEF Check, TypeOK, ListenerType
    <3>3. CASE Write(c, l)
      BY <3>0, <3>3 DEF Write, TypeOK, ListenerType
    <3>4. CASE Call(c, l)
      <4>1. IdleListener \in ListenerType
        BY DEF IdleListener, ListenerType, TcpInfo, ConnectState
      <4>2. listener' \in [Link -> [Listener -> ListenerType]]
        BY <3>4, <4>1 DEF Call, Deliver, TypeOK, ListenerType
      <4>3. heard' \in [Link -> SUBSET ConnectState] /\ report' \in [Link -> ConnectState]
        BY <3>4 DEF Call, Deliver, TypeOK
      <4> QED
        BY <3>4, <4>2, <4>3 DEF Call, Deliver, TypeOK, ListenerType
    <3> QED
      BY <2>9, <3>1, <3>2, <3>3, <3>4 DEF Listen
  <2> QED
    BY <2>1, <2>2, <2>3, <2>4, <2>5, <2>6, <2>7, <2>8, <2>9 DEF Next
<1> QED
  BY <1>1, <1>2, PTL DEF Spec

-----------------------------------------------------------------------------

\* close() has set free what it has passed, and an open link that has been
\* reported is not CLOSED for close() to skip: listeners write CONNECTED or
\* LOST only, and the last step of close() ends the call.
ReleaseInv ==
  \A c \in Link :
    /\ closing[c] # "no" => opened[c]
    /\ closing[c] \in {"shutdown", "release", "clear"} => timer[c] = "none"
    /\ closing[c] = "clear" => sock[c] = "closed"
    /\ \A l \in Listener :
         listener[c][l].pc = "write" => listener[c][l].state \in {"CONNECTED", "LOST"}
    /\ opened[c] /\ heard[c] \intersect {"CONNECTED", "LOST"} # {} => state_[c] # "CLOSED"

\* The invariant that the theorem on close() rests on.
THEOREM ReleaseInvariant == Spec => []ReleaseInv
<1>1. Init => ReleaseInv
  <2> SUFFICES ASSUME Init, NEW c \in Link
               PROVE  /\ closing[c] = "no" /\ heard[c] = {}
                      /\ \A l \in Listener : listener[c][l].pc = "idle"
    BY DEF ReleaseInv
  <2> QED
    BY DEF Init, IdleListener
<1>2. TypeOK /\ ReleaseInv /\ [Next]_vars => ReleaseInv'
  <2> SUFFICES ASSUME TypeOK, ReleaseInv, [Next]_vars
               PROVE  ReleaseInv'
    OBVIOUS
  <2> USE DEF socketVars, timerVars, callerVars, reportVars
  <2>1. CASE UNCHANGED vars
    BY <2>1 DEF ReleaseInv, vars
  <2>2. ASSUME NEW c \in Link, SetCallback(c)
        PROVE  ReleaseInv'
    BY <2>2 DEF SetCallback, ReleaseInv
  <2>3. ASSUME NEW c \in Link, Open(c) \/ OpenFails(c)
        PROVE  ReleaseInv'
    <3>1. /\ ~opened[c] /\ closing[c] = "no"
          /\ heard' = [heard EXCEPT ![c] = {}]
          /\ UNCHANGED <<state_, listener, closing>>
      BY <2>3 DEF Open, OpenFails, Begin, ReleaseInv
    <3>2. \A d \in Link \ {c} : /\ opened'[d] = opened[d] /\ timer'[d] = timer[d]
                               /\ sock'[d] = sock[d] /\ heard'[d] = heard[d]
      BY <2>3 DEF Open, OpenFails, Begin, TypeOK
    <3>3. heard'[c] = {}
      BY <3>1 DEF TypeOK
    <3> QED
      BY <3>1, <3>2, <3>3 DEF ReleaseInv
  <2>4. ASSUME NEW c \in Link, Close(c)
        PROVE  ReleaseInv'
    <3>1. CASE state_[c] = "CLOSED"
      <4>1. /\ opened' = [opened EXCEPT ![c] = FALSE]
            /\ UNCHANGED <<closing, timer, sock, listener, heard, state_>>
        BY <2>4, <3>1 DEF Close
      <4>2. \A d \in Link : d # c => opened'[d] = opened[d]
        BY <4>1 DEF TypeOK
      <4>3. ~opened'[c] /\ closing[c] = "no"
        BY <2>4, <4>1 DEF Close, TypeOK
      <4> QED
        BY <4>1, <4>2, <4>3 DEF ReleaseInv
    <3>2. CASE state_[c] # "CLOSED"
      <4>1. /\ closing' = [closing EXCEPT ![c] = "delete"]
            /\ UNCHANGED <<opened, timer, sock, listener, heard, state_>>
        BY <2>4, <3>2 DEF Close
      <4>2. /\ closing'[c] = "delete" /\ opened[c]
            /\ \A d \in Link : d # c => closing'[d] = closing[d]
        BY <2>4, <4>1 DEF Close, TypeOK
      <4> QED
        BY <4>1, <4>2 DEF ReleaseInv
    <3> QED
      BY <3>1, <3>2
  <2>5. ASSUME NEW c \in Link, CloseStep(c)
        PROVE  ReleaseInv'
    <3>1. CASE TimerDelete(c)
      BY <3>1 DEF TimerDelete, ReleaseInv, TypeOK
    <3>2. CASE Shutdown(c)
      BY <3>2 DEF Shutdown, ReleaseInv, TypeOK
    <3>3. CASE Release(c)
      BY <3>3 DEF Release, ReleaseInv, TypeOK
    <3>4. CASE Clear(c)
      BY <3>4 DEF Clear, ReleaseInv, TypeOK
    <3> QED
      BY <2>5, <3>1, <3>2, <3>3, <3>4 DEF CloseStep
  <2>6. ASSUME NEW c \in Link, Recv(c) \/ RecvReturns(c) \/ Break(c)
        PROVE  ReleaseInv'
    <3>1. CASE Recv(c) \/ RecvReturns(c)
      BY <3>1 DEF Recv, RecvReturns, ReleaseInv
    <3>2. CASE Break(c)
      <4>1. \A d \in Link : sock[d] = "closed" => sock'[d] = "closed"
        BY <3>2 DEF Break, TypeOK
      <4> QED
        BY <3>2, <4>1 DEF Break, ReleaseInv
    <3> QED
      BY <2>6, <3>1, <3>2
  <2>7. ASSUME NEW c \in Link, NEW l \in Listener, Expire(c, l)
        PROVE  ReleaseInv'
    BY <2>7 DEF Expire, ReleaseInv, TypeOK
  <2>8. ASSUME NEW c \in Link, NEW l \in Listener, Listen(c, l)
        PROVE  ReleaseInv'
    <3>1. CASE Sample(c, l)
      BY <3>1 DEF Sample, ReleaseInv, TypeOK
    <3>2. CASE Check(c, l)
      BY <3>2 DEF Check, Verdict, IdleListener, ReleaseInv, TypeOK
    <3>3. CASE Write(c, l)
      BY <3>3 DEF Write, ReleaseInv, TypeOK
    <3>4. CASE Call(c, l)
      BY <3>4 DEF Call, Deliver, IdleListener, ReleaseInv, TypeOK
    <3> QED
      BY <2>8, <3>1, <3>2, <3>3, <3>4 DEF Listen
  <2> QED
    BY <2>1, <2>2, <2>3, <2>4, <2>5, <2>6, <2>7, <2>8 DEF Next
<1> QED
  BY <1>1, <1>2, TypeCorrect, PTL DEF Spec

\* A close() after the application has heard CONNECTED or LOST of this
\* connection deletes the timer and closes the socket, however many listeners
\* of this and of earlier connections write state_ meanwhile.
THEOREM CloseReleasesAlways == Spec => CloseReleases
<1> DEFINE
      Releases(c) ==
        opened[c] /\ ~opened'[c] /\ heard[c] \intersect {"CONNECTED", "LOST"} # {}
          => timer'[c] = "none" /\ sock'[c] = "closed"
<1>1. ReleaseInv /\ TypeOK /\ [Next]_vars => [\A c \in Link : Releases(c)]_vars
  <2> SUFFICES ASSUME ReleaseInv, TypeOK, Next, NEW c \in Link,
                      opened[c], ~opened'[c],
                      heard[c] \intersect {"CONNECTED", "LOST"} # {}
               PROVE  timer'[c] = "none" /\ sock'[c] = "closed"
    OBVIOUS
  <2> USE DEF socketVars, timerVars, callerVars, reportVars
  <2>1. state_[c] # "CLOSED"
    BY DEF ReleaseInv
  <2>2. PICK d \in Link :
          \/ SetCallback(d) \/ Open(d) \/ OpenFails(d) \/ Close(d) \/ CloseStep(d)
          \/ Recv(d) \/ RecvReturns(d) \/ Break(d)
          \/ \E l \in Listener : Expire(d, l) \/ Listen(d, l)
    BY DEF Next
  <2>3. CASE Close(d)
    BY <2>1, <2>3 DEF Close, TypeOK
  <2>4. CASE CloseStep(d)
    <3>1. Clear(d) /\ d = c
      BY <2>4 DEF CloseStep, TimerDelete, Shutdown, Release, Clear, TypeOK
    <3> QED
      BY <3>1 DEF Clear, ReleaseInv
  <2>5. CASE Open(d) \/ OpenFails(d)
    BY <2>5 DEF Open, OpenFails, Begin, TypeOK
  <2>6. CASE SetCallback(d) \/ Recv(d) \/ RecvReturns(d) \/ Break(d)
    BY <2>6 DEF SetCallback, Recv, RecvReturns, Break
  <2>7. ASSUME NEW l \in Listener, Expire(d, l) \/ Listen(d, l)
        PROVE  FALSE
    BY <2>7 DEF Expire, Listen, Sample, Check, Write, Call, Deliver
  <2> QED
    BY <2>2, <2>3, <2>4, <2>5, <2>6, <2>7
<1>2. Spec => [][\A c \in Link : Releases(c)]_vars
  BY <1>1, TypeCorrect, ReleaseInvariant, PTL DEF Spec
<1> QED
  BY <1>2 DEF CloseReleases

-----------------------------------------------------------------------------

\* Without overlap since open(), one notification thread at most is alive,
\* though it may be left from an earlier connection.
Alone(c) ==
  ~overlap[c] => \A k, l \in Listener :
                   listener[c][k].pc # "idle" /\ listener[c][l].pc # "idle" => k = l

\* Once that link has been reported, state_ is the last report, except
\* between the write of state_ and the call; and a thread is about to write
\* another state than that only.
Agrees(c) ==
  opened[c] /\ closing[c] = "no" /\ heard[c] # {} /\ ~overlap[c] =>
    /\ (\A l \in Listener : listener[c][l].pc # "call") => report[c] = state_[c]
    /\ \A l \in Listener :
         /\ listener[c][l].pc = "call" => report[c] # state_[c]
         /\ listener[c][l].pc = "write" => listener[c][l].state # state_[c]

ReportInv == \A c \in Link : Alone(c) /\ Agrees(c)

\* A step that leaves a link alone.
LinkKept(d) ==
  /\ listener'[d] = listener[d] /\ overlap'[d] = overlap[d] /\ opened'[d] = opened[d]
  /\ closing'[d] = closing[d] /\ heard'[d] = heard[d]
  /\ report'[d] = report[d] /\ state_'[d] = state_[d]

LEMMA KeptLink ==
  ASSUME NEW d \in Link, Alone(d), Agrees(d), LinkKept(d)
  PROVE  Alone(d)' /\ Agrees(d)'
BY DEF Alone, Agrees, LinkKept

LEMMA OneLink ==
  ASSUME ReportInv, NEW c \in Link, \A d \in Link \ {c} : LinkKept(d), Alone(c)', Agrees(c)'
  PROVE  ReportInv'
<1>1. ASSUME NEW d \in Link PROVE Alone(d)' /\ Agrees(d)'
  BY KeptLink DEF ReportInv
<1> QED
  BY <1>1 DEF ReportInv

\* A step of thread l leaves the other threads alone.
OthersKept(c, l) == \A k \in Listener : k # l => listener'[c][k] = listener[c][k]

LEMMA CallerStep ==
  ASSUME TypeOK, ReportInv, NEW c \in Link,
         Open(c) \/ OpenFails(c) \/ Close(c) \/ CloseStep(c)
  PROVE  ReportInv'
<1> USE DEF socketVars, timerVars, callerVars, reportVars
<1>1. Alone(c) /\ Agrees(c)
  BY DEF ReportInv
<1>2. CASE Open(c) \/ OpenFails(c)
  <2>1. /\ heard' = [heard EXCEPT ![c] = {}]
        /\ opened' = [opened EXCEPT ![c] = TRUE]
        /\ overlap' = [overlap EXCEPT ![c] = \E k, l \in Busy(c) : k # l]
        /\ UNCHANGED <<state_, listener, closing, report>>
    BY <1>2 DEF Open, OpenFails, Begin
  <2>2. \A d \in Link \ {c} : LinkKept(d)
    BY <2>1 DEF LinkKept, TypeOK
  <2>3. heard'[c] = {}
    BY <2>1 DEF TypeOK
  <2>4. ~overlap'[c] => \A k, l \in Busy(c) : k = l
    BY <2>1 DEF TypeOK
  <2>5. Alone(c)'
    BY <2>1, <2>4 DEF Alone, Busy
  <2>6. Agrees(c)'
    BY <2>3 DEF Agrees
  <2> QED
    BY <2>2, <2>5, <2>6, OneLink
<1>3. CASE Close(c) \/ CloseStep(c)
  <2>1. /\ \A d \in Link \ {c} : closing'[d] = closing[d] /\ opened'[d] = opened[d]
                                 /\ state_'[d] = state_[d]
        /\ UNCHANGED <<listener, overlap, heard, report>>
    BY <1>3 DEF Close, CloseStep, TimerDelete, Shutdown, Release, Clear, TypeOK
  <2>2. \A d \in Link \ {c} : LinkKept(d)
    BY <2>1 DEF LinkKept
  <2>3. Alone(c)'
    BY <1>1, <2>1 DEF Alone
  <2>4. ~opened'[c] \/ closing'[c] # "no"
    BY <1>3 DEF Close, CloseStep, TimerDelete, Shutdown, Release, Clear, TypeOK
  <2>5. Agrees(c)'
    BY <2>4 DEF Agrees
  <2> QED
    BY <2>2, <2>3, <2>5, OneLink
<1> QED
  BY <1>2, <1>3

LEMMA ListenerStep ==
  ASSUME TypeOK, ReportInv, NEW c \in Link, NEW l \in Listener, Expire(c, l) \/ Listen(c, l)
  PROVE  ReportInv'
<1> USE DEF socketVars, timerVars, callerVars, reportVars
<1>1. Alone(c) /\ Agrees(c)
  BY DEF ReportInv
<1>2. CASE Expire(c, l)
  <2>1. /\ listener[c][l].pc = "idle"
        /\ listener'[c][l].pc = "started" /\ OthersKept(c, l)
        /\ \A d \in Link \ {c} : listener'[d] = listener[d]
        /\ UNCHANGED <<state_, opened, closing, heard, report>>
    BY <1>2 DEF Expire, OthersKept, TypeOK
  <2>2. overlap' = [overlap EXCEPT ![c] = @ \/ Busy(c) # {}]
    BY <1>2 DEF Expire
  <2>3. ~overlap'[c] => ~overlap[c] /\ Busy(c) = {}
    BY <2>2 DEF TypeOK
  <2>4. \A d \in Link \ {c} : LinkKept(d)
    BY <2>1, <2>2 DEF LinkKept, TypeOK
  <2>5. Alone(c)'
    BY <2>1, <2>3 DEF Alone, Busy, OthersKept
  <2>6. Agrees(c)'
    BY <1>1, <2>1, <2>3 DEF Agrees, Busy, OthersKept
  <2> QED
    BY <2>4, <2>5, <2>6, OneLink
<1>3. CASE Listen(c, l)
  <2>1. /\ listener[c][l].pc # "idle" /\ OthersKept(c, l)
        /\ \A d \in Link \ {c} : LinkKept(d)
        /\ UNCHANGED <<overlap, opened, closing>>
    BY <1>3 DEF Listen, Sample, Check, Write, Call, Deliver, OthersKept, LinkKept, TypeOK
  <2>2. Alone(c)'
    BY <1>1, <2>1 DEF Alone, OthersKept
  <2>3. ~overlap[c] => \A k \in Listener : k # l => listener[c][k].pc = "idle"
    BY <1>1, <2>1 DEF Alone
  <2>4. CASE Sample(c, l)
    <3>1. listener[c][l].pc = "started" /\ listener'[c][l].pc = "sampled"
          /\ UNCHANGED <<state_, heard, report>>
      BY <2>4 DEF Sample, TypeOK
    <3> QED
      BY <1>1, <2>1, <2>2, <2>3, <3>1, OneLink DEF Agrees, OthersKept
  <2>5. CASE Check(c, l)
    <3>1. /\ listener[c][l].pc = "sampled"
          /\ \/ listener'[c][l].pc = "idle"
             \/ listener'[c][l].pc = "write" /\ listener'[c][l].state # state_[c]
          /\ UNCHANGED <<state_, heard, report>>
      BY <2>5 DEF Check, IdleListener, TypeOK
    <3> QED
      BY <1>1, <2>1, <2>2, <2>3, <3>1, OneLink DEF Agrees, OthersKept
  <2>6. CASE Write(c, l)
    <3>1. /\ listener[c][l].pc = "write" /\ listener'[c][l].pc = "call"
          /\ state_'[c] = listener[c][l].state
          /\ UNCHANGED <<heard, report>>
      BY <2>6 DEF Write, TypeOK
    <3> QED
      BY <1>1, <2>1, <2>2, <2>3, <3>1, OneLink DEF Agrees, OthersKept
  <2>7. CASE Call(c, l)
    <3>1. /\ listener'[c][l].pc = "idle" /\ report'[c] = state_[c]
          /\ UNCHANGED state_
      BY <2>7 DEF Call, Deliver, IdleListener, TypeOK
    <3> QED
      BY <1>1, <2>1, <2>2, <2>3, <3>1, OneLink DEF Agrees, OthersKept
  <2> QED
    BY <1>3, <2>4, <2>5, <2>6, <2>7 DEF Listen
<1> QED
  BY <1>2, <1>3

\* The invariant that the theorem on repeated reports rests on.
THEOREM ReportInvariant == Spec => []ReportInv
<1>1. Init => ReportInv
  <2> SUFFICES ASSUME Init, NEW c \in Link
               PROVE  heard[c] = {} /\ \A l \in Listener : listener[c][l].pc = "idle"
    BY DEF ReportInv, Alone, Agrees
  <2> QED
    BY DEF Init, IdleListener
<1>2. TypeOK /\ ReportInv /\ [Next]_vars => ReportInv'
  <2> SUFFICES ASSUME TypeOK, ReportInv, [Next]_vars
               PROVE  ReportInv'
    OBVIOUS
  <2>1. CASE UNCHANGED <<state_, listener, closing, opened, report, heard, overlap>>
    BY <2>1 DEF ReportInv, Alone, Agrees
  <2>2. CASE UNCHANGED vars
    BY <2>1, <2>2 DEF vars
  <2>3. ASSUME NEW c \in Link, SetCallback(c) \/ Recv(c) \/ RecvReturns(c) \/ Break(c)
        PROVE  ReportInv'
    BY <2>1, <2>3 DEF SetCallback, Recv, RecvReturns, Break, callerVars, reportVars
  <2>4. ASSUME NEW c \in Link, Open(c) \/ OpenFails(c) \/ Close(c) \/ CloseStep(c)
        PROVE  ReportInv'
    BY <2>4, CallerStep
  <2>5. ASSUME NEW c \in Link, NEW l \in Listener, Expire(c, l) \/ Listen(c, l)
        PROVE  ReportInv'
    BY <2>5, ListenerStep
  <2> QED
    BY <2>2, <2>3, <2>4, <2>5 DEF Next
<1> QED
  BY <1>1, <1>2, TypeCorrect, PTL DEF Spec

\* While its notification threads run one at a time, a link that is open is
\* never reported in the same state twice in a row, not even by a thread left
\* from an earlier connection.
THEOREM NoRepeatedReportAlways == Spec => NoRepeatedReport
<1> DEFINE
      Differs(c, l) ==
        /\ Call(c, l)
        /\ opened[c] /\ closing[c] = "no" /\ heard[c] # {} /\ ~overlap[c]
        => report'[c] # report[c]
<1>1. ReportInv /\ TypeOK => [\A c \in Link, l \in Listener : Differs(c, l)]_vars
  <2> SUFFICES ASSUME ReportInv, TypeOK, NEW c \in Link, NEW l \in Listener, Call(c, l),
                      opened[c], closing[c] = "no", heard[c] # {}, ~overlap[c]
               PROVE  report'[c] # report[c]
    OBVIOUS
  <2>1. listener[c][l].pc = "call" /\ report'[c] = state_[c]
    BY DEF Call, Deliver, TypeOK
  <2> QED
    BY <2>1 DEF ReportInv, Agrees
<1>2. Spec => [][\A c \in Link, l \in Listener : Differs(c, l)]_vars
  BY <1>1, TypeCorrect, ReportInvariant, PTL DEF Spec
<1> QED
  BY <1>2 DEF NoRepeatedReport
-----------------------------------------------------------------------------
(* The safety half of CloseWakesReader. *)

\* A thread is blocked in recv() only on a connection that is up, and that it
\* is not any more once close() has shut it down.
BlockedInv ==
  \A c \in Link :
    /\ reader[c] = "blocked" => sock[c] = "up"
    /\ closing[c] \in {"release", "clear"} => sock[c] # "up"

\* The invariant that the theorem on the thread in recv() rests on.
THEOREM BlockedInvariant == Spec => []BlockedInv
<1>1. Init => BlockedInv
  BY DEF Init, BlockedInv
<1>2. TypeOK /\ ReleaseInv /\ BlockedInv /\ [Next]_vars => BlockedInv'
  <2> SUFFICES ASSUME TypeOK, ReleaseInv, BlockedInv, [Next]_vars
               PROVE  BlockedInv'
    OBVIOUS
  <2> USE DEF socketVars, timerVars, callerVars, reportVars
  <2>1. CASE UNCHANGED vars
    BY <2>1 DEF BlockedInv, vars
  <2>2. ASSUME NEW c \in Link, Open(c) \/ OpenFails(c)
        PROVE  BlockedInv'
    <3>1. /\ reader[c] = "idle" /\ closing[c] = "no"
          /\ UNCHANGED <<reader, closing>>
      BY <2>2 DEF Open, OpenFails, Begin, ReleaseInv
    <3>2. \A d \in Link \ {c} : sock'[d] = sock[d]
      BY <2>2 DEF Open, OpenFails, TypeOK
    <3> QED
      BY <3>1, <3>2 DEF BlockedInv
  <2>3. ASSUME NEW c \in Link, Close(c) \/ CloseStep(c)
        PROVE  BlockedInv'
    <3>1. CASE Close(c)
      BY <3>1 DEF Close, BlockedInv, TypeOK
    <3>2. CASE TimerDelete(c)
      BY <3>2 DEF TimerDelete, BlockedInv, TypeOK
    <3>3. CASE Shutdown(c)
      BY <3>3 DEF Shutdown, Wake, BlockedInv, TypeOK
    <3>4. CASE Release(c)
      BY <3>4 DEF Release, BlockedInv, TypeOK
    <3>5. CASE Clear(c)
      BY <3>5 DEF Clear, BlockedInv, TypeOK
    <3> QED
      BY <2>3, <3>1, <3>2, <3>3, <3>4, <3>5 DEF CloseStep
  <2>4. ASSUME NEW c \in Link, Recv(c) \/ RecvReturns(c) \/ Break(c)
        PROVE  BlockedInv'
    BY <2>4 DEF Recv, RecvReturns, Break, Wake, BlockedInv, TypeOK
  <2>5. ASSUME NEW c \in Link, NEW l \in Listener,
               SetCallback(c) \/ Expire(c, l) \/ Listen(c, l)
        PROVE  BlockedInv'
    <3>1. UNCHANGED <<sock, reader, closing>>
      BY <2>5 DEF SetCallback, Expire, Listen, Sample, Check, Write, Call, Deliver
    <3> QED
      BY <3>1 DEF BlockedInv
  <2>6. ASSUME NEW c \in Link, SetCallback(c)
        PROVE  BlockedInv'
    BY <2>6 DEF SetCallback, BlockedInv
  <2> QED
    BY <2>1, <2>2, <2>3, <2>4, <2>5, <2>6 DEF Next
<1> QED
  BY <1>1, <1>2, TypeCorrect, ReleaseInvariant, PTL DEF Spec

\* A close() that gets past its early return leaves no thread blocked in
\* recv(), so that Controller::stop can join the receive thread.  That
\* close() goes on to its end is what CloseWakesReader adds.
CloseFreesReader ==
  [][\A c \in Link :
       closing[c] # "no" /\ closing'[c] = "no"
         => reader'[c] # "blocked" /\ ~opened'[c]]_vars

\* On every link, and whatever the notification threads write meanwhile.
THEOREM CloseFreesReaderAlways == Spec => CloseFreesReader
<1>1. TypeOK /\ ReleaseInv /\ BlockedInv /\ [Next]_vars
        => [\A c \in Link :
              closing[c] # "no" /\ closing'[c] = "no"
                => reader'[c] # "blocked" /\ ~opened'[c]]_vars
  <2> SUFFICES ASSUME TypeOK, BlockedInv, [Next]_vars, NEW c \in Link,
                      closing[c] # "no", closing'[c] = "no", ReleaseInv
               PROVE  reader'[c] # "blocked" /\ ~opened'[c]
    OBVIOUS
  <2> USE DEF socketVars, timerVars, callerVars, reportVars
  <2>1. Clear(c)
    <3>1. ASSUME NEW d \in Link, CloseStep(d)
          PROVE  Clear(c)
      BY <3>1 DEF CloseStep, TimerDelete, Shutdown, Release, Clear, TypeOK
    <3>2. ASSUME NEW d \in Link, Close(d)
          PROVE  FALSE
      BY <3>2 DEF Close, TypeOK
    <3>3. ASSUME NEW d \in Link, Open(d) \/ OpenFails(d) \/ SetCallback(d)
          PROVE  FALSE
      BY <3>3 DEF Open, OpenFails, Begin, SetCallback
    <3>4. ASSUME NEW d \in Link, Recv(d) \/ RecvReturns(d) \/ Break(d)
          PROVE  FALSE
      BY <3>4 DEF Recv, RecvReturns, Break
    <3>5. ASSUME NEW d \in Link, NEW l \in Listener, Expire(d, l) \/ Listen(d, l)
          PROVE  FALSE
      BY <3>5 DEF Expire, Listen, Sample, Check, Write, Call, Deliver
    <3>6. ~UNCHANGED vars
      BY DEF vars
    <3> QED
      BY <3>1, <3>2, <3>3, <3>4, <3>5, <3>6 DEF Next
  <2> QED
    BY <2>1 DEF Clear, BlockedInv, TypeOK
<1> QED
  BY <1>1, TypeCorrect, ReleaseInvariant, BlockedInvariant, PTL DEF Spec, CloseFreesReader


=============================================================================
