------------------------------- MODULE Client -------------------------------
(***************************************************************************)
(* socketlib::Client (socketlib.h, socketlib.cc), one per link.  open()    *)
(* connects a socket and arms a timer whose expirations run listen() in    *)
(* threads of their own; listen() asks the kernel for the TCP state and    *)
(* reports a change to the callback.  close() undoes open() in four steps  *)
(* that no lock protects, so notification threads, the thread blocked in   *)
(* recv() and the thread in close() all interleave.                        *)
(*                                                                         *)
(* The kernel's side (the socket, the timers, their expirations) is the    *)
(* environment; so is the caller, who calls open() and close() in turn and *)
(* reopens only after its receive thread has left recv(), as the           *)
(* Controller does by joining that thread.                                 *)
(***************************************************************************)
EXTENDS Naturals

CONSTANTS
  Link,             \* the Client objects
  Listener,         \* notification threads that can be alive at once, per link
  MaxOrphans        \* bound: timers without a handle, per link

ASSUME OrphansAssumption == MaxOrphans \in Nat

VARIABLES
  sock,             \* the socket sockfd_ names
  timer,            \* the timer timer_ names
  orphans,          \* armed timers that timer_ no longer names
  state_,           \* Client::state_
  callback,         \* callback_ is set
  listener,         \* the notification threads
  closing,          \* where the thread in close() is
  opened,           \* open() was called and close() has not returned since
  reader,           \* the thread that calls recv()
  report,           \* the last state given to the callback
  heard,            \* the states given to the callback since open()
  overlap           \* notification threads have overlapped since open()

vars == <<sock, timer, orphans, state_, callback, listener, closing, opened,
          reader, report, heard, overlap>>
socketVars == <<sock, reader>>
timerVars  == <<timer, orphans>>
callerVars == <<closing, opened>>
reportVars == <<report, heard, overlap>>

ConnectState == {"CLOSED", "CONNECTED", "LOST"}

\* "unconnected": connect() failed.  "lost": the peer closed or reset the
\* connection, or it timed out.  "shut": after shutdown(SHUT_RDWR).
\* "closed": sockfd_ names no socket.
Socket == {"unconnected", "up", "lost", "shut", "closed"}

\* tcpi_state as listen() distinguishes it: TCP_ESTABLISHED, another valid
\* state, or a value that is no TCP state.
TcpInfo == {"ESTABLISHED", "other", "invalid"}

IdleListener == [pc |-> "idle", info |-> "invalid", state |-> "CLOSED"]

Init ==
  /\ sock = [c \in Link |-> "closed"]
  /\ timer = [c \in Link |-> "none"]
  /\ orphans = [c \in Link |-> 0]
  /\ state_ = [c \in Link |-> "CLOSED"]
  /\ callback = [c \in Link |-> FALSE]
  /\ listener = [c \in Link |-> [l \in Listener |-> IdleListener]]
  /\ closing = [c \in Link |-> "no"]
  /\ opened = [c \in Link |-> FALSE]
  /\ reader = [c \in Link |-> "idle"]
  /\ report = [c \in Link |-> "CLOSED"]
  /\ heard = [c \in Link |-> {}]
  /\ overlap = [c \in Link |-> FALSE]

-----------------------------------------------------------------------------
(* set_connect_state_callback, open, recv. *)

SetCallback(c) ==
  /\ callback' = [callback EXCEPT ![c] = TRUE]
  /\ UNCHANGED <<socketVars, timerVars, state_, listener, callerVars, reportVars>>

Busy(c) == {l \in Listener : listener[c][l].pc # "idle"}

\* The caller turns to open(): no other call on this object is in progress.
Begin(c) ==
  /\ ~opened[c]
  /\ reader[c] = "idle"
  /\ opened' = [opened EXCEPT ![c] = TRUE]
  /\ heard' = [heard EXCEPT ![c] = {}]
  /\ overlap' = [overlap EXCEPT ![c] = \E k, l \in Busy(c) : k # l]
  /\ UNCHANGED <<state_, callback, listener, closing, reader, report>>

\* A timer that timer_ still names is forgotten, not deleted.
Open(c) ==
  /\ Begin(c)
  /\ timer[c] = "armed" => orphans[c] < MaxOrphans
  /\ sock' = [sock EXCEPT ![c] = "up"]
  /\ orphans' = [orphans EXCEPT ![c] = @ + (IF timer[c] = "armed" THEN 1 ELSE 0)]
  /\ timer' = [timer EXCEPT ![c] = "armed"]

\* socket(), inet_pton() or connect(), or timer_create() fails: open returns
\* -1 and keeps what it has done so far.
OpenFails(c) ==
  /\ Begin(c)
  /\ \E s \in {"closed", "unconnected", "up"} : sock' = [sock EXCEPT ![c] = s]
  /\ UNCHANGED timerVars

\* ::recv blocks on a connection that is up and at once returns 0 or -1 on
\* any other, which changes nothing here.
Recv(c) ==
  /\ reader[c] = "idle"
  /\ sock[c] = "up"
  /\ reader' = [reader EXCEPT ![c] = "blocked"]
  /\ UNCHANGED <<sock, timerVars, state_, callback, listener, callerVars, reportVars>>

\* The peer's data, or the end of the connection, lets ::recv return.
RecvReturns(c) ==
  /\ reader[c] = "woken" \/ (reader[c] = "blocked" /\ sock[c] = "up")
  /\ reader' = [reader EXCEPT ![c] = "idle"]
  /\ UNCHANGED <<sock, timerVars, state_, callback, listener, callerVars, reportVars>>

Wake(pc) == IF pc = "blocked" THEN "woken" ELSE pc

\* The peer or the network ends the connection.
Break(c) ==
  /\ sock[c] = "up"
  /\ sock' = [sock EXCEPT ![c] = "lost"]
  /\ reader' = [reader EXCEPT ![c] = Wake(@)]
  /\ UNCHANGED <<timerVars, state_, callback, listener, callerVars, reportVars>>

-----------------------------------------------------------------------------
(* listen(), run by a notification thread. *)

\* A timer expires and the C library starts a thread for the notification.
\* The thread may still be on its way when timer_delete returns.
Expire(c, l) ==
  /\ timer[c] = "armed" \/ orphans[c] > 0
  /\ listener[c][l].pc = "idle"
  /\ listener' = [listener EXCEPT ![c][l].pc = "started"]
  /\ overlap' = [overlap EXCEPT ![c] = @ \/ Busy(c) # {}]
  /\ UNCHANGED <<socketVars, timerVars, state_, callback, callerVars, report, heard>>

\* What getsockopt leaves in info, a local that is not initialised: when the
\* call fails it holds whatever the stack held.
TcpState(s) ==
  CASE s = "up"                              -> {"ESTABLISHED"}
    [] s \in {"unconnected", "lost", "shut"} -> {"other"}
    [] s = "closed"                          -> TcpInfo

Sample(c, l) ==
  /\ listener[c][l].pc = "started"
  /\ \E i \in TcpState(sock[c]) :
       listener' = [listener EXCEPT ![c][l].pc = "sampled", ![c][l].info = i]
  /\ UNCHANGED <<socketVars, timerVars, state_, callback, callerVars, reportVars>>

Verdict_Raw(i) == i

\* The local `state`; an invalid value counts only while state_ is CLOSED.
Verdict(i) == IF i = "other" THEN "LOST" ELSE "CONNECTED"

Check_Always(c, l) ==
  LET v == Verdict(listener[c][l].info) IN
  /\ listener[c][l].pc = "sampled"
  /\ listener' = [listener EXCEPT
       ![c][l] = IF callback[c] THEN [@ EXCEPT !.pc = "write", !.state = v]
                                ELSE IdleListener]
  /\ UNCHANGED <<socketVars, timerVars, state_, callback, callerVars, reportVars>>

\* Both reads of state_ and the test of callback_.
Check(c, l) ==
  LET i == listener[c][l].info
      changed == /\ i = "invalid" => state_[c] = "CLOSED"
                 /\ Verdict(i) # state_[c]
                 /\ callback[c]
  IN
  /\ listener[c][l].pc = "sampled"
  /\ listener' = [listener EXCEPT
       ![c][l] = IF changed THEN [@ EXCEPT !.pc = "write", !.state = Verdict(i)]
                            ELSE IdleListener]
  /\ UNCHANGED <<socketVars, timerVars, state_, callback, callerVars, reportVars>>

\* state_ = state
Write(c, l) ==
  /\ listener[c][l].pc = "write"
  /\ state_' = [state_ EXCEPT ![c] = listener[c][l].state]
  /\ listener' = [listener EXCEPT ![c][l].pc = "call"]
  /\ UNCHANGED <<socketVars, timerVars, callback, callerVars, reportVars>>

Deliver(c, l, s) ==
  /\ listener[c][l].pc = "call"
  /\ report' = [report EXCEPT ![c] = s]
  /\ heard' = [heard EXCEPT ![c] = @ \union {s}]
  /\ listener' = [listener EXCEPT ![c][l] = IdleListener]
  /\ UNCHANGED <<socketVars, timerVars, state_, callback, callerVars, overlap>>

Call_Local(c, l) == Deliver(c, l, listener[c][l].state)

\* callback_(state_, param_): state_ is read again.
Call(c, l) == Deliver(c, l, state_[c])

-----------------------------------------------------------------------------
(* close(). *)

\* close() and its early return.
Close(c) ==
  /\ opened[c]
  /\ closing[c] = "no"
  /\ IF state_[c] = "CLOSED"
       THEN /\ opened' = [opened EXCEPT ![c] = FALSE]
            /\ UNCHANGED closing
       ELSE /\ closing' = [closing EXCEPT ![c] = "delete"]
            /\ UNCHANGED opened
  /\ UNCHANGED <<socketVars, timerVars, state_, callback, listener, reportVars>>

TimerDelete_Skipped(c) ==
  /\ closing[c] = "delete"
  /\ closing' = [closing EXCEPT ![c] = "shutdown"]
  /\ UNCHANGED <<socketVars, timerVars, state_, callback, listener, opened, reportVars>>

\* timer_delete(timer_)
TimerDelete(c) ==
  /\ closing[c] = "delete"
  /\ timer' = [timer EXCEPT ![c] = "none"]
  /\ closing' = [closing EXCEPT ![c] = "shutdown"]
  /\ UNCHANGED <<socketVars, orphans, state_, callback, listener, opened, reportVars>>

Shutdown_Skipped(c) ==
  /\ closing[c] = "shutdown"
  /\ closing' = [closing EXCEPT ![c] = "release"]
  /\ UNCHANGED <<socketVars, timerVars, state_, callback, listener, opened, reportVars>>

\* shutdown(sockfd_, SHUT_RDWR)
Shutdown(c) ==
  /\ closing[c] = "shutdown"
  /\ sock' = [sock EXCEPT ![c] = IF @ \in {"up", "lost"} THEN "shut" ELSE @]
  /\ reader' = [reader EXCEPT ![c] = Wake(@)]
  /\ closing' = [closing EXCEPT ![c] = "release"]
  /\ UNCHANGED <<timerVars, state_, callback, listener, opened, reportVars>>

\* ::close(sockfd_)
Release(c) ==
  /\ closing[c] = "release"
  /\ sock' = [sock EXCEPT ![c] = "closed"]
  /\ closing' = [closing EXCEPT ![c] = "clear"]
  /\ UNCHANGED <<reader, timerVars, state_, callback, listener, opened, reportVars>>

\* state_ = CLOSED, and the return.
Clear(c) ==
  /\ closing[c] = "clear"
  /\ state_' = [state_ EXCEPT ![c] = "CLOSED"]
  /\ closing' = [closing EXCEPT ![c] = "no"]
  /\ opened' = [opened EXCEPT ![c] = FALSE]
  /\ UNCHANGED <<socketVars, timerVars, callback, listener, reportVars>>

-----------------------------------------------------------------------------

Listen(c, l) == Sample(c, l) \/ Check(c, l) \/ Write(c, l) \/ Call(c, l)
CloseStep(c) == TimerDelete(c) \/ Shutdown(c) \/ Release(c) \/ Clear(c)

Next ==
  \E c \in Link :
    \/ SetCallback(c) \/ Open(c) \/ OpenFails(c) \/ Close(c) \/ CloseStep(c)
    \/ Recv(c) \/ RecvReturns(c) \/ Break(c)
    \/ \E l \in Listener : Expire(c, l) \/ Listen(c, l)

Spec == Init /\ [][Next]_vars

\* Armed timers keep expiring, threads that started run on, close() goes on
\* once it is past its early return, and a recv() the kernel woke returns.
\* Nobody has to call, and no connection has to break or carry data.
FairSpec ==
  /\ Spec
  /\ \A c \in Link :
       /\ WF_vars(CloseStep(c))
       /\ WF_vars(RecvReturns(c) /\ reader[c] = "woken")
       /\ \A l \in Listener : WF_vars(Expire(c, l)) /\ WF_vars(Listen(c, l))

-----------------------------------------------------------------------------
(* Safety. *)

TypeOK ==
  /\ sock \in [Link -> Socket]
  /\ timer \in [Link -> {"none", "armed"}]
  /\ orphans \in [Link -> 0 .. MaxOrphans]
  /\ state_ \in [Link -> ConnectState]
  /\ callback \in [Link -> BOOLEAN]
  /\ listener \in [Link -> [Listener ->
       [pc : {"idle", "started", "sampled", "write", "call"},
        info : TcpInfo, state : ConnectState]]]
  /\ closing \in [Link -> {"no", "delete", "shutdown", "release", "clear"}]
  /\ opened \in [Link -> BOOLEAN]
  /\ reader \in [Link -> {"idle", "blocked", "woken"}]
  /\ report \in [Link -> ConnectState]
  /\ heard \in [Link -> SUBSET ConnectState]
  /\ overlap \in [Link -> BOOLEAN]

\* A close() after the application has heard CONNECTED or LOST of this
\* connection releases everything, even if notification threads of an
\* earlier connection overwrite state_ meanwhile.  (Before that, the early
\* return of close() leaves the timer running and the socket open.)
CloseReleases ==
  [][\A c \in Link :
       opened[c] /\ ~opened'[c] /\ heard[c] \intersect {"CONNECTED", "LOST"} # {}
         => timer'[c] = "none" /\ sock'[c] = "closed"]_vars

\* While its notification threads run one at a time, a link that is open is
\* never reported in the same state twice in a row (the test of state_ in
\* listen), not even when a thread of an earlier connection reports late.
NoRepeatedReport ==
  [][\A c \in Link, l \in Listener :
       /\ Call(c, l)
       /\ opened[c] /\ closing[c] = "no" /\ heard[c] # {} /\ ~overlap[c]
       => report'[c] # report[c]]_vars

\* listen() takes an unreadable TCP state for CONNECTED only on a connection
\* that has been opened (socketlib.cc:218 "first time after open").
FirstTimeAfterOpen ==
  \A c \in Link, l \in Listener :
    listener[c][l].pc = "write" /\ listener[c][l].info = "invalid" => opened[c]

-----------------------------------------------------------------------------
(* Liveness. *)

\* A link that stays open, with its timer and a callback.
Watched(c) ==
  opened[c] /\ closing[c] = "no" /\ callback[c] /\ timer[c] = "armed"

\* The report matches the connection in the end: if a watched link is lost,
\* the last report is LOST, and if it stays up, CONNECTED.  It holds however
\* many notification threads overlap, because state_ is read again for the
\* call (listen).
ReportsConverge ==
  \A c \in Link :
    /\ <>[](Watched(c) /\ sock[c] = "lost") => <>[](report[c] = "LOST")
    /\ <>[](Watched(c) /\ sock[c] = "up") => <>[](report[c] = "CONNECTED")

\* A close() that gets past its early return frees the thread in recv(), so
\* that the caller can join it.
CloseWakesReader ==
  \A c \in Link : closing[c] # "no" ~> reader[c] # "blocked" /\ ~opened[c]

=============================================================================
