----------------------------- MODULE BlockQueue -----------------------------
(***************************************************************************)
(* The outgoing path of one connection: BlockQueue (block_queue.h), the    *)
(* threads that call Controller::send, the send thread of controller.cc    *)
(* that drains the queue, and the owner that starts and stops that thread. *)
(* The upstream and downstream paths are the same code on two objects.     *)
(*                                                                         *)
(* A section under mutex_ is one step.  What the code does outside the     *)
(* mutex is a step of its own: testing `stopped`, copying the reference    *)
(* that take() returned, calling Client::send.  `stopped` is a plain bool; *)
(* the build uses -O0, so every test is one load.                          *)
(***************************************************************************)
EXTENDS Naturals, Sequences

CONSTANTS
  Msg,              \* the buffers Packer::pack returns; each is put once
  Null,             \* an empty shared_ptr
  Garbage           \* a shared_ptr read from a slot that holds no element

ASSUME DistinctValues ==
  /\ Null \notin Msg
  /\ Garbage \notin Msg
  /\ Null # Garbage

VARIABLES
  queue,            \* the elements of the std::queue
  accepted,         \* messages given to put() so far
  stopped,          \* Controller::stopped
  sender,           \* where the send thread is
  p,                \* its local variable p
  handed,           \* messages passed to Client::send, oldest first
  owner             \* where the caller of start() and stop() is

vars == <<queue, accepted, stopped, sender, p, handed, owner>>

SenderPC == {"none", "loop", "take", "wait", "front", "send", "pull", "done"}
OwnerPC  == {"stopped", "running", "notify", "join"}

Init ==
  /\ queue = <<>>
  /\ accepted = {}
  /\ stopped = TRUE
  /\ sender = "none"
  /\ p = Null
  /\ handed = <<>>
  /\ owner = "stopped"

-----------------------------------------------------------------------------
(* BlockQueue. *)

\* cond_.notify_all(): a thread inside cond_.wait returns from it, and with
\* it take() returns base::front() without testing the size again.
NotifyAll(pc) == IF pc = "wait" THEN "front" ELSE pc

Put_NoNotify(m) ==
  /\ m \notin accepted
  /\ queue' = Append(queue, m)
  /\ accepted' = accepted \union {m}
  /\ UNCHANGED <<stopped, sender, p, handed, owner>>

\* put(): called by any thread, whether or not the controller is running.
Put(m) ==
  /\ m \notin accepted
  /\ queue' = Append(queue, m)
  /\ accepted' = accepted \union {m}
  /\ sender' = NotifyAll(sender)
  /\ UNCHANGED <<stopped, p, handed, owner>>

Take_NoWait ==
  /\ sender = "take"
  /\ sender' = "front"
  /\ UNCHANGED <<queue, accepted, stopped, p, handed, owner>>

\* take() up to its return or its wait.
Take ==
  /\ sender = "take"
  /\ sender' = IF queue = <<>> THEN "wait" ELSE "front"
  /\ UNCHANGED <<queue, accepted, stopped, p, handed, owner>>

\* condition_variable::wait without a predicate may return on its own.
SpuriousWake ==
  /\ sender = "wait"
  /\ sender' = "front"
  /\ UNCHANGED <<queue, accepted, stopped, p, handed, owner>>

Pull_Unchecked ==
  /\ sender = "pull"
  /\ queue' = IF queue = <<>> THEN <<Garbage>> ELSE Tail(queue)
  /\ p' = Null
  /\ sender' = "loop"
  /\ UNCHANGED <<accepted, stopped, handed, owner>>

Pull_Newest ==
  /\ sender = "pull"
  /\ queue' = IF queue = <<>> THEN queue ELSE SubSeq(queue, 1, Len(queue) - 1)
  /\ p' = Null
  /\ sender' = "loop"
  /\ UNCHANGED <<accepted, stopped, handed, owner>>

\* pull(), and p leaving its scope at the end of the iteration.
Pull ==
  /\ sender = "pull"
  /\ queue' = IF queue = <<>> THEN queue ELSE Tail(queue)
  /\ p' = Null
  /\ sender' = "loop"
  /\ UNCHANGED <<accepted, stopped, handed, owner>>

-----------------------------------------------------------------------------
(* The send thread. *)

\* while (!stopped)
Loop ==
  /\ sender = "loop"
  /\ sender' = IF stopped THEN "done" ELSE "take"
  /\ UNCHANGED <<queue, accepted, stopped, p, handed, owner>>

Copy_Newest ==
  /\ sender = "front"
  /\ p' \in IF queue = <<>> THEN {Null, Garbage} ELSE {queue[Len(queue)]}
  /\ sender' = IF p' = Null THEN "loop" ELSE "send"
  /\ UNCHANGED <<queue, accepted, stopped, handed, owner>>

\* auto p = take(): the reference is copied after the mutex is released.  If
\* the queue is still empty the slot it refers to holds no live element: it
\* reads as null where the memory is fresh, as a dangling pointer where it
\* was used before.  if (nullptr == p) continue;
Copy ==
  /\ sender = "front"
  /\ p' \in IF queue = <<>> THEN {Null, Garbage} ELSE {Head(queue)}
  /\ sender' = IF p' = Null THEN "loop" ELSE "send"
  /\ UNCHANGED <<queue, accepted, stopped, handed, owner>>

\* Client::send; its result is ignored, so a failed send looks the same here.
\* With a dangling p the program may also crash, which ends the behaviour.
Send ==
  /\ sender = "send"
  /\ handed' = IF p \in Msg THEN Append(handed, p) ELSE handed
  /\ sender' = "pull"
  /\ UNCHANGED <<queue, accepted, stopped, p, owner>>

-----------------------------------------------------------------------------
(* Controller::start and Controller::stop, called by one thread at a time. *)

Start ==
  /\ owner = "stopped"
  /\ stopped' = FALSE
  /\ sender' = "loop"
  /\ owner' = "running"
  /\ UNCHANGED <<queue, accepted, p, handed>>

\* stop() up to the notification: set the flag, close the socket, join the
\* receive thread.
Stop ==
  /\ owner = "running"
  /\ stopped' = TRUE
  /\ owner' = "notify"
  /\ UNCHANGED <<queue, accepted, sender, p, handed>>

Notify_Skipped ==
  /\ owner = "notify"
  /\ owner' = "join"
  /\ UNCHANGED <<queue, accepted, stopped, sender, p, handed>>

\* up_send_queue_.notify()
Notify ==
  /\ owner = "notify"
  /\ sender' = NotifyAll(sender)
  /\ owner' = "join"
  /\ UNCHANGED <<queue, accepted, stopped, p, handed>>

\* up_send_thread_.join()
Join ==
  /\ owner = "join"
  /\ sender = "done"
  /\ sender' = "none"
  /\ owner' = "stopped"
  /\ UNCHANGED <<queue, accepted, stopped, p, handed>>

-----------------------------------------------------------------------------

SenderStep == Loop \/ Take \/ Copy \/ Send \/ Pull

\* Every step but the spurious wake-up.
QuietNext ==
  \/ \E m \in Msg : Put(m)
  \/ SenderStep
  \/ Start \/ Stop \/ Notify \/ Join

Next == QuietNext \/ SpuriousWake

Spec == Init /\ [][Next]_vars

\* The same program on an implementation whose wait never returns unasked.
QuietSpec == Init /\ [][QuietNext]_vars

\* The scheduler runs the send thread and finishes a stop() once it began.
\* Nothing makes a caller send, start or stop.
FairSpec ==
  /\ QuietSpec
  /\ WF_vars(SenderStep)
  /\ WF_vars(Notify)
  /\ WF_vars(Join)

-----------------------------------------------------------------------------
(* Safety. *)

TypeOK ==
  /\ queue \in Seq(Msg)
  /\ accepted \subseteq Msg
  /\ stopped \in BOOLEAN
  /\ sender \in SenderPC
  /\ p \in Msg \union {Null, Garbage}
  /\ handed \in Seq(Msg)
  /\ owner \in OwnerPC

\* A send thread that waits has nothing to send: no interleaving of put()
\* with take() loses the wake-up of a message (put and take, block_queue.h).
NoLostWakeup == sender = "wait" => queue = <<>>

\* From the copy to the pull, the message the send thread works on is the
\* front of the queue, so pull() removes the message that was sent and no
\* other (up_sock_send_thread calls take, send and pull in separate critical
\* sections while other threads put).
TakenIsFront ==
  sender \in {"send", "pull"} /\ p \in Msg => queue # <<>> /\ Head(queue) = p

\* The send thread works on a pointer that no put() supplied only while the
\* controller is being stopped (notify() wakes take() on an empty queue, and
\* it returns the front all the same).
PhantomOnlyInStop == sender \in {"send", "pull"} /\ p \notin Msg => stopped

\* The outgoing path implements the channel: at most once, in order, and no
\* loss unless the controller is being stopped (Controller::send, the queue
\* and the send thread together).
Channel ==
  INSTANCE FifoChannel WITH
    pending <- IF sender = "pull" /\ p \in Msg THEN Tail(queue) ELSE queue,
    closing <- stopped

ImplementsChannel == Channel!Spec

\* The stop() that has begun will find the send thread awake.
Returning ==
  \/ owner = "notify" /\ sender # "take"
  \/ owner = "join" /\ sender \notin {"take", "wait"}

\* The most steps that are left to the send thread, and to notify().
Left ==
  [wait |-> 5, front |-> 4, send |-> 3, pull |-> 2, loop |-> 1, done |-> 0][sender]
    + (IF owner = "notify" THEN 1 ELSE 0)

\* From a stop() that finds the send thread awake or waiting, every step that
\* either thread takes brings its return closer, whatever put() does in
\* between: the send thread does not enter take() again.
StopApproaches ==
  [][Returning => \/ UNCHANGED <<sender, owner>>
                  \/ Returning' /\ Left' < Left
                  \/ owner' = "stopped"]_vars

-----------------------------------------------------------------------------
(* Liveness. *)

Holds(seq, m) == \E i \in DOMAIN seq : seq[i] = m

\* A message that is queued while the controller runs, be it put just now or
\* left over from before a restart, reaches the socket unless the controller
\* is stopped first (put's notification and the loop of the send thread).
Drained ==
  \A m \in Msg :
    ~stopped /\ Holds(queue, m) ~> stopped \/ Holds(handed, m)

\* stop() returns, unless it set the flag after the send thread tested it and
\* before that thread entered take() (stop joins the send thread).
StopReturns == (owner = "notify" /\ sender # "take") ~> owner = "stopped"

\* stop() always returns.
StopAlwaysReturns == owner = "notify" ~> owner = "stopped"

=============================================================================
