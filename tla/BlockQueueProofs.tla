-------------------------- MODULE BlockQueueProofs --------------------------
(***************************************************************************)
(* Proofs about BlockQueue, for any set of messages and any number of      *)
(* restarts.                                                               *)
(***************************************************************************)
EXTENDS BlockQueue, SequenceTheorems, TLAPS

(* Type correctness. *)

\* Every step, the spurious wake-up included, preserves the types.
LEMMA TypeStep == TypeOK /\ [Next]_vars => TypeOK'
<1> SUFFICES ASSUME TypeOK, [Next]_vars PROVE TypeOK'
  OBVIOUS
<1> USE DEF TypeOK, SenderPC, OwnerPC
<1>1. ASSUME NEW m \in Msg, Put(m) PROVE TypeOK'
  <2>1. queue' \in Seq(Msg)
    BY <1>1, AppendProperties DEF Put
  <2> QED
    BY <1>1, <2>1 DEF Put, NotifyAll
<1>2. CASE Loop
  BY <1>2 DEF Loop
<1>3. CASE Take
  BY <1>3 DEF Take
<1>4. CASE Copy
  <2>1. queue # <<>> => Head(queue) \in Msg
    BY HeadTailProperties
  <2> QED
    BY <1>4, <2>1 DEF Copy
<1>5. CASE Send
  <2>1. handed' \in Seq(Msg)
    BY <1>5, AppendProperties DEF Send
  <2> QED
    BY <1>5, <2>1 DEF Send
<1>6. CASE Pull
  <2>1. queue' \in Seq(Msg)
    BY <1>6, HeadTailProperties DEF Pull
  <2> QED
    BY <1>6, <2>1 DEF Pull
<1>7. CASE Start
  BY <1>7 DEF Start
<1>8. CASE Stop
  BY <1>8 DEF Stop
<1>9. CASE Notify
  BY <1>9 DEF Notify, NotifyAll
<1>10. CASE Join
  BY <1>10 DEF Join
<1>11. CASE SpuriousWake
  BY <1>11 DEF SpuriousWake
<1>12. CASE UNCHANGED vars
  BY <1>12 DEF vars
<1> QED
  BY <1>1, <1>2, <1>3, <1>4, <1>5, <1>6, <1>7, <1>8, <1>9, <1>10, <1>11, <1>12
     DEF Next, QuietNext, SenderStep

\* The types hold in every state of every behaviour of the outgoing path.
THEOREM TypeCorrect == Spec => []TypeOK
<1>1. Init => TypeOK
  BY EmptySeq DEF Init, TypeOK, SenderPC, OwnerPC
<1> QED
  BY <1>1, TypeStep, PTL DEF Spec

-----------------------------------------------------------------------------
(* Wake-ups and the single consumer. *)

Delivery == NoLostWakeup /\ TakenIsFront

LEMMA DeliveryStep == TypeOK /\ Delivery /\ [Next]_vars => Delivery'
<1> SUFFICES ASSUME TypeOK, Delivery, [Next]_vars PROVE Delivery'
  OBVIOUS
<1> USE DEF Delivery, NoLostWakeup, TakenIsFront
<1>1. ASSUME NEW m \in Msg, Put(m) PROVE Delivery'
  \* A waiting sender is woken; for a working one the front stays in place.
  <2>1. queue' # <<>> /\ (queue # <<>> => Head(queue') = Head(queue))
    BY <1>1, AppendProperties, HeadTailAppend DEF Put, TypeOK
  <2>2. sender' # "wait"
    BY <1>1 DEF Put, NotifyAll
  <2>3. sender' \in {"send", "pull"} => sender' = sender
    BY <1>1 DEF Put, NotifyAll
  <2> QED
    BY <1>1, <2>1, <2>2, <2>3 DEF Put
<1>2. CASE Loop
  BY <1>2 DEF Loop
<1>3. CASE Take
  BY <1>3 DEF Take
<1>4. CASE Copy
  \* A message can only have been copied from the front.
  BY <1>4, DistinctValues DEF Copy
<1>5. CASE Send
  BY <1>5 DEF Send
<1>6. CASE Pull
  BY <1>6 DEF Pull
<1>7. CASE Start
  BY <1>7 DEF Start
<1>8. CASE Stop
  BY <1>8 DEF Stop
<1>9. CASE Notify
  BY <1>9 DEF Notify, NotifyAll
<1>10. CASE Join
  BY <1>10 DEF Join
<1>11. CASE SpuriousWake
  BY <1>11 DEF SpuriousWake
<1>12. CASE UNCHANGED vars
  BY <1>12 DEF vars
<1> QED
  BY <1>1, <1>2, <1>3, <1>4, <1>5, <1>6, <1>7, <1>8, <1>9, <1>10, <1>11, <1>12
     DEF Next, QuietNext, SenderStep

LEMMA DeliveryAlways == Spec => []Delivery
<1>1. Init => Delivery
  BY DEF Init, Delivery, NoLostWakeup, TakenIsFront
<1> QED
  BY <1>1, DeliveryStep, TypeCorrect, PTL DEF Spec

\* No wake-up is lost: a waiting send thread has an empty queue, whatever
\* the callers of send() do and even if waits return spuriously.
THEOREM NoLostWakeupAlways == Spec => []NoLostWakeup
BY DeliveryAlways, PTL DEF Delivery

\* pull() removes the very message that was sent, even if waits return
\* spuriously.
THEOREM TakenIsFrontAlways == Spec => []TakenIsFront
BY DeliveryAlways, PTL DEF Delivery

-----------------------------------------------------------------------------
(* Phantoms, and the refinement.  Both need waits that return only when      *)
(* notified.                                                                 *)

\* The flag follows the owner, and no send thread outlives a completed stop.
OwnerInv ==
  /\ stopped <=> owner # "running"
  /\ owner = "stopped" => sender = "none"

\* take() comes back without an element only in a stop.
EmptyFrontInStop == sender = "front" /\ queue = <<>> => stopped

QuietInv == OwnerInv /\ EmptyFrontInStop /\ PhantomOnlyInStop

LEMMA QuietImpliesSpec == QuietSpec => Spec
<1>1. [QuietNext]_vars => [Next]_vars
  BY DEF Next
<1> QED
  BY <1>1, PTL DEF QuietSpec, Spec

LEMMA QuietStep == TypeOK /\ QuietInv /\ [QuietNext]_vars => QuietInv'
<1> SUFFICES ASSUME TypeOK, QuietInv, [QuietNext]_vars PROVE QuietInv'
  OBVIOUS
<1> USE DEF QuietInv, OwnerInv, EmptyFrontInStop, PhantomOnlyInStop
<1>1. ASSUME NEW m \in Msg, Put(m) PROVE QuietInv'
  <2>1. queue' # <<>>
    BY <1>1, AppendProperties DEF Put, TypeOK
  <2>2. sender' \in {sender, "front"}
    BY <1>1 DEF Put, NotifyAll
  <2>3. owner = "stopped" => sender' = "none"
    BY <1>1 DEF Put, NotifyAll
  <2> QED
    BY <1>1, <2>1, <2>2, <2>3 DEF Put
<1>2. CASE Loop
  BY <1>2 DEF Loop
<1>3. CASE Take
  BY <1>3 DEF Take
<1>4. CASE Copy
  <2>1. queue # <<>> => p' \in Msg
    BY <1>4, HeadTailProperties DEF Copy, TypeOK
  <2> QED
    BY <1>4, <2>1 DEF Copy
<1>5. CASE Send
  BY <1>5 DEF Send
<1>6. CASE Pull
  BY <1>6 DEF Pull
<1>7. CASE Start
  BY <1>7 DEF Start
<1>8. CASE Stop
  BY <1>8 DEF Stop
<1>9. CASE Notify
  BY <1>9 DEF Notify, NotifyAll
<1>10. CASE Join
  BY <1>10 DEF Join
<1>11. CASE UNCHANGED vars
  BY <1>11 DEF vars
<1> QED
  BY <1>1, <1>2, <1>3, <1>4, <1>5, <1>6, <1>7, <1>8, <1>9, <1>10, <1>11
     DEF QuietNext, SenderStep

LEMMA QuietAlways == QuietSpec => []QuietInv
<1>1. Init => QuietInv
  BY DEF Init, QuietInv, OwnerInv, EmptyFrontInStop, PhantomOnlyInStop
<1>2. QuietSpec => []TypeOK
  BY QuietImpliesSpec, TypeCorrect, PTL
<1> QED
  BY <1>1, <1>2, QuietStep, PTL DEF QuietSpec

\* The send thread works on a pointer nobody put only while the controller
\* is being stopped.
THEOREM PhantomOnlyInStopAlways == QuietSpec => []PhantomOnlyInStop
BY QuietAlways, PTL DEF QuietInv

\* Each step of the outgoing path is a step of the channel or leaves it as
\* it is: put() accepts, send hands over, a pull() after a phantom drops.
LEMMA ChannelStep ==
  TypeOK /\ Delivery /\ QuietInv /\ [QuietNext]_vars
    => [Channel!Next]_(Channel!vars)
<1> SUFFICES ASSUME TypeOK, Delivery, QuietInv, [QuietNext]_vars
             PROVE  Channel!Next \/ UNCHANGED Channel!vars
  OBVIOUS
<1> USE DEF Channel!Next, Channel!vars
<1>1. ASSUME NEW m \in Msg, Put(m)
      PROVE  Channel!Accept(m)
  <2>1. sender' = sender \/ (sender # "pull" /\ sender' # "pull")
    BY <1>1 DEF Put, NotifyAll
  <2>2. queue' = Append(queue, m)
    BY <1>1 DEF Put
  <2>3. CASE sender = "pull" /\ p \in Msg
    <3>1. queue # <<>>
      BY <2>3 DEF Delivery, TakenIsFront
    <3>2. Tail(queue') = Append(Tail(queue), m)
      BY <2>2, <3>1, HeadTailAppend DEF TypeOK
    <3> QED
      BY <1>1, <2>1, <2>3, <3>2 DEF Put, Channel!Accept
  <2>4. CASE ~(sender = "pull" /\ p \in Msg)
    BY <1>1, <2>1, <2>2, <2>4 DEF Put, Channel!Accept
  <2> QED
    BY <2>3, <2>4
<1>2. CASE Loop
  BY <1>2 DEF Loop
<1>3. CASE Take
  BY <1>3 DEF Take
<1>4. CASE Copy
  BY <1>4 DEF Copy
<1>5. CASE Send
  <2>1. CASE p \in Msg
    \* The message handed over is the front.
    <3>1. queue # <<>> /\ Head(queue) = p
      BY <1>5, <2>1 DEF Send, Delivery, TakenIsFront
    <3> QED
      BY <1>5, <2>1, <3>1 DEF Send, Channel!Hand
  <2>2. CASE p \notin Msg
    BY <1>5, <2>2 DEF Send
  <2> QED
    BY <2>1, <2>2
<1>6. CASE Pull
  <2>1. CASE p \in Msg
    <3>1. queue # <<>>
      BY <1>6, <2>1 DEF Pull, Delivery, TakenIsFront
    <3> QED
      BY <1>6, <2>1, <3>1 DEF Pull
  <2>2. CASE p \notin Msg /\ queue # <<>>
    \* A phantom was sent: the front is lost, which only a stop may cause.
    <3>1. stopped
      BY <1>6, <2>2 DEF Pull, QuietInv, PhantomOnlyInStop
    <3> QED
      BY <1>6, <2>2, <3>1 DEF Pull, Channel!Drop
  <2>3. CASE p \notin Msg /\ queue = <<>>
    BY <1>6, <2>3 DEF Pull
  <2> QED
    BY <2>1, <2>2, <2>3
<1>7. CASE Start
  BY <1>7 DEF Start, QuietInv, OwnerInv, Channel!Toggle, TypeOK
<1>8. CASE Stop
  BY <1>8 DEF Stop, QuietInv, OwnerInv, Channel!Toggle, TypeOK
<1>9. CASE Notify
  BY <1>9 DEF Notify, NotifyAll
<1>10. CASE Join
  BY <1>10 DEF Join
<1>11. CASE UNCHANGED vars
  BY <1>11 DEF vars
<1> QED
  BY <1>1, <1>2, <1>3, <1>4, <1>5, <1>6, <1>7, <1>8, <1>9, <1>10, <1>11
     DEF QuietNext, SenderStep

\* The outgoing path implements the abstract channel: what send() accepts
\* reaches the socket in order and at most once, and is lost only in a stop.
THEOREM ImplementsChannelProved == QuietSpec => ImplementsChannel
<1>1. Init => Channel!Init
  BY DEF Init, Channel!Init
<1>2. QuietSpec => []TypeOK /\ []Delivery
  BY QuietImpliesSpec, TypeCorrect, DeliveryAlways, PTL
<1> QED
  BY <1>1, <1>2, QuietAlways, ChannelStep, PTL
     DEF QuietSpec, ImplementsChannel, Channel!Spec
-----------------------------------------------------------------------------
(* The return of stop(), but for the fairness, which is left to TLC: a step  *)
(* is possible until it returns, and every step brings it closer.            *)

\* stop() notifies and joins with the flag set and the thread created.
StopInv ==
  /\ stopped <=> owner # "running"
  /\ owner = "stopped" <=> sender = "none"

LEMMA StopStep == TypeOK /\ StopInv /\ [Next]_vars => StopInv'
<1> SUFFICES ASSUME TypeOK, StopInv, [Next]_vars PROVE StopInv'
  OBVIOUS
<1> USE DEF StopInv
<1>1. ASSUME NEW m \in Msg, Put(m) PROVE StopInv'
  BY <1>1 DEF Put, NotifyAll
<1>2. CASE Loop
  BY <1>2 DEF Loop
<1>3. CASE Take
  BY <1>3 DEF Take
<1>4. CASE Copy
  BY <1>4 DEF Copy
<1>5. CASE Send
  BY <1>5 DEF Send
<1>6. CASE Pull
  BY <1>6 DEF Pull
<1>7. CASE Start
  BY <1>7 DEF Start
<1>8. CASE Stop
  BY <1>8 DEF Stop
<1>9. CASE Notify
  BY <1>9 DEF Notify, NotifyAll
<1>10. CASE Join
  BY <1>10 DEF Join
<1>11. CASE SpuriousWake
  BY <1>11 DEF SpuriousWake
<1>12. CASE UNCHANGED vars
  BY <1>12 DEF vars
<1> QED
  BY <1>1, <1>2, <1>3, <1>4, <1>5, <1>6, <1>7, <1>8, <1>9, <1>10, <1>11, <1>12
     DEF Next, QuietNext, SenderStep

LEMMA StopAlways == Spec => []StopInv
<1>1. Init => StopInv
  BY DEF Init, StopInv
<1> QED
  BY <1>1, StopStep, TypeCorrect, PTL DEF Spec

\* Until stop() returns, the guard of a step of the send thread, of notify()
\* or of join() holds.
StopCanGo ==
  Returning => owner = "notify" \/ sender \in {"loop", "front", "send", "pull", "done"}

THEOREM StopCanGoAlways == Spec => []StopCanGo
<1>1. TypeOK /\ StopInv => StopCanGo
  BY DEF TypeOK, StopInv, StopCanGo, Returning, SenderPC
<1> QED
  BY <1>1, TypeCorrect, StopAlways, PTL

\* A send thread that is not between its test of the flag and take() when
\* stop() sets it never enters take() again, and each step that it or stop()
\* takes, a spurious wake-up included, brings the return of stop() closer.
THEOREM StopApproachesAlways == Spec => StopApproaches
<1>1. TypeOK /\ StopInv /\ [Next]_vars
        => [Returning => \/ UNCHANGED <<sender, owner>>
                         \/ Returning' /\ Left' < Left
                         \/ owner' = "stopped"]_vars
  <2> SUFFICES ASSUME TypeOK, StopInv, [Next]_vars, Returning
               PROVE  \/ UNCHANGED <<sender, owner>>
                      \/ Returning' /\ Left' < Left
                      \/ owner' = "stopped"
    OBVIOUS
  <2> USE DEF Returning, Left
  <2>0. stopped /\ owner \in {"notify", "join"} /\ sender \in SenderPC \ {"none", "take"}
    BY DEF StopInv, TypeOK
  <2>1. ASSUME NEW m \in Msg, Put(m)
        PROVE  UNCHANGED <<sender, owner>> \/ (Returning' /\ Left' < Left)
    BY <2>1 DEF Put, NotifyAll
  <2>2. CASE Loop
    BY <2>0, <2>2 DEF Loop
  <2>3. CASE Copy
    BY <2>0, <2>3 DEF Copy
  <2>4. CASE Send
    BY <2>0, <2>4 DEF Send
  <2>5. CASE Pull
    BY <2>0, <2>5 DEF Pull
  <2>6. CASE Notify
    BY <2>0, <2>6 DEF Notify, NotifyAll, SenderPC
  <2>7. CASE Join
    BY <2>7 DEF Join
  <2>8. CASE SpuriousWake
    BY <2>0, <2>8 DEF SpuriousWake
  <2>9. CASE UNCHANGED vars
    BY <2>9 DEF vars
  <2>10. ~Take /\ ~Start /\ ~Stop
    BY <2>0 DEF Take, Start, Stop
  <2> QED
    BY <2>1, <2>2, <2>3, <2>4, <2>5, <2>6, <2>7, <2>8, <2>9, <2>10
       DEF Next, QuietNext, SenderStep
<1> QED
  BY <1>1, TypeCorrect, StopAlways, PTL DEF Spec, StopApproaches


=============================================================================
