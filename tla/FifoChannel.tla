---------------------------- MODULE FifoChannel ----------------------------
(***************************************************************************)
(* What one direction of the controller promises its callers about the     *)
(* messages given to Controller::send: each is handed to the socket at     *)
(* most once, in the order in which the calls were made, and while the     *)
(* controller is not being stopped none is thrown away.  Module BlockQueue *)
(* is shown to implement this specification.                               *)
(***************************************************************************)
EXTENDS Sequences

CONSTANT Msg        \* the packed messages

VARIABLES
  pending,          \* messages accepted and not yet handed to the socket
  handed,           \* messages handed to the socket, oldest first
  closing           \* the controller is stopped, or stopping

vars == <<pending, handed, closing>>

Init ==
  /\ pending = <<>>
  /\ handed = <<>>
  /\ closing = TRUE

Accept(m) ==
  /\ pending' = Append(pending, m)
  /\ UNCHANGED <<handed, closing>>

\* The oldest pending message goes to the socket.
Hand ==
  /\ pending # <<>>
  /\ handed' = Append(handed, Head(pending))
  /\ pending' = Tail(pending)
  /\ UNCHANGED closing

\* Only around a stop may the oldest message be lost instead.
Drop ==
  /\ closing
  /\ pending # <<>>
  /\ pending' = Tail(pending)
  /\ UNCHANGED <<handed, closing>>

Toggle ==
  /\ closing' = ~closing
  /\ UNCHANGED <<pending, handed>>

Next == (\E m \in Msg : Accept(m)) \/ Hand \/ Drop \/ Toggle

Spec == Init /\ [][Next]_vars

=============================================================================
