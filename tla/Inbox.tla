------------------------------- MODULE Inbox --------------------------------
(***************************************************************************)
(* What the incoming path of one connection gives its handler as long as   *)
(* the segments of the stream end where messages end: of each segment the  *)
(* first message, if its type is known, as what it was sent.  A message is *)
(* so handed over at most once and in order, and one that shares a segment *)
(* with an earlier one is not handed over at all.  Module Receive is shown *)
(* to implement this specification.                                        *)
(***************************************************************************)
EXTENDS Naturals, Sequences

CONSTANTS
  Kind,             \* the types that the handler knows
  Other             \* a type it does not know

VARIABLES
  sent,             \* the types of the messages sent
  left,             \* how many of them are under way no longer
  segment,          \* the first message of the segment received, or 0
  given             \* what the handler was given of the last segment

vars == <<sent, left, segment, given>>

Nothing == [kind |-> Other, msg |-> 0]

Init ==
  /\ sent = <<>>
  /\ left = 0
  /\ segment = 0
  /\ given = Nothing

Send(kind) ==
  /\ sent' = Append(sent, kind)
  /\ UNCHANGED <<left, segment, given>>

\* A segment holds the next messages, one or more.
Arrive ==
  /\ segment = 0
  /\ left' \in left + 1 .. Len(sent)
  /\ segment' = left + 1
  /\ given' = Nothing
  /\ UNCHANGED sent

Hand ==
  /\ segment # 0
  /\ given' = IF sent[segment] \in Kind
                THEN [kind |-> sent[segment], msg |-> segment] ELSE Nothing
  /\ segment' = 0
  /\ UNCHANGED <<sent, left>>

\* With a connection goes what is under way on it.
Lose ==
  /\ segment = 0
  /\ left' = Len(sent)
  /\ given' = Nothing
  /\ UNCHANGED <<sent, segment>>

Next == (\E kind \in Kind \union {Other} : Send(kind)) \/ Arrive \/ Hand \/ Lose

Spec == Init /\ [][Next]_vars

=============================================================================
