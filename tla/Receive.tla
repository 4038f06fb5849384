------------------------------ MODULE Receive -------------------------------
(***************************************************************************)
(* The incoming path of one connection: the receive thread of              *)
(* controller.cc, which passes what each recv() returns to                 *)
(* Packer::unpack, and unpack, which takes the start of its buffer for the *)
(* start of a message and calls the handler once at most.  TCP delivers a  *)
(* stream, so a recv() may return part of a message or several; the buffer *)
(* is not cleared between calls and keeps older bytes behind the new ones. *)
(*                                                                         *)
(* A byte is the message it belongs to and its offset there.  What a byte  *)
(* of a message's interior looks like when it is taken for another field   *)
(* is left open, as are fields that the code leaves uninitialised.         *)
(***************************************************************************)
EXTENDS Naturals, Sequences

CONSTANTS
  Kind,             \* message types that unpack knows
  Other,            \* a type it does not know
  Total,            \* bytes of a message of each type, header included
  HeaderSize,       \* sizeof(MessageHeader), 16 in the code
  TypeOffset,       \* offset of data_type_, 5 in the code
  BufSize,          \* sizeof(buf), 4096 in the code
  MaxSent           \* bound: messages the peer sends

AnyKind == Kind \union {Other}

ASSUME ReceiveAssumption ==
  /\ Other \notin Kind
  /\ TypeOffset \in 1 .. HeaderSize - 1
  /\ HeaderSize \in Nat /\ BufSize \in Nat /\ MaxSent \in Nat
  /\ Total \in [AnyKind -> HeaderSize .. BufSize]

VARIABLES
  sent,             \* the types of the messages the peer has sent
  stream,           \* the bytes on their way
  buf,              \* buf of up_sock_recv_thread
  size,             \* its variable size
  pc,               \* where the receive thread is
  call,             \* the handler call since the last recv(), if any
  cut               \* a segment of this connection ended inside a message

vars == <<sent, stream, buf, size, pc, call, cut>>

Zero == [msg |-> 0, at |-> 0]

NoCall == [kind |-> Other, msg |-> 0, stale |-> FALSE]

\* A byte of the buffer that was never received is zero, and is no identifier.
Start(b) == b # Zero /\ b.at = 0

EmptyBuf == [i \in 1 .. BufSize |-> Zero]

Init ==
  /\ sent = <<>>
  /\ stream = <<>>
  /\ buf = EmptyBuf
  /\ size = 0
  /\ pc = "recv"
  /\ call = NoCall
  /\ cut = FALSE

-----------------------------------------------------------------------------
(* The peer and the connection. *)

Bytes(n, kind) == [i \in 1 .. Total[kind] |-> [msg |-> n, at |-> i - 1]]

PeerSend(kind) ==
  /\ Len(sent) < MaxSent
  /\ sent' = Append(sent, kind)
  /\ stream' = stream \o Bytes(Len(sent) + 1, kind)
  /\ UNCHANGED <<buf, size, pc, call, cut>>

\* A new connection starts with a new thread, whose buffer is zero; what was
\* under way on the old one is gone.
Restart ==
  /\ pc = "done"
  /\ stream' = <<>>
  /\ buf' = EmptyBuf
  /\ size' = 0
  /\ pc' = "recv"
  /\ call' = NoCall
  /\ cut' = FALSE
  /\ UNCHANGED sent

-----------------------------------------------------------------------------
(* The receive thread. *)

\* The first n bytes of the stream end with a message.
Boundary(n) == n = Len(stream) \/ Start(stream[n + 1])

\* recv() returns n bytes, overwriting as many of the buffer.
Recv(n) ==
  /\ pc = "recv"
  /\ n \in 1 .. BufSize /\ n <= Len(stream)
  /\ buf' = [i \in 1 .. BufSize |-> IF i <= n THEN stream[i] ELSE buf[i]]
  /\ stream' = SubSeq(stream, n + 1, Len(stream))
  /\ size' = n
  /\ pc' = "unpack"
  /\ call' = NoCall
  /\ cut' = (cut \/ ~Boundary(n))
  /\ UNCHANGED sent

\* The peer shut down, recv() failed, or `stopped` is set.
Exit ==
  /\ pc = "recv"
  /\ pc' = "done"
  /\ UNCHANGED <<sent, stream, buf, size, call, cut>>

-----------------------------------------------------------------------------
(* Packer::unpack. *)

\* The values that the byte at offset TypeOffset of the buffer, fresh or
\* left over, may have as a type.
TypeOf(b) ==
  IF b = Zero THEN {Other}
  ELSE IF b.at = TypeOffset THEN {sent[b.msg]}
  ELSE AnyKind

\* The header of a message, if the buffer starts with one and it was received.
HeaderOf ==
  IF size >= HeaderSize /\ Start(buf[1]) /\ buf[HeaderSize].msg = buf[1].msg
    THEN buf[1].msg ELSE 0

GivesUp_Never(kind) == {FALSE}

GivesUp_Unequal(kind) ==
  IF Total[kind] = HeaderSize THEN {size < HeaderSize}
  ELSE IF size < HeaderSize THEN {FALSE}
  ELSE IF HeaderOf # 0 THEN {size # Total[kind]}
  ELSE BOOLEAN

GivesUp_AtEnd(kind) ==
  IF Total[kind] = HeaderSize THEN {size < HeaderSize}
  ELSE IF size < HeaderSize THEN {FALSE}
  ELSE IF HeaderOf # 0 THEN {size <= Total[kind]}
  ELSE BOOLEAN

\* The constructor gives up if it knows that fewer than data_len_ bytes came.
\* A header that was cut off stops only a bare MessageHeader: elsewhere
\* size - offset wraps around and is never less.  An interior taken for a
\* header may stop it or not.
GivesUp(kind) ==
  IF Total[kind] = HeaderSize THEN {size < HeaderSize}
  ELSE IF size < HeaderSize THEN {FALSE}
  ELSE IF HeaderOf # 0 THEN {size < Total[kind]}
  ELSE BOOLEAN

\* The message whose bytes, in place, are the first n of the buffer.
MessageIn(n) ==
  IF \A i \in 1 .. n : buf[i] = [msg |-> buf[1].msg, at |-> i - 1]
    THEN buf[1].msg ELSE 0

\* A call of on_unpack for a type: the message it passes on, 0 if the object
\* is not the decoding of one, and whether the constructor read bytes that
\* this recv() did not return.
Handled(kind, up) ==
  [kind |-> kind,
   msg |-> IF HeaderOf # 0 /\ ~up THEN MessageIn(Total[kind]) ELSE 0,
   stale |-> ~up /\ size < Total[kind]]

Unpack_AnyType ==
  /\ pc = "unpack"
  /\ \E kind \in TypeOf(buf[TypeOffset + 1]), id \in BOOLEAN :
       /\ Start(buf[1]) => id
       /\ IF id
            THEN \E up \in GivesUp(kind) : call' = Handled(kind, up)
            ELSE UNCHANGED call
  /\ pc' = "recv"
  /\ UNCHANGED <<sent, stream, buf, size, cut>>

\* The identifier at the start of the buffer, then a switch over the type.
\* The first byte of an interior may happen to equal the identifier.
Unpack ==
  /\ pc = "unpack"
  /\ \E kind \in TypeOf(buf[TypeOffset + 1]), id \in BOOLEAN :
       /\ Start(buf[1]) => id
       /\ IF id /\ kind \in Kind
            THEN \E up \in GivesUp(kind) : call' = Handled(kind, up)
            ELSE UNCHANGED call
  /\ pc' = "recv"
  /\ UNCHANGED <<sent, stream, buf, size, cut>>

-----------------------------------------------------------------------------

Next ==
  \/ \E kind \in AnyKind : PeerSend(kind)
  \/ \E n \in 1 .. BufSize : Recv(n)
  \/ Unpack \/ Exit \/ Restart

Spec == Init /\ [][Next]_vars

-----------------------------------------------------------------------------

TypeOK ==
  LET Cell == [msg : 0 .. Len(sent), at : 0 .. BufSize] IN
  /\ sent \in Seq(AnyKind)
  /\ stream \in Seq(Cell)
  /\ buf \in [1 .. BufSize -> Cell]
  /\ size \in 0 .. BufSize
  /\ pc \in {"recv", "unpack", "done"}
  /\ cut \in BOOLEAN
  /\ call \in {NoCall} \union [kind : Kind, msg : 0 .. Len(sent), stale : BOOLEAN]

\* However the stream is cut: if a segment begins with a complete message of
\* a known type, the handler gets exactly that message, decoded from nothing
\* but fresh bytes, whatever follows it and whatever the buffer held before
\* (the receive thread and the checks of _size in unpack's constructors).
WholeDelivered ==
  LET n == buf[1].msg IN
  /\ pc # "unpack" /\ size > 0
  /\ Start(buf[1]) /\ sent[n] \in Kind /\ size >= Total[sent[n]]
  => call = [kind |-> sent[n], msg |-> n, stale |-> FALSE]

\* Bytes that were not just received are decoded only if the segment does not
\* begin with a complete header: the check of _size against data_len_ keeps a
\* message cut off after its header from being completed with old bytes.
StaleOnlyWithoutHeader ==
  pc # "unpack" /\ call # NoCall /\ call.stale => HeaderOf = 0

\* As long as the segments of a connection end where messages end, though
\* they may hold several, the handler gets nothing but whole messages (unpack
\* calls it for fragments too).
NoPhantom == ~cut /\ call # NoCall => call.msg # 0 /\ call.kind = sent[call.msg]

\* As long as the segments of a connection end where messages end, the receive
\* thread and unpack give the handler the first message of each segment, at
\* most once and in order, drop the others, and take none from an earlier
\* connection, whatever the segments of that one were.
Incoming ==
  INSTANCE Inbox WITH
    left <- IF stream = <<>> THEN Len(sent) ELSE stream[1].msg - 1,
    segment <- IF pc = "unpack" THEN buf[1].msg ELSE 0,
    given <- [kind |-> call.kind, msg |-> call.msg]

ImplementsInbox ==
  /\ Incoming!Init
  /\ [][~cut' => [Incoming!Next]_(Incoming!vars)]_vars

=============================================================================
