--------------------------- MODULE ReceiveProofs ----------------------------
(***************************************************************************)
(* Proofs about Receive, for any message types, sizes and offsets, any     *)
(* number of messages and any segmentation of the stream.                  *)
(***************************************************************************)
EXTENDS Receive, SequenceTheorems, TLAPS

(* Type correctness. *)

\* A byte of one of the first n messages, or of none.
Cell(n) == [msg : 0 .. n, at : 0 .. BufSize]

\* Every message has a header, and the buffer holds any message.
LEMMA SizeFacts ==
  /\ HeaderSize \in Nat /\ BufSize \in Nat /\ HeaderSize <= BufSize
  /\ TypeOffset \in 1 .. HeaderSize - 1
  /\ \A kind \in AnyKind : /\ Total[kind] \in Nat
                           /\ HeaderSize <= Total[kind] /\ Total[kind] <= BufSize
BY ReceiveAssumption DEF AnyKind

LEMMA BytesTypes ==
  ASSUME NEW n \in Nat, NEW kind \in AnyKind
  PROVE  /\ Bytes(n, kind) \in Seq(Cell(n))
         /\ Len(Bytes(n, kind)) = Total[kind]
         /\ \A i \in 1 .. Total[kind] : Bytes(n, kind)[i] = [msg |-> n, at |-> i - 1]
<1>1. Total[kind] \in Nat /\ Total[kind] <= BufSize
  BY SizeFacts
<1>2. Bytes(n, kind) \in [1 .. Total[kind] -> Cell(n)]
  BY <1>1, SizeFacts DEF Bytes, Cell
<1>3. Bytes(n, kind) \in Seq(Cell(n))
  BY <1>1, <1>2, SeqDef
<1>4. Len(Bytes(n, kind)) = Total[kind]
  BY <1>1, <1>2, <1>3, LenProperties DEF Bytes
<1> QED
  BY <1>3, <1>4 DEF Bytes

\* recv() takes bytes from the front of the stream.
LEMMA RecvBytes ==
  ASSUME TypeOK, NEW n \in 1 .. BufSize, Recv(n)
  PROVE  /\ n \in Nat /\ n > 0 /\ Len(stream) \in Nat /\ n <= Len(stream)
         /\ stream' \in Seq(Cell(Len(sent))) /\ Len(stream') = Len(stream) - n
         /\ \A i \in 1 .. Len(stream') : stream'[i] = stream[i + n]
         /\ \A i \in 1 .. n : buf'[i] = stream[i]
<1>1. stream \in Seq(Cell(Len(sent))) /\ n <= Len(stream) /\ BufSize \in Nat
  BY SizeFacts DEF TypeOK, Cell, Recv
<1>2. Len(stream) \in Nat /\ \A i \in 1 .. Len(stream) : stream[i] \in Cell(Len(sent))
  BY <1>1, LenProperties
<1>3. stream' = SubSeq(stream, n + 1, Len(stream))
  BY DEF Recv
<1>4. /\ stream' \in Seq(Cell(Len(sent)))
      /\ Len(stream') = IF n + 1 <= Len(stream) THEN Len(stream) - (n + 1) + 1 ELSE 0
      /\ \A i \in 1 .. Len(stream) - (n + 1) + 1 : stream'[i] = stream[n + 1 + i - 1]
  BY <1>1, <1>2, <1>3, SubSeqProperties
<1>5. \A i \in 1 .. n : buf'[i] = stream[i]
  BY <1>1 DEF Recv
<1>6. n \in Nat /\ n > 0
  BY <1>1
<1>7. Len(stream') = Len(stream) - n
  <2> DEFINE N == Len(stream)
  <2>1. N \in Nat /\ n <= N
    BY <1>1, <1>2
  <2>2. Len(stream') = IF n + 1 <= N THEN N - (n + 1) + 1 ELSE 0
    BY <1>4
  <2> HIDE DEF N
  <2>3. (IF n + 1 <= N THEN N - (n + 1) + 1 ELSE 0) = N - n
    BY <1>6, <2>1
  <2>4. Len(stream') = N - n
    BY <2>2, <2>3
  <2> QED
    BY <2>4 DEF N
<1>8. ASSUME NEW i \in 1 .. Len(stream') PROVE stream'[i] = stream[i + n]
  <2>1. i \in 1 .. Len(stream) - (n + 1) + 1 /\ n + 1 + i - 1 = i + n
    BY <1>2, <1>6, <1>7
  <2>2. stream'[i] = stream[n + 1 + i - 1]
    BY <1>4, <2>1
  <2> QED
    BY <2>1, <2>2
<1> QED
  BY <1>1, <1>2, <1>4, <1>5, <1>6, <1>7, <1>8, Zenon

\* A message joins the stream at its end.
LEMMA PeerSendBytes ==
  ASSUME TypeOK, NEW kind \in AnyKind, PeerSend(kind)
  PROVE  /\ sent' \in Seq(AnyKind) /\ Len(sent) \in Nat /\ Len(sent') = Len(sent) + 1
         /\ \A m \in 1 .. Len(sent) : sent'[m] = sent[m]
         /\ sent'[Len(sent) + 1] = kind
         /\ stream' \in Seq(Cell(Len(sent'))) /\ Len(stream) \in Nat
         /\ Len(stream') = Len(stream) + Total[kind]
         /\ \A i \in 1 .. Len(stream) : stream'[i] = stream[i]
         /\ \A i \in Len(stream) + 1 .. Len(stream') :
              stream'[i] = [msg |-> Len(sent'), at |-> i - Len(stream) - 1]
<1>1. /\ sent' \in Seq(AnyKind) /\ Len(sent) \in Nat /\ Len(sent') = Len(sent) + 1
      /\ \A m \in 1 .. Len(sent) : sent'[m] = sent[m]
      /\ sent'[Len(sent) + 1] = kind
  BY AppendProperties, LenProperties DEF PeerSend, TypeOK
<1> DEFINE new == Bytes(Len(sent) + 1, kind)
<1>2. stream' = stream \o new
  BY DEF PeerSend
<1>3. /\ new \in Seq(Cell(Len(sent'))) /\ Len(new) = Total[kind]
      /\ \A i \in 1 .. Total[kind] : new[i] = [msg |-> Len(sent'), at |-> i - 1]
  <2>1. Len(sent') \in Nat /\ new = Bytes(Len(sent'), kind)
    BY <1>1
  <2> HIDE DEF new
  <2> QED
    BY <2>1, BytesTypes
<1>4. stream \in Seq(Cell(Len(sent)))
  BY DEF TypeOK, Cell
<1>5. Cell(Len(sent)) \subseteq Cell(Len(sent'))
  BY <1>1 DEF Cell
<1>6. stream \in Seq(Cell(Len(sent'))) /\ Len(stream) \in Nat
  BY <1>4, <1>5, SeqMonotonic, LenProperties
<1>7. Total[kind] \in Nat
  BY SizeFacts
<1> HIDE DEF new
<1>8. /\ stream' \in Seq(Cell(Len(sent'))) /\ Len(stream') = Len(stream) + Total[kind]
      /\ \A i \in 1 .. Len(stream) + Total[kind] :
           stream'[i] = IF i <= Len(stream) THEN stream[i] ELSE new[i - Len(stream)]
  <2>1. /\ stream \o new \in Seq(Cell(Len(sent')))
        /\ Len(stream \o new) = Len(stream) + Len(new)
        /\ \A i \in 1 .. Len(stream) + Len(new) :
             (stream \o new)[i] = IF i <= Len(stream) THEN stream[i] ELSE new[i - Len(stream)]
    BY <1>3, <1>6, ConcatProperties, ZenonT(60)
  <2> QED
    BY <1>2, <1>3, <2>1
<1>9. ASSUME NEW i \in Len(stream) + 1 .. Len(stream')
      PROVE  stream'[i] = [msg |-> Len(sent'), at |-> i - Len(stream) - 1]
  <2>1. i - Len(stream) \in 1 .. Total[kind]
    BY <1>6, <1>7, <1>8
  <2>2. stream'[i] = new[i - Len(stream)]
    BY <1>6, <1>7, <1>8
  <2> QED
    BY <1>3, <2>1, <2>2
<1>10. \A i \in 1 .. Len(stream) : stream'[i] = stream[i]
  BY <1>6, <1>7, <1>8
<1> QED
  BY <1>1, <1>6, <1>8, <1>9, <1>10

\* Whatever the sizes and however the stream is cut, every variable keeps its
\* type; that a received byte fits the buffer's cells is the part to prove.
THEOREM TypeCorrect == Spec => []TypeOK
<1>1. Init => TypeOK
  <2> SUFFICES ASSUME Init PROVE TypeOK
    OBVIOUS
  <2>1. BufSize \in Nat
    BY SizeFacts
  <2>2. buf \in [1 .. BufSize -> Cell(Len(sent))]
    BY <2>1, EmptySeq DEF Init, EmptyBuf, Zero, Cell
  <2>3. sent \in Seq(AnyKind) /\ stream \in Seq(Cell(Len(sent)))
    BY EmptySeq DEF Init
  <2>4. size \in 0 .. BufSize
    BY <2>1 DEF Init
  <2> QED
    BY <2>2, <2>3, <2>4 DEF Init, TypeOK, Cell
<1>2. TypeOK /\ [Next]_vars => TypeOK'
  <2> SUFFICES ASSUME TypeOK, [Next]_vars PROVE TypeOK'
    OBVIOUS
  <2>0. Len(sent) \in Nat /\ BufSize \in Nat
    BY SizeFacts, LenProperties DEF TypeOK
  <2>1. ASSUME NEW kind \in AnyKind, PeerSend(kind) PROVE TypeOK'
    <3>1. sent' \in Seq(AnyKind) /\ stream' \in Seq(Cell(Len(sent'))) /\ Len(sent') = Len(sent) + 1
      BY <2>1, PeerSendBytes
    <3>2. buf' \in [1 .. BufSize -> Cell(Len(sent'))]
      BY <2>0, <2>1, <3>1 DEF PeerSend, TypeOK, Cell
    <3>3. call' \in {NoCall} \union [kind : Kind, msg : 0 .. Len(sent'), stale : BOOLEAN]
      BY <2>0, <2>1, <3>1 DEF PeerSend, TypeOK
    <3> QED
      BY <2>1, <3>1, <3>2, <3>3 DEF PeerSend, TypeOK, Cell
  <2>2. ASSUME NEW n \in 1 .. BufSize, Recv(n) PROVE TypeOK'
    <3>1. /\ stream' \in Seq(Cell(Len(sent)))
          /\ \A i \in 1 .. n : buf'[i] = stream[i]
          /\ n <= Len(stream) /\ sent' = sent
      BY <2>2, RecvBytes DEF Recv
    <3>2. \A i \in 1 .. n : stream[i] \in Cell(Len(sent))
      <4>1. stream \in Seq(Cell(Len(sent)))
        BY DEF TypeOK, Cell
      <4>2. \A i \in 1 .. n : i \in 1 .. Len(stream)
        BY <3>1, <4>1, LenProperties
      <4> QED
        BY <4>1, <4>2, ElementOfSeq
    <3>3. buf' \in [1 .. BufSize -> Cell(Len(sent))]
      <4>1. \A i \in 1 .. BufSize : buf[i] \in Cell(Len(sent))
        BY DEF TypeOK, Cell
      <4>2. buf' = [i \in 1 .. BufSize |-> IF i <= n THEN stream[i] ELSE buf[i]]
        BY <2>2 DEF Recv
      <4>3. \A i \in 1 .. BufSize : i <= n => i \in 1 .. n
        BY <2>0
      <4> QED
        BY <3>2, <4>1, <4>2, <4>3
    <3>4. cut' \in BOOLEAN
      BY <2>2 DEF Recv, TypeOK
    <3> QED
      BY <2>0, <2>2, <3>1, <3>3, <3>4 DEF Recv, TypeOK, Cell
  <2>3. CASE Unpack
    <3>1. call' \in {NoCall} \union [kind : Kind, msg : 0 .. Len(sent), stale : BOOLEAN]
      <4>1. CASE UNCHANGED call
        BY <4>1 DEF TypeOK
      <4>2. ASSUME NEW kind \in Kind, NEW up \in BOOLEAN, call' = Handled(kind, up)
            PROVE  call' \in [kind : Kind, msg : 0 .. Len(sent), stale : BOOLEAN]
        <5>1. buf[1].msg \in 0 .. Len(sent)
          BY SizeFacts DEF TypeOK
        <5>2. MessageIn(Total[kind]) \in 0 .. Len(sent)
          BY <2>0, <5>1 DEF MessageIn
        <5>3. (~up /\ size < Total[kind]) \in BOOLEAN
          OBVIOUS
        <5> QED
          BY <2>0, <4>2, <5>2, <5>3 DEF Handled
      <4>3. \A kind \in Kind : GivesUp(kind) \subseteq BOOLEAN
        <5>1. /\ (size < HeaderSize) \in BOOLEAN
              /\ \A kind \in Kind : (size < Total[kind]) \in BOOLEAN
          OBVIOUS
        <5> QED
          BY <5>1, Zenon DEF GivesUp
      <4> QED
        BY <2>3, <4>1, <4>2, <4>3 DEF Unpack
    <3> QED
      BY <2>3, <3>1 DEF Unpack, TypeOK
  <2>4. CASE Exit
    BY <2>4 DEF Exit, TypeOK
  <2>5. CASE Restart
    <3>1. buf' \in [1 .. BufSize -> Cell(Len(sent))]
      BY <2>0, <2>5 DEF Restart, EmptyBuf, Zero, Cell
    <3>2. stream' \in Seq(Cell(Len(sent))) /\ size' \in 0 .. BufSize
      BY <2>0, <2>5, EmptySeq DEF Restart
    <3> QED
      BY <2>5, <3>1, <3>2 DEF Restart, TypeOK, Cell
  <2>6. CASE UNCHANGED vars
    BY <2>6 DEF vars, TypeOK
  <2> QED
    BY <2>1, <2>2, <2>3, <2>4, <2>5, <2>6 DEF Next
<1> QED
  BY <1>1, <1>2, PTL DEF Spec

-----------------------------------------------------------------------------
(* What is on its way, and what was received.  A message is contiguous; the  *)
(* invariants say so of a byte and any later one, not of neighbours, so that *)
(* they can be used without induction.                                       *)

\* Bytes of b's message from b on, and the one that is d bytes behind b.
Remaining(b) == Total[sent[b.msg]] - b.at
Behind(b, d) == [msg |-> b.msg, at |-> b.at + d]

\* b is a byte of a message that was sent.
Genuine(b) == b.msg \in 1 .. Len(sent) /\ Remaining(b) > 0

\* A message is followed by its own bytes, and the stream ends with one's end.
StreamInv ==
  \A i \in 1 .. Len(stream) :
    /\ Genuine(stream[i])
    /\ Remaining(stream[i]) <= Len(stream) - i + 1
    /\ \A j \in i .. Len(stream) :
         j - i < Remaining(stream[i]) => stream[j] = Behind(stream[i], j - i)

\* So does a segment, which may end anywhere.
SegmentInv ==
  size > 0 =>
    /\ Genuine(buf[1])
    /\ \A i \in 1 .. size : i - 1 < Remaining(buf[1]) => buf[i] = Behind(buf[1], i - 1)

\* As long as segments end where messages end, they begin where one begins.
UncutInv ==
  ~cut =>
    /\ stream # <<>> => Start(stream[1])
    /\ size > 0 => Start(buf[1]) /\ Remaining(buf[1]) <= size

UnpackInv == pc = "unpack" => size > 0

SegmentsInv == StreamInv /\ SegmentInv /\ UncutInv /\ UnpackInv

LEMMA SegmentsStep == TypeOK /\ SegmentsInv /\ [Next]_vars => SegmentsInv'
<1> SUFFICES ASSUME TypeOK, SegmentsInv, [Next]_vars PROVE SegmentsInv'
  OBVIOUS
<1> USE DEF SegmentsInv
<1>0. /\ Len(sent) \in Nat /\ Len(stream) \in Nat /\ BufSize \in Nat /\ size \in Nat
      /\ sent \in Seq(AnyKind) /\ stream \in Seq(Cell(Len(sent)))
  BY SizeFacts, LenProperties DEF TypeOK, Cell
<1>1. \A i \in 1 .. Len(stream) : stream[i] \in Cell(Len(sent))
  BY <1>0, ElementOfSeq
<1>2. \A m \in 1 .. Len(sent) : Total[sent[m]] \in Nat
  BY <1>0, SizeFacts, ElementOfSeq
<1>3. ASSUME NEW kind \in AnyKind, PeerSend(kind) PROVE SegmentsInv'
  <2>1. /\ Len(sent') = Len(sent) + 1
        /\ \A m \in 1 .. Len(sent) : sent'[m] = sent[m]
        /\ sent'[Len(sent) + 1] = kind
        /\ Len(stream') = Len(stream) + Total[kind]
        /\ \A i \in 1 .. Len(stream) : stream'[i] = stream[i]
        /\ \A i \in Len(stream) + 1 .. Len(stream') :
             stream'[i] = [msg |-> Len(sent'), at |-> i - Len(stream) - 1]
    BY <1>3, PeerSendBytes
  <2>2. Total[kind] \in Nat /\ Total[kind] > 0
    BY SizeFacts
  <2>3. StreamInv'
    <3>1. ASSUME NEW i \in 1 .. Len(stream')
          PROVE  /\ Genuine(stream[i])'
                 /\ Remaining(stream[i])' <= Len(stream') - i + 1
                 /\ \A j \in i .. Len(stream') :
                      j - i < Remaining(stream[i])' => stream'[j] = Behind(stream'[i], j - i)
      <4>1. CASE i \in 1 .. Len(stream)
        <5>1. /\ stream'[i] = stream[i] /\ stream[i].msg \in 1 .. Len(sent)
              /\ stream[i].at \in Nat
          <6>1. stream'[i] = stream[i]
            BY <2>1, <4>1
          <6>2. stream[i] \in Cell(Len(sent))
            BY <1>1, <4>1
          <6>3. stream[i].msg \in 1 .. Len(sent)
            BY <4>1 DEF StreamInv, Genuine
          <6>4. stream[i].at \in 0 .. BufSize
            BY <6>2 DEF Cell
          <6> QED
            BY <1>0, <6>1, <6>3, <6>4
        <5>2. /\ Remaining(stream[i])' = Remaining(stream[i])
              /\ Remaining(stream[i]) \in Int
          BY <1>2, <2>1, <5>1 DEF Remaining
        <5>3. Remaining(stream[i]) > 0 /\ Remaining(stream[i]) <= Len(stream) - i + 1
          BY <4>1 DEF StreamInv, Genuine
        <5>4. ASSUME NEW j \in i .. Len(stream'), j - i < Remaining(stream[i])
              PROVE  stream'[j] = Behind(stream[i], j - i)
          <6>1. j \in i .. Len(stream) /\ j \in 1 .. Len(stream)
            BY <1>0, <2>1, <2>2, <4>1, <5>2, <5>3, <5>4
          <6>2. stream'[j] = stream[j]
            BY <2>1, <6>1
          <6> QED
            BY <4>1, <5>4, <6>1, <6>2 DEF StreamInv
        <5>5. Genuine(stream[i])'
          BY <1>0, <2>1, <5>1, <5>2, <5>3 DEF Genuine
        <5>6. Remaining(stream[i])' <= Len(stream') - i + 1
          <6>1. Len(stream) <= Len(stream') /\ Len(stream') \in Int /\ i \in Int
            BY <1>0, <2>1, <2>2
          <6>2. \A r \in Int : r <= Len(stream) - i + 1 => r <= Len(stream') - i + 1
            BY <1>0, <6>1
          <6> QED
            BY <5>2, <5>3, <6>2
        <5> QED
          BY <5>1, <5>2, <5>4, <5>5, <5>6
      <4>2. CASE i \in Len(stream) + 1 .. Len(stream')
        <5>1. stream'[i] = [msg |-> Len(sent'), at |-> i - Len(stream) - 1]
          BY <2>1, <4>2
        <5>2. Remaining(stream[i])' = Total[kind] - (i - Len(stream) - 1)
          BY <2>1, <5>1 DEF Remaining
        <5>3. Genuine(stream[i])'
          BY <1>0, <2>1, <2>2, <4>2, <5>1, <5>2 DEF Genuine
        <5>4. ASSUME NEW j \in i .. Len(stream')
              PROVE  stream'[j] = Behind(stream'[i], j - i)
          <6>1. j \in Len(stream) + 1 .. Len(stream')
            BY <1>0, <2>1, <2>2, <4>2
          <6>2. stream'[j] = [msg |-> Len(sent'), at |-> j - Len(stream) - 1]
            BY <2>1, <6>1
          <6> QED
            BY <1>0, <4>2, <5>1, <6>2 DEF Behind
        <5> QED
          BY <1>0, <2>1, <2>2, <4>2, <5>2, <5>3, <5>4
      <4> QED
        BY <1>0, <2>1, <2>2, <4>1, <4>2
    <3> QED
      BY <3>1 DEF StreamInv
  <2>4. size > 0 => /\ Remaining(buf[1])' = Remaining(buf[1])
                    /\ Genuine(buf[1])'
    BY <1>0, <1>3, <2>1 DEF PeerSend, SegmentInv, Genuine, Remaining
  <2>5. SegmentInv'
    BY <1>3, <2>4 DEF PeerSend, SegmentInv
  <2>6. ~cut => stream'[1] # Zero /\ stream'[1].at = 0
    <3>1. CASE stream = <<>>
      <4>1. Len(stream) = 0
        BY <3>1
      <4>2. stream'[1] = [msg |-> Len(sent) + 1, at |-> 0]
        BY <1>0, <2>1, <2>2, <4>1
      <4> QED
        BY <1>0, <4>2 DEF Zero
    <3>2. CASE stream # <<>>
      <4>1. 1 \in 1 .. Len(stream)
        BY <1>0, <3>2, EmptySeq
      <4> QED
        BY <2>1, <3>2, <4>1 DEF UncutInv, Start
    <3> QED
      BY <3>1, <3>2
  <2>7. UncutInv'
    BY <1>3, <2>4, <2>6 DEF PeerSend, UncutInv, Start, Zero
  <2> QED
    BY <1>3, <2>3, <2>5, <2>7 DEF PeerSend, UnpackInv
<1>4. ASSUME NEW n \in 1 .. BufSize, Recv(n) PROVE SegmentsInv'
  <2>1. /\ n \in Nat /\ n > 0 /\ n <= Len(stream)
        /\ Len(stream') = Len(stream) - n
        /\ \A i \in 1 .. Len(stream') : stream'[i] = stream[i + n]
        /\ \A i \in 1 .. n : buf'[i] = stream[i]
    BY <1>4, RecvBytes
  <2>2. /\ sent' = sent /\ size' = n /\ pc' = "unpack"
        /\ cut' = (cut \/ ~Boundary(n))
    BY <1>4 DEF Recv
  <2>4. StreamInv'
    <3>1. ASSUME NEW i \in 1 .. Len(stream')
          PROVE  /\ Genuine(stream[i])'
                 /\ Remaining(stream[i])' <= Len(stream') - i + 1
                 /\ \A j \in i .. Len(stream') :
                      j - i < Remaining(stream[i])' => stream'[j] = Behind(stream'[i], j - i)
      <4>1. i + n \in 1 .. Len(stream) /\ stream'[i] = stream[i + n]
        BY <1>0, <2>1
      <4>2. /\ Genuine(stream[i + n])
            /\ Remaining(stream[i + n]) <= Len(stream) - (i + n) + 1
            /\ \A j \in i + n .. Len(stream) :
                 j - (i + n) < Remaining(stream[i + n]) => stream[j] = Behind(stream[i + n], j - (i + n))
        BY <4>1 DEF StreamInv
      <4>3. Remaining(stream[i])' = Remaining(stream[i + n]) /\ Genuine(stream[i])'
        BY <2>2, <4>1, <4>2 DEF Remaining, Genuine
      <4>4. ASSUME NEW j \in i .. Len(stream'), j - i < Remaining(stream[i + n])
            PROVE  stream'[j] = Behind(stream'[i], j - i)
        <5>1. /\ j + n \in i + n .. Len(stream) /\ j + n - (i + n) = j - i
              /\ j \in 1 .. Len(stream')
          BY <1>0, <2>1, <4>1
        <5>2. stream[j + n] = Behind(stream[i + n], (j + n) - (i + n))
          BY <4>2, <4>4, <5>1
        <5> QED
          BY <2>1, <4>1, <5>1, <5>2
      <4>5. Len(stream) - (i + n) + 1 = Len(stream') - i + 1
        BY <1>0, <2>1
      <4> QED
        BY <4>2, <4>3, <4>4, <4>5
    <3> QED
      BY <3>1 DEF StreamInv
  <2>5. /\ 1 \in 1 .. Len(stream) /\ buf'[1] = stream[1]
        /\ Genuine(stream[1]) /\ Remaining(stream[1]) <= Len(stream)
        /\ \A i \in 1 .. Len(stream) : i - 1 < Remaining(stream[1]) => stream[i] = Behind(stream[1], i - 1)
    <3>1. 1 \in 1 .. Len(stream) /\ 1 \in 1 .. n
      BY <1>0, <2>1
    <3>2. Remaining(stream[1]) <= Len(stream) - 1 + 1
      BY <3>1 DEF StreamInv
    <3>3. Len(stream) - 1 + 1 = Len(stream)
      BY <1>0
    <3> QED
      BY <2>1, <3>1, <3>2, <3>3 DEF StreamInv
  <2>6. Remaining(buf[1])' = Remaining(stream[1]) /\ Genuine(buf[1])'
    BY <2>2, <2>5 DEF Remaining, Genuine
  <2>7. SegmentInv'
    <3>1. \A i \in 1 .. n : i \in 1 .. Len(stream)
      BY <1>0, <2>1
    <3> QED
      BY <2>1, <2>2, <2>5, <2>6, <3>1 DEF SegmentInv
  <2>8. ASSUME ~cut'
        PROVE  /\ stream' # <<>> => Start(stream[1])'
               /\ Start(buf[1])' /\ Remaining(buf[1])' <= n
    <3>1. ~cut /\ Boundary(n) /\ Start(stream[1])
      <4>1. stream # <<>>
        BY <2>5
      <4> QED
        BY <2>2, <2>8, <4>1 DEF UncutInv
    <3>2. CASE n = Len(stream)
      <4>1. stream' = <<>>
        BY <1>4, <1>0, <2>1, <3>2, RecvBytes, EmptySeq
      <4> QED
        BY <2>5, <2>6, <3>1, <3>2, <4>1 DEF Start, Zero
    <3>3. CASE n # Len(stream)
      <4>1. Start(stream[n + 1]) /\ n + 1 \in 1 .. Len(stream)
        BY <1>0, <2>1, <3>1, <3>3 DEF Boundary
      <4>2. stream'[1] = stream[n + 1]
        BY <1>0, <2>1, <3>3
      <4>3. ~(n < Remaining(stream[1]))
        \* Otherwise the byte behind the segment would belong to its first message.
        <5>1. SUFFICES ASSUME n < Remaining(stream[1]) PROVE FALSE
          OBVIOUS
        <5>2. n + 1 - 1 = n
          BY <2>1
        <5>3. stream[n + 1] = Behind(stream[1], n)
          BY <2>5, <4>1, <5>1, <5>2
        <5>4. stream[n + 1].at = n
          BY <2>1, <3>1, <5>3 DEF Behind, Start
        <5> QED
          BY <2>1, <4>1, <5>4 DEF Start
      <4>4. Remaining(stream[1]) \in Int
        BY <1>1, <1>2, <2>5 DEF Remaining, Genuine, Cell
      <4> QED
        BY <2>1, <2>5, <2>6, <3>1, <4>1, <4>2, <4>3, <4>4 DEF Start, Zero
    <3> QED
      BY <3>2, <3>3
  <2> QED
    BY <2>1, <2>2, <2>4, <2>7, <2>8 DEF UncutInv, UnpackInv
<1>5. CASE Unpack
  BY <1>5 DEF Unpack, StreamInv, SegmentInv, UncutInv, UnpackInv, Genuine, Remaining, Start
<1>6. CASE Exit
  BY <1>6 DEF Exit, StreamInv, SegmentInv, UncutInv, UnpackInv, Genuine, Remaining, Start
<1>7. CASE Restart
  <2>1. Len(stream') = 0 /\ stream' = <<>> /\ size' = 0 /\ pc' = "recv"
    BY <1>7 DEF Restart
  <2> QED
    BY <2>1 DEF StreamInv, SegmentInv, UncutInv, UnpackInv
<1>8. CASE UNCHANGED vars
  BY <1>8 DEF vars, StreamInv, SegmentInv, UncutInv, UnpackInv, Genuine, Remaining, Start
<1> QED
  BY <1>3, <1>4, <1>5, <1>6, <1>7, <1>8 DEF Next

LEMMA SegmentsAlways == Spec => []SegmentsInv
<1>1. Init => SegmentsInv
  BY EmptySeq DEF Init, SegmentsInv, StreamInv, SegmentInv, UncutInv, UnpackInv
<1> QED
  BY <1>1, SegmentsStep, TypeCorrect, PTL DEF Spec

-----------------------------------------------------------------------------
(* What unpack does with the segment. *)

\* A segment that begins with a whole message has it in place, header and type
\* included, and the constructor has no reason to give up.
LEMMA WholeMessage ==
  ASSUME TypeOK, SegmentsInv, NEW kind \in AnyKind,
         size > 0, Start(buf[1]), kind = sent[buf[1].msg], size >= Total[kind]
  PROVE  /\ TypeOf(buf[TypeOffset + 1]) = {kind}
         /\ GivesUp(kind) = {FALSE}
         /\ Handled(kind, FALSE) = [kind |-> kind, msg |-> buf[1].msg, stale |-> FALSE]
<1>0. /\ size \in Nat /\ Total[kind] \in Nat /\ HeaderSize \in Nat /\ HeaderSize <= Total[kind]
      /\ TypeOffset \in 1 .. HeaderSize - 1
  <2>1. size \in 0 .. BufSize
    BY DEF TypeOK
  <2>2. /\ BufSize \in Nat /\ Total[kind] \in Nat /\ HeaderSize \in Nat
        /\ HeaderSize <= Total[kind] /\ TypeOffset \in 1 .. HeaderSize - 1
    BY SizeFacts
  <2>3. size \in Nat
    BY <2>1, <2>2
  <2> QED
    BY <2>2, <2>3
<1>1. buf[1].at = 0 /\ buf[1].msg \in 1 .. Len(sent) /\ Remaining(buf[1]) = Total[kind]
  BY <1>0 DEF SegmentsInv, SegmentInv, Genuine, Start, Remaining
<1>2. \A i \in 1 .. Total[kind] : buf[i] = [msg |-> buf[1].msg, at |-> i - 1]
  BY <1>0, <1>1 DEF SegmentsInv, SegmentInv, Behind
<1>3. TypeOf(buf[TypeOffset + 1]) = {kind}
  <2>1. TypeOffset + 1 \in 1 .. Total[kind] /\ TypeOffset + 1 - 1 = TypeOffset
    BY <1>0
  <2>2. buf[TypeOffset + 1] = [msg |-> buf[1].msg, at |-> TypeOffset]
    BY <1>0, <1>2, <2>1
  <2>3. buf[TypeOffset + 1] # Zero
    BY <1>0, <2>2 DEF Zero
  <2> QED
    BY <2>2, <2>3 DEF TypeOf
<1>4. HeaderOf = buf[1].msg /\ HeaderOf # 0
  <2>1. HeaderSize \in 1 .. Total[kind]
    BY <1>0
  <2>2. buf[HeaderSize].msg = buf[1].msg
    <3>1. buf[HeaderSize] = [msg |-> buf[1].msg, at |-> HeaderSize - 1]
      BY <1>2, <2>1
    <3> QED
      BY <3>1
  <2> QED
    BY <1>0, <1>1, <2>2 DEF HeaderOf
<1>5. GivesUp(kind) = {FALSE}
  <2>1. (size < HeaderSize) = FALSE /\ (size < Total[kind]) = FALSE
    BY <1>0
  <2> QED
    BY <1>4, <2>1, Zenon DEF GivesUp
<1>6. MessageIn(Total[kind]) = buf[1].msg
  BY <1>2 DEF MessageIn
<1>7. (size < Total[kind]) = FALSE
  BY <1>0
<1>8. Handled(kind, FALSE) = [kind |-> kind, msg |-> buf[1].msg, stale |-> FALSE]
  BY <1>4, <1>6, <1>7, Zenon DEF Handled
<1> QED
  BY <1>3, <1>5, <1>8

\* A constructor that read a complete header never goes on with old bytes.
LEMMA NoStaleBehindHeader ==
  ASSUME TypeOK, SegmentsInv, NEW kind \in Kind, NEW up \in GivesUp(kind), HeaderOf # 0
  PROVE  ~Handled(kind, up).stale
<1>1. Total[kind] \in Nat /\ size \in Nat /\ HeaderSize \in Nat /\ size >= HeaderSize
  BY SizeFacts DEF TypeOK, AnyKind, HeaderOf
<1>2. up = (size < Total[kind])
  <2>1. (size < HeaderSize) = FALSE
    BY <1>1
  <2> QED
    BY <2>1, Zenon DEF GivesUp
<1> QED
  BY <1>2 DEF Handled

Delivery == WholeDelivered /\ StaleOnlyWithoutHeader /\ NoPhantom

\* The message of a handler call was sent, and recv() forgets the call.
CallInv ==
  /\ call # NoCall => call.msg \in 0 .. Len(sent)
  /\ pc = "unpack" => call = NoCall

LEMMA DeliveryStep ==
  TypeOK /\ SegmentsInv /\ CallInv /\ Delivery /\ [Next]_vars => (CallInv /\ Delivery)'
<1> SUFFICES ASSUME TypeOK, SegmentsInv, CallInv, Delivery, [Next]_vars
             PROVE  (CallInv /\ Delivery)'
  OBVIOUS
<1> USE DEF Delivery
<1>0. Len(sent) \in Nat /\ size \in Nat
  BY LenProperties DEF TypeOK
<1>1. ASSUME NEW kind \in AnyKind, PeerSend(kind) PROVE (CallInv /\ Delivery)'
  <2>1. /\ Len(sent') = Len(sent) + 1
        /\ \A m \in 1 .. Len(sent) : sent'[m] = sent[m]
        /\ UNCHANGED <<buf, size, pc, call, cut>>
    BY <1>1, PeerSendBytes DEF PeerSend
  <2>2. CallInv'
    BY <1>0, <2>1 DEF CallInv
  <2>3. WholeDelivered'
    BY <2>1 DEF WholeDelivered, SegmentsInv, SegmentInv, Genuine, Start
  <2>4. StaleOnlyWithoutHeader'
    BY <2>1 DEF StaleOnlyWithoutHeader, HeaderOf, Start
  <2>5. NoPhantom'
    BY <1>0, <2>1 DEF NoPhantom, CallInv
  <2> QED
    BY <2>2, <2>3, <2>4, <2>5
<1>2. ASSUME NEW n \in 1 .. BufSize, Recv(n) PROVE (CallInv /\ Delivery)'
  BY <1>2 DEF Recv, CallInv, WholeDelivered, StaleOnlyWithoutHeader, NoPhantom
<1>3. CASE Unpack
  <2>0. pc = "unpack" /\ size > 0 /\ UNCHANGED <<sent, stream, buf, size, cut>>
    BY <1>3 DEF Unpack, SegmentsInv, UnpackInv
  <2>1. call = NoCall /\ pc' = "recv"
    BY <1>3, <2>0 DEF CallInv, Unpack
  <2>2. PICK kind \in TypeOf(buf[TypeOffset + 1]), id \in BOOLEAN :
          /\ Start(buf[1]) => id
          /\ IF id /\ kind \in Kind
               THEN \E up \in GivesUp(kind) : call' = Handled(kind, up)
               ELSE UNCHANGED call
    BY <1>3 DEF Unpack
  <2>3. HeaderOf' = HeaderOf
    BY <2>0 DEF HeaderOf, Start
  <2>4. CASE ~(id /\ kind \in Kind)
    <3>1. call' = NoCall
      BY <2>1, <2>2, <2>4
    <3>2. ASSUME Start(buf[1]), sent[buf[1].msg] \in Kind, size >= Total[sent[buf[1].msg]]
          PROVE  FALSE
      <4>1. TypeOf(buf[TypeOffset + 1]) = {sent[buf[1].msg]}
        BY <2>0, <3>2, WholeMessage DEF AnyKind
      <4> QED
        BY <2>2, <2>4, <3>2, <4>1
    <3> QED
      BY <2>0, <2>1, <3>1, <3>2
         DEF CallInv, WholeDelivered, StaleOnlyWithoutHeader, NoPhantom, Start
  <2>5. CASE id /\ kind \in Kind
    <3>0. PICK up \in GivesUp(kind) : call' = Handled(kind, up)
      BY <2>2, <2>5
    <3>1. call'.msg \in 0 .. Len(sent) /\ call'.kind = kind
      <4>1. buf[1].msg \in 1 .. Len(sent)
        BY <2>0 DEF SegmentsInv, SegmentInv, Genuine
      <4> QED
        BY <1>0, <3>0, <4>1 DEF Handled, MessageIn
    <3>2. CallInv'
      BY <2>0, <2>1, <3>1 DEF CallInv
    <3>3. StaleOnlyWithoutHeader'
      <4>1. HeaderOf # 0 => ~call'.stale
        BY <2>5, <3>0, NoStaleBehindHeader
      <4> QED
        BY <2>3, <4>1 DEF StaleOnlyWithoutHeader
    <3>4. ASSUME Start(buf[1]), sent[buf[1].msg] \in AnyKind, size >= Total[sent[buf[1].msg]]
          PROVE  call' = [kind |-> sent[buf[1].msg], msg |-> buf[1].msg, stale |-> FALSE]
      <4>1. kind = sent[buf[1].msg]
        BY <2>0, <2>2, <3>4, WholeMessage
      <4>2. up = FALSE
        <5>1. GivesUp(kind) = {FALSE}
          BY <2>0, <3>4, <4>1, WholeMessage
        <5> QED
          BY <3>0, <5>1
      <4> QED
        BY <2>0, <3>0, <3>4, <4>1, <4>2, WholeMessage
    <3>5. WholeDelivered'
      BY <2>0, <3>4 DEF WholeDelivered, Start, AnyKind
    <3>6. NoPhantom'
      <4>1. ASSUME ~cut
            PROVE  Start(buf[1]) /\ sent[buf[1].msg] \in AnyKind /\ buf[1].msg \in 1 .. Len(sent)
                   /\ size >= Total[sent[buf[1].msg]]
        <5>1. Start(buf[1]) /\ Remaining(buf[1]) <= size /\ buf[1].msg \in 1 .. Len(sent)
          BY <2>0, <4>1 DEF SegmentsInv, UncutInv, SegmentInv, Genuine
        <5>2. sent[buf[1].msg] \in AnyKind
          BY <5>1, ElementOfSeq DEF TypeOK
        <5>3. Total[sent[buf[1].msg]] \in Nat
          BY <5>2, SizeFacts
        <5> QED
          BY <1>0, <5>1, <5>2, <5>3 DEF Start, Remaining
      <4> QED
        BY <1>0, <2>0, <3>4, <4>1 DEF NoPhantom
    <3> QED
      BY <3>2, <3>3, <3>5, <3>6
  <2> QED
    BY <2>4, <2>5
<1>4. CASE Exit
  <2>1. pc = "recv" /\ UNCHANGED <<sent, buf, size, call, cut>>
    BY <1>4 DEF Exit
  <2>2. CallInv' /\ NoPhantom'
    BY <1>4, <2>1 DEF Exit, CallInv, NoPhantom
  <2>3. WholeDelivered'
    BY <2>1 DEF WholeDelivered, Start
  <2>4. StaleOnlyWithoutHeader'
    BY <2>1 DEF StaleOnlyWithoutHeader, HeaderOf, Start
  <2> QED
    BY <2>2, <2>3, <2>4
<1>5. CASE Restart
  BY <1>5 DEF Restart, CallInv, WholeDelivered, StaleOnlyWithoutHeader, NoPhantom
<1>6. CASE UNCHANGED vars
  BY <1>6 DEF vars, CallInv, WholeDelivered, StaleOnlyWithoutHeader, NoPhantom, HeaderOf, Start
<1> QED
  BY <1>1, <1>2, <1>3, <1>4, <1>5, <1>6 DEF Next

LEMMA DeliveryAlways == Spec => []Delivery /\ []CallInv
<1>1. Init => CallInv /\ Delivery
  BY DEF Init, CallInv, Delivery, WholeDelivered, StaleOnlyWithoutHeader, NoPhantom
<1> QED
  BY <1>1, DeliveryStep, TypeCorrect, SegmentsAlways, PTL DEF Spec

\* However the stream is cut: a segment that begins with a complete message
\* of a known type is delivered as that message and nothing else.
THEOREM WholeDeliveredAlways == Spec => []WholeDelivered
BY DeliveryAlways, PTL DEF Delivery

\* No constructor decodes old bytes behind a header that it was given.
THEOREM StaleOnlyWithoutHeaderAlways == Spec => []StaleOnlyWithoutHeader
BY DeliveryAlways, PTL DEF Delivery

\* While the segments of a connection end where messages end, each call of the
\* handler passes on a message that was sent, as the type it was sent as.
THEOREM NoPhantomAlways == Spec => []NoPhantom
BY DeliveryAlways, PTL DEF Delivery

-----------------------------------------------------------------------------
(* The abstract inbox. *)

\* Bytes travel in the order of their messages and of their places in them.
Before(a, b) == a.msg < b.msg \/ (a.msg = b.msg /\ a.at < b.at)

OrderInv ==
  \A i, j \in 1 .. Len(stream) : i < j => Before(stream[i], stream[j])

LEMMA OrderStep == TypeOK /\ OrderInv /\ [Next]_vars => OrderInv'
<1> SUFFICES ASSUME TypeOK, OrderInv, [Next]_vars PROVE OrderInv'
  OBVIOUS
<1>0. /\ stream \in Seq(Cell(Len(sent))) /\ Len(stream) \in Nat /\ Len(sent) \in Nat
      /\ \A i \in 1 .. Len(stream) : stream[i] \in Cell(Len(sent))
  BY LenProperties, ElementOfSeq DEF TypeOK, Cell
<1>1. ASSUME NEW kind \in AnyKind, PeerSend(kind) PROVE OrderInv'
  <2>0. Total[kind] \in Nat
    BY SizeFacts
  <2>1. /\ Len(sent') = Len(sent) + 1
        /\ Len(stream') = Len(stream) + Total[kind]
        /\ \A i \in 1 .. Len(stream) : stream'[i] = stream[i]
        /\ \A i \in Len(stream) + 1 .. Len(stream') :
             stream'[i] = [msg |-> Len(sent'), at |-> i - Len(stream) - 1]
    BY <1>1, PeerSendBytes
  <2>2. ASSUME NEW i \in 1 .. Len(stream'), NEW j \in 1 .. Len(stream'), i < j
        PROVE  Before(stream'[i], stream'[j])
    <3>1. CASE j <= Len(stream)
      <4>1. i \in 1 .. Len(stream) /\ j \in 1 .. Len(stream)
        BY <1>0, <2>0, <2>1, <2>2, <3>1
      <4> QED
        BY <2>1, <2>2, <4>1 DEF OrderInv
    <3>2. CASE j > Len(stream)
      <4>1. j \in Len(stream) + 1 .. Len(stream')
        BY <1>0, <2>0, <2>1, <3>2
      <4>2. stream'[j] = [msg |-> Len(sent'), at |-> j - Len(stream) - 1]
        BY <2>1, <4>1
      <4>3. CASE i <= Len(stream)
        <5>1. i \in 1 .. Len(stream)
          BY <1>0, <2>0, <2>1, <4>3
        <5>2. stream'[i] = stream[i] /\ stream[i].msg \in 0 .. Len(sent)
          BY <1>0, <2>0, <2>1, <5>1 DEF Cell
        <5> QED
          BY <1>0, <2>0, <2>1, <4>2, <5>2 DEF Before
      <4>4. CASE i > Len(stream)
        <5>1. i \in Len(stream) + 1 .. Len(stream')
          BY <1>0, <2>0, <2>1, <4>4
        <5>2. stream'[i] = [msg |-> Len(sent'), at |-> i - Len(stream) - 1]
          BY <2>1, <5>1
        <5>3. i - Len(stream) - 1 < j - Len(stream) - 1
          BY <1>0, <2>0, <2>1, <2>2
        <5> QED
          BY <4>2, <5>2, <5>3 DEF Before
      <4> QED
        BY <1>0, <2>0, <2>1, <4>3, <4>4
    <3> QED
      BY <1>0, <2>0, <2>1, <3>1, <3>2
  <2> QED
    BY <2>2 DEF OrderInv, Before
<1>2. ASSUME NEW n \in 1 .. BufSize, Recv(n) PROVE OrderInv'
  <2>1. /\ n \in Nat /\ n > 0 /\ n <= Len(stream) /\ Len(stream') = Len(stream) - n
        /\ \A i \in 1 .. Len(stream') : stream'[i] = stream[i + n]
    BY <1>2, RecvBytes
  <2>2. ASSUME NEW i \in 1 .. Len(stream'), NEW j \in 1 .. Len(stream'), i < j
        PROVE  Before(stream'[i], stream'[j])
    <3>1. i + n \in 1 .. Len(stream) /\ j + n \in 1 .. Len(stream) /\ i + n < j + n
      BY <1>0, <2>1, <2>2
    <3>2. Before(stream[i + n], stream[j + n])
      BY <3>1 DEF OrderInv
    <3> QED
      BY <2>1, <3>2
  <2> QED
    BY <2>2 DEF OrderInv, Before
<1>3. CASE Restart
  <2>1. Len(stream') = 0
    BY <1>3 DEF Restart
  <2> QED
    BY <2>1 DEF OrderInv
<1>4. CASE UNCHANGED stream
  BY <1>4 DEF OrderInv, Before
<1> QED
  BY <1>1, <1>2, <1>3, <1>4 DEF Next, Unpack, Exit, vars

LEMMA OrderAlways == Spec => []OrderInv
<1>1. Init => OrderInv
  BY EmptySeq DEF Init, OrderInv
<1> QED
  BY <1>1, OrderStep, TypeCorrect, PTL DEF Spec

\* While the segments of a connection end where messages end, each step of the
\* peer, of the connection and of the receive thread is a step of the inbox or
\* leaves it as it is.
LEMMA InboxStep ==
  TypeOK /\ SegmentsInv /\ OrderInv /\ CallInv /\ WholeDelivered' /\ [Next]_vars /\ ~cut'
    => [Incoming!Next]_(Incoming!vars)
<1> SUFFICES ASSUME TypeOK, SegmentsInv, OrderInv, CallInv, WholeDelivered',
                    [Next]_vars, ~cut'
             PROVE  Incoming!Next \/ UNCHANGED Incoming!vars
  OBVIOUS
<1> USE DEF Incoming!Next, Incoming!vars, Incoming!Nothing
<1>0. /\ sent \in Seq(AnyKind) /\ Len(sent) \in Nat /\ Len(stream) \in Nat /\ size \in Nat
      /\ stream \in Seq(Cell(Len(sent)))
  BY LenProperties DEF TypeOK, Cell
<1>1. \A i \in 1 .. Len(stream) : stream[i].at \in Nat /\ stream[i].msg \in 1 .. Len(sent)
  <2>1. \A i \in 1 .. Len(stream) : stream[i] \in Cell(Len(sent))
    BY <1>0, ElementOfSeq
  <2> QED
    BY <2>1 DEF SegmentsInv, StreamInv, Genuine, Cell
<1>2. ASSUME NEW kind \in AnyKind, PeerSend(kind)
      PROVE  Incoming!Send(kind)
  <2>0. Total[kind] \in Nat /\ Total[kind] > 0
    BY SizeFacts
  <2>1. /\ Len(sent') = Len(sent) + 1
        /\ Len(stream') = Len(stream) + Total[kind]
        /\ \A i \in 1 .. Len(stream) : stream'[i] = stream[i]
        /\ \A i \in Len(stream) + 1 .. Len(stream') :
             stream'[i] = [msg |-> Len(sent'), at |-> i - Len(stream) - 1]
    BY <1>2, PeerSendBytes
  <2>2. stream' # <<>>
    <3>1. Len(stream') # 0
      BY <1>0, <2>0, <2>1
    <3> QED
      BY <3>1
  <2>3. stream'[1].msg - 1 = IF stream = <<>> THEN Len(sent) ELSE stream[1].msg - 1
    <3>1. CASE stream = <<>>
      <4>1. Len(stream) = 0
        BY <3>1
      <4>2. 1 \in Len(stream) + 1 .. Len(stream')
        BY <2>0, <2>1, <4>1
      <4>3. stream'[1].msg = Len(sent')
        <5>1. stream'[1] = [msg |-> Len(sent'), at |-> 1 - Len(stream) - 1]
          BY <2>1, <4>2
        <5> QED
          BY <5>1
      <4> QED
        BY <1>0, <2>1, <3>1, <4>3
    <3>2. CASE stream # <<>>
      <4>1. 1 \in 1 .. Len(stream)
        BY <1>0, <3>2, EmptySeq
      <4> QED
        BY <2>1, <3>2, <4>1
    <3> QED
      BY <3>1, <3>2
  <2> QED
    BY <1>2, <2>2, <2>3 DEF PeerSend, Incoming!Send
<1>3. ASSUME NEW n \in 1 .. BufSize, Recv(n)
      PROVE  Incoming!Arrive
  <2>1. /\ n \in Nat /\ n > 0 /\ n <= Len(stream) /\ Len(stream') = Len(stream) - n
        /\ \A i \in 1 .. Len(stream') : stream'[i] = stream[i + n]
        /\ \A i \in 1 .. n : buf'[i] = stream[i]
    BY <1>3, RecvBytes
  <2>2. /\ pc = "recv" /\ pc' = "unpack" /\ sent' = sent /\ call' = NoCall
        /\ Boundary(n)
    BY <1>3 DEF Recv
  <2>3. /\ stream # <<>> /\ 1 \in 1 .. Len(stream) /\ buf'[1] = stream[1]
        /\ stream[1].msg \in 1 .. Len(sent) /\ stream[1].at \in Nat
    <3>1. 1 \in 1 .. Len(stream) /\ 1 \in 1 .. n
      BY <1>0, <2>1
    <3>2. stream # <<>>
      BY <3>1
    <3> QED
      BY <1>1, <2>1, <3>1, <3>2
  <2>4. (IF stream = <<>> THEN Len(sent) ELSE stream[1].msg - 1)' \in stream[1].msg .. Len(sent)
    <3>1. CASE stream' = <<>>
      BY <1>0, <2>2, <2>3, <3>1
    <3>2. CASE stream' # <<>>
      \* The next segment starts with a later message, as bytes are in order.
      <4>0. Len(stream') # 0
        BY <1>3, <3>2, RecvBytes, EmptySeq
      <4>1. 1 \in 1 .. Len(stream') /\ n + 1 \in 1 .. Len(stream) /\ n # Len(stream) /\ 1 < n + 1
        BY <1>0, <2>1, <4>0
      <4>2. Before(stream[1], stream[n + 1])
        BY <2>3, <4>1 DEF OrderInv
      <4>3. stream[n + 1].at = 0
        BY <2>2, <4>1 DEF Boundary, Start
      <4>4. stream[1].msg < stream[n + 1].msg
        BY <2>3, <4>2, <4>3 DEF Before
      <4>5. stream'[1] = stream[n + 1] /\ stream[n + 1].msg \in 1 .. Len(sent)
        <5>1. 1 + n = n + 1
          BY <2>1
        <5> QED
          BY <1>1, <2>1, <4>1, <5>1
      <4>6. stream[n + 1].msg - 1 \in stream[1].msg .. Len(sent)
        BY <1>0, <2>3, <4>4, <4>5
      <4> QED
        BY <3>2, <4>5, <4>6
    <3> QED
      BY <3>1, <3>2
  <2>5. stream[1].msg - 1 + 1 = stream[1].msg
    BY <2>3
  <2> QED
    BY <2>2, <2>3, <2>4, <2>5 DEF Incoming!Arrive, NoCall
<1>4. CASE Unpack
  <2>1. /\ pc = "unpack" /\ pc' = "recv" /\ UNCHANGED <<sent, stream, buf, size, cut>>
        /\ call = NoCall /\ size > 0
    BY <1>4 DEF Unpack, CallInv, SegmentsInv, UnpackInv
  <2> DEFINE n == buf[1].msg
  <2>2. /\ n \in 1 .. Len(sent) /\ n # 0 /\ sent[n] \in AnyKind
        /\ Start(buf[1]) /\ size >= Total[sent[n]]
    <3>1. Start(buf[1]) /\ Remaining(buf[1]) <= size /\ n \in 1 .. Len(sent)
      BY <2>1 DEF SegmentsInv, UncutInv, SegmentInv, Genuine
    <3>2. sent[n] \in AnyKind
      BY <1>0, <3>1, ElementOfSeq
    <3>3. Total[sent[n]] \in Nat
      BY <3>2, SizeFacts
    <3> QED
      BY <1>0, <3>1, <3>2, <3>3 DEF Start, Remaining
  <2>3. CASE sent[n] \in Kind
    <3>1. call' = [kind |-> sent[n], msg |-> n, stale |-> FALSE]
      BY <2>1, <2>2, <2>3 DEF WholeDelivered, Start
    <3> QED
      BY <2>1, <2>2, <2>3, <3>1 DEF Incoming!Hand
  <2>4. CASE sent[n] \notin Kind
    <3>1. TypeOf(buf[TypeOffset + 1]) = {sent[n]}
      BY <2>1, <2>2, WholeMessage
    <3>2. call' = NoCall
      BY <1>4, <2>1, <2>4, <3>1 DEF Unpack
    <3> QED
      BY <2>1, <2>2, <2>4, <3>2 DEF Incoming!Hand, NoCall
  <2> QED
    BY <2>3, <2>4
<1>5. CASE Exit
  BY <1>5 DEF Exit
<1>6. CASE Restart
  BY <1>6 DEF Restart, Incoming!Lose, NoCall
<1>7. CASE UNCHANGED vars
  BY <1>7 DEF vars
<1> QED
  BY <1>2, <1>3, <1>4, <1>5, <1>6, <1>7 DEF Next, AnyKind

\* The receive thread and unpack keep what the inbox promises on each
\* connection for as long as it is cut between messages only: the handler gets
\* the first message of each segment, at most once and in the order sent, and
\* none that was lost with an earlier connection.
THEOREM ImplementsInboxProved == Spec => ImplementsInbox
<1>1. Init => Incoming!Init
  BY EmptySeq DEF Init, Incoming!Init, Incoming!Nothing, NoCall
<1>2. Delivery => WholeDelivered
  BY DEF Delivery
<1>3. /\ TypeOK /\ SegmentsInv /\ OrderInv /\ CallInv /\ WholeDelivered' /\ [Next]_vars
      => [~cut' => [Incoming!Next]_(Incoming!vars)]_vars
  BY InboxStep
<1> QED
  BY <1>1, <1>2, <1>3, TypeCorrect, SegmentsAlways, OrderAlways, DeliveryAlways, PTL
     DEF Spec, ImplementsInbox

\* Where every segment ends with a message, on every connection, the incoming
\* path implements the inbox.
WholeSpec == Init /\ [][Next /\ ~cut']_vars

THEOREM WholeImplementsInbox == WholeSpec => Incoming!Spec
<1>1. [Next /\ ~cut']_vars => [Next]_vars
  OBVIOUS
<1>2. [Next /\ ~cut']_vars /\ [~cut' => [Incoming!Next]_(Incoming!vars)]_vars
      => [Incoming!Next]_(Incoming!vars)
  BY DEF vars, Incoming!vars
<1>3. WholeSpec => Spec
  BY <1>1, PTL DEF WholeSpec, Spec
<1> QED
  BY <1>2, <1>3, ImplementsInboxProved, PTL
     DEF WholeSpec, ImplementsInbox, Incoming!Spec

=============================================================================
