---------------------------- MODULE CodecProofs -----------------------------
(***************************************************************************)
(* The types of Codec, the lengths that constructors and encoders agree    *)
(* on, the round trips and the sizes of printing, for every width of a     *)
(* byte, every size of the fields, any strings and any positions.          *)
(***************************************************************************)
EXTENDS Codec, SequenceTheorems, TLAPS

(* Sequences. *)

LEMMA ArraySeq ==
  ASSUME NEW S, NEW n \in Nat, NEW f \in [1 .. n -> S]
  PROVE  f \in Seq(S) /\ Len(f) = n
OBVIOUS

LEMMA Empty ==
  ASSUME NEW S, NEW s \in Seq(S)
  PROVE  Len(s) = 0 <=> s = <<>>
OBVIOUS

\* Where the parts of a buffer are: p is what was written before them.
Prefix(p, d) == Len(p) <= Len(d) /\ \A i \in 1 .. Len(p) : d[i] = p[i]

LEMMA PrefixPart ==
  ASSUME NEW S, NEW p \in Seq(S), NEW b \in Seq(S), NEW d, Len(d) \in Nat, Prefix(p \o b, d)
  PROVE  Prefix(p, d) /\ \A i \in 1 .. Len(b) : d[Len(p) + i] = b[i]
<1>1. /\ Len(p) \in Nat /\ Len(b) \in Nat
      /\ Len(p \o b) = Len(p) + Len(b)
      /\ \A i \in 1 .. Len(p) + Len(b) : (p \o b)[i] = IF i <= Len(p) THEN p[i] ELSE b[i - Len(p)]
  BY ConcatProperties, LenProperties
<1>2. Len(p) <= Len(d) /\ Len(p) + Len(b) <= Len(d)
  BY <1>1 DEF Prefix
<1>3. \A i \in 1 .. Len(p) + Len(b) : d[i] = (p \o b)[i]
  BY <1>1 DEF Prefix
<1>4. ASSUME NEW i \in 1 .. Len(p) PROVE d[i] = p[i]
  <2>1. i \in 1 .. Len(p) + Len(b) /\ i <= Len(p)
    BY <1>1
  <2> QED
    BY <1>1, <1>3, <2>1
<1>5. ASSUME NEW i \in 1 .. Len(b) PROVE d[Len(p) + i] = b[i]
  <2>1. /\ Len(p) + i \in 1 .. Len(p) + Len(b)
        /\ ~(Len(p) + i <= Len(p)) /\ (Len(p) + i) - Len(p) = i
    BY <1>1
  <2>2. (p \o b)[Len(p) + i] = b[(Len(p) + i) - Len(p)]
    BY <1>1, <2>1
  <2> QED
    BY <1>3, <2>1, <2>2
<1> QED
  BY <1>2, <1>4, <1>5 DEF Prefix

-----------------------------------------------------------------------------
(* The messages. *)

ByteFacts ==
  /\ ByteMax \in Nat \ {0} /\ VidSize \in Nat /\ StateSize \in Nat
  /\ PosSize \in Nat \ {0} /\ StrSize \in Nat \ {0}
  /\ 0 \in Byte /\ 1 \in Byte /\ Byte \subseteq Nat

LEMMA Facts == ByteFacts
BY CodecAssumption DEF ByteFacts, Byte

IsHeader(m) == \E b \in Body : m = MessageHeader(b)
IsInh(m) ==
  \E v \in Text, s \in Text, h \in Text, a \in Text, q \in Quad, u \in Text :
    m = Veh2CloudInh(v, s, h, a, q, u)
IsInhRes(m) == \E v \in Text, b \in Body : m = Cloud2VehInhRes(v, b)
IsState(m) ==
  \E b \in Body, n \in 0 .. MaxPositions : \E ps \in [1 .. n -> Position] :
    m = Veh2CloudState(b, ps)

LEMMA MessageKinds ==
  ASSUME NEW m \in Message
  PROVE  \/ IsHeader(m) /\ m.kind = "header"
         \/ IsInh(m) /\ m.kind = "inh"
         \/ IsInhRes(m) /\ m.kind = "inh_res"
         \/ IsState(m) /\ m.kind = "state"
<1>1. ASSUME IsHeader(m) PROVE m.kind = "header"
  BY <1>1 DEF IsHeader, MessageHeader
<1>2. ASSUME IsInh(m) PROVE m.kind = "inh"
  BY <1>2 DEF IsInh, Veh2CloudInh
<1>3. ASSUME IsInhRes(m) PROVE m.kind = "inh_res"
  BY <1>3 DEF IsInhRes, Cloud2VehInhRes
<1>4. ASSUME IsState(m) PROVE m.kind = "state"
  BY <1>4 DEF IsState, Veh2CloudState
<1>5. IsHeader(m) \/ IsInh(m) \/ IsInhRes(m) \/ IsState(m)
  <2>1. CASE m \in {MessageHeader(b) : b \in Body}
    BY <2>1 DEF IsHeader
  <2>2. CASE m \in {Veh2CloudInh(v, s, h, a, q, u) :
                      v \in Text, s \in Text, h \in Text, a \in Text, q \in Quad, u \in Text}
    BY <2>2 DEF IsInh
  <2>3. CASE m \in {Cloud2VehInhRes(v, b) : v \in Text, b \in Body}
    BY <2>3 DEF IsInhRes
  <2>4. CASE m \in {Veh2CloudState(b, ps) :
                      b \in Body, ps \in UNION {[1 .. n -> Position] : n \in 0 .. MaxPositions}}
    BY <2>4 DEF IsState
  <2> QED
    BY <2>1, <2>2, <2>3, <2>4 DEF Message
<1> QED
  BY <1>1, <1>2, <1>3, <1>4, <1>5

\* A length byte is less than 255, and 0 or the length.
LEMMA LenBytes ==
  ASSUME NEW s \in Text
  PROVE  /\ s \in Seq(Byte)
         /\ LenByte(s) \in Byte /\ LenByte(s) < ByteMax
         /\ LenByte(s) = 0 \/ LenByte(s) = Len(s)
         /\ LenByte(s) <= Len(s)
BY CodecAssumption, LenProperties DEF LenByte, Byte

LEMMA VidType ==
  ASSUME NEW s \in Text
  PROVE  StrNCpy(s, VidSize) \in [1 .. VidSize -> Byte]
<1>1. s \in Seq(Byte) /\ \A i \in 1 .. Len(s) : s[i] \in Byte
  BY CodecAssumption, ElementOfSeq
<1>2. \A i \in 1 .. VidSize : (IF i <= Len(s) THEN s[i] ELSE 0) \in Byte
  BY <1>1, Facts, LenProperties DEF ByteFacts
<1> QED
  BY <1>2 DEF StrNCpy

LEMMA InhFields ==
  ASSUME NEW m, IsInh(m)
  PROVE  /\ m.vid \in [1 .. VidSize -> Byte]
         /\ m.sw \in Text /\ m.sw_len = LenByte(m.sw)
         /\ m.hw \in Text /\ m.hw_len = LenByte(m.hw)
         /\ m.ad \in Text /\ m.ad_len = LenByte(m.ad)
         /\ m.user \in Text /\ m.user_len = LenByte(m.user)
         /\ m.quad \in Quad
         /\ m.data_len = VidSize + 8 + m.sw_len + m.hw_len + m.ad_len + m.user_len
<1>1. PICK v \in Text, s \in Text, h \in Text, a \in Text, q \in Quad, u \in Text :
        m = Veh2CloudInh(v, s, h, a, q, u)
  BY DEF IsInh
<1> QED
  BY <1>1, VidType DEF Veh2CloudInh

LEMMA InhResFields ==
  ASSUME NEW m, IsInhRes(m)
  PROVE  m.vid \in [1 .. VidSize -> Byte] /\ m.body \in Body /\ m.data_len = VidSize + 1
<1>1. PICK v \in Text, b \in Body : m = Cloud2VehInhRes(v, b)
  BY DEF IsInhRes
<1> QED
  BY <1>1, VidType DEF Cloud2VehInhRes

\* The count is a byte; up to 255 positions it is right, and never too large.
LEMMA StateFieldsTypes ==
  ASSUME NEW m, IsState(m)
  PROVE  /\ m.body \in Body /\ m.pos \in Seq(Position)
         /\ m.pos_num \in Byte /\ m.pos_num <= Len(m.pos)
         /\ Len(m.pos) <= ByteMax => m.pos_num = Len(m.pos)
         /\ m.data_len = StateSize + Len(m.pos)
<1>1. PICK b \in Body, n \in 0 .. MaxPositions :
        \E ps \in [1 .. n -> Position] : m = Veh2CloudState(b, ps)
  BY DEF IsState
<1>2. PICK ps \in [1 .. n -> Position] : m = Veh2CloudState(b, ps)
  BY <1>1
<1>3. n \in Nat /\ ps \in Seq(Position) /\ Len(ps) = n
  BY CodecAssumption, ArraySeq
<1>4. /\ n % (ByteMax + 1) \in Byte /\ n % (ByteMax + 1) <= n
      /\ n <= ByteMax => n % (ByteMax + 1) = n
  BY <1>3, Facts DEF ByteFacts, Byte
<1> QED
  BY <1>2, <1>3, <1>4 DEF Veh2CloudState


-----------------------------------------------------------------------------
(* The bytes of an INH. *)

LEMMA CopyTypes ==
  ASSUME NEW s \in Seq(Byte), NEW n \in Nat, n <= ByteMax, NEW stray \in [1 .. ByteMax -> Byte]
  PROVE  /\ CopyBytes(s, n, stray) \in Seq(Byte)
         /\ Len(CopyBytes(s, n, stray)) = n
         /\ \A i \in 1 .. n : i <= Len(s) => CopyBytes(s, n, stray)[i] = s[i]
<1>1. /\ Len(s) \in Nat
      /\ \A i \in 1 .. Len(s) : s[i] \in Byte
  BY ElementOfSeq, LenProperties
<1>2. \A i \in 1 .. n :
        (IF i <= Len(s) THEN s[i] ELSE IF i = Len(s) + 1 THEN 0 ELSE stray[i]) \in Byte
  BY <1>1, Facts DEF ByteFacts
<1>3. CopyBytes(s, n, stray) \in [1 .. n -> Byte]
  BY <1>2 DEF CopyBytes
<1>4. CopyBytes(s, n, stray) \in Seq(Byte) /\ Len(CopyBytes(s, n, stray)) = n
  BY <1>3, ArraySeq
<1> QED
  BY <1>4 DEF CopyBytes

LEMMA OneByte ==
  ASSUME NEW x \in Byte
  PROVE  <<x>> \in Seq(Byte) /\ Len(<<x>>) = 1 /\ <<x>>[1] = x
OBVIOUS

LEMMA Longer ==
  ASSUME NEW p \in Seq(Byte), NEW b \in Seq(Byte)
  PROVE  p \o b \in Seq(Byte) /\ Len(p \o b) = Len(p) + Len(b)
BY ConcatProperties

LEMMA OneMore ==
  ASSUME NEW p \in Seq(Byte), NEW x \in Byte
  PROVE  p \o <<x>> \in Seq(Byte) /\ Len(p \o <<x>>) = Len(p) + 1
BY OneByte, Longer

LEMMA PrefixBytes ==
  ASSUME NEW p \in Seq(Byte), NEW b \in Seq(Byte), NEW d \in Seq(Byte), Prefix(p \o b, d)
  PROVE  Prefix(p, d) /\ \A i \in 1 .. Len(b) : d[Len(p) + i] = b[i]
<1>1. Len(d) \in Nat
  BY LenProperties
<1> QED
  BY <1>1, PrefixPart, Zenon

LEMMA PrefixByte ==
  ASSUME NEW p \in Seq(Byte), NEW x \in Byte, NEW d \in Seq(Byte), Prefix(p \o <<x>>, d)
  PROVE  Prefix(p, d) /\ d[Len(p) + 1] = x
<1>1. <<x>> \in Seq(Byte)
  OBVIOUS
<1>2. Prefix(p, d) /\ \A i \in 1 .. Len(<<x>>) : d[Len(p) + i] = <<x>>[i]
  BY <1>1, PrefixBytes, Zenon
<1> QED
  BY <1>2

LEMMA AnnouncedLen ==
  ASSUME NEW n \in Byte, n < ByteMax
  PROVE  Announced(n) = n
BY Facts DEF Announced, ByteFacts

\* How much of the data segment of an INH precedes each of its fields.
HwOffset(m) == VidSize + 1 + m.sw_len
AdOffset(m) == HwOffset(m) + 1 + m.hw_len
QuadOffset(m) == AdOffset(m) + 1 + m.ad_len
UserOffset(m) == QuadOffset(m) + 4

\* Where to_bytes puts the fields of an INH: the byte before the hardware
\* version is the software version's length.
LaidOut(m, stray, d) ==
  /\ d \in Seq(Byte)
  /\ Len(d) = UserOffset(m) + 1 + m.user_len
  /\ \A i \in 1 .. VidSize : d[i] = m.vid[i]
  /\ d[VidSize + 1] = m.sw_len
  /\ \A i \in 1 .. m.sw_len : d[VidSize + 1 + i] = CopyBytes(m.sw, m.sw_len, stray)[i]
  /\ d[HwOffset(m) + 1] = m.sw_len
  /\ \A i \in 1 .. m.hw_len : d[HwOffset(m) + 1 + i] = CopyBytes(m.sw, m.hw_len, stray)[i]
  /\ d[AdOffset(m) + 1] = m.ad_len
  /\ \A i \in 1 .. m.ad_len : d[AdOffset(m) + 1 + i] = CopyBytes(m.sw, m.ad_len, stray)[i]
  /\ \A i \in 1 .. 4 : d[QuadOffset(m) + i] = m.quad[i]
  /\ d[UserOffset(m) + 1] = m.user_len
  /\ \A i \in 1 .. m.user_len : d[UserOffset(m) + 1 + i] = CopyBytes(m.user, m.user_len, stray)[i]

InhTypes(m) ==
  /\ m.sw_len \in Byte /\ m.sw_len < ByteMax /\ m.sw \in Seq(Byte)
  /\ m.hw_len \in Byte /\ m.hw_len < ByteMax
  /\ m.ad_len \in Byte /\ m.ad_len < ByteMax
  /\ m.user_len \in Byte /\ m.user_len < ByteMax /\ m.user \in Seq(Byte)
  /\ m.sw_len \in Nat /\ m.hw_len \in Nat /\ m.ad_len \in Nat /\ m.user_len \in Nat
  /\ m.vid \in Seq(Byte) /\ Len(m.vid) = VidSize
  /\ m.quad \in Seq(Byte) /\ Len(m.quad) = 4
  /\ HwOffset(m) \in Nat /\ AdOffset(m) \in Nat
  /\ QuadOffset(m) \in Nat /\ UserOffset(m) \in Nat

LEMMA InhTyped ==
  ASSUME NEW m, IsInh(m)
  PROVE  InhTypes(m)
<1>1. VidSize \in Nat /\ Byte \subseteq Nat
  BY Facts DEF ByteFacts
<1>2. /\ m.sw_len \in Byte /\ m.sw_len < ByteMax /\ m.sw \in Seq(Byte)
      /\ m.hw_len \in Byte /\ m.hw_len < ByteMax
      /\ m.ad_len \in Byte /\ m.ad_len < ByteMax
      /\ m.user_len \in Byte /\ m.user_len < ByteMax /\ m.user \in Seq(Byte)
  BY InhFields, LenBytes
<1>3. m.sw_len \in Nat /\ m.hw_len \in Nat /\ m.ad_len \in Nat /\ m.user_len \in Nat
  BY <1>1, <1>2
<1>4. m.vid \in Seq(Byte) /\ Len(m.vid) = VidSize
  BY <1>1, InhFields, ArraySeq
<1>5. m.quad \in Seq(Byte) /\ Len(m.quad) = 4
  BY InhFields, CodecAssumption
<1>6. /\ HwOffset(m) \in Nat /\ AdOffset(m) \in Nat
      /\ QuadOffset(m) \in Nat /\ UserOffset(m) \in Nat
  BY <1>1, <1>3 DEF HwOffset, AdOffset, QuadOffset, UserOffset
<1> QED
  BY <1>2, <1>3, <1>4, <1>5, <1>6 DEF InhTypes

LEMMA InhCopies ==
  ASSUME NEW m, IsInh(m), NEW stray \in [1 .. ByteMax -> Byte]
  PROVE  /\ CopyBytes(m.sw, m.sw_len, stray) \in Seq(Byte)
         /\ Len(CopyBytes(m.sw, m.sw_len, stray)) = m.sw_len
         /\ CopyBytes(m.sw, m.hw_len, stray) \in Seq(Byte)
         /\ Len(CopyBytes(m.sw, m.hw_len, stray)) = m.hw_len
         /\ CopyBytes(m.sw, m.ad_len, stray) \in Seq(Byte)
         /\ Len(CopyBytes(m.sw, m.ad_len, stray)) = m.ad_len
         /\ CopyBytes(m.user, m.user_len, stray) \in Seq(Byte)
         /\ Len(CopyBytes(m.user, m.user_len, stray)) = m.user_len
<1>1. ASSUME NEW s \in Seq(Byte), NEW n \in Byte, n < ByteMax
      PROVE  CopyBytes(s, n, stray) \in Seq(Byte) /\ Len(CopyBytes(s, n, stray)) = n
  <2>1. n \in Nat /\ n <= ByteMax
    BY <1>1, Facts DEF ByteFacts
  <2> QED
    BY <2>1, CopyTypes
<1>2. InhTypes(m)
  BY InhTyped
<1> QED
  BY <1>1, <1>2 DEF InhTypes

LEMMA InhLayout ==
  ASSUME NEW m, IsInh(m), NEW stray \in [1 .. ByteMax -> Byte]
  PROVE  LaidOut(m, stray, InhBytes(m, stray))
<1> DEFINE C1 == CopyBytes(m.sw, m.sw_len, stray)
           C2 == CopyBytes(m.sw, m.hw_len, stray)
           C3 == CopyBytes(m.sw, m.ad_len, stray)
           C4 == CopyBytes(m.user, m.user_len, stray)
           p1 == m.vid
           p2 == p1 \o <<m.sw_len>>
           p3 == p2 \o C1
           p4 == p3 \o <<m.sw_len>>
           p5 == p4 \o C2
           p6 == p5 \o <<m.ad_len>>
           p7 == p6 \o C3
           p8 == p7 \o m.quad
           p9 == p8 \o <<m.user_len>>
           d == p9 \o C4
<1>1. InhTypes(m)
  BY InhTyped
<1>2. VidSize \in Nat /\ ByteMax \in Nat /\ Byte \subseteq Nat
  BY Facts DEF ByteFacts
<1>3. InhBytes(m, stray) = d
  <2>1. /\ Announced(m.sw_len) = m.sw_len
        /\ Announced(m.hw_len) = m.hw_len
        /\ Announced(m.ad_len) = m.ad_len
    BY <1>1, AnnouncedLen DEF InhTypes
  <2> QED
    BY <2>1 DEF InhBytes
<1>4. /\ C1 \in Seq(Byte) /\ Len(C1) = m.sw_len
      /\ C2 \in Seq(Byte) /\ Len(C2) = m.hw_len
      /\ C3 \in Seq(Byte) /\ Len(C3) = m.ad_len
      /\ C4 \in Seq(Byte) /\ Len(C4) = m.user_len
  BY InhCopies
<1>5. /\ m.vid \in Seq(Byte) /\ m.quad \in Seq(Byte) /\ Len(m.vid) = VidSize /\ Len(m.quad) = 4
      /\ m.sw_len \in Byte /\ m.ad_len \in Byte /\ m.user_len \in Byte
      /\ m.sw_len \in Nat /\ m.hw_len \in Nat /\ m.ad_len \in Nat /\ m.user_len \in Nat
  BY <1>1 DEF InhTypes
<1> HIDE DEF C1, C2, C3, C4, p1, p2, p3, p4, p5, p6, p7, p8, p9, d
<1>6. p1 \in Seq(Byte) /\ Len(p1) = VidSize
  BY <1>5 DEF p1
<1>7. p2 \in Seq(Byte) /\ Len(p2) = VidSize + 1
  BY <1>2, <1>4, <1>5, <1>6, OneMore DEF p2
<1>8. p3 \in Seq(Byte) /\ Len(p3) = HwOffset(m)
  BY <1>2, <1>4, <1>5, <1>7, Longer DEF p3, HwOffset
<1>9. p4 \in Seq(Byte) /\ Len(p4) = HwOffset(m) + 1
  BY <1>2, <1>4, <1>5, <1>8, OneMore DEF p4
<1>10. p5 \in Seq(Byte) /\ Len(p5) = AdOffset(m)
  BY <1>2, <1>4, <1>5, <1>9, Longer DEF p5, AdOffset
<1>11. p6 \in Seq(Byte) /\ Len(p6) = AdOffset(m) + 1
  BY <1>2, <1>4, <1>5, <1>10, OneMore DEF p6
<1>12. p7 \in Seq(Byte) /\ Len(p7) = QuadOffset(m)
  BY <1>2, <1>4, <1>5, <1>11, Longer DEF p7, QuadOffset
<1>13. p8 \in Seq(Byte) /\ Len(p8) = UserOffset(m)
  BY <1>2, <1>4, <1>5, <1>12, Longer DEF p8, UserOffset
<1>14. p9 \in Seq(Byte) /\ Len(p9) = UserOffset(m) + 1
  BY <1>2, <1>4, <1>5, <1>13, OneMore DEF p9
<1>15. d \in Seq(Byte) /\ Len(d) = UserOffset(m) + 1 + m.user_len
  BY <1>2, <1>4, <1>5, <1>14, Longer DEF d
<1>16. Prefix(p9 \o C4, d)
  <2>1. Prefix(d, d)
    BY <1>15, LenProperties DEF Prefix
  <2> QED
    BY <2>1 DEF d
<1>17. Prefix(p9, d) /\ \A i \in 1 .. Len(C4) : d[Len(p9) + i] = C4[i]
  <2>1. Prefix(p9 \o C4, d)
    BY <1>16
  <2>2. p9 \in Seq(Byte) /\ C4 \in Seq(Byte) /\ d \in Seq(Byte)
    BY <1>4, <1>5, <1>14, <1>15
  <2> QED
    BY <2>1, <2>2, PrefixBytes
<1>18. Prefix(p8, d) /\ d[Len(p8) + 1] = m.user_len
  <2>1. Prefix(p8 \o <<m.user_len>>, d)
    BY <1>17 DEF p9
  <2>2. p8 \in Seq(Byte) /\ m.user_len \in Byte /\ d \in Seq(Byte)
    BY <1>4, <1>5, <1>13, <1>15
  <2> QED
    BY <2>1, <2>2, PrefixByte
<1>19. Prefix(p7, d) /\ \A i \in 1 .. Len(m.quad) : d[Len(p7) + i] = m.quad[i]
  <2>1. Prefix(p7 \o m.quad, d)
    BY <1>18 DEF p8
  <2>2. p7 \in Seq(Byte) /\ m.quad \in Seq(Byte) /\ d \in Seq(Byte)
    BY <1>4, <1>5, <1>12, <1>15
  <2> QED
    BY <2>1, <2>2, PrefixBytes
<1>20. Prefix(p6, d) /\ \A i \in 1 .. Len(C3) : d[Len(p6) + i] = C3[i]
  <2>1. Prefix(p6 \o C3, d)
    BY <1>19 DEF p7
  <2>2. p6 \in Seq(Byte) /\ C3 \in Seq(Byte) /\ d \in Seq(Byte)
    BY <1>4, <1>5, <1>11, <1>15
  <2> QED
    BY <2>1, <2>2, PrefixBytes
<1>21. Prefix(p5, d) /\ d[Len(p5) + 1] = m.ad_len
  <2>1. Prefix(p5 \o <<m.ad_len>>, d)
    BY <1>20 DEF p6
  <2>2. p5 \in Seq(Byte) /\ m.ad_len \in Byte /\ d \in Seq(Byte)
    BY <1>4, <1>5, <1>10, <1>15
  <2> QED
    BY <2>1, <2>2, PrefixByte
<1>22. Prefix(p4, d) /\ \A i \in 1 .. Len(C2) : d[Len(p4) + i] = C2[i]
  <2>1. Prefix(p4 \o C2, d)
    BY <1>21 DEF p5
  <2>2. p4 \in Seq(Byte) /\ C2 \in Seq(Byte) /\ d \in Seq(Byte)
    BY <1>4, <1>5, <1>9, <1>15
  <2> QED
    BY <2>1, <2>2, PrefixBytes
<1>23. Prefix(p3, d) /\ d[Len(p3) + 1] = m.sw_len
  <2>1. Prefix(p3 \o <<m.sw_len>>, d)
    BY <1>22 DEF p4
  <2>2. p3 \in Seq(Byte) /\ m.sw_len \in Byte /\ d \in Seq(Byte)
    BY <1>4, <1>5, <1>8, <1>15
  <2> QED
    BY <2>1, <2>2, PrefixByte
<1>24. Prefix(p2, d) /\ \A i \in 1 .. Len(C1) : d[Len(p2) + i] = C1[i]
  <2>1. Prefix(p2 \o C1, d)
    BY <1>23 DEF p3
  <2>2. p2 \in Seq(Byte) /\ C1 \in Seq(Byte) /\ d \in Seq(Byte)
    BY <1>4, <1>5, <1>7, <1>15
  <2> QED
    BY <2>1, <2>2, PrefixBytes
<1>25. Prefix(p1, d) /\ d[Len(p1) + 1] = m.sw_len
  <2>1. Prefix(p1 \o <<m.sw_len>>, d)
    BY <1>24 DEF p2
  <2>2. p1 \in Seq(Byte) /\ m.sw_len \in Byte /\ d \in Seq(Byte)
    BY <1>4, <1>5, <1>6, <1>15
  <2> QED
    BY <2>1, <2>2, PrefixByte
<1>26. /\ d[UserOffset(m) + 1] = m.user_len
       /\ \A i \in 1 .. m.user_len : d[UserOffset(m) + 1 + i] = C4[i]
  BY <1>4, <1>14, <1>13, <1>17, <1>18
<1>27. /\ d[AdOffset(m) + 1] = m.ad_len
       /\ \A i \in 1 .. m.ad_len : d[AdOffset(m) + 1 + i] = C3[i]
       /\ \A i \in 1 .. 4 : d[QuadOffset(m) + i] = m.quad[i]
  BY <1>4, <1>5, <1>12, <1>11, <1>10, <1>19, <1>20, <1>21
<1>28. /\ d[HwOffset(m) + 1] = m.sw_len
       /\ \A i \in 1 .. m.hw_len : d[HwOffset(m) + 1 + i] = C2[i]
  BY <1>4, <1>9, <1>8, <1>22, <1>23
<1>29. /\ \A i \in 1 .. VidSize : d[i] = m.vid[i]
       /\ d[VidSize + 1] = m.sw_len
       /\ \A i \in 1 .. m.sw_len : d[VidSize + 1 + i] = C1[i]
  BY <1>4, <1>5, <1>7, <1>6, <1>24, <1>25 DEF Prefix, p1
<1>30. LaidOut(m, stray, d)
  BY <1>15, <1>26, <1>27, <1>28, <1>29 DEF LaidOut, C1, C2, C3, C4
<1> QED
  BY <1>3, <1>30

-----------------------------------------------------------------------------
(* The other messages, and the sizes of the data segments. *)

LEMMA InhResLayout ==
  ASSUME NEW m, IsInhRes(m)
  PROVE  /\ Len(InhResBytes(m)) = VidSize + 1
         /\ SubSeq(InhResBytes(m), 1, VidSize) = m.vid
         /\ InhResBytes(m)[VidSize + 1] = m.body
<1> DEFINE S == Byte \cup Body
           d == m.vid \o <<m.body>>
<1>1. VidSize \in Nat
  BY Facts DEF ByteFacts
<1>2. m.vid \in Seq(Byte) /\ Len(m.vid) = VidSize
  BY <1>1, InhResFields, ArraySeq
<1>3. m.vid \in Seq(S)
  BY <1>2, SeqMonotonic
<1>4. m.body \in S
  BY InhResFields
<1> HIDE DEF S
<1>5. <<m.body>> \in Seq(S) /\ Len(<<m.body>>) = 1 /\ <<m.body>>[1] = m.body
  BY <1>4
<1>6. /\ d \in Seq(S) /\ Len(d) = VidSize + 1
      /\ \A i \in 1 .. VidSize + 1 : d[i] = IF i <= VidSize THEN m.vid[i] ELSE <<m.body>>[i - VidSize]
  BY <1>2, <1>3, <1>5, ConcatProperties
<1>7. d[VidSize + 1] = m.body
  <2> HIDE DEF d
  <2>1. /\ VidSize + 1 \in 1 .. VidSize + 1 /\ ~(VidSize + 1 <= VidSize)
        /\ (VidSize + 1) - VidSize = 1
    BY <1>1
  <2>2. d[VidSize + 1] = <<m.body>>[(VidSize + 1) - VidSize]
    BY <1>6, <2>1
  <2> QED
    BY <1>5, <2>1, <2>2
<1>8. SubSeq(d, 1, VidSize) = m.vid
  <2> HIDE DEF d
  <2>1. \A i \in 1 .. VidSize : d[i] \in S
    BY <1>1, <1>6, ElementOfSeq
  <2>2. /\ SubSeq(d, 1, VidSize) \in Seq(S)
        /\ Len(SubSeq(d, 1, VidSize)) = VidSize
        /\ \A i \in 1 .. VidSize : SubSeq(d, 1, VidSize)[i] = d[i]
    BY <1>1, <2>1, SubSeqProperties
  <2>3. \A i \in 1 .. VidSize : d[i] = m.vid[i]
    BY <1>1, <1>6
  <2> QED
    BY <1>2, <1>3, <2>2, <2>3, SeqEqual
<1> QED
  BY <1>6, <1>7, <1>8 DEF InhResBytes

LEMMA StateLayout ==
  ASSUME NEW m, IsState(m)
  PROVE  /\ Len(StateFields(m)) = 2 + m.pos_num
         /\ StateFields(m)[1] = m.body
         /\ StateFields(m)[2] = m.pos_num
         /\ Len(SubSeq(StateFields(m), 3, 2 + m.pos_num)) = m.pos_num
         /\ Len(m.pos) <= ByteMax => SubSeq(StateFields(m), 3, 2 + m.pos_num) = m.pos
<1> DEFINE S == (Body \cup Byte) \cup Position
           front == <<m.body, m.pos_num>>
           back == SubSeq(m.pos, 1, m.pos_num)
           d == front \o back
           read == SubSeq(d, 3, 2 + m.pos_num)
<1>1. /\ m.pos_num \in Nat /\ m.pos_num <= Len(m.pos)
      /\ Len(m.pos) <= ByteMax => m.pos_num = Len(m.pos)
  BY StateFieldsTypes, Facts DEF ByteFacts
<1>2. m.pos \in Seq(S)
  BY StateFieldsTypes, SeqMonotonic
<1>3. m.body \in S /\ m.pos_num \in S
  BY StateFieldsTypes
<1> HIDE DEF S
<1>4. front \in Seq(S) /\ Len(front) = 2 /\ front[1] = m.body /\ front[2] = m.pos_num
  BY <1>3
<1> HIDE DEF front
<1>5. /\ back \in Seq(S) /\ Len(back) = m.pos_num
      /\ \A i \in 1 .. m.pos_num : back[i] = m.pos[i]
  <2>1. Len(m.pos) \in Nat /\ \A i \in 1 .. m.pos_num : m.pos[i] \in S
    BY <1>1, <1>2, ElementOfSeq, LenProperties
  <2> QED
    BY <1>1, <2>1, SubSeqProperties
<1> HIDE DEF back
<1>6. /\ d \in Seq(S) /\ Len(d) = 2 + m.pos_num
      /\ \A i \in 1 .. 2 + m.pos_num : d[i] = IF i <= 2 THEN front[i] ELSE back[i - 2]
  <2>1. /\ d \in Seq(S)
        /\ Len(d) = Len(front) + Len(back)
        /\ \A i \in 1 .. Len(front) + Len(back) :
             d[i] = IF i <= Len(front) THEN front[i] ELSE back[i - Len(front)]
    BY <1>4, <1>5, ConcatProperties, Zenon
  <2> HIDE DEF d
  <2> QED
    BY <1>4, <1>5, <2>1
<1>7. d[1] = m.body /\ d[2] = m.pos_num
  BY <1>1, <1>4, <1>6
<1>8. \A i \in 1 .. m.pos_num : d[2 + i] = m.pos[i]
  <2> TAKE i \in 1 .. m.pos_num
  <2>1. 2 + i \in 1 .. 2 + m.pos_num /\ ~(2 + i <= 2) /\ (2 + i) - 2 = i
    BY <1>1
  <2>2. d[2 + i] = back[(2 + i) - 2]
    BY <1>6, <2>1
  <2> QED
    BY <1>5, <2>1, <2>2
<1>9. /\ read \in Seq(S) /\ Len(read) = m.pos_num
      /\ \A i \in 1 .. m.pos_num : read[i] = d[2 + i]
  <2> HIDE DEF d
  <2>1. \A i \in 3 .. 2 + m.pos_num : d[i] \in S
    BY <1>1, <1>6, ElementOfSeq
  <2>2. /\ read \in Seq(S)
        /\ Len(read) = IF 3 <= 2 + m.pos_num THEN (2 + m.pos_num) - 3 + 1 ELSE 0
        /\ \A i \in 1 .. (2 + m.pos_num) - 3 + 1 : read[i] = d[3 + i - 1]
    BY <1>1, <2>1, SubSeqProperties
  <2>3. /\ (IF 3 <= 2 + m.pos_num THEN (2 + m.pos_num) - 3 + 1 ELSE 0) = m.pos_num
        /\ (2 + m.pos_num) - 3 + 1 = m.pos_num
    BY <1>1
  <2>4. ASSUME NEW i \in 1 .. m.pos_num PROVE 3 + i - 1 = 2 + i
    BY <1>1
  <2> HIDE DEF read
  <2> QED
    BY <2>2, <2>3, <2>4
<1>10. Len(m.pos) <= ByteMax => read = m.pos
  <2> HIDE DEF read, d
  <2> SUFFICES ASSUME Len(m.pos) <= ByteMax PROVE read = m.pos
    OBVIOUS
  <2>1. Len(m.pos) = m.pos_num
    BY <1>1
  <2>2. \A i \in 1 .. Len(read) : read[i] = m.pos[i]
    BY <1>8, <1>9
  <2> QED
    BY <1>2, <1>9, <2>1, <2>2, SeqEqual
<1> QED
  BY <1>6, <1>7, <1>9, <1>10 DEF StateFields, front, back

LEMMA InhSize ==
  ASSUME NEW m, IsInh(m)
  PROVE  UserOffset(m) + 1 + m.user_len = m.data_len /\ m.data_len \in Nat
<1>1. ASSUME NEW v \in Nat, NEW a \in Nat, NEW b \in Nat, NEW c \in Nat, NEW e \in Nat
      PROVE  /\ ((((v + 1 + a) + 1 + b) + 1 + c) + 4) + 1 + e = v + 8 + a + b + c + e
             /\ v + 8 + a + b + c + e \in Nat
  OBVIOUS
<1>2. /\ VidSize \in Nat
      /\ m.sw_len \in Nat /\ m.hw_len \in Nat /\ m.ad_len \in Nat /\ m.user_len \in Nat
  BY InhTyped, Facts DEF InhTypes, ByteFacts
<1>3. UserOffset(m) = (((VidSize + 1 + m.sw_len) + 1 + m.hw_len) + 1 + m.ad_len) + 4
  BY DEF UserOffset, QuadOffset, AdOffset, HwOffset
<1>4. m.data_len = VidSize + 8 + m.sw_len + m.hw_len + m.ad_len + m.user_len
  BY InhFields
<1>5. /\ ((((VidSize + 1 + m.sw_len) + 1 + m.hw_len) + 1 + m.ad_len) + 4) + 1 + m.user_len
           = VidSize + 8 + m.sw_len + m.hw_len + m.ad_len + m.user_len
      /\ VidSize + 8 + m.sw_len + m.hw_len + m.ad_len + m.user_len \in Nat
  BY <1>1, <1>2, Zenon
<1> QED
  BY <1>3, <1>4, <1>5, Zenon

\* What pack() makes of a message.
Packet(m, stray) ==
  [kind |-> m.kind, header |-> Header(m), data_len |-> m.data_len, data |-> ToBytes(m, stray)]

\* data_len_ is the size of the data segment, and the decoding constructors
\* never give up; with positions it is too small, but not where the count wraps.
LEMMA PacketSize ==
  ASSUME NEW m \in Message, NEW stray \in [1 .. ByteMax -> Byte],
         m.kind = "state" => Len(m.pos) <= ByteMax
  PROVE  LET b == Packet(m, stray) IN
         /\ ~(DataSize(b) < b.data_len)
         /\ (m.kind = "state" => m.pos = <<>>) => DataSize(b) = b.data_len
<1> DEFINE b == Packet(m, stray)
<1>1. b.kind = m.kind /\ b.data_len = m.data_len /\ b.data = ToBytes(m, stray)
  BY DEF Packet
<1> HIDE DEF b
<1>2. CASE IsHeader(m) /\ m.kind = "header"
  <2>1. m.data_len = 0
    BY <1>2 DEF IsHeader, MessageHeader
  <2>2. ToBytes(m, stray) = <<>>
    BY <1>2 DEF ToBytes
  <2>3. DataSize(b) = 0
    BY <1>1, <1>2, <2>2 DEF DataSize
  <2> QED
    BY <1>1, <2>1, <2>3 DEF b
<1>3. CASE IsInh(m) /\ m.kind = "inh"
  <2>1. LaidOut(m, stray, InhBytes(m, stray)) /\ InhTypes(m)
    BY <1>3, InhLayout, InhTyped
  <2>2. ToBytes(m, stray) = InhBytes(m, stray)
    BY <1>3 DEF ToBytes
  <2>3. DataSize(b) = UserOffset(m) + 1 + m.user_len
    BY <1>1, <1>3, <2>1, <2>2 DEF DataSize, LaidOut
  <2>4. DataSize(b) = m.data_len /\ m.data_len \in Nat
    BY <1>3, <2>3, InhSize
  <2> QED
    BY <1>1, <2>4 DEF b
<1>4. CASE IsInhRes(m) /\ m.kind = "inh_res"
  <2>1. ToBytes(m, stray) = InhResBytes(m)
    BY <1>4 DEF ToBytes
  <2>2. DataSize(b) = VidSize + 1 /\ m.data_len = VidSize + 1
    BY <1>1, <1>4, <2>1, InhResLayout, InhResFields DEF DataSize
  <2>3. VidSize \in Nat
    BY Facts DEF ByteFacts
  <2> QED
    BY <1>1, <2>2, <2>3 DEF b
<1>5. CASE IsState(m) /\ m.kind = "state"
  <2>1. ToBytes(m, stray) = StateFields(m)
    BY <1>5 DEF ToBytes
  <2>2. Len(StateFields(m)) = 2 + m.pos_num /\ m.pos_num = Len(m.pos) /\ m.pos_num \in Nat
    BY <1>5, StateLayout, StateFieldsTypes, Facts DEF ByteFacts
  <2>3. StateSize \in Nat /\ PosSize \in Nat /\ PosSize >= 1
    BY Facts DEF ByteFacts
  <2>4. Len(StateFields(m)) - 2 = m.pos_num
    BY <2>2
  <2>5. DataSize(b) = StateSize + PosSize * m.pos_num /\ m.data_len = StateSize + m.pos_num
    BY <1>1, <1>5, <2>1, <2>2, <2>4, StateFieldsTypes DEF DataSize
  <2>6. PosSize * m.pos_num >= m.pos_num /\ PosSize * m.pos_num \in Nat
    <3>1. \A p \in Nat, n \in Nat : p >= 1 => p * n >= n /\ p * n \in Nat
      OBVIOUS
    <3> QED
      BY <2>2, <2>3, <3>1
  <2>7. ~(DataSize(b) < m.data_len)
    BY <2>2, <2>3, <2>5, <2>6
  <2>8. m.pos = <<>> => DataSize(b) = m.data_len
    <3> SUFFICES ASSUME m.pos = <<>> PROVE DataSize(b) = m.data_len
      OBVIOUS
    <3>1. m.pos_num = 0
      BY <2>2
    <3> QED
      BY <2>3, <2>5, <3>1
  <2> QED
    BY <1>1, <1>5, <2>7, <2>8 DEF b
<1> QED
  BY <1>2, <1>3, <1>4, <1>5, MessageKinds

-----------------------------------------------------------------------------
(* What the decoding constructor of an INH reads. *)

LEMMA AtType ==
  ASSUME NEW d \in Seq(Byte), NEW i \in Nat \ {0}, NEW beyond \in Byte
  PROVE  At(d, i, beyond) \in Byte
BY LenProperties, ElementOfSeq DEF At

LEMMA SliceType ==
  ASSUME NEW d \in Seq(Byte), NEW i \in Nat \ {0}, NEW n \in Nat, NEW beyond \in Byte
  PROVE  Slice(d, i, n, beyond) \in Seq(Byte) /\ Len(Slice(d, i, n, beyond)) = n
<1>1. \A k \in 1 .. n : At(d, i + k - 1, beyond) \in Byte
  <2> TAKE k \in 1 .. n
  <2>1. i + k - 1 \in Nat \ {0}
    OBVIOUS
  <2> QED
    BY <2>1, AtType
<1>2. Slice(d, i, n, beyond) \in [1 .. n -> Byte]
  BY <1>1 DEF Slice
<1> QED
  BY <1>2, ArraySeq

LEMMA SliceOf ==
  ASSUME NEW d \in Seq(Byte), NEW i \in Nat, NEW c \in Seq(Byte), NEW beyond \in Byte,
         i + Len(c) <= Len(d), \A k \in 1 .. Len(c) : d[i + k] = c[k]
  PROVE  Slice(d, i + 1, Len(c), beyond) = c
<1> DEFINE s == Slice(d, i + 1, Len(c), beyond)
<1>1. Len(c) \in Nat /\ Len(d) \in Nat
  BY LenProperties
<1>2. s \in Seq(Byte) /\ Len(s) = Len(c)
  <2>1. i + 1 \in Nat \ {0}
    OBVIOUS
  <2> QED
    BY <1>1, <2>1, SliceType
<1>3. ASSUME NEW k \in 1 .. Len(c) PROVE s[k] = c[k]
  <2>1. (i + 1) + k - 1 = i + k /\ i + k <= Len(d)
    BY <1>1
  <2>2. s[k] = At(d, (i + 1) + k - 1, beyond)
    BY DEF Slice
  <2>3. s[k] = d[i + k]
    BY <2>1, <2>2 DEF At
  <2> QED
    BY <2>3
<1> HIDE DEF s
<1>4. s = c
  BY <1>2, <1>3, SeqEqual
<1> QED
  BY <1>4 DEF s

\* Whatever its length bytes say, an INH is decoded to strings of bytes.
LEMMA InhDecodeTypes ==
  ASSUME NEW d \in Seq(Byte), NEW beyond \in Byte
  PROVE  LET o == InhDecode(d, beyond) IN
         /\ o.kind = "inh"
         /\ o.sw \in Seq(Byte) /\ o.hw \in Seq(Byte)
         /\ o.ad \in Seq(Byte) /\ o.user \in Seq(Byte)
<1> DEFINE Length(i) == Announced(At(d, i, beyond))
           Str(i) == Slice(d, i + 1, Length(i), beyond)
           sw == VidSize + 1
           hw == sw + 1 + Length(sw)
           ad == hw + 1 + Length(hw)
           quad == ad + 1 + Length(ad)
           user == quad + 4
           last == Slice(d, user + 1, At(d, user, beyond), beyond)
<1>1. ASSUME NEW i \in Nat \ {0}
      PROVE  Length(i) \in Nat /\ Str(i) \in Seq(Byte)
  <2>1. At(d, i, beyond) \in Byte
    BY AtType
  <2>2. Length(i) \in Nat
    BY <2>1, Facts DEF Announced, ByteFacts
  <2>3. i + 1 \in Nat \ {0}
    OBVIOUS
  <2> HIDE DEF Length
  <2>4. Str(i) \in Seq(Byte)
    BY <2>2, <2>3, SliceType
  <2> QED
    BY <2>2, <2>4
<1>2. sw \in Nat \ {0}
  BY Facts DEF ByteFacts
<1> HIDE DEF Length, Str, sw
<1>3. hw \in Nat \ {0}
  BY <1>1, <1>2
<1> HIDE DEF hw
<1>4. ad \in Nat \ {0}
  BY <1>1, <1>3
<1> HIDE DEF ad
<1>5. user \in Nat \ {0}
  BY <1>1, <1>4
<1> HIDE DEF user
<1>6. last \in Seq(Byte)
  <2>1. user + 1 \in Nat \ {0}
    BY <1>5
  <2>2. At(d, user, beyond) \in Nat
    <3>1. At(d, user, beyond) \in Byte
      BY <1>5, AtType
    <3> QED
      BY <3>1, Facts DEF ByteFacts
  <2> QED
    BY <2>1, <2>2, SliceType
<1> HIDE DEF last
<1>7. InhDecode(d, beyond) =
        [kind |-> "inh", vid |-> SubSeq(d, 1, VidSize), sw |-> Str(sw), hw |-> Str(hw),
         ad |-> Str(ad), quad |-> Slice(d, quad, 4, beyond), user |-> last]
  BY DEF InhDecode, Length, Str, sw, hw, ad, quad, user, last
<1>8. /\ Str(sw) \in Seq(Byte) /\ Str(hw) \in Seq(Byte) /\ Str(ad) \in Seq(Byte)
  BY <1>1, <1>2, <1>3, <1>4
<1> QED
  BY <1>6, <1>7, <1>8

\* The offsets as the decoding constructor adds them up, counting from 1.
LEMMA InhOffsets ==
  ASSUME NEW m, NEW l, VidSize \in Nat,
         m.sw_len \in Nat, m.hw_len \in Nat, m.ad_len \in Nat, m.user_len \in Nat,
         l = UserOffset(m) + 1 + m.user_len
  PROVE  /\ (VidSize + 1) + 1 + m.sw_len = HwOffset(m) + 1
         /\ (HwOffset(m) + 1) + 1 + m.hw_len = AdOffset(m) + 1
         /\ (AdOffset(m) + 1) + 1 + m.ad_len = QuadOffset(m) + 1
         /\ (QuadOffset(m) + 1) + 4 = UserOffset(m) + 1
         /\ VidSize + 1 \in Nat /\ VidSize + 1 + m.sw_len <= l /\ VidSize + 1 <= l
         /\ HwOffset(m) + 1 \in Nat /\ HwOffset(m) + 1 + m.hw_len <= l /\ HwOffset(m) + 1 <= l
         /\ AdOffset(m) + 1 \in Nat /\ AdOffset(m) + 1 + m.ad_len <= l /\ AdOffset(m) + 1 <= l
         /\ QuadOffset(m) \in Nat /\ QuadOffset(m) + 4 <= l
         /\ UserOffset(m) + 1 \in Nat /\ UserOffset(m) + 1 + m.user_len <= l /\ UserOffset(m) + 1 <= l
BY DEF UserOffset, QuadOffset, AdOffset, HwOffset

\* An INH whose software and hardware versions have the same length is read
\* where it was written.
LEMMA InhDecoded ==
  ASSUME NEW m, IsInh(m), m.sw_len = m.hw_len,
         NEW stray \in [1 .. ByteMax -> Byte], NEW beyond \in Byte
  PROVE  InhDecode(InhBytes(m, stray), beyond) =
           [kind |-> "inh", vid |-> m.vid,
            sw |-> CopyBytes(m.sw, m.sw_len, stray),
            hw |-> CopyBytes(m.sw, m.hw_len, stray),
            ad |-> CopyBytes(m.sw, m.ad_len, stray),
            quad |-> m.quad,
            user |-> CopyBytes(m.user, m.user_len, stray)]
<1> DEFINE d == InhBytes(m, stray)
           C1 == CopyBytes(m.sw, m.sw_len, stray)
           C2 == CopyBytes(m.sw, m.hw_len, stray)
           C3 == CopyBytes(m.sw, m.ad_len, stray)
           C4 == CopyBytes(m.user, m.user_len, stray)
           Length(i) == Announced(At(d, i, beyond))
           Str(i) == Slice(d, i + 1, Length(i), beyond)
           sw == VidSize + 1
           hw == sw + 1 + Length(sw)
           ad == hw + 1 + Length(hw)
           quad == ad + 1 + Length(ad)
           user == quad + 4
<1>1. LaidOut(m, stray, d) /\ InhTypes(m)
  BY InhLayout, InhTyped
<1>2. /\ C1 \in Seq(Byte) /\ Len(C1) = m.sw_len
      /\ C2 \in Seq(Byte) /\ Len(C2) = m.hw_len
      /\ C3 \in Seq(Byte) /\ Len(C3) = m.ad_len
      /\ C4 \in Seq(Byte) /\ Len(C4) = m.user_len
  BY InhCopies
<1> HIDE DEF d, C1, C2, C3, C4
<1>3. /\ d \in Seq(Byte) /\ VidSize \in Nat
      /\ m.sw_len \in Nat /\ m.hw_len \in Nat /\ m.ad_len \in Nat /\ m.user_len \in Nat
      /\ m.quad \in Seq(Byte) /\ Len(m.quad) = 4
      /\ m.vid \in Seq(Byte) /\ Len(m.vid) = VidSize
  BY <1>1, Facts DEF LaidOut, InhTypes, ByteFacts
<1>4. Len(d) = UserOffset(m) + 1 + m.user_len
  BY <1>1 DEF LaidOut
<1>5. /\ (VidSize + 1) + 1 + m.sw_len = HwOffset(m) + 1
      /\ (HwOffset(m) + 1) + 1 + m.hw_len = AdOffset(m) + 1
      /\ (AdOffset(m) + 1) + 1 + m.ad_len = QuadOffset(m) + 1
      /\ (QuadOffset(m) + 1) + 4 = UserOffset(m) + 1
      /\ VidSize + 1 \in Nat /\ VidSize + 1 + m.sw_len <= Len(d) /\ VidSize + 1 <= Len(d)
      /\ HwOffset(m) + 1 \in Nat /\ HwOffset(m) + 1 + m.hw_len <= Len(d) /\ HwOffset(m) + 1 <= Len(d)
      /\ AdOffset(m) + 1 \in Nat /\ AdOffset(m) + 1 + m.ad_len <= Len(d) /\ AdOffset(m) + 1 <= Len(d)
      /\ QuadOffset(m) \in Nat /\ QuadOffset(m) + 4 <= Len(d)
      /\ UserOffset(m) + 1 \in Nat /\ UserOffset(m) + 1 + m.user_len <= Len(d) /\ UserOffset(m) + 1 <= Len(d)
  BY <1>3, <1>4, InhOffsets, Zenon
<1>6. /\ Announced(m.sw_len) = m.sw_len /\ Announced(m.hw_len) = m.hw_len
      /\ Announced(m.ad_len) = m.ad_len
  BY <1>1, AnnouncedLen DEF InhTypes
<1>7. sw = VidSize + 1 /\ Length(sw) = m.sw_len
  BY <1>1, <1>5, <1>6 DEF At, LaidOut
<1>8. hw = HwOffset(m) + 1 /\ Length(hw) = m.hw_len
  <2>1. hw = HwOffset(m) + 1
    BY <1>5, <1>7
  <2> HIDE DEF hw
  <2>2. At(d, hw, beyond) = m.hw_len
    BY <1>1, <1>5, <2>1 DEF At, LaidOut
  <2> QED
    BY <1>6, <2>1, <2>2
<1>9. ad = AdOffset(m) + 1 /\ Length(ad) = m.ad_len
  <2> HIDE DEF hw, Length
  <2>1. ad = AdOffset(m) + 1
    BY <1>5, <1>8
  <2> HIDE DEF ad
  <2>2. At(d, ad, beyond) = m.ad_len
    BY <1>1, <1>5, <2>1 DEF At, LaidOut
  <2> QED
    BY <1>6, <2>1, <2>2 DEF Length
<1>10. quad = QuadOffset(m) + 1 /\ user = UserOffset(m) + 1 /\ At(d, user, beyond) = m.user_len
  <2> HIDE DEF ad, Length
  <2>1. quad = QuadOffset(m) + 1
    BY <1>5, <1>9
  <2> HIDE DEF quad
  <2>2. user = UserOffset(m) + 1
    BY <1>5, <2>1
  <2> HIDE DEF user
  <2>3. At(d, user, beyond) = m.user_len
    BY <1>1, <1>5, <2>2 DEF At, LaidOut
  <2> QED
    BY <2>1, <2>2, <2>3
<1> HIDE DEF Length, hw, ad, quad, user
<1>11. Str(sw) = C1
  <2>1. \A k \in 1 .. Len(C1) : d[VidSize + 1 + k] = C1[k]
    BY <1>1, <1>2 DEF LaidOut, C1
  <2>2. VidSize + 1 \in Nat /\ VidSize + 1 + Len(C1) <= Len(d)
    BY <1>2, <1>5
  <2>3. Slice(d, VidSize + 1 + 1, Len(C1), beyond) = C1
    BY <1>2, <1>3, <2>1, <2>2, SliceOf, ZenonT(60)
  <2> QED
    BY <1>2, <1>7, <2>3
<1>12. Str(hw) = C2
  <2>1. \A k \in 1 .. Len(C2) : d[HwOffset(m) + 1 + k] = C2[k]
    BY <1>1, <1>2 DEF LaidOut, C2
  <2>2. HwOffset(m) + 1 \in Nat /\ HwOffset(m) + 1 + Len(C2) <= Len(d)
    BY <1>2, <1>5
  <2>3. Slice(d, HwOffset(m) + 1 + 1, Len(C2), beyond) = C2
    BY <1>2, <1>3, <2>1, <2>2, SliceOf, ZenonT(60)
  <2> QED
    BY <1>2, <1>8, <2>3
<1>13. Str(ad) = C3
  <2>1. \A k \in 1 .. Len(C3) : d[AdOffset(m) + 1 + k] = C3[k]
    BY <1>1, <1>2 DEF LaidOut, C3
  <2>2. AdOffset(m) + 1 \in Nat /\ AdOffset(m) + 1 + Len(C3) <= Len(d)
    BY <1>2, <1>5
  <2>3. Slice(d, AdOffset(m) + 1 + 1, Len(C3), beyond) = C3
    BY <1>2, <1>3, <2>1, <2>2, SliceOf, ZenonT(60)
  <2> QED
    BY <1>2, <1>9, <2>3
<1>14. Slice(d, quad, 4, beyond) = m.quad
  <2>1. \A k \in 1 .. Len(m.quad) : d[QuadOffset(m) + k] = m.quad[k]
    BY <1>1, <1>3 DEF LaidOut
  <2>2. QuadOffset(m) + Len(m.quad) <= Len(d)
    BY <1>3, <1>5
  <2>3. Slice(d, QuadOffset(m) + 1, Len(m.quad), beyond) = m.quad
    BY <1>3, <1>5, <2>1, <2>2, SliceOf, ZenonT(60)
  <2> QED
    BY <1>3, <1>10, <2>3
<1>15. Slice(d, user + 1, At(d, user, beyond), beyond) = C4
  <2>1. \A k \in 1 .. Len(C4) : d[UserOffset(m) + 1 + k] = C4[k]
    BY <1>1, <1>2 DEF LaidOut, C4
  <2>2. UserOffset(m) + 1 \in Nat /\ UserOffset(m) + 1 + Len(C4) <= Len(d)
    BY <1>2, <1>5
  <2>3. Slice(d, UserOffset(m) + 1 + 1, Len(C4), beyond) = C4
    BY <1>2, <1>3, <2>1, <2>2, SliceOf, ZenonT(60)
  <2> QED
    BY <1>2, <1>10, <2>3
<1>16. SubSeq(d, 1, VidSize) = m.vid
  <2>1. \A i \in 1 .. VidSize : d[i] = m.vid[i] /\ d[i] \in Byte
    BY <1>1, <1>3, ElementOfSeq DEF LaidOut
  <2>2. /\ SubSeq(d, 1, VidSize) \in Seq(Byte)
        /\ Len(SubSeq(d, 1, VidSize)) = VidSize
        /\ \A i \in 1 .. VidSize : SubSeq(d, 1, VidSize)[i] = d[i]
    BY <1>3, <2>1, SubSeqProperties
  <2> QED
    BY <1>3, <2>1, <2>2, SeqEqual
<1>17. InhDecode(d, beyond) =
         [kind |-> "inh", vid |-> SubSeq(d, 1, VidSize), sw |-> Str(sw), hw |-> Str(hw),
          ad |-> Str(ad), quad |-> Slice(d, quad, 4, beyond),
          user |-> Slice(d, user + 1, At(d, user, beyond), beyond)]
  BY DEF InhDecode, Length, hw, ad, quad, user
<1> HIDE DEF Str, sw
<1> QED
  BY <1>11, <1>12, <1>13, <1>14, <1>15, <1>16, <1>17 DEF d, C1, C2, C3, C4

-----------------------------------------------------------------------------
(* What arrives of a message. *)

\* What the decoding constructors make of each kind of data segment, unless
\* they give up.
LEMMA DecodeKinds ==
  ASSUME NEW m \in Message, NEW stray \in [1 .. ByteMax -> Byte], NEW beyond \in Byte
  PROVE  LET b == Packet(m, stray)
             o == Decode(b, beyond)
         IN \/ o = Truncated /\ m.kind # "header" /\ DataSize(b) < b.data_len
            \/ m.kind = "header" /\ IsHeader(m) /\ o = [kind |-> "header", body |-> m.body]
            \/ m.kind = "inh" /\ IsInh(m) /\ o = InhDecode(InhBytes(m, stray), beyond)
            \/ m.kind = "inh_res" /\ IsInhRes(m)
               /\ o = [kind |-> "inh_res", vid |-> m.vid, body |-> m.body]
            \/ m.kind = "state" /\ IsState(m)
               /\ o = [kind |-> "state", body |-> m.body,
                       pos |-> SubSeq(StateFields(m), 3, 2 + m.pos_num)]
<1> DEFINE b == Packet(m, stray)
           o == Decode(b, beyond)
<1>1. b.kind = m.kind /\ b.header = Header(m) /\ b.data = ToBytes(m, stray)
  BY DEF Packet
<1> HIDE DEF b
<1>2. CASE DataSize(b) < b.data_len /\ b.kind # "header"
  BY <1>1, <1>2 DEF Decode, b
<1>3. ASSUME ~(DataSize(b) < b.data_len /\ b.kind # "header")
      PROVE  o = CASE b.kind = "header"  -> HeaderDecode(b)
                   [] b.kind = "inh"     -> InhDecode(b.data, beyond)
                   [] b.kind = "inh_res" -> InhResDecode(b.data)
                   [] b.kind = "state"   -> StateDecode(b.data)
  BY <1>3, Zenon DEF Decode
<1>4. CASE ~(DataSize(b) < b.data_len /\ b.kind # "header")
  <2>1. CASE IsHeader(m) /\ m.kind = "header"
    <3>1. Header(m) = m.body
      BY <2>1 DEF Header
    <3>2. o = HeaderDecode(b)
      BY <1>1, <1>3, <1>4, <2>1
    <3> QED
      BY <1>1, <2>1, <3>1, <3>2 DEF HeaderDecode, b
  <2>2. CASE IsInh(m) /\ m.kind = "inh"
    <3>1. ToBytes(m, stray) = InhBytes(m, stray)
      BY <2>2 DEF ToBytes
    <3>2. o = InhDecode(b.data, beyond)
      BY <1>1, <1>3, <1>4, <2>2
    <3> QED
      BY <1>1, <2>2, <3>1, <3>2 DEF b
  <2>3. CASE IsInhRes(m) /\ m.kind = "inh_res"
    <3>1. ToBytes(m, stray) = InhResBytes(m)
      BY <2>3 DEF ToBytes
    <3>2. o = InhResDecode(InhResBytes(m))
      BY <1>1, <1>3, <1>4, <2>3, <3>1
    <3>3. InhResDecode(InhResBytes(m)) = [kind |-> "inh_res", vid |-> m.vid, body |-> m.body]
      BY <2>3, InhResLayout DEF InhResDecode
    <3> QED
      BY <2>3, <3>2, <3>3 DEF b
  <2>4. CASE IsState(m) /\ m.kind = "state"
    <3>1. ToBytes(m, stray) = StateFields(m)
      BY <2>4 DEF ToBytes
    <3>2. o = StateDecode(StateFields(m))
      BY <1>1, <1>3, <1>4, <2>4, <3>1
    <3>3. StateDecode(StateFields(m)) =
            [kind |-> "state", body |-> m.body, pos |-> SubSeq(StateFields(m), 3, 2 + m.pos_num)]
      BY <2>4, StateLayout DEF StateDecode
    <3> QED
      BY <2>4, <3>2, <3>3 DEF b
  <2> QED
    BY <2>1, <2>2, <2>3, <2>4, MessageKinds
<1> QED
  BY <1>2, <1>4

\* A decoding constructor gives up only where the count of positions wrapped.
LEMMA NotTruncated ==
  ASSUME NEW m \in Message, NEW stray \in [1 .. ByteMax -> Byte], NEW beyond \in Byte,
         m.kind = "state" => Len(m.pos) <= ByteMax
  PROVE  Decode(Packet(m, stray), beyond).kind = m.kind
<1>1. ~(DataSize(Packet(m, stray)) < Packet(m, stray).data_len)
  BY PacketSize, Zenon
<1>2. InhDecode(InhBytes(m, stray), beyond).kind = "inh"
  BY DEF InhDecode
<1> DEFINE o == Decode(Packet(m, stray), beyond)
<1>3. \/ m.kind = "header" /\ o = [kind |-> "header", body |-> m.body]
      \/ m.kind = "inh" /\ o = InhDecode(InhBytes(m, stray), beyond)
      \/ m.kind = "inh_res" /\ o = [kind |-> "inh_res", vid |-> m.vid, body |-> m.body]
      \/ m.kind = "state"
         /\ o = [kind |-> "state", body |-> m.body,
                 pos |-> SubSeq(StateFields(m), 3, 2 + m.pos_num)]
  BY <1>1, DecodeKinds, Zenon
<1> HIDE DEF o
<1>4. o.kind = m.kind
  BY <1>2, <1>3
<1> QED
  BY <1>4 DEF o

LEMMA RoundTripOf ==
  ASSUME NEW m \in Message, NEW stray \in [1 .. ByteMax -> Byte], NEW beyond \in Byte,
         m.kind # "inh", m.kind = "state" => Len(m.pos) <= ByteMax
  PROVE  Decode(Packet(m, stray), beyond) = Meaning(m)
<1> DEFINE o == Decode(Packet(m, stray), beyond)
<1>1. \/ m.kind = "header" /\ o = [kind |-> "header", body |-> m.body]
      \/ m.kind = "inh_res" /\ o = [kind |-> "inh_res", vid |-> m.vid, body |-> m.body]
      \/ m.kind = "state" /\ IsState(m)
         /\ o = [kind |-> "state", body |-> m.body,
                 pos |-> SubSeq(StateFields(m), 3, 2 + m.pos_num)]
  <2>1. ~(DataSize(Packet(m, stray)) < Packet(m, stray).data_len)
    BY PacketSize, Zenon
  <2> QED
    BY <2>1, DecodeKinds, Zenon
<1> HIDE DEF o
<1>2. CASE m.kind = "header" /\ o = [kind |-> "header", body |-> m.body]
  BY <1>2 DEF Meaning, o
<1>3. CASE m.kind = "inh_res" /\ o = [kind |-> "inh_res", vid |-> m.vid, body |-> m.body]
  BY <1>3 DEF Meaning, o
<1>4. CASE /\ m.kind = "state" /\ IsState(m)
           /\ o = [kind |-> "state", body |-> m.body,
                   pos |-> SubSeq(StateFields(m), 3, 2 + m.pos_num)]
  <2>1. SubSeq(StateFields(m), 3, 2 + m.pos_num) = m.pos
    BY <1>4, StateLayout, Zenon
  <2>2. Meaning(m) = [kind |-> "state", body |-> m.body, pos |-> m.pos]
    BY <1>4 DEF Meaning
  <2>3. o = [kind |-> "state", body |-> m.body, pos |-> m.pos]
    BY <1>4, <2>1, Zenon
  <2> QED
    BY <2>2, <2>3 DEF o
<1> QED
  BY <1>1, <1>2, <1>3, <1>4

\* A string that is announced is copied whole.
LEMMA CopyIsSaid ==
  ASSUME NEW s \in Text, NEW stray \in [1 .. ByteMax -> Byte]
  PROVE  /\ CopyBytes(s, LenByte(s), stray) = Said(s, LenByte(s))
         /\ Len(Said(s, LenByte(s))) = LenByte(s)
<1> DEFINE n == LenByte(s)
           c == CopyBytes(s, n, stray)
<1>1. s \in Seq(Byte) /\ n \in Nat /\ n <= ByteMax /\ (n = 0 \/ n = Len(s))
  BY LenBytes, Facts DEF ByteFacts
<1> HIDE DEF n
<1>2. c \in Seq(Byte) /\ Len(c) = n /\ \A i \in 1 .. n : i <= Len(s) => c[i] = s[i]
  BY <1>1, CopyTypes
<1> HIDE DEF c
<1>3. CASE n = 0
  <2>1. c = <<>>
    BY <1>2, <1>3, Empty
  <2> QED
    BY <1>3, <2>1 DEF Said, c, n
<1>4. CASE n # 0
  <2>1. n = Len(s)
    BY <1>1, <1>4
  <2>2. c = s
    BY <1>1, <1>2, <2>1, SeqEqual
  <2> QED
    BY <1>4, <2>1, <2>2 DEF Said, c, n
<1> QED
  BY <1>3, <1>4

LEMMA InhRoundTripOf ==
  ASSUME NEW m \in Message, NEW stray \in [1 .. ByteMax -> Byte], NEW beyond \in Byte,
         m.kind = "inh", m.sw_len = m.hw_len
  PROVE  LET o == Decode(Packet(m, stray), beyond)
             n == Meaning(m)
         IN /\ o = [n EXCEPT !.hw = o.hw, !.ad = o.ad]
            /\ Len(o.sw) = m.sw_len /\ Len(o.hw) = m.hw_len
            /\ Len(o.ad) = m.ad_len /\ Len(o.user) = m.user_len
            /\ n.hw = n.sw => o.hw = n.hw
            /\ n.ad = n.sw => o.ad = n.ad
<1> DEFINE o == Decode(Packet(m, stray), beyond)
           n == Meaning(m)
           C1 == CopyBytes(m.sw, m.sw_len, stray)
           C2 == CopyBytes(m.sw, m.hw_len, stray)
           C3 == CopyBytes(m.sw, m.ad_len, stray)
           C4 == CopyBytes(m.user, m.user_len, stray)
<1>1. IsInh(m)
  BY MessageKinds
<1>2. o = InhDecode(InhBytes(m, stray), beyond)
  <2>1. ~(DataSize(Packet(m, stray)) < Packet(m, stray).data_len)
    BY PacketSize
  <2> QED
    BY <2>1, DecodeKinds
<1>3. o = [kind |-> "inh", vid |-> m.vid, sw |-> C1, hw |-> C2, ad |-> C3,
           quad |-> m.quad, user |-> C4]
  <2>1. InhDecode(InhBytes(m, stray), beyond) =
          [kind |-> "inh", vid |-> m.vid, sw |-> C1, hw |-> C2, ad |-> C3,
           quad |-> m.quad, user |-> C4]
    BY <1>1, InhDecoded, Zenon
  <2> QED
    BY <1>2, <2>1, Zenon
<1>4. n = [kind |-> "inh", vid |-> m.vid, sw |-> Said(m.sw, m.sw_len),
           hw |-> Said(m.hw, m.hw_len), ad |-> Said(m.ad, m.ad_len),
           quad |-> m.quad, user |-> Said(m.user, m.user_len)]
  BY DEF Meaning
<1>5. /\ C1 = Said(m.sw, m.sw_len) /\ C4 = Said(m.user, m.user_len)
      /\ Len(Said(m.sw, m.sw_len)) = m.sw_len
      /\ Len(Said(m.ad, m.ad_len)) = m.ad_len
  BY <1>1, InhFields, CopyIsSaid
<1>6. Len(C1) = m.sw_len /\ Len(C2) = m.hw_len /\ Len(C3) = m.ad_len /\ Len(C4) = m.user_len
  BY <1>1, InhCopies
<1>7. C2 = C1
  OBVIOUS
<1>8. m.ad_len = m.sw_len => C3 = C1
  OBVIOUS
<1> HIDE DEF o, n, C1, C2, C3, C4
<1>9. o = [n EXCEPT !.hw = o.hw, !.ad = o.ad]
  <2>1. o.hw = C2 /\ o.ad = C3
    BY <1>3
  <2>2. [n EXCEPT !.hw = C2, !.ad = C3] =
          [kind |-> "inh", vid |-> m.vid, sw |-> Said(m.sw, m.sw_len), hw |-> C2, ad |-> C3,
           quad |-> m.quad, user |-> Said(m.user, m.user_len)]
    <3>1. [n EXCEPT !.hw = C2, !.ad = C3] = [[n EXCEPT !.hw = C2] EXCEPT !.ad = C3]
      OBVIOUS
    <3>2. [n EXCEPT !.hw = C2] =
            [kind |-> "inh", vid |-> m.vid, sw |-> Said(m.sw, m.sw_len), hw |-> C2,
             ad |-> Said(m.ad, m.ad_len), quad |-> m.quad, user |-> Said(m.user, m.user_len)]
      BY <1>4
    <3>3. [[kind |-> "inh", vid |-> m.vid, sw |-> Said(m.sw, m.sw_len), hw |-> C2,
            ad |-> Said(m.ad, m.ad_len), quad |-> m.quad, user |-> Said(m.user, m.user_len)]
             EXCEPT !.ad = C3] =
            [kind |-> "inh", vid |-> m.vid, sw |-> Said(m.sw, m.sw_len), hw |-> C2, ad |-> C3,
             quad |-> m.quad, user |-> Said(m.user, m.user_len)]
      OBVIOUS
    <3> QED
      BY <3>1, <3>2, <3>3, Zenon
  <2>3. o = [kind |-> "inh", vid |-> m.vid, sw |-> Said(m.sw, m.sw_len), hw |-> C2, ad |-> C3,
             quad |-> m.quad, user |-> Said(m.user, m.user_len)]
    BY <1>3, <1>5, Zenon
  <2> QED
    BY <2>1, <2>2, <2>3, Zenon
<1>10. n.hw = n.sw => o.hw = n.hw
  BY <1>3, <1>4, <1>5, <1>7
<1>11. n.ad = n.sw => o.ad = n.ad
  <2> SUFFICES ASSUME n.ad = n.sw PROVE o.ad = n.ad
    OBVIOUS
  <2>1. Said(m.ad, m.ad_len) = Said(m.sw, m.sw_len)
    BY <1>4
  <2>2. m.ad_len = m.sw_len
    BY <1>5, <2>1
  <2> QED
    BY <1>3, <1>4, <1>5, <1>8, <2>2
<1>12. Len(o.sw) = m.sw_len /\ Len(o.hw) = m.hw_len /\ Len(o.ad) = m.ad_len /\ Len(o.user) = m.user_len
  BY <1>3, <1>6
<1> QED
  BY <1>9, <1>10, <1>11, <1>12 DEF o, n

-----------------------------------------------------------------------------
(* The inductive invariant. *)

Packed == \E stray \in [1 .. ByteMax -> Byte] : buf = Packet(msg, stray)
Decoded == \E beyond \in Byte : out = Decode(buf, beyond)

\* What the buffer and the message received have to do with the message made,
\* as far as a behaviour has come.
Relations ==
  /\ phase \in {"new", "made", "packed", "crashed", "unpacked", "shown"}
  /\ phase = "new" => msg = None /\ buf = None /\ printed = "no"
  /\ phase # "new" => msg \in Message
  /\ buf # None => Packed
  /\ phase \in {"packed", "unpacked", "shown"} => Packed
  /\ phase = "unpacked" => Decoded

PrintTypes ==
  /\ printed \in {"no", "whole", "overrun"}
  /\ sizes \in Seq(Nat)

CodecInv == Relations /\ PrintTypes /\ PrintFits

LEMMA InitInv ==
  ASSUME Init
  PROVE  CodecInv
BY DEF Init, CodecInv, Relations, PrintTypes, PrintFits, None

(* The sizes of the fields, as printed. *)

LEMMA ShownTypes ==
  ASSUME NEW n \in Nat
  PROVE  Shown(n) \in Seq(Nat)
BY DEF Shown

LEMMA SizesTypes ==
  /\ HeaderSizes \in Seq(Nat) /\ InhResSizes \in Seq(Nat)
  /\ \A n \in Nat : StateSizes(n) \in Seq(Nat)
<1>1. VidSize \in Nat /\ StateSize \in Nat /\ PosSize \in Nat
  BY Facts DEF ByteFacts
<1>2. HeaderSizes \in Seq(Nat)
  BY DEF HeaderSizes
<1>3. InhResSizes \in Seq(Nat)
  BY <1>1 DEF InhResSizes
<1>4. ASSUME NEW n \in Nat PROVE StateSizes(n) \in Seq(Nat)
  <2>1. [i \in 1 .. n |-> PosSize] \in [1 .. n -> Nat]
    BY <1>1
  <2>2. [i \in 1 .. n |-> PosSize] \in Seq(Nat) /\ <<StateSize>> \in Seq(Nat)
    BY <1>1, <2>1, ArraySeq
  <2> QED
    BY <2>2, ConcatProperties DEF StateSizes
<1> QED
  BY <1>2, <1>3, <1>4

LEMMA InhSizesTypes ==
  ASSUME NEW sw \in Nat, NEW hw \in Nat, NEW ad \in Nat, NEW user \in Nat
  PROVE  InhSizes([sw |-> sw, hw |-> hw, ad |-> ad, user |-> user]) \in Seq(Nat)
<1>1. /\ <<VidSize, 1>> \in Seq(Nat) /\ <<1>> \in Seq(Nat) /\ <<1, 1, 1, 1, 1>> \in Seq(Nat)
  BY Facts DEF ByteFacts
<1>2. /\ Shown(sw) \in Seq(Nat) /\ Shown(hw) \in Seq(Nat)
      /\ Shown(ad) \in Seq(Nat) /\ Shown(user) \in Seq(Nat)
  BY ShownTypes
<1>3. \A s \in Seq(Nat), t \in Seq(Nat) : s \o t \in Seq(Nat)
  BY ConcatProperties
<1> QED
  BY <1>1, <1>2, <1>3 DEF InhSizes

\* A string that bytes_to_string overruns its buffer with fills half of it.
LEMMA Unfit ==
  ASSUME NEW len, len.sw \in Nat, len.hw \in Nat, len.ad \in Nat, len.user \in Nat,
         ~InhFits(len)
  PROVE  \E n \in {len.sw, len.hw, len.ad, len.user} : 2 * n >= StrSize
<1>1. PICK n \in {len.sw, len.hw, len.ad, len.user} : ~HexFits(Announced(n))
  BY DEF InhFits
<1>2. n \in Nat /\ StrSize \in Nat \ {0} /\ ByteMax \in Nat
  BY Facts DEF ByteFacts
<1>3. Announced(n) = 0 \/ Announced(n) = n
  BY DEF Announced
<1>4. 2 * n >= StrSize
  BY <1>1, <1>2, <1>3 DEF HexFits
<1> QED
  BY <1>4

LEMMA NoLines == <<>> \in Seq(Nat)
OBVIOUS

LEMMA ShowEffect ==
  ASSUME NEW fits, NEW lines \in Seq(Nat), Show(fits, lines)
  PROVE  PrintTypes' /\ (printed' = "overrun" => ~fits)
<1>1. CASE fits
  <2>1. HeaderSizes \o lines \in Seq(Nat)
    BY SizesTypes, ConcatProperties
  <2> QED
    BY <1>1, <2>1 DEF Show, PrintTypes
<1>2. CASE ~fits
  BY <1>2 DEF Show, PrintTypes
<1> QED
  BY <1>1, <1>2

\* What a sender prints of an INH.
LEMMA MadeLenTypes ==
  ASSUME NEW m, IsInh(m)
  PROVE  /\ InhSizes(MadeLen(m)) \in Seq(Nat)
         /\ ~InhFits(MadeLen(m)) =>
              \E n \in {m.sw_len, m.hw_len, m.ad_len, m.user_len} : 2 * n >= StrSize
<1>1. m.sw_len \in Nat /\ m.hw_len \in Nat /\ m.ad_len \in Nat /\ m.user_len \in Nat
  BY InhTyped DEF InhTypes
<1> QED
  BY <1>1, InhSizesTypes, Unfit DEF MadeLen

\* What a receiver prints of an INH.
LEMMA ReadLenTypes ==
  ASSUME NEW o, o.sw \in Seq(Byte), o.hw \in Seq(Byte), o.ad \in Seq(Byte), o.user \in Seq(Byte)
  PROVE  /\ InhSizes(ReadLen(o)) \in Seq(Nat)
         /\ ~InhFits(ReadLen(o)) =>
              \E n \in {Len(o.sw), Len(o.hw), Len(o.ad), Len(o.user)} : 2 * n >= StrSize
<1>1. Len(o.sw) \in Nat /\ Len(o.hw) \in Nat /\ Len(o.ad) \in Nat /\ Len(o.user) \in Nat
  BY LenProperties
<1>2. ReadLen(o) = [sw |-> Len(o.sw), hw |-> Len(o.hw), ad |-> Len(o.ad), user |-> Len(o.user)]
  BY DEF ReadLen
<1>3. InhSizes(ReadLen(o)) \in Seq(Nat)
  BY <1>1, <1>2, InhSizesTypes, Zenon
<1>4. ASSUME ~InhFits(ReadLen(o))
      PROVE  \E n \in {Len(o.sw), Len(o.hw), Len(o.ad), Len(o.user)} : 2 * n >= StrSize
  <2>1. /\ ReadLen(o).sw = Len(o.sw) /\ ReadLen(o).hw = Len(o.hw)
        /\ ReadLen(o).ad = Len(o.ad) /\ ReadLen(o).user = Len(o.user)
    BY <1>2
  <2>2. \E n \in {ReadLen(o).sw, ReadLen(o).hw, ReadLen(o).ad, ReadLen(o).user} : 2 * n >= StrSize
    BY <1>1, <1>4, <2>1, Unfit
  <2> QED
    BY <2>1, <2>2
<1> QED
  BY <1>3, <1>4

-----------------------------------------------------------------------------
(* The steps. *)

LEMMA KindsDiffer == \A m \in Message : m # None
BY MessageKinds DEF None

LEMMA PackedFacts ==
  ASSUME Relations, buf # None
  PROVE  /\ msg \in Message /\ phase # "new" /\ buf.kind = msg.kind /\ buf.data_len = msg.data_len
         /\ \E stray \in [1 .. ByteMax -> Byte] :
              buf = Packet(msg, stray) /\ buf.data = ToBytes(msg, stray)
<1>1. PICK stray \in [1 .. ByteMax -> Byte] : buf = Packet(msg, stray)
  BY DEF Relations, Packed
<1>2. phase # "new" /\ msg \in Message
  BY DEF Relations
<1> QED
  BY <1>1, <1>2 DEF Packet

LEMMA ConstructStep ==
  ASSUME CodecInv, Construct
  PROVE  CodecInv'
<1>1. phase = "new" /\ buf = None /\ printed = "no"
  BY DEF CodecInv, Relations, Construct
<1>2. Relations'
  BY <1>1 DEF Construct, Relations
<1>3. PrintTypes' /\ PrintFits'
  BY <1>1 DEF Construct, CodecInv, PrintTypes, PrintFits, printVars
<1> QED
  BY <1>2, <1>3 DEF CodecInv

LEMMA PackStep ==
  ASSUME CodecInv, Pack
  PROVE  CodecInv'
<1>1. phase = "made" /\ msg \in Message /\ msg' = msg /\ out' = out
  BY DEF CodecInv, Relations, Pack
<1>2. PICK stray \in [1 .. ByteMax -> Byte] :
        \/ buf' = Packet(msg, stray) /\ phase' = "packed"
        \/ buf' = None /\ phase' = "crashed"
  BY DEF Pack, Packet
<1>3. Relations'
  <2>1. CASE buf' = Packet(msg, stray) /\ phase' = "packed"
    <3>1. Packed'
      BY <1>1, <2>1 DEF Packed
    <3> QED
      BY <1>1, <2>1, <3>1 DEF Relations
  <2>2. CASE buf' = None /\ phase' = "crashed"
    BY <1>1, <2>2 DEF Relations
  <2> QED
    BY <1>2, <2>1, <2>2
<1>4. PrintTypes' /\ PrintFits'
  BY <1>1 DEF Pack, CodecInv, PrintTypes, PrintFits, printVars
<1> QED
  BY <1>3, <1>4 DEF CodecInv

LEMMA UnpackStep ==
  ASSUME CodecInv, Unpack
  PROVE  CodecInv'
<1>1. /\ phase = "packed" /\ phase' = "unpacked" /\ msg' = msg /\ buf' = buf
      /\ msg \in Message /\ Packed
      /\ \E beyond \in Byte : out' = Decode(buf, beyond)
  BY DEF CodecInv, Relations, Unpack
<1>2. Packed'
  BY <1>1 DEF Packed
<1>3. Decoded'
  BY <1>1 DEF Decoded
<1>4. Relations'
  BY <1>1, <1>2, <1>3 DEF Relations
<1>5. PrintTypes' /\ PrintFits'
  BY <1>1 DEF Unpack, CodecInv, PrintTypes, PrintFits, printVars
<1> QED
  BY <1>4, <1>5 DEF CodecInv

\* Printing leaves the message and the buffer as they are.
LEMMA PrintingKeeps ==
  ASSUME Relations, phase # "new", msg' = msg, buf' = buf,
         \/ phase' = phase /\ phase # "unpacked"
         \/ phase = "unpacked" /\ phase' = "shown"
         \/ phase' = "crashed"
  PROVE  Relations'
<1>1. phase' # "new" /\ phase' # "unpacked"
  BY DEF Relations
<1>2. Packed => Packed'
  BY DEF Packed
<1> QED
  BY <1>1, <1>2 DEF Relations

LEMMA PrintMadeStep ==
  ASSUME CodecInv, PrintMade
  PROVE  CodecInv'
<1>1. /\ phase = "made" /\ phase' \in {"made", "crashed"}
      /\ msg' = msg /\ buf' = buf /\ out' = out /\ msg \in Message
  BY DEF CodecInv, Relations, PrintMade
<1>2. Relations'
  <2>1. Relations /\ phase # "new" /\ ((phase' = phase /\ phase # "unpacked") \/ phase' = "crashed")
    BY <1>1 DEF CodecInv
  <2> QED
    BY <1>1, <2>1, PrintingKeeps
<1>3. CASE IsHeader(msg) /\ msg.kind = "header"
  <2>1. Show(TRUE, <<>>)
    BY <1>3 DEF PrintMade
  <2>2. PrintTypes' /\ printed' # "overrun"
    BY <2>1, NoLines, ShowEffect
  <2> QED
    BY <1>2, <2>2 DEF CodecInv, PrintFits
<1>4. CASE IsInh(msg) /\ msg.kind = "inh"
  <2>1. Show(InhFits(MadeLen(msg)), InhSizes(MadeLen(msg)))
    BY <1>4 DEF PrintMade
  <2>2. /\ InhSizes(MadeLen(msg)) \in Seq(Nat)
        /\ ~InhFits(MadeLen(msg)) =>
             \E n \in {msg.sw_len, msg.hw_len, msg.ad_len, msg.user_len} : 2 * n >= StrSize
    BY <1>4, MadeLenTypes
  <2>3. PrintTypes' /\ (printed' = "overrun" => ~InhFits(MadeLen(msg)))
    BY <2>1, <2>2, ShowEffect
  <2>4. PrintFits'
    BY <1>1, <1>4, <2>2, <2>3 DEF PrintFits
  <2> QED
    BY <1>2, <2>3, <2>4 DEF CodecInv
<1>5. CASE IsInhRes(msg) /\ msg.kind = "inh_res"
  <2>1. Show(TRUE, InhResSizes) /\ InhResSizes \in Seq(Nat)
    BY <1>5, SizesTypes DEF PrintMade
  <2>2. PrintTypes' /\ printed' # "overrun"
    BY <2>1, ShowEffect
  <2> QED
    BY <1>2, <2>2 DEF CodecInv, PrintFits
<1>6. CASE IsState(msg) /\ msg.kind = "state"
  <2>1. msg.pos_num \in Nat
    BY <1>6, StateFieldsTypes, Facts DEF ByteFacts
  <2>2. Show(TRUE, StateSizes(msg.pos_num)) /\ StateSizes(msg.pos_num) \in Seq(Nat)
    BY <1>6, <2>1, SizesTypes DEF PrintMade
  <2>3. PrintTypes' /\ printed' # "overrun"
    BY <2>2, ShowEffect
  <2> QED
    BY <1>2, <2>3 DEF CodecInv, PrintFits
<1> QED
  BY <1>1, <1>3, <1>4, <1>5, <1>6, MessageKinds

LEMMA PrintReceivedStep ==
  ASSUME CodecInv, PrintReceived
  PROVE  CodecInv'
<1>1. /\ phase = "unpacked" /\ phase' \in {"shown", "crashed"}
      /\ msg' = msg /\ buf' = buf /\ out' = out /\ msg \in Message /\ Packed /\ Decoded
  BY DEF CodecInv, Relations, PrintReceived
<1>2. Relations'
  <2>1. Relations /\ phase # "new" /\ ((phase = "unpacked" /\ phase' = "shown") \/ phase' = "crashed")
    BY <1>1 DEF CodecInv
  <2> QED
    BY <1>1, <2>1, PrintingKeeps
<1>3. PICK stray \in [1 .. ByteMax -> Byte], beyond \in Byte :
        out = Decode(Packet(msg, stray), beyond)
  BY <1>1 DEF Packed, Decoded
<1>4. \/ out = Truncated /\ msg.kind = "state" /\ Len(msg.pos) > ByteMax
      \/ out = [kind |-> "header", body |-> msg.body]
      \/ msg.kind = "inh" /\ IsInh(msg) /\ out = InhDecode(InhBytes(msg, stray), beyond)
      \/ out = [kind |-> "inh_res", vid |-> msg.vid, body |-> msg.body]
      \/ IsState(msg) /\ out = [kind |-> "state", body |-> msg.body,
                                pos |-> SubSeq(StateFields(msg), 3, 2 + msg.pos_num)]
  <2>1. out = Truncated => msg.kind = "state" /\ ~(Len(msg.pos) <= ByteMax)
    <3>1. ASSUME msg.kind = "state" => Len(msg.pos) <= ByteMax
          PROVE  out.kind = msg.kind
      BY <1>1, <1>3, <3>1, NotTruncated, Zenon
    <3>2. Truncated.kind # msg.kind
      BY <1>1, MessageKinds DEF Truncated
    <3> QED
      BY <3>1, <3>2
  <2>2. msg.kind = "state" => Len(msg.pos) \in Nat
    BY <1>1, MessageKinds, StateFieldsTypes, LenProperties
  <2>3. ByteMax \in Nat
    BY Facts DEF ByteFacts
  <2>4. out = Truncated => msg.kind = "state" /\ Len(msg.pos) > ByteMax
    BY <2>1, <2>2, <2>3
  <2> QED
    BY <1>1, <1>3, <2>4, DecodeKinds, Zenon
<1>5. CASE out = Truncated /\ msg.kind = "state" /\ Len(msg.pos) > ByteMax
  <2>1. Show(FALSE, <<>>)
    BY <1>5 DEF PrintReceived, Truncated
  <2>2. PrintTypes'
    BY <2>1, NoLines, ShowEffect
  <2> QED
    BY <1>1, <1>2, <1>5, <2>2 DEF CodecInv, PrintFits
<1>6. CASE out = [kind |-> "header", body |-> msg.body]
  <2>1. Show(TRUE, <<>>)
    BY <1>6 DEF PrintReceived
  <2>2. PrintTypes' /\ printed' # "overrun"
    BY <2>1, NoLines, ShowEffect
  <2> QED
    BY <1>2, <2>2 DEF CodecInv, PrintFits
<1>7. CASE msg.kind = "inh" /\ IsInh(msg) /\ out = InhDecode(InhBytes(msg, stray), beyond)
  <2>1. /\ out.kind = "inh"
        /\ out.sw \in Seq(Byte) /\ out.hw \in Seq(Byte)
        /\ out.ad \in Seq(Byte) /\ out.user \in Seq(Byte)
    <3>1. InhBytes(msg, stray) \in Seq(Byte)
      BY <1>7, InhLayout DEF LaidOut
    <3> QED
      BY <1>7, <3>1, InhDecodeTypes
  <2>2. Show(InhFits(ReadLen(out)), InhSizes(ReadLen(out)))
    BY <2>1 DEF PrintReceived
  <2>3. /\ InhSizes(ReadLen(out)) \in Seq(Nat)
        /\ ~InhFits(ReadLen(out)) =>
             \E n \in {Len(out.sw), Len(out.hw), Len(out.ad), Len(out.user)} : 2 * n >= StrSize
    BY <2>1, ReadLenTypes
  <2>4. PrintTypes' /\ (printed' = "overrun" => ~InhFits(ReadLen(out)))
    BY <2>2, <2>3, ShowEffect
  <2>5. msg.sw_len = msg.hw_len =>
          /\ Len(out.sw) = msg.sw_len /\ Len(out.hw) = msg.hw_len
          /\ Len(out.ad) = msg.ad_len /\ Len(out.user) = msg.user_len
    <3> SUFFICES ASSUME msg.sw_len = msg.hw_len
                 PROVE  /\ Len(out.sw) = msg.sw_len /\ Len(out.hw) = msg.hw_len
                        /\ Len(out.ad) = msg.ad_len /\ Len(out.user) = msg.user_len
      OBVIOUS
    <3>1. /\ Len(Decode(Packet(msg, stray), beyond).sw) = msg.sw_len
          /\ Len(Decode(Packet(msg, stray), beyond).hw) = msg.hw_len
          /\ Len(Decode(Packet(msg, stray), beyond).ad) = msg.ad_len
          /\ Len(Decode(Packet(msg, stray), beyond).user) = msg.user_len
      BY <1>1, <1>7, InhRoundTripOf
    <3> QED
      BY <1>3, <3>1, Zenon
  <2>6. PrintFits'
    BY <1>1, <1>7, <2>3, <2>4, <2>5 DEF PrintFits
  <2> QED
    BY <1>2, <2>4, <2>6 DEF CodecInv
<1>8. CASE out = [kind |-> "inh_res", vid |-> msg.vid, body |-> msg.body]
  <2>1. Show(TRUE, InhResSizes) /\ InhResSizes \in Seq(Nat)
    BY <1>8, SizesTypes DEF PrintReceived
  <2>2. PrintTypes' /\ printed' # "overrun"
    BY <2>1, ShowEffect
  <2> QED
    BY <1>2, <2>2 DEF CodecInv, PrintFits
<1>9. CASE IsState(msg) /\ out = [kind |-> "state", body |-> msg.body,
                                  pos |-> SubSeq(StateFields(msg), 3, 2 + msg.pos_num)]
  <2>1. out.kind = "state" /\ Len(out.pos) \in Nat
    BY <1>9, StateLayout, StateFieldsTypes, Facts DEF ByteFacts
  <2>2. Show(TRUE, StateSizes(Len(out.pos))) /\ StateSizes(Len(out.pos)) \in Seq(Nat)
    BY <2>1, SizesTypes DEF PrintReceived
  <2>3. PrintTypes' /\ printed' # "overrun"
    BY <2>2, ShowEffect
  <2> QED
    BY <1>2, <2>3 DEF CodecInv, PrintFits
<1> QED
  BY <1>4, <1>5, <1>6, <1>7, <1>8, <1>9

LEMMA NextInv ==
  ASSUME CodecInv, [Next]_vars
  PROVE  CodecInv'
<1>1. CASE Construct
  BY <1>1, ConstructStep
<1>2. CASE PrintMade
  BY <1>2, PrintMadeStep
<1>3. CASE Pack
  BY <1>3, PackStep
<1>4. CASE Unpack
  BY <1>4, UnpackStep
<1>5. CASE PrintReceived
  BY <1>5, PrintReceivedStep
<1>6. CASE UNCHANGED vars
  <2>1. /\ phase' = phase /\ msg' = msg /\ buf' = buf /\ out' = out
        /\ printed' = printed /\ sizes' = sizes
    BY <1>6 DEF vars
  <2>2. Packed' = Packed /\ Decoded' = Decoded
    BY <2>1 DEF Packed, Decoded
  <2> QED
    BY <2>1, <2>2 DEF CodecInv, Relations, PrintTypes, PrintFits
<1> QED
  BY <1>1, <1>2, <1>3, <1>4, <1>5, <1>6 DEF Next

\* The buffer is what pack() makes of the message, and the message received
\* is what a decoding constructor makes of the buffer.
THEOREM CodecInvAlways == Spec => []CodecInv
<1>1. Init => CodecInv
  BY InitInv
<1>2. CodecInv /\ [Next]_vars => CodecInv'
  BY NextInv
<1> QED
  BY <1>1, <1>2, PTL DEF Spec

-----------------------------------------------------------------------------
(* The theorems. *)

LEMMA InvTypes == ASSUME CodecInv PROVE TypeOK
<1>1. phase # "new" => msg.data_len \in Nat
  <2> SUFFICES ASSUME phase # "new" PROVE msg.data_len \in Nat
    OBVIOUS
  <2>1. msg \in Message
    BY DEF CodecInv, Relations
  <2>2. VidSize \in Nat /\ StateSize \in Nat
    BY Facts DEF ByteFacts
  <2>3. CASE IsHeader(msg)
    BY <2>3 DEF IsHeader, MessageHeader
  <2>4. CASE IsInh(msg)
    BY <2>4, InhSize
  <2>5. CASE IsInhRes(msg)
    BY <2>2, <2>5, InhResFields
  <2>6. CASE IsState(msg)
    BY <2>2, <2>6, StateFieldsTypes, LenProperties
  <2> QED
    BY <2>1, <2>3, <2>4, <2>5, <2>6, MessageKinds
<1>2. msg.kind \in {"inh", "inh_res"} => msg.vid \in [1 .. VidSize -> Byte]
  <2>1. CASE phase = "new"
    BY <2>1 DEF CodecInv, Relations, None
  <2>2. CASE phase # "new"
    <3>1. msg \in Message
      BY <2>2 DEF CodecInv, Relations
    <3> QED
      BY <3>1, MessageKinds, InhFields, InhResFields
  <2> QED
    BY <2>1, <2>2
<1>3. buf # None /\ buf.kind = "inh" => buf.data \in Seq(Byte)
  <2> SUFFICES ASSUME buf # None, buf.kind = "inh" PROVE buf.data \in Seq(Byte)
    OBVIOUS
  <2>1. Relations
    BY DEF CodecInv
  <2>2. PICK stray \in [1 .. ByteMax -> Byte] : buf.data = ToBytes(msg, stray)
    BY <2>1, PackedFacts
  <2>3. msg \in Message /\ msg.kind = "inh"
    BY <2>1, PackedFacts
  <2>4. IsInh(msg)
    BY <2>3, MessageKinds
  <2>5. InhBytes(msg, stray) \in Seq(Byte)
    BY <2>4, InhLayout DEF LaidOut
  <2> QED
    BY <2>2, <2>3, <2>5 DEF ToBytes
<1> QED
  BY <1>1, <1>2, <1>3 DEF CodecInv, Relations, PrintTypes, TypeOK

\* The variables of the codec have their types: the length of the data segment
\* is a number, and an INH's buffer holds bytes, for all strings.
THEOREM TypeCorrect == Spec => []TypeOK
BY CodecInvAlways, InvTypes, PTL

LEMMA InvDataLen == ASSUME CodecInv PROVE DataLenExact
<1> SUFFICES ASSUME phase = "packed", msg.kind = "state" => msg.pos = <<>>
             PROVE  DataSize(buf) = buf.data_len
  BY DEF DataLenExact
<1>1. msg \in Message /\ Packed
  BY DEF CodecInv, Relations
<1>2. PICK stray \in [1 .. ByteMax -> Byte] : buf = Packet(msg, stray)
  BY <1>1 DEF Packed
<1>3. msg.kind = "state" => Len(msg.pos) <= ByteMax
  <2>1. Len(<<>>) = 0 /\ 0 <= ByteMax
    BY Facts DEF ByteFacts
  <2> QED
    BY <2>1
<1>4. DataSize(Packet(msg, stray)) = Packet(msg, stray).data_len
  BY <1>1, <1>3, PacketSize, Zenon
<1> QED
  BY <1>2, <1>4

\* pack() reserves and announces exactly the bytes that to_bytes writes, for
\* every message but a state with positions: the sum that each constructor
\* adds up is the length of what its to_bytes lays out.
THEOREM DataLenExactAlways == Spec => []DataLenExact
BY CodecInvAlways, InvDataLen, PTL

LEMMA InvRoundTrip == ASSUME CodecInv PROVE RoundTrip
<1> SUFFICES ASSUME phase = "unpacked", msg.kind # "inh",
                    msg.kind = "state" => Len(msg.pos) <= ByteMax
             PROVE  out = Meaning(msg)
  BY DEF RoundTrip
<1>1. msg \in Message /\ Packed /\ Decoded
  BY DEF CodecInv, Relations
<1>2. PICK stray \in [1 .. ByteMax -> Byte], beyond \in Byte :
        out = Decode(Packet(msg, stray), beyond)
  BY <1>1 DEF Packed, Decoded
<1> QED
  BY <1>1, <1>2, RoundTripOf, Zenon

\* Heartbeats, INH responses and states with up to 255 positions are received
\* as they were made, whatever is in the memory around the buffers.
THEOREM RoundTripAlways == Spec => []RoundTrip
BY CodecInvAlways, InvRoundTrip, PTL

LEMMA InvInhRoundTrip == ASSUME CodecInv PROVE InhRoundTrip
<1> DEFINE n == Meaning(msg)
<1> SUFFICES ASSUME phase = "unpacked", msg.kind = "inh", msg.sw_len = msg.hw_len
             PROVE  /\ out = [n EXCEPT !.hw = out.hw, !.ad = out.ad]
                    /\ Len(out.hw) = msg.hw_len /\ Len(out.ad) = msg.ad_len
                    /\ n.hw = n.sw => out.hw = n.hw
                    /\ n.ad = n.sw => out.ad = n.ad
  BY DEF InhRoundTrip
<1>1. msg \in Message /\ Packed /\ Decoded
  BY DEF CodecInv, Relations
<1>2. PICK stray \in [1 .. ByteMax -> Byte], beyond \in Byte :
        out = Decode(Packet(msg, stray), beyond)
  BY <1>1 DEF Packed, Decoded
<1> DEFINE o == Decode(Packet(msg, stray), beyond)
<1>3. /\ o = [n EXCEPT !.hw = o.hw, !.ad = o.ad]
      /\ Len(o.hw) = msg.hw_len /\ Len(o.ad) = msg.ad_len
      /\ n.hw = n.sw => o.hw = n.hw
      /\ n.ad = n.sw => o.ad = n.ad
  BY <1>1, InhRoundTripOf, Zenon
<1> HIDE DEF o, n
<1>4. out = o
  BY <1>2 DEF o
<1> QED
  BY <1>3, <1>4, Zenon

\* An INH whose software and hardware versions have the same length is
\* received with every field but the hardware and software-platform versions
\* as it was made, and these with their lengths, for all strings and whatever
\* follows them in memory.
THEOREM InhRoundTripAlways == Spec => []InhRoundTrip
BY CodecInvAlways, InvInhRoundTrip, PTL

\* Printing overruns no buffer for strings that fill at most half of it, when
\* the message arrives unshifted and untruncated.
THEOREM PrintFitsAlways == Spec => []PrintFits
<1>1. CodecInv => PrintFits
  BY DEF CodecInv
<1> QED
  BY <1>1, CodecInvAlways, PTL

=============================================================================
