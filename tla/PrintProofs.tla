----------------------------- MODULE PrintProofs -----------------------------
(***************************************************************************)
(* The offsets that the printing operators show are those at which pack()  *)
(* puts the fields, for every width of a byte, every size of the fields,   *)
(* any strings and any positions.                                          *)
(***************************************************************************)
EXTENDS CodecProofs, WellFoundedInduction

(* Induction.  The library's theorems on induction take an operator; this  *)
(* one takes a set, the numbers a claim holds for, and rests on the        *)
(* library's theorem that a non-empty set of numbers has a least element.  *)

LEMMA NumberInduction ==
  ASSUME NEW S, 0 \in S, \A n \in Nat : n \in S => n + 1 \in S
  PROVE  Nat \subseteq S
<1> DEFINE T == Nat \ S
<1> DEFINE R == OpToRel(<, Nat)
<1>1. SUFFICES ASSUME T # {} PROVE FALSE   OBVIOUS
<1>2. IsWellFoundedOn(R, Nat)  BY NatLessThanWellFounded, Zenon
<1>3. T \subseteq Nat  OBVIOUS
<1>4. PICK x \in T : \A y \in T : ~ (<<y, x>> \in R)
  <2> HIDE DEF T, R
  <2> QED
    BY <1>1, <1>2, <1>3, WFMin, Zenon
<1>5. x # 0 /\ x \in Nat  OBVIOUS
<1>6. x - 1 \in Nat /\ x - 1 + 1 = x  BY <1>5
<1>7. x - 1 \in T  BY <1>5, <1>6
<1>8. <<x - 1, x>> \in R  BY <1>5, <1>6 DEF OpToRel
<1> QED
  BY <1>4, <1>7, <1>8

-----------------------------------------------------------------------------
(* Offsets. *)

\* The equation that defines the offsets; OffsetIs is that it has a solution.
OffsetEq(s, f) == f = [i \in 0 .. Len(s) |-> IF i = 0 THEN 0 ELSE f[i - 1] + s[i]]

LEMMA OffsetsExist ==
  ASSUME NEW s \in Seq(Nat)
  PROVE  \E f : OffsetEq(s, f)
<1> DEFINE Upto(n, f) == f = [i \in 0 .. n |-> IF i = 0 THEN 0 ELSE f[i - 1] + s[i]]
<1> DEFINE S == {n \in Nat : \E f : Upto(n, f)}
<1>1. 0 \in S
  <2>1. Upto(0, [i \in 0 .. 0 |-> 0])
    OBVIOUS
  <2> QED
    BY <2>1
<1>2. ASSUME NEW n \in Nat, n \in S PROVE n + 1 \in S
  <2>1. PICK f : Upto(n, f)
    BY <1>2
  <2> DEFINE g == [i \in 0 .. n + 1 |-> IF i <= n THEN f[i] ELSE f[n] + s[n + 1]]
  <2>2. ASSUME NEW i \in 0 .. n + 1
        PROVE  g[i] = IF i = 0 THEN 0 ELSE g[i - 1] + s[i]
    <3>1. CASE i = 0
      BY <3>1, <2>1
    <3>2. CASE i # 0 /\ i <= n
      <4>1. i \in 0 .. n /\ i - 1 \in 0 .. n + 1 /\ i - 1 <= n
        BY <3>2
      <4>2. f[i] = f[i - 1] + s[i]
        BY <2>1, <3>2, <4>1
      <4>3. g[i] = f[i] /\ g[i - 1] = f[i - 1]
        BY <3>2, <4>1
      <4> QED
        BY <4>2, <4>3, <3>2
    <3>3. CASE i = n + 1
      <4>1. i # 0 /\ ~(i <= n) /\ i - 1 = n /\ n \in 0 .. n + 1
        BY <3>3
      <4>2. g[i] = f[n] + s[n + 1] /\ g[n] = f[n]
        BY <4>1
      <4> HIDE DEF g
      <4> QED
        BY <3>3, <4>1, <4>2
    <3> QED
      BY <3>1, <3>2, <3>3
  <2>3. Upto(n + 1, g)
    <3>1. g = [i \in 0 .. n + 1 |-> g[i]]
      OBVIOUS
    <3> HIDE DEF g
    <3> QED
      BY <2>2, <3>1
  <2>4. \E h : Upto(n + 1, h)
    <3> HIDE DEF g, Upto
    <3> QED
      BY <2>3
  <2> HIDE DEF Upto
  <2> QED
    BY <2>4
<1>3. Nat \subseteq S
  <2> HIDE DEF S
  <2> QED
    BY <1>1, <1>2, NumberInduction
<1> QED
  BY <1>3, LenProperties DEF OffsetEq

LEMMA OffsetIs ==
  ASSUME NEW s \in Seq(Nat)
  PROVE  OffsetEq(s, Offset(s))
<1>1. PICK f : OffsetEq(s, f)
  BY OffsetsExist
<1> QED
  BY <1>1 DEF OffsetEq, Offset

LEMMA OffsetAt ==
  ASSUME NEW s \in Seq(Nat)
  PROVE  /\ Offset(s)[0] = 0
         /\ \A i \in 1 .. Len(s) : Offset(s)[i] = Offset(s)[i - 1] + s[i]
<1> DEFINE o == Offset(s)
<1>1. o = [i \in 0 .. Len(s) |-> IF i = 0 THEN 0 ELSE o[i - 1] + s[i]]
  BY OffsetIs DEF OffsetEq
<1>2. Len(s) \in Nat
  BY LenProperties
<1> HIDE DEF o
<1>3. o[0] = 0
  <2>1. 0 \in 0 .. Len(s)
    BY <1>2
  <2> QED
    BY <1>1, <2>1
<1>4. ASSUME NEW i \in 1 .. Len(s) PROVE o[i] = o[i - 1] + s[i]
  <2>1. i \in 0 .. Len(s) /\ i # 0
    BY <1>2
  <2> QED
    BY <1>1, <2>1
<1> QED
  BY <1>3, <1>4 DEF o

\* Induction over the fields printed: what is true of no field, and of one
\* more field whenever it is true of those before, is true of all.
LEMMA FieldInduction ==
  ASSUME NEW n \in Nat, NEW S, 0 \in S,
         \A i \in 1 .. n : i - 1 \in S => i \in S
  PROVE  0 .. n \subseteq S
<1> DEFINE T == {i \in Nat : i <= n => i \in S}
<1>1. 0 \in T
  OBVIOUS
<1>2. ASSUME NEW i \in Nat, i \in T PROVE i + 1 \in T
  <2>1. CASE i + 1 <= n
    <3>1. i <= n /\ i + 1 \in 1 .. n /\ (i + 1) - 1 = i
      BY <2>1
    <3>2. i \in S
      BY <1>2, <3>1
    <3>3. i + 1 \in S
      BY <3>1, <3>2
    <3> QED
      BY <3>3
  <2>2. CASE ~(i + 1 <= n)
    BY <2>2
  <2> QED
    BY <2>1, <2>2
<1>3. Nat \subseteq T
  <2> HIDE DEF T
  <2> QED
    BY <1>1, <1>2, NumberInduction
<1> QED
  BY <1>3

Total(s) == Offset(s)[Len(s)]

LEMMA OffsetTypes ==
  ASSUME NEW s \in Seq(Nat)
  PROVE  \A i \in 0 .. Len(s) : Offset(s)[i] \in Nat
<1> DEFINE S == {i \in 0 .. Len(s) : Offset(s)[i] \in Nat}
<1>1. Len(s) \in Nat /\ \A i \in 1 .. Len(s) : s[i] \in Nat
  BY LenProperties, ElementOfSeq
<1>2. 0 \in S
  BY <1>1, OffsetAt
<1>3. ASSUME NEW i \in 1 .. Len(s), i - 1 \in S PROVE i \in S
  <2>1. Offset(s)[i] = Offset(s)[i - 1] + s[i]
    BY OffsetAt
  <2>2. Offset(s)[i - 1] \in Nat /\ s[i] \in Nat /\ i \in 0 .. Len(s)
    BY <1>1, <1>3
  <2> QED
    BY <2>1, <2>2
<1>4. 0 .. Len(s) \subseteq S
  <2> HIDE DEF S
  <2> QED
    BY <1>1, <1>2, <1>3, FieldInduction
<1> QED
  BY <1>4

LEMMA TotalConcat ==
  ASSUME NEW s \in Seq(Nat), NEW t \in Seq(Nat)
  PROVE  Total(s \o t) = Total(s) + Total(t)
<1> DEFINE u == s \o t
<1> DEFINE n == Len(s)
<1> DEFINE k == Len(t)
<1>1. /\ n \in Nat /\ k \in Nat /\ Len(u) = n + k /\ u \in Seq(Nat)
      /\ \A i \in 1 .. n + k : u[i] = IF i <= n THEN s[i] ELSE t[i - n]
  BY ConcatProperties, LenProperties
<1>2. /\ Offset(s)[0] = 0 /\ Offset(t)[0] = 0 /\ Offset(u)[0] = 0
      /\ \A i \in 1 .. n : Offset(s)[i] = Offset(s)[i - 1] + s[i]
      /\ \A i \in 1 .. k : Offset(t)[i] = Offset(t)[i - 1] + t[i]
      /\ \A i \in 1 .. n + k : Offset(u)[i] = Offset(u)[i - 1] + u[i]
  <2> HIDE DEF u
  <2> QED
    BY <1>1, OffsetAt
<1>3. /\ \A i \in 0 .. n : Offset(s)[i] \in Nat
      /\ \A i \in 0 .. k : Offset(t)[i] \in Nat
      /\ \A i \in 1 .. n : s[i] \in Nat
      /\ \A i \in 1 .. k : t[i] \in Nat
  BY OffsetTypes, ElementOfSeq
<1> HIDE DEF u, n, k
<1>4. \A i \in 0 .. n : Offset(u)[i] = Offset(s)[i]
  <2> DEFINE S == {i \in 0 .. n : Offset(u)[i] = Offset(s)[i]}
  <2>1. 0 \in S
    BY <1>1, <1>2
  <2>2. ASSUME NEW i \in 1 .. n, i - 1 \in S PROVE i \in S
    <3>1. i \in 1 .. n + k /\ i <= n /\ i \in 0 .. n
      BY <1>1
    <3>2. u[i] = s[i]
      BY <1>1, <3>1
    <3>3. Offset(u)[i] = Offset(u)[i - 1] + u[i] /\ Offset(s)[i] = Offset(s)[i - 1] + s[i]
      BY <1>2, <3>1
    <3>4. Offset(u)[i - 1] = Offset(s)[i - 1]
      BY <2>2
    <3>5. Offset(u)[i] = Offset(s)[i]
      BY <3>2, <3>3, <3>4
    <3> QED
      BY <3>1, <3>5
  <2>3. 0 .. n \subseteq S
    <3> HIDE DEF S
    <3> QED
      BY <1>1, <2>1, <2>2, FieldInduction
  <2> QED
    BY <2>3
<1>5. \A i \in 0 .. k : Offset(u)[n + i] = Offset(s)[n] + Offset(t)[i]
  <2> DEFINE S == {i \in 0 .. k : Offset(u)[n + i] = Offset(s)[n] + Offset(t)[i]}
  <2>1. 0 \in S
    <3>1. n + 0 = n /\ n \in 0 .. n /\ 0 \in 0 .. k
      BY <1>1
    <3>2. Offset(u)[n] = Offset(s)[n] /\ Offset(s)[n] \in Nat
      BY <1>3, <1>4, <3>1
    <3>3. Offset(u)[n + 0] = Offset(s)[n] + Offset(t)[0]
      BY <1>2, <3>1, <3>2
    <3> QED
      BY <3>1, <3>3
  <2>2. ASSUME NEW i \in 1 .. k, i - 1 \in S PROVE i \in S
    <3>1. /\ n + i \in 1 .. n + k /\ ~(n + i <= n) /\ (n + i) - n = i /\ i \in 0 .. k
          /\ (n + i) - 1 = n + (i - 1) /\ n \in 0 .. n /\ i - 1 \in 0 .. k
      BY <1>1
    <3>2. u[n + i] = t[i]
      BY <1>1, <3>1
    <3>3. Offset(u)[n + i] = Offset(u)[n + (i - 1)] + t[i]
      BY <1>2, <3>1, <3>2
    <3>4. Offset(t)[i] = Offset(t)[i - 1] + t[i]
      BY <1>2
    <3>5. Offset(u)[n + (i - 1)] = Offset(s)[n] + Offset(t)[i - 1]
      BY <2>2
    <3>6. Offset(s)[n] \in Nat /\ Offset(t)[i - 1] \in Nat /\ t[i] \in Nat
      BY <1>3, <3>1
    <3>7. Offset(u)[n + i] = Offset(s)[n] + Offset(t)[i]
      BY <3>3, <3>4, <3>5, <3>6
    <3> QED
      BY <3>1, <3>7
  <2>3. 0 .. k \subseteq S
    <3> HIDE DEF S
    <3> QED
      BY <1>1, <2>1, <2>2, FieldInduction
  <2> QED
    BY <2>3
<1>6. Offset(u)[n + k] = Offset(s)[n] + Offset(t)[k]
  <2>1. k \in 0 .. k
    BY <1>1
  <2> QED
    BY <1>5, <2>1
<1> QED
  BY <1>1, <1>6 DEF Total, u, n, k

LEMMA TotalNat ==
  ASSUME NEW s \in Seq(Nat)
  PROVE  Total(s) \in Nat
<1>1. Len(s) \in 0 .. Len(s)
  BY LenProperties
<1> QED
  BY <1>1, OffsetTypes DEF Total

LEMMA TotalNone == Total(<<>>) = 0
<1>1. <<>> \in Seq(Nat) /\ Len(<<>>) = 0
  OBVIOUS
<1>2. Offset(<<>>)[0] = 0
  BY <1>1, OffsetAt
<1> QED
  BY <1>1, <1>2 DEF Total

LEMMA TotalOne ==
  ASSUME NEW x \in Nat
  PROVE  Total(<<x>>) = x
<1> DEFINE s == <<x>>
<1>1. s \in Seq(Nat) /\ Len(s) = 1 /\ s[1] = x
  OBVIOUS
<1> HIDE DEF s
<1>2. Offset(s)[0] = 0 /\ \A i \in 1 .. Len(s) : Offset(s)[i] = Offset(s)[i - 1] + s[i]
  BY <1>1, OffsetAt
<1>3. 1 \in 1 .. Len(s) /\ 1 - 1 = 0
  BY <1>1
<1>4. Offset(s)[1] = 0 + x
  BY <1>1, <1>2, <1>3
<1>5. Total(s) = x
  BY <1>1, <1>4 DEF Total
<1> QED
  BY <1>5 DEF s

LEMMA TotalSame ==
  ASSUME NEW n \in Nat, NEW c \in Nat
  PROVE  Total([i \in 1 .. n |-> c]) = c * n
<1> DEFINE s == [i \in 1 .. n |-> c]
<1>1. s \in Seq(Nat) /\ Len(s) = n /\ \A i \in 1 .. n : s[i] = c
  OBVIOUS
<1> HIDE DEF s
<1>2. Offset(s)[0] = 0 /\ \A i \in 1 .. n : Offset(s)[i] = Offset(s)[i - 1] + s[i]
  BY <1>1, OffsetAt
<1> DEFINE S == {i \in 0 .. n : Offset(s)[i] = c * i}
<1>3. 0 \in S
  <2>1. c * 0 = 0
    OBVIOUS
  <2> QED
    BY <1>2, <2>1
<1>4. ASSUME NEW i \in 1 .. n, i - 1 \in S PROVE i \in S
  <2>1. Offset(s)[i] = c * (i - 1) + c
    BY <1>1, <1>2, <1>4
  <2>2. c * (i - 1) + c = c * i /\ i \in 0 .. n
    OBVIOUS
  <2> QED
    BY <2>1, <2>2
<1>5. 0 .. n \subseteq S
  <2> HIDE DEF S
  <2> QED
    BY <1>3, <1>4, FieldInduction
<1>6. Offset(s)[n] = c * n
  <2>1. n \in 0 .. n
    OBVIOUS
  <2> QED
    BY <1>5, <2>1
<1> QED
  BY <1>1, <1>6 DEF Total, s

-----------------------------------------------------------------------------
(* What to_bytes writes, and what is printed of it. *)

\* The number of bytes that to_bytes writes.
Written(m) ==
  CASE m.kind = "header"  -> 0
    [] m.kind = "inh"     -> VidSize + 8 + m.sw_len + m.hw_len + m.ad_len + m.user_len
    [] m.kind = "inh_res" -> VidSize + 1
    [] m.kind = "state"   -> StateSize + PosSize * m.pos_num

LEMMA WrittenSize ==
  ASSUME NEW m \in Message, NEW stray \in [1 .. ByteMax -> Byte]
  PROVE  DataSize(Packet(m, stray)) = Written(m)
<1> DEFINE b == Packet(m, stray)
<1>1. b.kind = m.kind /\ b.data_len = m.data_len /\ b.data = ToBytes(m, stray)
  BY DEF Packet
<1>2. CASE m.kind # "state"
  <2>1. DataSize(b) = b.data_len
    BY <1>2, PacketSize
  <2>2. IsHeader(m) /\ m.kind = "header" => m.data_len = 0
    BY DEF IsHeader, MessageHeader
  <2>3. IsInh(m) => m.data_len = VidSize + 8 + m.sw_len + m.hw_len + m.ad_len + m.user_len
    BY InhFields
  <2>4. IsInhRes(m) => m.data_len = VidSize + 1
    BY InhResFields
  <2>5. m.data_len = Written(m)
    BY <1>2, <2>2, <2>3, <2>4, MessageKinds DEF Written
  <2> QED
    BY <1>1, <2>1, <2>5
<1>3. CASE IsState(m) /\ m.kind = "state"
  <2>1. b.data = StateFields(m)
    BY <1>1, <1>3 DEF ToBytes
  <2>2. Len(StateFields(m)) = 2 + m.pos_num /\ m.pos_num \in Nat
    BY <1>3, StateLayout, StateFieldsTypes, Facts DEF ByteFacts
  <2>3. Len(b.data) - 2 = m.pos_num
    BY <2>1, <2>2
  <2> HIDE DEF b
  <2> QED
    BY <1>1, <1>3, <2>3 DEF DataSize, Written, b
<1> QED
  BY <1>2, <1>3, MessageKinds

\* One line more.
LEMMA TotalMore ==
  ASSUME NEW s \in Seq(Nat), NEW x \in Nat, NEW n \in Nat, Total(s) = n
  PROVE  s \o <<x>> \in Seq(Nat) /\ Total(s \o <<x>>) = n + x
<1>1. <<x>> \in Seq(Nat) /\ Total(<<x>>) = x
  BY TotalOne
<1>2. Total(s \o <<x>>) = Total(s) + Total(<<x>>)
  BY <1>1, TotalConcat
<1> QED
  BY <1>1, <1>2, ConcatProperties

LEMMA TotalHeader == Total(HeaderSizes) = 16
<1>1. /\ <<1, 4>> = <<1>> \o <<4>> /\ <<1, 4, 1>> = <<1, 4>> \o <<1>>
      /\ <<1, 4, 1, 1>> = <<1, 4, 1>> \o <<1>>
      /\ <<1, 4, 1, 1, 8>> = <<1, 4, 1, 1>> \o <<8>>
      /\ HeaderSizes = <<1, 4, 1, 1, 8>> \o <<1>>
  BY DEF HeaderSizes
<1>2. <<1>> \in Seq(Nat) /\ Total(<<1>>) = 1
  BY TotalOne
<1>3. <<1, 4>> \in Seq(Nat) /\ Total(<<1, 4>>) = 5
  <2>1. <<1>> \o <<4>> \in Seq(Nat) /\ Total(<<1>> \o <<4>>) = 1 + 4
    BY <1>2, TotalMore
  <2>2. 1 + 4 = 5
    OBVIOUS
  <2> QED
    BY <1>1, <2>1, <2>2, Zenon
<1>4. <<1, 4, 1>> \in Seq(Nat) /\ Total(<<1, 4, 1>>) = 6
  <2>1. <<1, 4>> \o <<1>> \in Seq(Nat) /\ Total(<<1, 4>> \o <<1>>) = 5 + 1
    BY <1>3, TotalMore
  <2>2. 5 + 1 = 6
    OBVIOUS
  <2> QED
    BY <1>1, <2>1, <2>2, Zenon
<1>5. <<1, 4, 1, 1>> \in Seq(Nat) /\ Total(<<1, 4, 1, 1>>) = 7
  <2>1. <<1, 4, 1>> \o <<1>> \in Seq(Nat) /\ Total(<<1, 4, 1>> \o <<1>>) = 6 + 1
    BY <1>4, TotalMore
  <2>2. 6 + 1 = 7
    OBVIOUS
  <2> QED
    BY <1>1, <2>1, <2>2, Zenon
<1>6. <<1, 4, 1, 1, 8>> \in Seq(Nat) /\ Total(<<1, 4, 1, 1, 8>>) = 15
  <2>1. <<1, 4, 1, 1>> \o <<8>> \in Seq(Nat) /\ Total(<<1, 4, 1, 1>> \o <<8>>) = 7 + 8
    BY <1>5, TotalMore
  <2>2. 7 + 8 = 15
    OBVIOUS
  <2> QED
    BY <1>1, <2>1, <2>2, Zenon
<1>7. Total(<<1, 4, 1, 1, 8>> \o <<1>>) = 15 + 1
  BY <1>6, TotalMore
<1>8. 15 + 1 = 16
  OBVIOUS
<1> QED
  BY <1>1, <1>7, <1>8, Zenon

LEMMA TotalShown ==
  ASSUME NEW n \in Byte, n < ByteMax
  PROVE  Shown(n) \in Seq(Nat) /\ Total(Shown(n)) = n
<1>1. Announced(n) = n /\ n \in Nat
  BY AnnouncedLen, Facts DEF ByteFacts
<1>2. CASE n = 0
  BY <1>1, <1>2, TotalNone DEF Shown
<1>3. CASE n # 0
  BY <1>1, <1>3, TotalOne DEF Shown
<1> QED
  BY <1>2, <1>3

LEMMA TotalInhRes == Total(InhResSizes) = VidSize + 1
<1>1. VidSize \in Nat
  BY Facts DEF ByteFacts
<1>2. <<VidSize>> \in Seq(Nat) /\ <<1>> \in Seq(Nat) /\ InhResSizes = <<VidSize>> \o <<1>>
  BY <1>1 DEF InhResSizes
<1>3. Total(<<VidSize>>) = VidSize /\ Total(<<1>>) = 1
  BY <1>1, TotalOne
<1> QED
  BY <1>2, <1>3, TotalConcat

LEMMA TotalState ==
  ASSUME NEW n \in Nat
  PROVE  StateSizes(n) \in Seq(Nat) /\ Total(StateSizes(n)) = StateSize + PosSize * n
<1>1. StateSize \in Nat /\ PosSize \in Nat
  BY Facts DEF ByteFacts
<1>2. <<StateSize>> \in Seq(Nat) /\ [i \in 1 .. n |-> PosSize] \in Seq(Nat)
  BY <1>1
<1>3. Total(<<StateSize>>) = StateSize
  BY <1>1, TotalOne
<1>4. Total([i \in 1 .. n |-> PosSize]) = PosSize * n
  BY <1>1, TotalSame
<1> QED
  BY <1>2, <1>3, <1>4, TotalConcat, SizesTypes DEF StateSizes

\* An INH whose strings are all announced shows every byte of them.
LEMMA TotalInh ==
  ASSUME NEW sw \in Byte, NEW hw \in Byte, NEW ad \in Byte, NEW user \in Byte,
         sw < ByteMax, hw < ByteMax, ad < ByteMax, user < ByteMax
  PROVE  LET l == [sw |-> sw, hw |-> hw, ad |-> ad, user |-> user] IN
         InhSizes(l) \in Seq(Nat) /\ Total(InhSizes(l)) = VidSize + 8 + sw + hw + ad + user
<1> DEFINE l == [sw |-> sw, hw |-> hw, ad |-> ad, user |-> user]
<1> DEFINE p1 == InhResSizes
           p2 == p1 \o Shown(sw)
           p3 == p2 \o <<1>>
           p4 == p3 \o Shown(hw)
           p5 == p4 \o <<1>>
           p6 == p5 \o Shown(ad)
           ones == <<1, 1, 1, 1, 1>>
           p7 == p6 \o ones
           p8 == p7 \o Shown(user)
<1>1. VidSize \in Nat /\ sw \in Nat /\ hw \in Nat /\ ad \in Nat /\ user \in Nat
  BY Facts DEF ByteFacts
<1>2. /\ Shown(sw) \in Seq(Nat) /\ Total(Shown(sw)) = sw
      /\ Shown(hw) \in Seq(Nat) /\ Total(Shown(hw)) = hw
      /\ Shown(ad) \in Seq(Nat) /\ Total(Shown(ad)) = ad
      /\ Shown(user) \in Seq(Nat) /\ Total(Shown(user)) = user
  BY TotalShown
<1>3. <<1>> \in Seq(Nat) /\ Total(<<1>>) = 1
  BY TotalOne
<1>4. ones \in Seq(Nat) /\ Total(ones) = 5
  <2>1. [i \in 1 .. 5 |-> 1] = ones
    OBVIOUS
  <2>2. Total([i \in 1 .. 5 |-> 1]) = 1 * 5
    BY TotalSame
  <2> QED
    BY <2>1, <2>2
<1>5. p1 \in Seq(Nat) /\ Total(p1) = VidSize + 1
  BY TotalInhRes, SizesTypes
<1>6. \A s \in Seq(Nat), t \in Seq(Nat) : s \o t \in Seq(Nat) /\ Total(s \o t) = Total(s) + Total(t)
  BY ConcatProperties, TotalConcat
<1>7. InhSizes(l) = p8
  BY DEF InhSizes, InhResSizes
<1> HIDE DEF l, p1, ones
<1>8. p2 \in Seq(Nat) /\ Total(p2) = VidSize + 1 + sw
  BY <1>2, <1>5, <1>6
<1> HIDE DEF p2
<1>9. p3 \in Seq(Nat) /\ Total(p3) = VidSize + 1 + sw + 1
  BY <1>3, <1>6, <1>8
<1> HIDE DEF p3
<1>10. p4 \in Seq(Nat) /\ Total(p4) = VidSize + 1 + sw + 1 + hw
  BY <1>2, <1>6, <1>9
<1> HIDE DEF p4
<1>11. p5 \in Seq(Nat) /\ Total(p5) = VidSize + 1 + sw + 1 + hw + 1
  BY <1>3, <1>6, <1>10
<1> HIDE DEF p5
<1>12. p6 \in Seq(Nat) /\ Total(p6) = VidSize + 1 + sw + 1 + hw + 1 + ad
  BY <1>2, <1>6, <1>11
<1> HIDE DEF p6
<1>13. p7 \in Seq(Nat) /\ Total(p7) = VidSize + 1 + sw + 1 + hw + 1 + ad + 5
  BY <1>4, <1>6, <1>12
<1> HIDE DEF p7
<1>14. p8 \in Seq(Nat) /\ Total(p8) = VidSize + 1 + sw + 1 + hw + 1 + ad + 5 + user
  BY <1>2, <1>6, <1>13
<1> HIDE DEF p8
<1>15. VidSize + 1 + sw + 1 + hw + 1 + ad + 5 + user = VidSize + 8 + sw + hw + ad + user
  BY <1>1
<1> QED
  BY <1>7, <1>14, <1>15 DEF l

LEMMA TotalMade ==
  ASSUME NEW m, IsInh(m), m.kind = "inh"
  PROVE  /\ InhSizes(MadeLen(m)) \in Seq(Nat)
         /\ Total(InhSizes(MadeLen(m))) = Written(m)
<1>1. /\ m.sw_len \in Byte /\ m.sw_len < ByteMax /\ m.hw_len \in Byte /\ m.hw_len < ByteMax
      /\ m.ad_len \in Byte /\ m.ad_len < ByteMax /\ m.user_len \in Byte /\ m.user_len < ByteMax
  BY InhTyped DEF InhTypes
<1>2. Written(m) = VidSize + 8 + m.sw_len + m.hw_len + m.ad_len + m.user_len
  BY DEF Written
<1> QED
  BY <1>1, <1>2, TotalInh DEF MadeLen

-----------------------------------------------------------------------------
(* The invariant. *)

\* As long as the message is not shifted, the lines last printed, those of
\* the sender and then those of the receiver, add up to what is written.
SizesAddUp ==
  /\ printed = "whole"
  /\ phase \in {"made", "packed", "unpacked", "shown"}
  /\ phase = "shown" /\ msg.kind = "inh" => msg.sw_len = msg.hw_len
  => Total(sizes) = 16 + Written(msg)

LEMMA ShownWhole ==
  ASSUME NEW fits, NEW lines \in Seq(Nat), Show(fits, lines), printed' = "whole",
         NEW n \in Nat, Total(lines) = n
  PROVE  Total(sizes') = 16 + n
<1>1. sizes' = HeaderSizes \o lines
  BY DEF Show
<1>2. Total(HeaderSizes \o lines) = Total(HeaderSizes) + Total(lines)
  BY SizesTypes, TotalConcat
<1> QED
  BY <1>1, <1>2, TotalHeader

LEMMA WrittenNat ==
  ASSUME NEW m \in Message
  PROVE  Written(m) \in Nat
<1>1. VidSize \in Nat /\ StateSize \in Nat /\ PosSize \in Nat
  BY Facts DEF ByteFacts
<1>2. IsInh(m) => m.sw_len \in Nat /\ m.hw_len \in Nat /\ m.ad_len \in Nat /\ m.user_len \in Nat
  BY InhTyped DEF InhTypes
<1>3. IsState(m) => m.pos_num \in Nat
  BY StateFieldsTypes, Facts DEF ByteFacts
<1>4. IsState(m) => PosSize * m.pos_num \in Nat
  BY <1>1, <1>3
<1> QED
  BY <1>1, <1>2, <1>4, MessageKinds DEF Written

LEMMA MadeSizes ==
  ASSUME CodecInv, PrintMade
  PROVE  SizesAddUp'
<1>1. phase = "made" /\ msg' = msg /\ msg \in Message
  BY DEF CodecInv, Relations, PrintMade
<1> SUFFICES ASSUME printed' = "whole"
             PROVE  Total(sizes') = 16 + Written(msg)
  BY <1>1 DEF SizesAddUp
<1>2. Written(msg) \in Nat
  BY <1>1, WrittenNat
<1>3. \E fits, lines : Show(fits, lines) /\ lines \in Seq(Nat) /\ Total(lines) = Written(msg)
  <2>1. CASE IsHeader(msg) /\ msg.kind = "header"
    <3>1. Show(TRUE, <<>>)
      BY <2>1 DEF PrintMade
    <3>2. Total(<<>>) = Written(msg) /\ <<>> \in Seq(Nat)
      BY <2>1, TotalNone DEF Written
    <3> QED
      BY <3>1, <3>2
  <2>2. CASE IsInh(msg) /\ msg.kind = "inh"
    <3>1. Show(InhFits(MadeLen(msg)), InhSizes(MadeLen(msg)))
      BY <2>2 DEF PrintMade
    <3> QED
      BY <2>2, <3>1, TotalMade
  <2>3. CASE IsInhRes(msg) /\ msg.kind = "inh_res"
    <3>1. Show(TRUE, InhResSizes)
      BY <2>3 DEF PrintMade
    <3>2. Total(InhResSizes) = Written(msg) /\ InhResSizes \in Seq(Nat)
      BY <2>3, TotalInhRes, SizesTypes DEF Written
    <3> QED
      BY <3>1, <3>2
  <2>4. CASE IsState(msg) /\ msg.kind = "state"
    <3>1. Show(TRUE, StateSizes(msg.pos_num))
      BY <2>4 DEF PrintMade
    <3>2. msg.pos_num \in Nat
      BY <2>4, StateFieldsTypes, Facts DEF ByteFacts
    <3>3. StateSizes(msg.pos_num) \in Seq(Nat) /\ Total(StateSizes(msg.pos_num)) = Written(msg)
      BY <2>4, <3>2, TotalState DEF Written
    <3> QED
      BY <3>1, <3>3
  <2> QED
    BY <1>1, <2>1, <2>2, <2>3, <2>4, MessageKinds
<1>4. PICK fits, lines : Show(fits, lines) /\ lines \in Seq(Nat) /\ Total(lines) = Written(msg)
  BY <1>3
<1> QED
  BY <1>2, <1>4, ShownWhole

LEMMA ReceivedSizes ==
  ASSUME CodecInv, PrintReceived
  PROVE  SizesAddUp'
<1>1. /\ phase = "unpacked" /\ msg' = msg /\ msg \in Message /\ Packed /\ Decoded
      /\ phase' \in {"shown", "crashed"}
  BY DEF CodecInv, Relations, PrintReceived
<1> SUFFICES ASSUME printed' = "whole", phase' = "shown",
                    msg.kind = "inh" => msg.sw_len = msg.hw_len
             PROVE  Total(sizes') = 16 + Written(msg)
  BY <1>1 DEF SizesAddUp
<1>2. PICK stray \in [1 .. ByteMax -> Byte], beyond \in Byte :
        out = Decode(Packet(msg, stray), beyond)
  BY <1>1 DEF Packed, Decoded
<1>3. Written(msg) \in Nat
  BY <1>1, WrittenNat
<1>4. \/ out = Truncated
      \/ msg.kind = "header" /\ out = [kind |-> "header", body |-> msg.body]
      \/ msg.kind = "inh" /\ IsInh(msg) /\ out = InhDecode(InhBytes(msg, stray), beyond)
      \/ msg.kind = "inh_res" /\ out = [kind |-> "inh_res", vid |-> msg.vid, body |-> msg.body]
      \/ msg.kind = "state" /\ IsState(msg)
         /\ out = [kind |-> "state", body |-> msg.body,
                   pos |-> SubSeq(StateFields(msg), 3, 2 + msg.pos_num)]
  BY <1>1, <1>2, DecodeKinds, Zenon
<1>5. \E fits, lines : Show(fits, lines) /\ lines \in Seq(Nat) /\ Total(lines) = Written(msg)
  <2>1. CASE out = Truncated
    <3>1. Show(FALSE, <<>>)
      BY <2>1 DEF PrintReceived, Truncated
    <3> QED
      BY <3>1 DEF Show
  <2>2. CASE msg.kind = "header" /\ out = [kind |-> "header", body |-> msg.body]
    <3>1. Show(TRUE, <<>>)
      BY <2>2 DEF PrintReceived
    <3>2. Total(<<>>) = Written(msg) /\ <<>> \in Seq(Nat)
      BY <2>2, TotalNone DEF Written
    <3> QED
      BY <3>1, <3>2
  <2>3. CASE msg.kind = "inh" /\ IsInh(msg) /\ out = InhDecode(InhBytes(msg, stray), beyond)
    <3>1. InhBytes(msg, stray) \in Seq(Byte)
      BY <2>3, InhLayout DEF LaidOut
    <3>2. out.kind = "inh"
      BY <2>3, <3>1, InhDecodeTypes
    <3>3. /\ Len(Decode(Packet(msg, stray), beyond).sw) = msg.sw_len
          /\ Len(Decode(Packet(msg, stray), beyond).hw) = msg.hw_len
          /\ Len(Decode(Packet(msg, stray), beyond).ad) = msg.ad_len
          /\ Len(Decode(Packet(msg, stray), beyond).user) = msg.user_len
      BY <1>1, <2>3, InhRoundTripOf
    <3>4. /\ Len(out.sw) = msg.sw_len /\ Len(out.hw) = msg.hw_len
          /\ Len(out.ad) = msg.ad_len /\ Len(out.user) = msg.user_len
      BY <1>2, <3>3, Zenon
    <3>5. ReadLen(out) = MadeLen(msg)
      BY <3>4, Zenon DEF ReadLen, MadeLen
    <3>6. Show(InhFits(ReadLen(out)), InhSizes(ReadLen(out)))
      BY <3>2 DEF PrintReceived
    <3> QED
      BY <2>3, <3>5, <3>6, TotalMade, Zenon
  <2>4. CASE msg.kind = "inh_res" /\ out = [kind |-> "inh_res", vid |-> msg.vid, body |-> msg.body]
    <3>1. Show(TRUE, InhResSizes)
      BY <2>4 DEF PrintReceived
    <3>2. Total(InhResSizes) = Written(msg) /\ InhResSizes \in Seq(Nat)
      BY <2>4, TotalInhRes, SizesTypes DEF Written
    <3> QED
      BY <3>1, <3>2
  <2>5. CASE msg.kind = "state" /\ IsState(msg)
             /\ out = [kind |-> "state", body |-> msg.body,
                       pos |-> SubSeq(StateFields(msg), 3, 2 + msg.pos_num)]
    <3>1. out.kind = "state" /\ Len(out.pos) = msg.pos_num /\ msg.pos_num \in Nat
      BY <2>5, StateLayout, StateFieldsTypes, Facts DEF ByteFacts
    <3>2. Show(TRUE, StateSizes(msg.pos_num))
      BY <3>1 DEF PrintReceived
    <3>3. StateSizes(msg.pos_num) \in Seq(Nat) /\ Total(StateSizes(msg.pos_num)) = Written(msg)
      BY <2>5, <3>1, TotalState DEF Written
    <3> QED
      BY <3>2, <3>3
  <2> QED
    BY <1>4, <2>1, <2>2, <2>3, <2>4, <2>5
<1>6. PICK fits, lines : Show(fits, lines) /\ lines \in Seq(Nat) /\ Total(lines) = Written(msg)
  BY <1>5
<1> QED
  BY <1>3, <1>6, ShownWhole

LEMMA SizesStep ==
  ASSUME CodecInv, SizesAddUp, [Next]_vars
  PROVE  SizesAddUp'
<1>1. CASE Construct
  BY <1>1 DEF CodecInv, Relations, Construct, printVars, SizesAddUp
<1>2. CASE PrintMade
  BY <1>2, MadeSizes
<1>3. CASE Pack
  BY <1>3 DEF Pack, printVars, SizesAddUp
<1>4. CASE Unpack
  BY <1>4 DEF Unpack, printVars, SizesAddUp
<1>5. CASE PrintReceived
  BY <1>5, ReceivedSizes
<1>6. CASE UNCHANGED vars
  BY <1>6 DEF vars, SizesAddUp
<1> QED
  BY <1>1, <1>2, <1>3, <1>4, <1>5, <1>6 DEF Next

LEMMA SizesAlways == Spec => []SizesAddUp
<1>1. Init => SizesAddUp
  BY DEF Init, SizesAddUp
<1>2. CodecInv /\ SizesAddUp /\ [Next]_vars => SizesAddUp'
  BY SizesStep
<1> QED
  BY <1>1, <1>2, CodecInvAlways, PTL DEF Spec

LEMMA InvOffsets == ASSUME CodecInv, SizesAddUp PROVE PrintedOffsets
<1> SUFFICES ASSUME printed = "whole", phase \in {"packed", "unpacked", "shown"},
                    phase = "shown" /\ msg.kind = "inh" => msg.sw_len = msg.hw_len
             PROVE  Offset(sizes)[Len(sizes)] = 16 + DataSize(buf)
  BY DEF PrintedOffsets
<1>1. Packed /\ msg \in Message
  BY DEF CodecInv, Relations
<1>2. PICK stray \in [1 .. ByteMax -> Byte] : buf = Packet(msg, stray)
  BY <1>1 DEF Packed
<1>3. DataSize(buf) = Written(msg)
  BY <1>1, <1>2, WrittenSize
<1>4. Total(sizes) = 16 + Written(msg)
  BY DEF SizesAddUp
<1> QED
  BY <1>3, <1>4 DEF Total

\* The sender prints each field at the offset at which pack() puts it, and the
\* receiver of an unshifted message prints the same.
THEOREM PrintedOffsetsAlways == Spec => []PrintedOffsets
BY CodecInvAlways, SizesAlways, InvOffsets, PTL
-----------------------------------------------------------------------------
(* Where the announced lengths are wrong. *)

\* The data segment of a state is as long as data_len_ says only where the
\* positions that are written fill one byte for each that was given.
DataLenRight ==
  phase = "packed" =>
    (DataSize(buf) = buf.data_len
       <=> (msg.kind = "state" => PosSize * msg.pos_num = Len(msg.pos)))

\* The byte before the hardware version is right only by coincidence.
HwLenRight ==
  phase = "packed" /\ msg.kind = "inh" =>
    (buf.data[VidSize + 2 + msg.sw_len] = msg.hw_len <=> msg.sw_len = msg.hw_len)

LEMMA InvDataLenRight == ASSUME CodecInv PROVE DataLenRight
<1> SUFFICES ASSUME phase = "packed"
             PROVE  DataSize(buf) = buf.data_len
                      <=> (msg.kind = "state" => PosSize * msg.pos_num = Len(msg.pos))
  BY DEF DataLenRight
<1>1. Packed /\ msg \in Message
  BY DEF CodecInv, Relations
<1>2. PICK stray \in [1 .. ByteMax -> Byte] : buf = Packet(msg, stray)
  BY <1>1 DEF Packed
<1>3. DataSize(buf) = Written(msg) /\ buf.data_len = msg.data_len
  <2>1. DataSize(buf) = Written(msg)
    BY <1>1, <1>2, WrittenSize
  <2> QED
    BY <1>2, <2>1 DEF Packet
<1>4. CASE msg.kind # "state"
  <2>1. DataSize(buf) = buf.data_len
    <3>1. DataSize(Packet(msg, stray)) = Packet(msg, stray).data_len
      BY <1>1, <1>4, PacketSize
    <3> QED
      BY <1>2, <3>1, Zenon
  <2> QED
    BY <1>4, <2>1
<1>5. CASE IsState(msg) /\ msg.kind = "state"
  <2>1. /\ msg.data_len = StateSize + Len(msg.pos) /\ msg.pos_num \in Nat
        /\ Len(msg.pos) \in Nat /\ StateSize \in Nat /\ PosSize \in Nat
    BY <1>5, StateFieldsTypes, LenProperties, Facts DEF ByteFacts
  <2>2. PosSize * msg.pos_num \in Nat
    BY <2>1
  <2>3. DataSize(buf) = StateSize + PosSize * msg.pos_num
    BY <1>3, <1>5 DEF Written
  <2>4. \A a \in Nat, b \in Nat, c \in Nat : a + b = a + c <=> b = c
    OBVIOUS
  <2>5. StateSize + PosSize * msg.pos_num = StateSize + Len(msg.pos)
          <=> PosSize * msg.pos_num = Len(msg.pos)
    BY <2>1, <2>2, <2>4
  <2> QED
    BY <1>3, <1>5, <2>1, <2>3, <2>5
<1> QED
  BY <1>1, <1>4, <1>5, MessageKinds

\* data_len_ is the size of the data segment for every message but a state
\* with positions, and of those only for one whose wrapped count happens to
\* make up for it.
THEOREM DataLenRightAlways == Spec => []DataLenRight
BY CodecInvAlways, InvDataLenRight, PTL

LEMMA InvHwLenRight == ASSUME CodecInv PROVE HwLenRight
<1> SUFFICES ASSUME phase = "packed", msg.kind = "inh"
             PROVE  buf.data[VidSize + 2 + msg.sw_len] = msg.hw_len <=> msg.sw_len = msg.hw_len
  BY DEF HwLenRight
<1>1. Packed /\ msg \in Message
  BY DEF CodecInv, Relations
<1>2. PICK stray \in [1 .. ByteMax -> Byte] : buf = Packet(msg, stray)
  BY <1>1 DEF Packed
<1>3. IsInh(msg)
  BY <1>1, MessageKinds
<1>4. buf.data = InhBytes(msg, stray)
  BY <1>2 DEF Packet, ToBytes
<1>5. buf.data[HwOffset(msg) + 1] = msg.sw_len
  BY <1>3, <1>4, InhLayout DEF LaidOut
<1>6. HwOffset(msg) + 1 = VidSize + 2 + msg.sw_len
  <2>1. VidSize \in Nat /\ msg.sw_len \in Nat
    BY <1>3, InhTyped, Facts DEF InhTypes, ByteFacts
  <2> QED
    BY <2>1 DEF HwOffset
<1> QED
  BY <1>5, <1>6

\* The length that precedes the hardware version is the software version's,
\* so it is right exactly where the two have the same length.
THEOREM HwLenRightAlways == Spec => []HwLenRight
BY CodecInvAlways, InvHwLenRight, PTL


=============================================================================
