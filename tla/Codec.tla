------------------------------- MODULE Codec --------------------------------
(***************************************************************************)
(* The message codec: the constructors and to_bytes of the four message    *)
(* types (include/protocol/message), Packer::pack and Packer::unpack, and  *)
(* the operators that print a message.  A behaviour takes one message      *)
(* through all of them, as Test::run (test.h) does and as a vehicle and    *)
(* the cloud do together; Controller::send does not print first.           *)
(*                                                                         *)
(* A buffer is its header fields and the data segment.  Version strings    *)
(* and user data are sequences of bytes, because decoding walks over them; *)
(* fixed-size fields that are written and read alike are opaque.  A byte   *)
(* counts from 0 to ByteMax, which is 255 in the code.                     *)
(***************************************************************************)
EXTENDS Naturals, Sequences

CONSTANTS
  ByteMax,          \* 0xFF
  VidSize,          \* sizeof(vehicle_id_), 8 in the code
  StateSize,        \* bytes of a Veh2CloudState data segment without
                    \* positions, 82 in the code
  PosSize,          \* sizeof(Position2D), 8 in the code
  StrSize,          \* sizeof(str) in the printing operators, 256 in the code
  Text,             \* strings given to the constructors
  Quad,             \* values of com_type_ to gnss_type_, four bytes
  Position,         \* values of a Position2D
  Body,             \* values of the other fields of a message
  MaxPositions      \* bound: positions in one Veh2CloudState

Byte == 0 .. ByteMax

ASSUME CodecAssumption ==
  /\ ByteMax \in Nat \ {0}
  /\ VidSize \in Nat /\ StateSize \in Nat /\ PosSize \in Nat \ {0}
  /\ StrSize \in Nat /\ 2 * VidSize < StrSize
  /\ MaxPositions \in Nat
  /\ Text \subseteq Seq(Byte)
  /\ \A q \in Quad : q \in Seq(Byte) /\ Len(q) = 4

VARIABLES
  phase,            \* "new", "made", "packed", "unpacked", "shown"; "crashed"
  msg,              \* the message constructed
  buf,              \* the buffer pack() returns
  out,              \* the message the handler is given
  printed,          \* "no", "whole", or "overrun" its buffers
  sizes             \* the sizes of the fields, as last printed

vars == <<phase, msg, buf, out, printed, sizes>>
printVars == <<printed, sizes>>

None == [kind |-> "none"]

Init ==
  /\ phase = "new"
  /\ msg = None
  /\ buf = None
  /\ out = None
  /\ printed = "no"
  /\ sizes = <<>>

-----------------------------------------------------------------------------
(* Constructors. *)

StrNCpy_Unpadded(s, n) == SubSeq(s, 1, IF Len(s) < n THEN Len(s) ELSE n)

\* strncpy into an array of n bytes.
StrNCpy(s, n) == [i \in 1 .. n |-> IF i <= Len(s) THEN s[i] ELSE 0]

\* The length byte of a string: one that is too long for it gets 0.
LenByte(s) == IF Len(s) >= ByteMax THEN 0 ELSE Len(s)

MessageHeader(body) == [kind |-> "header", body |-> body, data_len |-> 0]

Veh2CloudInh_NoUserLen(vid, sw, hw, ad, quad, user) ==
  [kind |-> "inh", vid |-> StrNCpy(vid, VidSize),
   sw |-> sw, sw_len |-> LenByte(sw), hw |-> hw, hw_len |-> LenByte(hw),
   ad |-> ad, ad_len |-> LenByte(ad), quad |-> quad,
   user |-> user, user_len |-> LenByte(user),
   data_len |-> VidSize + 8 + LenByte(sw) + LenByte(hw) + LenByte(ad)]

\* data_len_ starts with the id, the four length bytes and the four bytes of
\* the quad.
Veh2CloudInh(vid, sw, hw, ad, quad, user) ==
  [kind |-> "inh", vid |-> StrNCpy(vid, VidSize),
   sw |-> sw, sw_len |-> LenByte(sw), hw |-> hw, hw_len |-> LenByte(hw),
   ad |-> ad, ad_len |-> LenByte(ad), quad |-> quad,
   user |-> user, user_len |-> LenByte(user),
   data_len |-> VidSize + 8 + LenByte(sw) + LenByte(hw) + LenByte(ad) + LenByte(user)]

Cloud2VehInhRes(vid, body) ==
  [kind |-> "inh_res", vid |-> StrNCpy(vid, VidSize), body |-> body,
   data_len |-> VidSize + 1]

\* data_len_ grows by one for each position, and the count is a byte.
Veh2CloudState(body, pos) ==
  [kind |-> "state", body |-> body, pos |-> pos,
   pos_num |-> Len(pos) % (ByteMax + 1), data_len |-> StateSize + Len(pos)]

Message ==
  {MessageHeader(b) : b \in Body}
  \union {Veh2CloudInh(v, s, h, a, q, u) :
            v \in Text, s \in Text, h \in Text, a \in Text, q \in Quad, u \in Text}
  \union {Cloud2VehInhRes(v, b) : v \in Text, b \in Body}
  \union {Veh2CloudState(b, ps) :
            b \in Body, ps \in UNION {[1 .. n -> Position] : n \in 0 .. MaxPositions}}

Construct ==
  /\ phase = "new"
  /\ msg' \in Message
  /\ phase' = "made"
  /\ UNCHANGED <<buf, out, printVars>>

-----------------------------------------------------------------------------
(* to_bytes and Packer::pack. *)

\* memcpy of n bytes from s.c_str(): past the terminating zero it reads
\* whatever is there.
CopyBytes(s, n, stray) ==
  [i \in 1 .. n |-> IF i <= Len(s) THEN s[i]
                    ELSE IF i = Len(s) + 1 THEN 0 ELSE stray[i]]

\* The length bytes 0 and 0xFF announce no version string.
Announced(n) == IF n = ByteMax THEN 0 ELSE n

InhBytes_AdLen(m, stray) ==
  m.vid \o <<m.sw_len>> \o CopyBytes(m.sw, Announced(m.sw_len), stray)
        \o <<m.sw_len>> \o CopyBytes(m.sw, Announced(m.hw_len), stray)
        \o <<m.sw_len>> \o CopyBytes(m.sw, Announced(m.ad_len), stray)
        \o m.quad \o <<m.user_len>> \o CopyBytes(m.user, m.user_len, stray)

\* The hardware version is preceded by the software version's length, and
\* all three versions are copied from the software version.
InhBytes(m, stray) ==
  m.vid \o <<m.sw_len>> \o CopyBytes(m.sw, Announced(m.sw_len), stray)
        \o <<m.sw_len>> \o CopyBytes(m.sw, Announced(m.hw_len), stray)
        \o <<m.ad_len>> \o CopyBytes(m.sw, Announced(m.ad_len), stray)
        \o m.quad \o <<m.user_len>> \o CopyBytes(m.user, m.user_len, stray)

InhResBytes(m) == m.vid \o <<m.body>>

\* One element for the fields before pass_pos_num_, one for it, one for each
\* position; StateBytes measures it.
StateFields(m) == <<m.body, m.pos_num>> \o SubSeq(m.pos, 1, m.pos_num)

ToBytes(m, stray) ==
  CASE m.kind = "header"  -> <<>>
    [] m.kind = "inh"     -> InhBytes(m, stray)
    [] m.kind = "inh_res" -> InhResBytes(m)
    [] m.kind = "state"   -> StateFields(m)

\* The number of bytes of the data segment.
DataSize(b) ==
  IF b.kind = "state" THEN StateSize + PosSize * (Len(b.data) - 2) ELSE Len(b.data)

Header(m) == IF m.kind = "header" THEN m.body ELSE "ok"

\* pack() reserves data_len_ bytes for the data segment on the stack, with
\* which the check of the size in to_bytes passes.  What to_bytes writes
\* beyond them may destroy the frame, or may survive until it is copied.
Pack ==
  /\ phase = "made"
  /\ \E stray \in [1 .. ByteMax -> Byte] :
       LET b == [kind |-> msg.kind, header |-> Header(msg), data_len |-> msg.data_len,
                 data |-> ToBytes(msg, stray)]
       IN \/ /\ buf' = b
             /\ phase' = "packed"
          \/ /\ DataSize(b) > msg.data_len
             /\ buf' = None
             /\ phase' = "crashed"
  /\ UNCHANGED <<msg, out, printVars>>

-----------------------------------------------------------------------------
(* The decoding constructors and Packer::unpack. *)

\* The byte at position i of the buffer's data; bound: the bytes that follow
\* the data all hold the same value.
At(data, i, beyond) == IF i <= Len(data) THEN data[i] ELSE beyond

Slice(data, i, n, beyond) == [k \in 1 .. n |-> At(data, i + k - 1, beyond)]

\* Each length byte says where the next one is; that of the user data has no
\* special value.
InhDecode(data, beyond) ==
  LET Length(i) == Announced(At(data, i, beyond))
      Str(i) == Slice(data, i + 1, Length(i), beyond)
      sw == VidSize + 1
      hw == sw + 1 + Length(sw)
      ad == hw + 1 + Length(hw)
      quad == ad + 1 + Length(ad)
      user == quad + 4
  IN [kind |-> "inh", vid |-> SubSeq(data, 1, VidSize),
      sw |-> Str(sw), hw |-> Str(hw), ad |-> Str(ad),
      quad |-> Slice(data, quad, 4, beyond),
      user |-> Slice(data, user + 1, At(data, user, beyond), beyond)]

InhResDecode(data) ==
  [kind |-> "inh_res", vid |-> SubSeq(data, 1, VidSize), body |-> data[VidSize + 1]]

StateDecode_OffByOne(data) ==
  [kind |-> "state", body |-> data[1], pos |-> SubSeq(data, 3, 1 + data[2])]

StateDecode(data) ==
  [kind |-> "state", body |-> data[1], pos |-> SubSeq(data, 3, 2 + data[2])]

HeaderDecode(b) == [kind |-> "header", body |-> b.header]

\* The handler is called even when the constructor gave up because fewer
\* than data_len_ bytes arrived; the members are then not initialised.
Truncated == [kind |-> "truncated"]

Decode(b, beyond) ==
  IF DataSize(b) < b.data_len /\ b.kind # "header" THEN Truncated
  ELSE CASE b.kind = "header"  -> HeaderDecode(b)
         [] b.kind = "inh"     -> InhDecode(b.data, beyond)
         [] b.kind = "inh_res" -> InhResDecode(b.data)
         [] b.kind = "state"   -> StateDecode(b.data)

Unpack ==
  /\ phase = "packed"
  /\ \E beyond \in Byte : out' = Decode(buf, beyond)
  /\ phase' = "unpacked"
  /\ UNCHANGED <<msg, buf, printVars>>

-----------------------------------------------------------------------------
(* The printing operators.  Each line shows a field and the offset it has  *)
(* in the buffer, which is the sum of the sizes printed before.            *)

HeaderSizes == <<1, 4, 1, 1, 8, 1>>

Shown(n) == IF Announced(n) = 0 THEN <<>> ELSE <<n>>

InhSizes_NoUser(len) ==
  <<VidSize, 1>> \o Shown(len.sw) \o <<1>> \o Shown(len.hw) \o <<1>> \o Shown(len.ad)
    \o <<1, 1, 1, 1, 1>>

\* User data of 255 bytes is not printed, though it is decoded.
InhSizes(len) ==
  <<VidSize, 1>> \o Shown(len.sw) \o <<1>> \o Shown(len.hw) \o <<1>> \o Shown(len.ad)
    \o <<1, 1, 1, 1, 1>> \o Shown(len.user)

InhResSizes == <<VidSize, 1>>

StateSizes(n) == <<StateSize>> \o [i \in 1 .. n |-> PosSize]

\* bytes_to_string: two digits for each byte and a terminating zero.
HexFits(n) == 2 * n + 1 <= StrSize

InhFits(len) ==
  \A n \in {len.sw, len.hw, len.ad, len.user} : HexFits(Announced(n))

\* An overrun of the buffer on the stack may be fatal or not.
Show(fits, lines) ==
  IF fits THEN /\ printed' = "whole"
               /\ sizes' = HeaderSizes \o lines
          ELSE /\ printed' = "overrun"
               /\ sizes' = <<>>

\* The length bytes: a constructor computed them, or the decoder read them.
MadeLen(m) == [sw |-> m.sw_len, hw |-> m.hw_len, ad |-> m.ad_len, user |-> m.user_len]
ReadLen(m) == [sw |-> Len(m.sw), hw |-> Len(m.hw), ad |-> Len(m.ad), user |-> Len(m.user)]

PrintMade ==
  /\ phase = "made"
  /\ printed = "no"
  /\ CASE msg.kind = "header"  -> Show(TRUE, <<>>)
       [] msg.kind = "inh"     -> LET len == MadeLen(msg) IN Show(InhFits(len), InhSizes(len))
       [] msg.kind = "inh_res" -> Show(TRUE, InhResSizes)
       [] msg.kind = "state"   -> Show(TRUE, StateSizes(msg.pos_num))
  /\ phase' \in {"made"} \union (IF printed' = "overrun" THEN {"crashed"} ELSE {})
  /\ UNCHANGED <<msg, buf, out>>

\* What on_unpack does first.  Where the constructor gave up, the length bytes
\* or the number of positions are not initialised, and the strings or the
\* positions are empty.
PrintReceived ==
  /\ phase = "unpacked"
  /\ CASE out.kind = "header"    -> Show(TRUE, <<>>)
       [] out.kind = "inh"       -> LET len == ReadLen(out) IN Show(InhFits(len), InhSizes(len))
       [] out.kind = "inh_res"   -> Show(TRUE, InhResSizes)
       [] out.kind = "state"     -> Show(TRUE, StateSizes(Len(out.pos)))
       [] out.kind = "truncated" -> Show(FALSE, <<>>)
  /\ phase' \in {"shown"} \union (IF printed' = "overrun" THEN {"crashed"} ELSE {})
  /\ UNCHANGED <<msg, buf, out>>

Next == Construct \/ PrintMade \/ Pack \/ Unpack \/ PrintReceived

Spec == Init /\ [][Next]_vars

-----------------------------------------------------------------------------
(* What the codec should do. *)

TypeOK ==
  /\ phase \in {"new", "made", "packed", "crashed", "unpacked", "shown"}
  /\ phase # "new" => msg.data_len \in Nat
  /\ msg.kind \in {"inh", "inh_res"} => msg.vid \in [1 .. VidSize -> Byte]
  /\ buf # None /\ buf.kind = "inh" => buf.data \in Seq(Byte)
  /\ printed \in {"no", "whole", "overrun"}
  /\ sizes \in Seq(Nat)

\* What a message says: a string whose length byte is 0 is not sent.
Said(s, n) == IF n = 0 THEN <<>> ELSE s

Meaning(m) ==
  CASE m.kind = "header"  -> [kind |-> "header", body |-> m.body]
    [] m.kind = "inh"     -> [kind |-> "inh", vid |-> m.vid, sw |-> Said(m.sw, m.sw_len),
                              hw |-> Said(m.hw, m.hw_len), ad |-> Said(m.ad, m.ad_len),
                              quad |-> m.quad, user |-> Said(m.user, m.user_len)]
    [] m.kind = "inh_res" -> [kind |-> "inh_res", vid |-> m.vid, body |-> m.body]
    [] m.kind = "state"   -> [kind |-> "state", body |-> m.body, pos |-> m.pos]

\* Heartbeats, INH responses and states with up to 255 positions are received
\* as they were made, whatever the wrong data_len_ of a state with positions
\* (unless pack's overrun of its buffer is fatal).
RoundTrip ==
  /\ phase = "unpacked"
  /\ msg.kind # "inh"
  /\ msg.kind = "state" => Len(msg.pos) <= ByteMax
  => out = Meaning(msg)

\* An INH whose software and hardware version have the same length, as those
\* of the example have, is received without its fields shifting: only the
\* contents of the hardware and software-platform versions are wrong, and
\* they are right where they repeat the software version.
InhRoundTrip ==
  /\ phase = "unpacked"
  /\ msg.kind = "inh"
  /\ msg.sw_len = msg.hw_len
  => LET m == Meaning(msg) IN
     /\ out = [m EXCEPT !.hw = out.hw, !.ad = out.ad]
     /\ Len(out.hw) = msg.hw_len /\ Len(out.ad) = msg.ad_len
     /\ m.hw = m.sw => out.hw = m.hw
     /\ m.ad = m.sw => out.ad = m.ad

\* pack() reserves exactly what to_bytes writes, and announces it in the
\* header, for every message but a state with positions: the lengths the
\* constructors add up are those the encoders use.
DataLenExact ==
  /\ phase = "packed"
  /\ msg.kind = "state" => msg.pos = <<>>
  => DataSize(buf) = buf.data_len

\* Neither the sender nor the receiver overruns its buffers when it prints a
\* message whose strings fill at most half of them (127 bytes), provided that
\* the message reaches the receiver unshifted and untruncated.
PrintFits ==
  printed = "overrun" =>
    \/ msg.kind = "inh" /\ \E n \in {msg.sw_len, msg.hw_len, msg.ad_len, msg.user_len} :
                             2 * n >= StrSize
    \/ msg.kind = "inh" /\ msg.sw_len # msg.hw_len
    \/ msg.kind = "state" /\ Len(msg.pos) > ByteMax

\* The offset printed with each line, and after them all.
Offset(s) == LET off[i \in 0 .. Len(s)] == IF i = 0 THEN 0 ELSE off[i - 1] + s[i] IN off

\* The offsets that the sender prints are those at which pack() puts the
\* fields, and the receiver of an unshifted message prints the same.
PrintedOffsets ==
  /\ printed = "whole"
  /\ phase \in {"packed", "unpacked", "shown"}
  /\ phase = "shown" /\ msg.kind = "inh" => msg.sw_len = msg.hw_len
  => Offset(sizes)[Len(sizes)] = 16 + DataSize(buf)

\* The header's field for the length of the data segment holds it
\* (message.h:160 prints it as "数据段长度", length of the data segment).
DataLenIsLength == phase = "packed" => DataSize(buf) = buf.data_len

\* The byte before the hardware version is its length (veh2cloud_inh.h:224
\* prints it as "自动驾驶系统硬件版本号长度", length of the hardware version).
HwLenIsLength ==
  phase = "packed" /\ msg.kind = "inh"
    => buf.data[VidSize + 2 + msg.sw_len] = msg.hw_len

=============================================================================
