-------------------------- MODULE Patching_proofs --------------------------
(***************************************************************************)
(* Replacing an operand through its handle makes of the bytes of the       *)
(* instruction the bytes of the instruction with the new operand           *)
(* (OperandPatched), and binding a label fills in its displacement         *)
(* (LabelPatched).  The notion is PatchesAt(s, t, o, h, v): bytes t are s  *)
(* after value v is stored through a handle h for what is o bytes behind   *)
(* the start.  It is carried from a part of an instruction to the whole    *)
(* by what is before (PatchesBehind) and behind (PatchesBefore) the part.  *)
(***************************************************************************)
EXTENDS Operands_proofs, Encoding_proofs

(***************************************************************************)
(* The notion                                                              *)
(***************************************************************************)
\* Sequence t is s with data from index o + 1 on.
Sets(s, t, o, data) ==
  /\ Len(t) = Len(s) /\ o \in Nat /\ o + Len(data) <= Len(s)
  /\ \A j \in 1 .. Len(s) : t[j] = IF o < j /\ j <= o + Len(data) THEN data[j - o] ELSE s[j]

\* A byte in which the bits that h names are v.
Refilled(h, v, byte) == byte + (v - ((byte \div 2 ^ h.shift) % (h.mask + 1))) * 2 ^ h.shift

\* What Replace stores through h where the first byte was this.
StoredBytes(h, v, byte) ==
  IF h.kind = "bits" THEN <<Refilled(h, v, byte)>> ELSE LittleEndian(v, h.size)

\* Sequence t is s after value v is stored through a handle for what is o bytes in.
PatchesAt(s, t, o, h, v) ==
  /\ Sets(s, t, o, StoredBytes(h, v, s[o + 1]))
  /\ h.kind = "bits" => s[o + 1] \in ByteValue

\* The elements of a concatenation.
LEMMA Joined ==
  ASSUME NEW S, NEW u \in Seq(S), NEW s \in Seq(S)
  PROVE  /\ Len(u \o s) = Len(u) + Len(s)
         /\ \A j \in 1 .. Len(u) + Len(s) :
              (u \o s)[j] = IF j <= Len(u) THEN u[j] ELSE s[j - Len(u)]
BY ConcatProperties

\* What is set in a sequence is set in it with something before it.
LEMMA SetsBehind ==
  ASSUME NEW S, NEW u \in Seq(S), NEW s \in Seq(S), NEW t \in Seq(S), NEW o, NEW data \in Seq(S),
         Sets(s, t, o, data)
  PROVE  Sets(u \o s, u \o t, Len(u) + o, data)
<1>1. /\ Len(t) = Len(s) /\ o \in Nat /\ o + Len(data) <= Len(s)
      /\ \A j \in 1 .. Len(s) : t[j] = IF o < j /\ j <= o + Len(data) THEN data[j - o] ELSE s[j]
  BY DEF Sets
<1>2. Len(u) \in Nat /\ Len(s) \in Nat /\ Len(data) \in Nat
  OBVIOUS
<1> DEFINE us == u \o s
           ut == u \o t
           k == Len(u)
           n == Len(s)
           m == Len(data)
<1>3. /\ Len(us) = k + n /\ Len(ut) = k + n
      /\ \A j \in 1 .. k + n : /\ us[j] = IF j <= k THEN u[j] ELSE s[j - k]
                               /\ ut[j] = IF j <= k THEN u[j] ELSE t[j - k]
  BY <1>1, Joined
<1> HIDE DEF us, ut, k, n, m
<1>a. /\ k \in Nat /\ n \in Nat /\ m \in Nat /\ o \in Nat /\ o + m <= n
      /\ \A j \in 1 .. n : t[j] = IF o < j /\ j <= o + m THEN data[j - o] ELSE s[j]
  BY <1>1, <1>2 DEF k, n, m
<1>4. ASSUME NEW j \in 1 .. k + n
      PROVE  ut[j] = IF k + o < j /\ j <= k + o + m THEN data[j - (k + o)] ELSE us[j]
  <2>1. CASE j <= k
    BY <1>3, <1>a, <2>1
  <2>2. CASE ~(j <= k)
    <3>1. j - k \in 1 .. n /\ ut[j] = t[j - k] /\ us[j] = s[j - k]
      BY <1>3, <1>a, <2>2
    <3>2. /\ (k + o < j <=> o < j - k) /\ (j <= k + o + m <=> j - k <= o + m)
          /\ j - (k + o) = (j - k) - o
      BY <1>a
    <3>3. QED
      BY <1>a, <3>1, <3>2
  <2>3. QED
    BY <2>1, <2>2
<1>5. k + o \in Nat /\ k + o + m <= k + n
  BY <1>a
<1>6. QED
  BY <1>3, <1>4, <1>5 DEF Sets, us, ut, k, n, m

\* And with something behind it.
LEMMA SetsBefore ==
  ASSUME NEW S, NEW u \in Seq(S), NEW s \in Seq(S), NEW t \in Seq(S), NEW o, NEW data \in Seq(S),
         Sets(s, t, o, data)
  PROVE  Sets(s \o u, t \o u, o, data)
<1>1. /\ Len(t) = Len(s) /\ o \in Nat /\ o + Len(data) <= Len(s)
      /\ \A j \in 1 .. Len(s) : t[j] = IF o < j /\ j <= o + Len(data) THEN data[j - o] ELSE s[j]
  BY DEF Sets
<1>2. Len(u) \in Nat /\ Len(s) \in Nat /\ Len(data) \in Nat
  OBVIOUS
<1> DEFINE su == s \o u
           tu == t \o u
           k == Len(u)
           n == Len(s)
           m == Len(data)
<1>3. /\ Len(su) = n + k /\ Len(tu) = n + k
      /\ \A j \in 1 .. n + k : /\ su[j] = IF j <= n THEN s[j] ELSE u[j - n]
                               /\ tu[j] = IF j <= n THEN t[j] ELSE u[j - n]
  <2>1. /\ Len(su) = Len(s) + Len(u)
        /\ \A j \in 1 .. Len(s) + Len(u) : su[j] = IF j <= Len(s) THEN s[j] ELSE u[j - Len(s)]
    BY Joined
  <2>2. /\ Len(tu) = Len(t) + Len(u)
        /\ \A j \in 1 .. Len(t) + Len(u) : tu[j] = IF j <= Len(t) THEN t[j] ELSE u[j - Len(t)]
    BY Joined
  <2>3. QED
    BY <1>1, <2>1, <2>2
<1> HIDE DEF su, tu, k, n, m
<1>a. /\ k \in Nat /\ n \in Nat /\ m \in Nat /\ o \in Nat /\ o + m <= n
      /\ \A j \in 1 .. n : t[j] = IF o < j /\ j <= o + m THEN data[j - o] ELSE s[j]
  BY <1>1, <1>2 DEF k, n, m
<1>4. ASSUME NEW j \in 1 .. n + k
      PROVE  tu[j] = IF o < j /\ j <= o + m THEN data[j - o] ELSE su[j]
  <2>1. CASE j <= n
    <3>1. j \in 1 .. n /\ su[j] = s[j] /\ tu[j] = t[j]
      BY <1>3, <1>a, <2>1
    <3>2. QED
      BY <1>a, <3>1
  <2>2. CASE ~(j <= n)
    <3>1. tu[j] = su[j]
      BY <1>3, <2>2
    <3>2. ~(j <= o + m)
      BY <1>a, <2>2
    <3>3. QED
      BY <3>1, <3>2
  <2>3. QED
    BY <2>1, <2>2
<1>5. o + m <= n + k
  BY <1>a
<1>6. QED
  BY <1>3, <1>4, <1>5, <1>a DEF Sets, su, tu, k, n, m

\* A sequence replaced as a whole.
LEMMA SetsAll ==
  ASSUME NEW S, NEW s \in Seq(S), NEW t \in Seq(S), Len(t) = Len(s)
  PROVE  Sets(s, t, 0, t)
BY DEF Sets

\* A value for the bits, or the bytes, that h names.
Takes(h, v) ==
  \/ /\ h.kind = "bits"
     /\ \/ h.shift = 0 /\ h.mask = 7 /\ v \in 0 .. 7
        \/ h.shift = 3 /\ h.mask = 7 /\ v \in 0 .. 7
        \/ h.shift = 6 /\ h.mask = 3 /\ v \in 0 .. 3
  \/ h.kind = "bytes" /\ h.size \in Nat /\ v \in Int

\* What is stored is bytes.
LEMMA StoredType ==
  ASSUME NEW h, NEW v, NEW byte, Takes(h, v), h.kind = "bits" => byte \in ByteValue
  PROVE  /\ StoredBytes(h, v, byte) \in Seq(ByteValue)
         /\ Len(StoredBytes(h, v, byte)) = IF h.kind = "bits" THEN 1 ELSE h.size
<1>1. CASE h.kind = "bits"
  <2>1. Refilled(h, v, byte) \in ByteValue
    BY <1>1, BitField DEF Refilled, Takes
  <2>2. StoredBytes(h, v, byte) = <<Refilled(h, v, byte)>>
    BY <1>1 DEF StoredBytes
  <2> QED
    BY <1>1, <2>1, <2>2
<1>2. CASE h.kind # "bits"
  <2>1. StoredBytes(h, v, byte) = LittleEndian(v, h.size)
    BY <1>2 DEF StoredBytes
  <2>2. QED
    BY <1>2, <2>1, LittleEndianType DEF Takes
<1>3. QED
  BY <1>1, <1>2

\* The bytes of an instruction, and the holes that a label leaves.
Data == ByteValue \cup {Hole}

\* A patch of a part is one of the whole, with what is before the part,
LEMMA PatchesBehind ==
  ASSUME NEW u \in Seq(Data), NEW s \in Seq(Data), NEW t \in Seq(Data), NEW o,
         NEW h, NEW v, Takes(h, v), PatchesAt(s, t, o, h, v)
  PROVE  PatchesAt(u \o s, u \o t, Len(u) + o, h, v)
<1> DEFINE d == StoredBytes(h, v, s[o + 1])
           byte == s[o + 1]
<1>1. Sets(s, t, o, d) /\ (h.kind = "bits" => byte \in ByteValue)
  BY DEF PatchesAt
<1>2. /\ StoredBytes(h, v, byte) \in Seq(ByteValue)
      /\ Len(StoredBytes(h, v, byte)) = IF h.kind = "bits" THEN 1 ELSE h.size
  <2> HIDE DEF byte
  <2>1. QED
    BY <1>1, StoredType
<1>3. d \in Seq(Data)
  BY <1>2, BytesAreData DEF Data
<1>4. Sets(u \o s, u \o t, Len(u) + o, d)
  <2> HIDE DEF d
  <2>1. QED
    BY <1>1, <1>3, SetsBehind
<1>5. h.kind = "bits" => (u \o s)[Len(u) + o + 1] = byte
  <2> SUFFICES ASSUME h.kind = "bits" PROVE (u \o s)[Len(u) + o + 1] = byte
    OBVIOUS
  <2>1. o \in Nat /\ o + 1 <= Len(s) /\ Len(u) \in Nat /\ Len(s) \in Nat
    BY <1>1, <1>2 DEF Sets
  <2>2. Len(u) + o + 1 \in 1 .. Len(u) + Len(s) /\ ~(Len(u) + o + 1 <= Len(u))
        /\ Len(u) + o + 1 - Len(u) = o + 1
    BY <2>1
  <2>3. \A j \in 1 .. Len(u) + Len(s) :
              (u \o s)[j] = IF j <= Len(u) THEN u[j] ELSE s[j - Len(u)]
    BY Joined
  <2>4. QED
    BY <2>1, <2>2, <2>3
<1>6. d = StoredBytes(h, v, (u \o s)[Len(u) + o + 1])
  BY <1>5 DEF StoredBytes
<1>7. QED
  BY <1>1, <1>4, <1>5, <1>6 DEF PatchesAt

\* or behind it.
LEMMA PatchesBefore ==
  ASSUME NEW u \in Seq(Data), NEW s \in Seq(Data), NEW t \in Seq(Data), NEW o,
         NEW h, NEW v, Takes(h, v), PatchesAt(s, t, o, h, v)
  PROVE  PatchesAt(s \o u, t \o u, o, h, v)
<1> DEFINE d == StoredBytes(h, v, s[o + 1])
           byte == s[o + 1]
<1>1. Sets(s, t, o, d) /\ (h.kind = "bits" => byte \in ByteValue)
  BY DEF PatchesAt
<1>2. /\ StoredBytes(h, v, byte) \in Seq(ByteValue)
      /\ Len(StoredBytes(h, v, byte)) = IF h.kind = "bits" THEN 1 ELSE h.size
  <2> HIDE DEF byte
  <2>1. QED
    BY <1>1, StoredType
<1>3. d \in Seq(Data)
  BY <1>2, BytesAreData DEF Data
<1>4. Sets(s \o u, t \o u, o, d)
  <2> HIDE DEF d
  <2>1. QED
    BY <1>1, <1>3, SetsBefore
<1>5. h.kind = "bits" => (s \o u)[o + 1] = byte
  <2> SUFFICES ASSUME h.kind = "bits" PROVE (s \o u)[o + 1] = byte
    OBVIOUS
  <2>1. o \in Nat /\ o + 1 <= Len(s) /\ Len(u) \in Nat /\ Len(s) \in Nat
    BY <1>1, <1>2 DEF Sets
  <2>2. o + 1 \in 1 .. Len(s) + Len(u) /\ o + 1 <= Len(s)
    BY <2>1
  <2>3. \A j \in 1 .. Len(s) + Len(u) :
              (s \o u)[j] = IF j <= Len(s) THEN s[j] ELSE u[j - Len(s)]
    BY Joined
  <2>4. QED
    BY <2>2, <2>3
<1>6. d = StoredBytes(h, v, (s \o u)[o + 1])
  BY <1>5 DEF StoredBytes
<1>7. QED
  BY <1>1, <1>4, <1>5, <1>6 DEF PatchesAt

\* One byte is refilled, of which the handle names a field.
LEMMA PatchesByte ==
  ASSUME NEW h, NEW v, h.kind = "bits", NEW x \in ByteValue, NEW y \in ByteValue,
         y = Refilled(h, v, x)
  PROVE  PatchesAt(<<x>>, <<y>>, 0, h, v)
<1>1. <<x>>[0 + 1] = x /\ StoredBytes(h, v, x) = <<y>>
  BY DEF StoredBytes
<1>2. <<x>> \in Seq(Data) /\ <<y>> \in Seq(Data) /\ Len(<<y>>) = Len(<<x>>)
  BY DEF Data
<1>3. Sets(<<x>>, <<y>>, 0, <<y>>)
  BY <1>2, SetsAll
<1>4. QED
  BY <1>1, <1>3 DEF PatchesAt

\* An integer is replaced.
LEMMA PatchesInt ==
  ASSUME NEW at, NEW n \in Nat, NEW v \in Int, NEW w \in Int
  PROVE  PatchesAt(LittleEndian(w, n), LittleEndian(v, n), 0, Bytes(at, n), v)
<1> DEFINE s == LittleEndian(w, n)
           t == LittleEndian(v, n)
<1>1. s \in Seq(ByteValue) /\ Len(s) = n /\ t \in Seq(ByteValue) /\ Len(t) = n
  BY LittleEndianType
<1>2. \A byte : StoredBytes(Bytes(at, n), v, byte) = t
  BY DEF StoredBytes, Bytes
<1> HIDE DEF s, t
<1>3. Sets(s, t, 0, t)
  BY <1>1, SetsAll
<1>4. Bytes(at, n).kind = "bytes"
  BY DEF Bytes
<1>5. QED
  BY <1>2, <1>3, <1>4 DEF PatchesAt, s, t

\* The fields of ModRM and of SIB.
LEMMA FieldRefilled ==
  ASSUME NEW at, NEW x \in 0 .. 3, NEW y \in 0 .. 7, NEW z \in 0 .. 7, NEW v,
         NEW byte, byte = x * 64 + y * 8 + z
  PROVE  /\ v \in 0 .. 7 => Refilled(RegBits(at, 0), v, byte) = x * 64 + y * 8 + v
         /\ v \in 0 .. 7 => Refilled(RegBits(at, 3), v, byte) = x * 64 + v * 8 + z
         /\ v \in 0 .. 3 => Refilled(Bits(at, 6, 3), v, byte) = v * 64 + y * 8 + z
<1>1. 2 ^ 0 = 1 /\ 2 ^ 3 = 8 /\ 2 ^ 6 = 64
  OBVIOUS
<1>2. (byte \div 1) % 8 = z /\ (byte \div 8) % 8 = y /\ (byte \div 64) % 4 = x
  OBVIOUS
<1>3. byte \in Int
  OBVIOUS
<1>4. /\ Refilled(RegBits(at, 0), v, byte) = byte + (v - ((byte \div 1) % 8)) * 1
      /\ Refilled(RegBits(at, 3), v, byte) = byte + (v - ((byte \div 8) % 8)) * 8
      /\ Refilled(Bits(at, 6, 3), v, byte) = byte + (v - ((byte \div 64) % 4)) * 64
  BY <1>1 DEF Refilled, RegBits, Bits
<1>5. /\ v \in 0 .. 7 => byte + (v - z) * 1 = x * 64 + y * 8 + v
      /\ v \in 0 .. 7 => byte + (v - y) * 8 = x * 64 + v * 8 + z
      /\ v \in 0 .. 3 => byte + (v - x) * 64 = v * 64 + y * 8 + z
  OBVIOUS
<1>6. QED
  BY <1>2, <1>4, <1>5

(***************************************************************************)
(* Memory operands                                                         *)
(***************************************************************************)
\* Memory operand m2 is m, but for one field, which is v.
Changed(m, m2, field, v) ==
  /\ m2.mode = m.mode /\ m2.seg = m.seg
  /\ m2.base = IF field = "base" THEN v ELSE m.base
  /\ m2.index = IF field = "index" THEN v ELSE m.index
  /\ m2.scale = IF field = "scale" THEN v ELSE m.scale
  /\ m2.offset = IF field = "offset" THEN v ELSE m.offset

\* The new base does not need a SIB byte that is not there.
Encodes(m, field, v) == field = "base" /\ m.mode # "BASE_INDEX_OFFSET" => v # ESP

\* What a replaced operand has in common with the one before.
LEMMA ChangedShape ==
  ASSUME NEW m, IsMem(m, Reg), NEW m2, NEW field \in ReplaceableParts(m), NEW v, Admits(field, v),
         Changed(m, m2, field, v), Encodes(m, field, v), NEW n \in {1, 4}
  PROVE  /\ IsMem(m2, Reg) /\ (HasSIB(m2) <=> HasSIB(m)) /\ (EspBase(m2) /\ ~HasSIB(m) <=> EspBase(m) /\ ~HasSIB(m))
         /\ ReplaceableParts(m2) = ReplaceableParts(m)
         /\ DispLength(m2, n) = DispLength(m, n) /\ ModOf(m2, n) = ModOf(m, n)
         /\ field \in {"base", "index", "scale", "offset"}
         /\ field = "base" => m.mode \in WithBase /\ m.base # None /\ ~(EspBase(m) /\ ~HasSIB(m))
         /\ field \in {"index", "scale"} => HasSIB(m)
         /\ field # "base" \/ HasSIB(m) => RmOf(m2) = RmOf(m)
         /\ field = "base" /\ ~HasSIB(m) => RmOf(m) = m.base /\ RmOf(m2) = v
<1>1. /\ m.mode \in {"OFFSET", "BASE", "BASE_OFFSET", "INDEX_OFFSET", "BASE_INDEX",
                     "BASE_INDEX_OFFSET"}
      /\ m2.mode = m.mode /\ (HasSIB(m2) <=> HasSIB(m))
  BY DEF IsMem, Changed, HasSIB, WithIndexReg, WithBase
<1>2. /\ field \in {"base", "index", "scale", "offset"}
      /\ field = "base" => m.mode \in WithBase /\ m.base # None /\ ~(EspBase(m) /\ ~HasSIB(m))
                           /\ (m.mode # "BASE_INDEX_OFFSET" => ~EspBase(m))
      /\ field \in {"index", "scale"} => HasSIB(m)
  BY <1>1 DEF ReplaceableParts, IsMem, WithBase, WithIndexReg, HasSIB, EspBase, None, Reg
<1>3. v \in Int /\ (field \in {"base", "index"} => v \in Reg) /\ (field = "scale" => v \in 0 .. 3)
  BY <1>2 DEF Admits, Reg
<1>4. IsMem(m2, Reg)
  BY <1>1, <1>2, <1>3 DEF IsMem, Changed, HasSIB
<1>5. m.mode # "BASE_INDEX_OFFSET" => (EspBase(m2) <=> EspBase(m))
  BY <1>2 DEF EspBase, Changed, Encodes
<1>6. m.mode = "BASE_INDEX_OFFSET" => HasSIB(m)
  BY DEF HasSIB, WithIndexReg
<1>7. ReplaceableParts(m2) = ReplaceableParts(m)
  BY <1>1, <1>5 DEF ReplaceableParts
<1>8. DispLength(m2, n) = DispLength(m, n) /\ ModOf(m2, n) = ModOf(m, n)
  BY <1>1 DEF DispLength, ModOf
<1>9. /\ field # "base" \/ HasSIB(m) => RmOf(m2) = RmOf(m)
      /\ field = "base" /\ ~HasSIB(m) => RmOf(m) = m.base /\ RmOf(m2) = v
  BY <1>1, <1>2 DEF RmOf, Changed, WithBase
<1>10. QED
  BY <1>1, <1>2, <1>4, <1>5, <1>6, <1>7, <1>8, <1>9

\* The handles stay where they are.
LEMMA FieldsStay ==
  ASSUME NEW m, IsMem(m, Reg), NEW m2, NEW field \in ReplaceableParts(m), NEW v, Admits(field, v),
         Changed(m, m2, field, v), Encodes(m, field, v), NEW n \in {1, 4}, NEW at
  PROVE  MemFields(m2, at, n) = MemFields(m, at, n)
<1>1. /\ HasSIB(m2) <=> HasSIB(m)
      /\ EspBase(m2) /\ ~HasSIB(m) <=> EspBase(m) /\ ~HasSIB(m)
      /\ ReplaceableParts(m2) = ReplaceableParts(m)
      /\ DispLength(m2, n) = DispLength(m, n)
  BY ChangedShape
<1>2. Len(SIBBytes(m2)) = Len(SIBBytes(m))
  BY <1>1 DEF SIBBytes
<1> DEFINE Of(u, part) ==
             CASE part = "base" -> RegBits(IF HasSIB(u) THEN at + 1 ELSE at, 0)
               [] part = "index" -> RegBits(at + 1, 3)
               [] part = "scale" -> Bits(at + 1, 6, 3)
               [] part = "offset" -> Bytes(at + 1 + Len(SIBBytes(u)), DispLength(u, n))
<1>3. /\ MemFields(m, at, n) = [part \in ReplaceableParts(m) |-> Of(m, part)]
      /\ MemFields(m2, at, n) = [part \in ReplaceableParts(m2) |-> Of(m2, part)]
  BY DEF MemFields
<1>4. (IF HasSIB(m2) THEN at + 1 ELSE at) = (IF HasSIB(m) THEN at + 1 ELSE at)
  BY <1>1
<1>5. \A part : Of(m2, part) = Of(m, part)
  BY <1>1, <1>2, <1>4
<1> HIDE DEF Of
<1>6. QED
  BY <1>1, <1>3, <1>5

\* The bytes of a memory operand after the replacement of a part of it are those of
\* the operand with the new part.
LEMMA MemPatched ==
  ASSUME NEW m, IsMem(m, Reg), NEW m2, NEW field \in ReplaceableParts(m), NEW v, Admits(field, v),
         Changed(m, m2, field, v), Encodes(m, field, v), NEW n \in {1, 4}, NEW at \in Nat,
         NEW reg \in 0 .. 7
  PROVE  LET h == MemFields(m, at, n)[field]
         IN /\ Takes(h, v)
            /\ \E o \in Nat : h.at = at + o
                              /\ PatchesAt(MemBytes(m, reg, n), MemBytes(m2, reg, n), o, h, v)
<1> DEFINE h == MemFields(m, at, n)[field]
           sib == at + 1
           x == ModRegRm(ModOf(m, n), reg, RmOf(m))
           y == ModRegRm(ModOf(m2, n), reg, RmOf(m2))
           s == SIBBytes(m)
           t == SIBBytes(m2)
           k == DispLength(m, n)
           p == LittleEndian(m.offset, k)
           q == LittleEndian(m2.offset, k)
<1>1. /\ IsMem(m2, Reg) /\ (HasSIB(m2) <=> HasSIB(m))
      /\ EspBase(m2) /\ ~HasSIB(m) <=> EspBase(m) /\ ~HasSIB(m)
      /\ DispLength(m2, n) = k /\ ModOf(m2, n) = ModOf(m, n)
      /\ field \in {"base", "index", "scale", "offset"}
      /\ field = "base" => m.mode \in WithBase /\ m.base # None /\ ~(EspBase(m) /\ ~HasSIB(m))
      /\ field \in {"index", "scale"} => HasSIB(m)
      /\ field # "base" \/ HasSIB(m) => RmOf(m2) = RmOf(m)
      /\ field = "base" /\ ~HasSIB(m) => RmOf(m) = m.base /\ RmOf(m2) = v
  BY ChangedShape
<1>2. h = CASE field = "base" -> RegBits(IF HasSIB(m) THEN sib ELSE at, 0)
            [] field = "index" -> RegBits(sib, 3)
            [] field = "scale" -> Bits(sib, 6, 3)
            [] field = "offset" -> Bytes(sib + Len(s), k)
  BY DEF MemFields
<1>3. /\ ModOf(m, n) \in 0 .. 2 /\ RmOf(m) \in 0 .. 7 /\ x \in ByteValue
      /\ s \in Seq(ByteValue) /\ Len(s) \in Nat /\ k \in Nat /\ p \in Seq(ByteValue)
  BY MemBytesShape
<1>4. y \in ByteValue /\ t \in Seq(ByteValue) /\ q \in Seq(ByteValue)
  BY <1>1, MemBytesShape
<1>5. MemBytes(m, reg, n) = <<x>> \o (s \o p) /\ MemBytes(m2, reg, n) = <<y>> \o (t \o q)
  BY <1>1 DEF MemBytes
<1>6. /\ m2.base = IF field = "base" THEN v ELSE m.base
      /\ m2.index = IF field = "index" THEN v ELSE m.index
      /\ m2.scale = IF field = "scale" THEN v ELSE m.scale
      /\ m2.offset = IF field = "offset" THEN v ELSE m.offset
  BY DEF Changed
<1>7. field # "offset" => q = p
  BY <1>6
<1>8. HasSIB(m) => /\ m.scale \in 0 .. 3 /\ m.index \in 0 .. 7
                   /\ (IF m.base = None THEN 5 ELSE m.base) \in 0 .. 7
  BY DEF IsMem, HasSIB, WithIndexReg, Reg, None
<1>9. field \in {"index", "scale", "base"} => v \in 0 .. 7
  BY DEF Admits
<1> HIDE DEF h, x, y, s, t, k, p, q
<1>d. /\ s \in Seq(Data) /\ t \in Seq(Data) /\ p \in Seq(Data) /\ q \in Seq(Data)
      /\ s \o p \in Seq(Data) /\ t \o p \in Seq(Data) /\ t \o q \in Seq(Data)
      /\ s \o q \in Seq(Data)
      /\ <<x>> \in Seq(Data) /\ <<y>> \in Seq(Data) /\ Len(<<x>>) = 1
  <2>1. /\ s \in Seq(Data) /\ t \in Seq(Data) /\ p \in Seq(Data) /\ q \in Seq(Data)
    BY <1>3, <1>4, BytesAreData DEF Data
  <2>2. x \in Data /\ y \in Data
    BY <1>3, <1>4 DEF Data
  <2>3. QED
    BY <2>1, <2>2, ConcatProperties
<1>10. CASE field = "base" /\ ~HasSIB(m)
  <2>1. h = RegBits(at, 0)
    BY <1>2, <1>10
  <2>2. s = <<>> /\ t = <<>>
    BY <1>1, <1>10 DEF s, t, SIBBytes
  <2>3. y = Refilled(h, v, x)
    <3>1. ModOf(m, n) \in 0 .. 3 /\ v \in 0 .. 7
      BY <1>3, <1>9, <1>10
    <3>2. x = ModOf(m, n) * 64 + reg * 8 + RmOf(m) /\ y = ModOf(m, n) * 64 + reg * 8 + v
      BY <1>1, <1>10 DEF x, y, ModRegRm
    <3>3. Refilled(RegBits(at, 0), v, x) = ModOf(m, n) * 64 + reg * 8 + v
      <4> DEFINE a == ModOf(m, n)
                 c == RmOf(m)
      <4>1. a \in 0 .. 3 /\ c \in 0 .. 7 /\ v \in 0 .. 7 /\ x = a * 64 + reg * 8 + c
        BY <1>3, <3>1, <3>2
      <4> HIDE DEF a, c
      <4>2. Refilled(RegBits(at, 0), v, x) = a * 64 + reg * 8 + v
        BY <4>1, FieldRefilled
      <4>3. QED
        BY <4>2 DEF a
    <3>4. QED
      BY <2>1, <3>2, <3>3
  <2>4. h.kind = "bits" /\ h.shift = 0 /\ h.mask = 7 /\ h.at = at
    BY <2>1 DEF RegBits, Bits
  <2>5. Takes(h, v)
    BY <1>9, <1>10, <2>4 DEF Takes
  <2>6. PatchesAt(<<x>>, <<y>>, 0, h, v)
    BY <1>3, <1>4, <2>3, <2>4, PatchesByte
  <2>7. PatchesAt(<<x>> \o (s \o p), <<y>> \o (s \o p), 0, h, v)
    BY <1>d, <2>5, <2>6, PatchesBefore
  <2>8. /\ 0 \in Nat /\ h.at = at + 0
        /\ PatchesAt(MemBytes(m, reg, n), MemBytes(m2, reg, n), 0, h, v)
    <3>1. MemBytes(m, reg, n) = <<x>> \o (s \o p) /\ MemBytes(m2, reg, n) = <<y>> \o (s \o p)
      BY <1>5, <1>7, <1>10, <2>2
    <3>2. h.at = at + 0
      BY <2>4
    <3>3. QED
      BY <2>7, <3>1, <3>2
  <2>9. QED
    BY <2>5, <2>8 DEF h
<1>11. CASE field = "index" \/ field = "scale" \/ (field = "base" /\ HasSIB(m))
  <2> DEFINE base == IF m.base = None THEN 5 ELSE m.base
             base2 == IF m2.base = None THEN 5 ELSE m2.base
             w == BuildSIB(m.scale, m.index, base)
             z == BuildSIB(m2.scale, m2.index, base2)
  <2>1. HasSIB(m) /\ s = <<w>> /\ t = <<z>>
    BY <1>1, <1>11 DEF s, t, SIBBytes
  <2>2. /\ h.kind = "bits" /\ h.at = at + 1 /\ Takes(h, v)
        /\ z = Refilled(h, v, w)
    <3>1. CASE field = "index"
      <4>1. h = RegBits(sib, 3)
        BY <1>2, <3>1
      <4>2. z = m.scale * 64 + v * 8 + base /\ w = m.scale * 64 + m.index * 8 + base
        BY <1>6, <3>1 DEF BuildSIB
      <4>3. z = Refilled(h, v, w)
        BY <1>8, <1>9, <2>1, <3>1, <4>1, <4>2, FieldRefilled
      <4>4. h.kind = "bits" /\ h.shift = 3 /\ h.mask = 7 /\ h.at = sib
        BY <4>1 DEF RegBits, Bits
      <4>5. QED
        BY <1>9, <3>1, <4>3, <4>4 DEF Takes
    <3>2. CASE field = "scale"
      <4>1. h = Bits(sib, 6, 3)
        BY <1>2, <3>2
      <4>2. z = v * 64 + m.index * 8 + base /\ w = m.scale * 64 + m.index * 8 + base
        BY <1>6, <3>2 DEF BuildSIB
      <4>a. v \in 0 .. 3
        BY <3>2 DEF Admits
      <4>b. m.scale \in 0 .. 3 /\ m.index \in 0 .. 7 /\ base \in 0 .. 7
        BY <1>8, <2>1
      <4> HIDE DEF base
      <4> HIDE DEF w
      <4>c. Refilled(Bits(sib, 6, 3), v, w) = v * 64 + m.index * 8 + base
        BY <4>2, <4>a, <4>b, FieldRefilled, SMTT(30)
      <4>3. z = Refilled(h, v, w)
        BY <4>1, <4>2, <4>c
      <4>4. h.kind = "bits" /\ h.shift = 6 /\ h.mask = 3 /\ h.at = sib
        BY <4>1 DEF Bits
      <4>5. QED
        BY <4>a, <4>3, <4>4 DEF Takes
    <3>3. CASE field = "base"
      <4>1. h = RegBits(sib, 0)
        BY <1>2, <2>1, <3>3
      <4>a. v \in 0 .. 7 /\ v # None
        BY <1>9, <3>3 DEF None
      <4>2. z = m.scale * 64 + m.index * 8 + v /\ w = m.scale * 64 + m.index * 8 + base
        BY <1>6, <3>3, <4>a DEF BuildSIB
      <4>b. m.scale \in 0 .. 3 /\ m.index \in 0 .. 7 /\ base \in 0 .. 7
        BY <1>8, <2>1
      <4> HIDE DEF base
      <4> HIDE DEF w
      <4>c. Refilled(RegBits(sib, 0), v, w) = m.scale * 64 + m.index * 8 + v
        BY <4>2, <4>a, <4>b, FieldRefilled, SMTT(30)
      <4>3. z = Refilled(h, v, w)
        BY <4>1, <4>2, <4>c
      <4>4. h.kind = "bits" /\ h.shift = 0 /\ h.mask = 7 /\ h.at = sib
        BY <4>1 DEF RegBits, Bits
      <4>5. QED
        BY <4>a, <4>3, <4>4 DEF Takes
    <3>4. QED
      BY <1>11, <3>1, <3>2, <3>3
  <2>3. w \in ByteValue /\ z \in ByteValue
    <3> HIDE DEF w, z
    <3>1. <<w>>[1] \in ByteValue /\ <<z>>[1] \in ByteValue
      BY <1>3, <1>4, <2>1
    <3>2. QED
      BY <3>1
  <2> HIDE DEF w, z, base, base2
  <2>4. PatchesAt(s, t, 0, h, v)
    BY <2>1, <2>2, <2>3, PatchesByte
  <2>5. PatchesAt(s \o p, t \o p, 0, h, v)
    BY <1>d, <2>2, <2>4, PatchesBefore
  <2>6. PatchesAt(<<x>> \o (s \o p), <<x>> \o (t \o p), 1 + 0, h, v)
    BY <1>d, <2>2, <2>5, PatchesBehind
  <2>7. x = y
    BY <1>1, <2>1 DEF x, y
  <2>8. /\ 1 \in Nat /\ h.at = at + 1
        /\ PatchesAt(MemBytes(m, reg, n), MemBytes(m2, reg, n), 1, h, v)
    BY <1>5, <1>7, <1>11, <2>2, <2>6, <2>7
  <2>9. QED
    BY <2>2, <2>8 DEF h
<1>12. CASE field = "offset"
  <2>1. h = Bytes(sib + Len(s), k)
    BY <1>2, <1>12
  <2>2. s = t /\ x = y
    BY <1>1, <1>6, <1>12 DEF s, t, x, y, SIBBytes, EspBase
  <2>3. m.offset \in Int /\ v \in Int /\ q = LittleEndian(v, k)
    BY <1>6, <1>12 DEF IsMem, Admits, q
  <2>4. PatchesAt(p, q, 0, h, v)
    BY <1>3, <2>1, <2>3, PatchesInt DEF p
  <2>5. h.kind = "bytes" /\ h.size = k /\ h.at = sib + Len(s)
    BY <2>1 DEF Bytes
  <2>6. Takes(h, v)
    BY <1>3, <2>3, <2>5 DEF Takes
  <2>7. PatchesAt(s \o p, s \o q, Len(s) + 0, h, v)
    BY <1>d, <2>4, <2>6, PatchesBehind
  <2>8. PatchesAt(<<x>> \o (s \o p), <<x>> \o (s \o q), 1 + (Len(s) + 0), h, v)
    BY <1>d, <2>6, <2>7, PatchesBehind
  <2> DEFINE o == 1 + (Len(s) + 0)
  <2>9. /\ o \in Nat /\ h.at = at + o
    BY <1>3, <2>5
  <2>10. PatchesAt(MemBytes(m, reg, n), MemBytes(m2, reg, n), o, h, v)
    BY <1>5, <2>2, <2>8
  <2> HIDE DEF o
  <2>11. QED
    BY <2>6, <2>9, <2>10 DEF h
<1>13. QED
  BY <1>1, <1>10, <1>11, <1>12

(***************************************************************************)
(* Instructions                                                            *)
(***************************************************************************)
\* Instruction g has the parts of f, of the same kinds and lengths.
SameShape(f, g, L) ==
  /\ g.args = f.args /\ g.rm.k = f.rm.k
  /\ f.rm.k = "mem" =>
       \A at : MemFields(g.rm.mem, at, L.disp) = MemFields(f.rm.mem, at, L.disp)
  /\ Len(g.bytes) = Len(f.bytes)
  /\ Len(HeadBytes(g, L)) = Len(HeadBytes(f, L)) /\ Len(FrontBytes(g, L)) = Len(FrontBytes(f, L))
  /\ DOMAIN g.tail = DOMAIN f.tail
  /\ \A i \in DOMAIN f.tail : g.tail[i].k = f.tail[i].k /\ g.tail[i].size = f.tail[i].size

\* The handles for a part, one by one.
LEMMA HandlesOf ==
  ASSUME NEW f, NEW part, NEW x, NEW y
  PROVE  /\ part = "rm" /\ f.rm.k = "reg" => Handles(f, part, x, y) = [reg |-> RegBits(x, 0)]
         /\ part = "reg" => Handles(f, part, x, y) = [reg |-> RegBits(x, 3)]
         /\ part = "opcode" => Handles(f, part, x, y) = [reg |-> RegBits(Minus(y, 1), 0)]
         /\ part = "imm" => Handles(f, part, x, y) = [imm |-> Bytes(y, f.tail[1].size)]
         /\ part = "imm2" =>
              Handles(f, part, x, y) = [imm |-> Bytes(y + f.tail[1].size, f.tail[2].size)]
         /\ part = "label" => Handles(f, part, x, y) = [label |-> y]
         /\ part = "none" => Handles(f, part, x, y) = NoHandles
<1>1. CASE part = "rm" /\ f.rm.k = "reg"
  BY <1>1 DEF Handles
<1>2. CASE part = "reg"
  BY <1>2 DEF Handles
<1>3. CASE part = "opcode"
  BY <1>3 DEF Handles
<1>4. CASE part = "imm"
  BY <1>4 DEF Handles
<1>5. CASE part = "imm2"
  BY <1>5 DEF Handles
<1>6. CASE part = "label"
  BY <1>6 DEF Handles
<1>7. CASE part = "none"
  BY <1>7 DEF Handles
<1>8. QED
  BY <1>1, <1>2, <1>3, <1>4, <1>5, <1>6, <1>7

\* Then it has the same handles.
LEMMA SameFields ==
  ASSUME NEW f, IsInstruction(f), NEW g, NEW L, SameShape(f, g, L),
         NEW part, HasPart(f, part), NEW at
  PROVE  Fields(g, part, L, at) = Fields(f, part, L, at)
<1>1. /\ g.rm.k = f.rm.k
      /\ f.rm.k = "mem" =>
           \A q : MemFields(g.rm.mem, q, L.disp) = MemFields(f.rm.mem, q, L.disp)
      /\ Len(HeadBytes(g, L)) = Len(HeadBytes(f, L))
      /\ Len(FrontBytes(g, L)) = Len(FrontBytes(f, L))
      /\ \A i \in DOMAIN f.tail : g.tail[i].size = f.tail[i].size
  BY DEF SameShape
<1>2. CASE part = "rm" /\ f.rm.k = "mem"
  BY <1>1, <1>2 DEF Fields
<1>3. CASE ~(part = "rm" /\ f.rm.k = "mem")
  <2>1. /\ part \in {"imm", "imm2"} => 1 \in DOMAIN f.tail \/ 2 \in DOMAIN f.tail
        /\ part = "imm" => 1 \in DOMAIN f.tail
        /\ part = "imm2" => 2 \in DOMAIN f.tail
    BY DEF HasPart
  <2>a. part = "imm2" => 1 \in DOMAIN f.tail
    BY <2>1 DEF IsInstruction, IsTail
  <2> DEFINE x == at + Len(HeadBytes(f, L))
             y == at + Len(FrontBytes(f, L))
  <2>2. Fields(f, part, L, at) = Handles(f, part, x, y) /\ Fields(g, part, L, at) = Handles(g, part, x, y)
    BY <1>1, <1>3 DEF Fields
  <2> HIDE DEF x, y
  <2>3. \/ part = "rm" /\ f.rm.k = "reg" /\ g.rm.k = "reg"
        \/ part \in {"reg", "opcode", "imm", "imm2", "label", "none"}
    BY <1>1, <1>3 DEF HasPart
  <2>4. /\ part \in {"imm", "imm2"} => g.tail[1].size = f.tail[1].size
        /\ part = "imm2" => g.tail[2].size = f.tail[2].size
    BY <1>1, <2>1, <2>a
  <2>10. Handles(g, part, x, y) = Handles(f, part, x, y)
    BY <2>3, <2>4, HandlesOf
  <2>11. QED
    BY <2>2, <2>10
<1>4. QED
  BY <1>2, <1>3

\* And is an instruction.
LEMMA SameParts ==
  ASSUME NEW f, IsInstruction(f), NEW g, NEW L, SameShape(f, g, L),
         g.bytes \in Seq(ByteValue), g.reg \in 0 .. 7,
         g.rm.k = "reg" => g.rm.reg \in Reg, g.rm.k = "mem" => IsMem(g.rm.mem, Reg),
         \A i \in DOMAIN g.tail : IsPart(g.tail[i])
  PROVE  IsInstruction(g)
<1>1. /\ g.args = f.args /\ g.rm.k = f.rm.k
      /\ Len(g.bytes) = Len(f.bytes) /\ DOMAIN g.tail = DOMAIN f.tail
      /\ \A i \in DOMAIN f.tail : g.tail[i].k = f.tail[i].k
  BY DEF SameShape
<1>2. IsTail(g.tail)
  BY <1>1 DEF IsInstruction, IsTail
<1>3. ASSUME NEW part, HasPart(f, part)
      PROVE  HasPart(g, part)
  <2>1. f.bytes # <<>> => g.bytes # <<>>
    BY <1>1 DEF IsInstruction
  <2>2. CASE part \in {"rm", "reg"}
    BY <1>1, <1>3, <2>2 DEF HasPart
  <2>3. CASE part = "opcode"
    BY <1>1, <1>3, <2>1, <2>3 DEF HasPart
  <2>4. CASE part = "imm"
    BY <1>1, <1>3, <2>4 DEF HasPart
  <2>5. CASE part = "imm2"
    BY <1>1, <1>3, <2>5 DEF HasPart
  <2>6. CASE part = "label"
    BY <1>1, <1>3, <2>6 DEF HasPart
  <2>7. CASE part \notin {"rm", "reg", "opcode", "imm", "imm2", "label"}
    BY <1>3, <2>7 DEF HasPart
  <2>8. QED
    BY <2>2, <2>3, <2>4, <2>5, <2>6, <2>7
<1>4. \A i \in DOMAIN g.args : HasPart(g, g.args[i])
  BY <1>1, <1>3 DEF IsInstruction
<1>5. QED
  BY <1>1, <1>2, <1>4 DEF IsInstruction

\* The tail of g is that of f.
SameTail(f, g) ==
  DOMAIN g.tail = DOMAIN f.tail /\ \A i \in DOMAIN f.tail : g.tail[i] = f.tail[i]

\* So are its bytes.
LEMMA SameTailBytes ==
  ASSUME NEW f, NEW g, SameTail(f, g), NEW p, NEW to
  PROVE  TailBytes(g, p, to) = TailBytes(f, p, to)
BY DEF SameTail, TailBytes

\* A patch of what precedes the tail is one of the instruction.
LEMMA FrontPatched ==
  ASSUME NEW f, IsInstruction(f), NEW g, IsInstruction(g), SameTail(f, g), NEW L \in Layouts,
         NEW p \in Int, NEW to \in Ptr \cup {None}, NEW o, NEW h, NEW v, Takes(h, v),
         PatchesAt(FrontBytes(f, L), FrontBytes(g, L), o, h, v)
  PROVE  PatchesAt(FormBytes(f, L, p, to), FormBytes(g, L, p, to), o, h, v)
<1> DEFINE s == FrontBytes(f, L)
           t == FrontBytes(g, L)
           u == TailBytes(f, Plus(p, Len(s)), to)
<1>1. s \in Seq(ByteValue) /\ t \in Seq(ByteValue)
  BY FormShape
<1>2. Len(t) = Len(s)
  BY DEF PatchesAt, Sets
<1>3. FormBytes(f, L, p, to) = s \o u
  BY DEF FormBytes
<1>4. FormBytes(g, L, p, to) = t \o u
  <2>1. FormBytes(g, L, p, to) = t \o TailBytes(g, Plus(p, Len(t)), to)
    BY DEF FormBytes
  <2>2. TailBytes(g, Plus(p, Len(t)), to) = u
    BY <1>2, SameTailBytes
  <2>3. QED
    BY <2>1, <2>2
<1>5. u \in Seq(Data)
  <2>1. Len(s) \in Nat
    BY <1>1
  <2> HIDE DEF s
  <2>2. Plus(p, Len(s)) \in Int
    BY <2>1, BlockAssumption DEF Plus, Wrap
  <2>3. QED
    BY <2>2, TailBytesType DEF IsInstruction, Data
<1>6. s \in Seq(Data) /\ t \in Seq(Data)
  BY <1>1, BytesAreData DEF Data
<1>7. PatchesAt(s \o u, t \o u, o, h, v)
  <2> HIDE DEF s, t, u
  <2>1. QED
    BY <1>5, <1>6, PatchesBefore DEF s, t
<1>8. QED
  BY <1>3, <1>4, <1>7

\* So is one of ModRM and what belongs to it.
LEMMA RmPatched ==
  ASSUME NEW f, IsInstruction(f), NEW g, IsInstruction(g), SameTail(f, g), NEW L \in Layouts,
         HeadBytes(g, L) = HeadBytes(f, L),
         NEW p \in Int, NEW to \in Ptr \cup {None}, NEW o, NEW h, NEW v, Takes(h, v),
         PatchesAt(RmBytes(f, L), RmBytes(g, L), o, h, v)
  PROVE  PatchesAt(FormBytes(f, L, p, to), FormBytes(g, L, p, to), Len(HeadBytes(f, L)) + o, h, v)
<1>1. /\ HeadBytes(f, L) \in Seq(Data) /\ RmBytes(f, L) \in Seq(Data) /\ RmBytes(g, L) \in Seq(Data)
  BY FormShape, BytesAreData DEF Data
<1>2. PatchesAt(HeadBytes(f, L) \o RmBytes(f, L), HeadBytes(f, L) \o RmBytes(g, L),
                Len(HeadBytes(f, L)) + o, h, v)
  BY <1>1, PatchesBehind
<1>3. PatchesAt(FrontBytes(f, L), FrontBytes(g, L), Len(HeadBytes(f, L)) + o, h, v)
  BY <1>2 DEF FrontBytes
<1>4. QED
  BY <1>3, FrontPatched

\* What the replacement of an operand through handle h does: the instruction is one in the
\* same layout, with the same handles, and its bytes are the old ones after the patch.
Patched(f, g, L, at, p, to, h, v) ==
  /\ IsInstruction(g) /\ Suits(L, g) /\ g.args = f.args
  /\ \A part : HasPart(f, part) => Fields(g, part, L, at) = Fields(f, part, L, at)
  /\ Takes(h, v)
  /\ \E o \in Nat : /\ h.at = at + o
                    /\ PatchesAt(FormBytes(f, L, p, to), FormBytes(g, L, p, to), o, h, v)

(***************************************************************************)
(* Operands                                                                *)
(***************************************************************************)
\* A field of a memory operand is replaced.
LEMMA MemField ==
  ASSUME NEW m, NEW v
  PROVE  /\ [MemOp(m) EXCEPT !.mem.base = v] = MemOp([m EXCEPT !.base = v])
         /\ [MemOp(m) EXCEPT !.mem.index = v] = MemOp([m EXCEPT !.index = v])
         /\ [MemOp(m) EXCEPT !.mem.scale = v] = MemOp([m EXCEPT !.scale = v])
         /\ [MemOp(m) EXCEPT !.mem.offset = v] = MemOp([m EXCEPT !.offset = v])
         /\ [MemOp(m) EXCEPT !.mem.seg = v] = MemOp([m EXCEPT !.seg = v])
BY DEF MemOp

\* An operand with a field replaced.
LEMMA ReplacedOf ==
  ASSUME NEW op, IsOperand(op), NEW field, NEW v
  PROVE  /\ op.k = "reg" /\ field = "reg" => Replaced(op, field, v) = RegOp(op.size, v)
         /\ op.k = "imm" /\ field = "imm" => Replaced(op, field, v) = ImmOp(op.type, v)
         /\ op.k = "mem" /\ field \in {"base", "index", "scale", "offset"} =>
              /\ Replaced(op, field, v).k = "mem" /\ IsOperand(Replaced(op, field, v))
              /\ Changed(op.mem, Replaced(op, field, v).mem, field, v)
<1>1. ASSUME op.k = "reg", field = "reg"
      PROVE  Replaced(op, field, v) = RegOp(op.size, v)
  <2>1. op = RegOp(op.size, op.reg)
    BY <1>1 DEF IsOperand
  <2>2. Replaced(op, field, v) = [op EXCEPT !.reg = v]
    BY <1>1 DEF Replaced
  <2> DEFINE size == op.size
             reg == op.reg
  <2>3. op = RegOp(size, reg)
    BY <2>1
  <2> HIDE DEF size, reg
  <2>4. [RegOp(size, reg) EXCEPT !.reg = v] = RegOp(size, v)
    BY DEF RegOp
  <2>5. QED
    BY <2>2, <2>3, <2>4 DEF size
<1>2. ASSUME op.k = "imm", field = "imm"
      PROVE  Replaced(op, field, v) = ImmOp(op.type, v)
  <2>1. op = ImmOp(op.type, op.value)
    BY <1>2 DEF IsOperand
  <2>2. Replaced(op, field, v) = [op EXCEPT !.value = v]
    BY <1>2 DEF Replaced
  <2> DEFINE type == op.type
             value == op.value
  <2>3. op = ImmOp(type, value)
    BY <2>1
  <2> HIDE DEF type, value
  <2>4. [ImmOp(type, value) EXCEPT !.value = v] = ImmOp(type, v)
    BY DEF ImmOp
  <2>5. QED
    BY <2>2, <2>3, <2>4 DEF type
<1>3. ASSUME op.k = "mem", field \in {"base", "index", "scale", "offset"}
      PROVE  /\ Replaced(op, field, v).k = "mem" /\ IsOperand(Replaced(op, field, v))
             /\ Changed(op.mem, Replaced(op, field, v).mem, field, v)
  <2> DEFINE a == op.mem.mode
             s == op.mem.seg
             b == op.mem.base
             i == op.mem.index
             c == op.mem.scale
             o == op.mem.offset
             m == Mem32(a, s, b, i, c, o)
             m2 == Mem32(a, s, IF field = "base" THEN v ELSE b, IF field = "index" THEN v ELSE i,
                         IF field = "scale" THEN v ELSE c, IF field = "offset" THEN v ELSE o)
  <2>1. op = MemOp(op.mem) /\ op.mem = Mem32(a, s, b, i, c, o)
    BY <1>3 DEF IsOperand
  <2> HIDE DEF a, s, b, i, c, o
  <2>2. op = MemOp(m)
    BY <2>1
  <2>3. Replaced(op, field, v) = MemOp(m2)
    <3>1. CASE field = "base"
      <4>1. Replaced(op, field, v) = [op EXCEPT !.mem.base = v]
        BY <3>1 DEF Replaced
      <4>2. [m EXCEPT !.base = v] = m2
        BY <3>1 DEF Mem32
      <4> HIDE DEF m, m2
      <4>3. [MemOp(m) EXCEPT !.mem.base = v] = MemOp([m EXCEPT !.base = v])
        BY MemField
      <4>4. QED
        BY <2>2, <4>1, <4>2, <4>3
    <3>2. CASE field = "index"
      <4>1. Replaced(op, field, v) = [op EXCEPT !.mem.index = v]
        BY <3>2 DEF Replaced
      <4>2. [m EXCEPT !.index = v] = m2
        BY <3>2 DEF Mem32
      <4> HIDE DEF m, m2
      <4>3. [MemOp(m) EXCEPT !.mem.index = v] = MemOp([m EXCEPT !.index = v])
        BY MemField
      <4>4. QED
        BY <2>2, <4>1, <4>2, <4>3
    <3>3. CASE field = "scale"
      <4>1. Replaced(op, field, v) = [op EXCEPT !.mem.scale = v]
        BY <3>3 DEF Replaced
      <4>2. [m EXCEPT !.scale = v] = m2
        BY <3>3 DEF Mem32
      <4> HIDE DEF m, m2
      <4>3. [MemOp(m) EXCEPT !.mem.scale = v] = MemOp([m EXCEPT !.scale = v])
        BY MemField
      <4>4. QED
        BY <2>2, <4>1, <4>2, <4>3
    <3>4. CASE field = "offset"
      <4>1. Replaced(op, field, v) = [op EXCEPT !.mem.offset = v]
        BY <3>4 DEF Replaced
      <4>2. [m EXCEPT !.offset = v] = m2
        BY <3>4 DEF Mem32
      <4> HIDE DEF m, m2
      <4>3. [MemOp(m) EXCEPT !.mem.offset = v] = MemOp([m EXCEPT !.offset = v])
        BY MemField
      <4>4. QED
        BY <2>2, <4>1, <4>2, <4>3
    <3>5. QED
      BY <1>3, <3>1, <3>2, <3>3, <3>4
  <2>4. op.mem = Mem32(a, s, b, i, c, o) /\ MemOp(m2).mem = m2 /\ MemOp(m2).k = "mem"
    BY <2>1 DEF MemOp
  <2>5. Changed(op.mem, m2, field, v)
    BY <2>4 DEF Changed, Mem32
  <2>6. m2 = Mem32(m2.mode, m2.seg, m2.base, m2.index, m2.scale, m2.offset)
    BY DEF Mem32
  <2> HIDE DEF m2
  <2>7. IsOperand(MemOp(m2))
    BY <2>4, <2>6 DEF IsOperand
  <2>8. QED
    BY <2>3, <2>4, <2>5, <2>7
<1>4. QED
  BY <1>1, <1>2, <1>3

\* An operand without its segment.
LEMMA NoSegmentOf ==
  ASSUME NEW op, IsOperand(op)
  PROVE  /\ op.k # "mem" => NoSegment(op) = op
         /\ op.k = "mem" =>
              /\ NoSegment(op).k = "mem" /\ NoSegment(op).mem.seg = None
              /\ \A field \in {"mode", "base", "index", "scale", "offset"} :
                   NoSegment(op).mem[field] = op.mem[field]
<1>1. CASE op.k = "mem"
  <2> DEFINE a == op.mem.mode
             s == op.mem.seg
             b == op.mem.base
             i == op.mem.index
             c == op.mem.scale
             o == op.mem.offset
             m == Mem32(a, s, b, i, c, o)
             m2 == Mem32(a, None, b, i, c, o)
  <2>1. op = MemOp(op.mem) /\ op.mem = m
    BY <1>1 DEF IsOperand
  <2> HIDE DEF a, s, b, i, c, o
  <2>2. [m EXCEPT !.seg = None] = m2
    BY DEF Mem32
  <2>3. NoSegment(op) = [op EXCEPT !.mem.seg = None]
    BY <1>1 DEF NoSegment
  <2>4. NoSegment(op) = MemOp(m2)
    <3> HIDE DEF m, m2
    <3>1. op = MemOp(m)
      BY <2>1
    <3>2. [MemOp(m) EXCEPT !.mem.seg = None] = MemOp([m EXCEPT !.seg = None])
      BY MemField
    <3>3. QED
      BY <2>2, <2>3, <3>1, <3>2
  <2>5. MemOp(m2).k = "mem" /\ MemOp(m2).mem = m2
    BY DEF MemOp
  <2>6. m2.seg = None /\ \A field \in {"mode", "base", "index", "scale", "offset"} :
                            m2[field] = m[field]
    BY DEF Mem32
  <2> HIDE DEF m, m2
  <2>7. QED
    BY <1>1, <2>1, <2>4, <2>5, <2>6
<1>2. CASE op.k # "mem"
  BY <1>2 DEF NoSegment
<1>3. QED
  BY <1>1, <1>2

(***************************************************************************)
(* The cases, by the part that the operand is                              *)
(***************************************************************************)
\* The memory operand of an instruction with a field of its operand replaced.
LEMMA MemOperandChanged ==
  ASSUME NEW f, NEW g, NEW x, IsOperand(x), NEW field, NEW v, f.rm.k = "mem", x.k = "mem",
         field \in {"base", "index", "scale", "offset"},
         Swapped(f, g, "rm", x, Replaced(x, field, v))
  PROVE  /\ g.rm.k = "mem" /\ Changed(f.rm.mem, g.rm.mem, field, v)
         /\ f.rm.mem.mode = x.mem.mode /\ f.rm.mem.base = x.mem.base
         /\ f.rm.mem.seg = x.mem.seg \/ f.rm.mem.seg = None
<1> DEFINE y == Replaced(x, field, v)
<1>1. y.k = "mem" /\ IsOperand(y) /\ Changed(x.mem, y.mem, field, v)
  BY ReplacedOf
<1>2. \/ f.rm = x /\ g.rm = y
      \/ f.rm = NoSegment(x) /\ g.rm = NoSegment(y)
  BY DEF Swapped
<1> HIDE DEF y
<1>3. CASE f.rm = x /\ g.rm = y
  BY <1>1, <1>3
<1>4. CASE f.rm = NoSegment(x) /\ g.rm = NoSegment(y)
  <2>1. /\ NoSegment(x).k = "mem" /\ NoSegment(x).mem.seg = None
        /\ \A part \in {"mode", "base", "index", "scale", "offset"} :
             NoSegment(x).mem[part] = x.mem[part]
    BY NoSegmentOf
  <2>2. /\ NoSegment(y).k = "mem" /\ NoSegment(y).mem.seg = None
        /\ \A part \in {"mode", "base", "index", "scale", "offset"} :
             NoSegment(y).mem[part] = y.mem[part]
    BY <1>1, NoSegmentOf
  <2>3. Changed(NoSegment(x).mem, NoSegment(y).mem, field, v)
    BY <1>1, <2>1, <2>2 DEF Changed
  <2>4. QED
    BY <1>4, <2>1, <2>2, <2>3
<1>5. QED
  BY <1>2, <1>3, <1>4

\* A part of a memory operand.
LEMMA MemOperandPatched ==
  ASSUME NEW f, IsInstruction(f), NEW g, NEW L \in Layouts, Suits(L, f), f.rm.k = "mem",
         NEW x, IsOperand(x), x.k = "mem", NEW field, NEW v,
         Swapped(f, g, "rm", x, Replaced(x, field, v)),
         NEW at \in Nat, NEW p \in Int, NEW to \in Ptr \cup {None},
         field \in DOMAIN Fields(f, "rm", L, at), NEW h, h = Fields(f, "rm", L, at)[field],
         Admits(field, v), field = "base" => ReplaceableBase(x.mem, v),
         field = "offset" => h.size = 4 \/ IsByteOffset(v)
  PROVE  Patched(f, g, L, at, p, to, h, v)
<1> DEFINE m == f.rm.mem
           m2 == g.rm.mem
           n == L.disp
           modRm == at + Len(HeadBytes(f, L))
<1>1. IsMem(m, Reg) /\ n \in {1, 4} /\ f.reg \in 0 .. 7
  BY DEF IsInstruction, Layouts
<1>2. Fields(f, "rm", L, at) = MemFields(m, modRm, n)
  BY DEF Fields
<1>3. field \in ReplaceableParts(m)
  BY <1>2 DEF MemFields
<1>4. field \in {"base", "index", "scale", "offset"}
  BY <1>1, <1>3 DEF ReplaceableParts, IsMem, WithBase, WithIndexReg
<1>5. /\ g.rm.k = "mem" /\ Changed(m, m2, field, v)
      /\ m.mode = x.mem.mode /\ m.base = x.mem.base
      /\ m.seg = x.mem.seg \/ m.seg = None
  BY <1>4, MemOperandChanged
<1>6. Encodes(m, field, v)
  BY <1>5 DEF Encodes, ReplaceableBase
<1>7. /\ g.args = f.args /\ g.bytes = f.bytes /\ g.reg = f.reg
      /\ DOMAIN g.tail = DOMAIN f.tail /\ \A i \in DOMAIN f.tail : g.tail[i] = f.tail[i]
  BY DEF Swapped
<1> HIDE DEF m, m2, n, modRm
<1>8. IsMem(m2, Reg) /\ DispLength(m2, n) = DispLength(m, n)
  BY <1>1, <1>3, <1>5, <1>6, ChangedShape
<1>9. Suits(L, g)
  <2>1. L.seg => m2.seg # None
    BY <1>5 DEF Suits, Changed, m
  <2>2. ~L.seg => ~CustomSegReg(m2)
    <3> SUFFICES ASSUME ~L.seg PROVE ~CustomSegReg(m2)
      OBVIOUS
    <3>1. ~CustomSegReg(m) /\ m2.seg = m.seg
      BY <1>5 DEF Suits, Changed, m
    <3>2. CASE m.seg = None
      BY <3>1, <3>2 DEF CustomSegReg
    <3>3. CASE m.seg # None /\ field # "base"
      BY <1>5, <3>1, <3>3 DEF CustomSegReg, Changed
    <3>4. CASE m.seg # None /\ field = "base"
      <4>1. m.seg = x.mem.seg /\ ~CustomSegReg(x.mem)
        BY <1>5, <3>1, <3>4 DEF CustomSegReg
      <4>2. SegRegFromBase(v) = SegRegFromBase(m.base)
        BY <1>5, <3>4, <4>1 DEF ReplaceableBase
      <4>3. m2.base = v /\ v # None
        BY <1>5, <3>4 DEF Changed, Admits, None
      <4>4. m.base # None
        BY <1>1, <1>3, <1>5, <1>6, <3>4, ChangedShape
      <4>5. QED
        BY <3>1, <3>4, <4>2, <4>3, <4>4 DEF CustomSegReg
    <3>5. QED
      BY <3>2, <3>3, <3>4
  <2>3. DispLength(m2, n) = 1 => ByteOffset(m2)
    <3> SUFFICES ASSUME DispLength(m2, n) = 1 PROVE ByteOffset(m2)
      OBVIOUS
    <3>1. CASE field # "offset"
      BY <1>5, <1>8, <3>1 DEF Suits, ByteOffset, Changed, m, n
    <3>2. CASE field = "offset"
      <4>1. h.size = DispLength(m, n)
        BY <1>2, <1>3, <3>2 DEF MemFields, Bytes
      <4>2. IsByteOffset(v) /\ m2.offset = v
        BY <1>5, <1>8, <3>2, <4>1 DEF Changed
      <4>3. QED
        BY <4>2 DEF ByteOffset
    <3>3. QED
      BY <3>1, <3>2
  <2>4. QED
    BY <2>1, <2>2, <2>3 DEF Suits, m2, n
<1>10. HeadBytes(g, L) = HeadBytes(f, L)
  BY <1>5, <1>7 DEF HeadBytes, SegReg, Changed, m, m2
<1>11. /\ RmBytes(f, L) = MemBytes(m, f.reg, n) /\ RmBytes(g, L) = MemBytes(m2, f.reg, n)
  BY <1>5, <1>7 DEF RmBytes, m, m2, n
<1>12. Len(RmBytes(g, L)) = Len(RmBytes(f, L)) /\ RmBytes(g, L) \in Seq(ByteValue)
  <2>1. /\ Len(MemBytes(m2, f.reg, n)) = Len(MemBytes(m, f.reg, n))
        /\ MemBytes(m2, f.reg, n) \in Seq(ByteValue)
    <3>1. HasSIB(m2) <=> HasSIB(m)
      BY <1>1, <1>3, <1>5, <1>6, ChangedShape
    <3>2. EspBase(m2) /\ ~HasSIB(m) <=> EspBase(m) /\ ~HasSIB(m)
      BY <1>1, <1>3, <1>5, <1>6, ChangedShape
    <3>3. Len(SIBBytes(m2)) = Len(SIBBytes(m))
      BY <3>1, <3>2 DEF SIBBytes
    <3>4. /\ Len(MemBytes(m, f.reg, n)) = 1 + (Len(SIBBytes(m)) + DispLength(m, n))
          /\ Len(MemBytes(m2, f.reg, n)) = 1 + (Len(SIBBytes(m2)) + DispLength(m2, n))
          /\ MemBytes(m2, f.reg, n) \in Seq(ByteValue)
      BY <1>1, <1>8, MemBytesShape
    <3>5. QED
      BY <1>8, <3>3, <3>4
  <2>2. QED
    BY <1>11, <2>1
<1>13. Len(FrontBytes(g, L)) = Len(FrontBytes(f, L))
  <2>1. HeadBytes(f, L) \in Seq(ByteValue) /\ RmBytes(f, L) \in Seq(ByteValue)
    BY FormShape, 0 \in Int, None \in Ptr \cup {None}
  <2>2. /\ Len(HeadBytes(f, L) \o RmBytes(f, L)) = Len(HeadBytes(f, L)) + Len(RmBytes(f, L))
        /\ Len(HeadBytes(f, L) \o RmBytes(g, L)) = Len(HeadBytes(f, L)) + Len(RmBytes(g, L))
    BY <1>12, <2>1, Joined
  <2>3. QED
    BY <1>10, <1>12, <2>2 DEF FrontBytes
<1>14. SameShape(f, g, L)
  <2>1. \A q : MemFields(m2, q, n) = MemFields(m, q, n)
    BY <1>1, <1>3, <1>5, <1>6, FieldsStay
  <2>2. QED
    BY <1>5, <1>7, <1>10, <1>13, <2>1 DEF SameShape, m, m2, n
<1>15. IsInstruction(g)
  <2>1. g.bytes \in Seq(ByteValue) /\ g.reg \in 0 .. 7 /\ \A i \in DOMAIN g.tail : IsPart(g.tail[i])
    BY <1>7 DEF IsInstruction, IsTail
  <2>2. g.rm.k = "reg" => g.rm.reg \in Reg
    BY <1>5
  <2>3. g.rm.k = "mem" => IsMem(g.rm.mem, Reg)
    BY <1>8 DEF m2
  <2>4. QED
    BY <1>14, <2>1, <2>2, <2>3, SameParts
<1>16. /\ Takes(h, v)
       /\ \E o \in Nat : h.at = modRm + o /\ PatchesAt(MemBytes(m, f.reg, n), MemBytes(m2, f.reg, n), o, h, v)
  <2>1. h = MemFields(m, modRm, n)[field]
    BY <1>2
  <2>2. modRm \in Nat
    <3>1. HeadBytes(f, L) \in Seq(ByteValue)
      BY FormShape
    <3>2. Len(HeadBytes(f, L)) \in Nat
      BY <3>1
    <3>3. QED
      BY <3>2 DEF modRm
  <2> DEFINE reg == f.reg
             s == MemBytes(m, reg, n)
             t == MemBytes(m2, reg, n)
  <2>3. reg \in 0 .. 7
    BY <1>1
  <2> HIDE DEF reg
  <2>4. /\ Takes(MemFields(m, modRm, n)[field], v)
        /\ \E o \in Nat : /\ MemFields(m, modRm, n)[field].at = modRm + o
                          /\ PatchesAt(s, t, o, MemFields(m, modRm, n)[field], v)
    BY <1>1, <1>3, <1>5, <1>6, <2>2, <2>3, MemPatched
  <2>5. QED
    BY <2>1, <2>4 DEF reg
<1>17. PICK o \in Nat : h.at = modRm + o /\ PatchesAt(RmBytes(f, L), RmBytes(g, L), o, h, v)
  BY <1>11, <1>16
<1>18. PatchesAt(FormBytes(f, L, p, to), FormBytes(g, L, p, to), Len(HeadBytes(f, L)) + o, h, v)
  BY <1>7, <1>10, <1>15, <1>16, <1>17, RmPatched DEF SameTail
<1>19. Len(HeadBytes(f, L)) + o \in Nat /\ h.at = at + (Len(HeadBytes(f, L)) + o)
  <2>1. HeadBytes(f, L) \in Seq(ByteValue)
    BY FormShape
  <2>2. Len(HeadBytes(f, L)) \in Nat
    BY <2>1
  <2>3. QED
    BY <1>17, <2>2 DEF modRm
<1>20. \A part : HasPart(f, part) => Fields(g, part, L, at) = Fields(f, part, L, at)
  BY <1>14, SameFields
<1>21. QED
  BY <1>7, <1>9, <1>15, <1>16, <1>18, <1>19, <1>20 DEF Patched

\* A register in ModRM.
LEMMA RegOperandPatched ==
  ASSUME NEW f, IsInstruction(f), NEW g, NEW L \in Layouts, Suits(L, f), NEW part,
         \/ part = "rm" /\ f.rm.k = "reg"
         \/ part = "reg" /\ f.rm.k \in {"reg", "mem"},
         NEW x, IsOperand(x), x.k = "reg", NEW v \in 0 .. 7,
         Swapped(f, g, part, x, RegOp(x.size, v)),
         NEW at \in Nat, NEW p \in Int, NEW to \in Ptr \cup {None},
         NEW h, h = Fields(f, part, L, at)["reg"]
  PROVE  Patched(f, g, L, at, p, to, h, v)
<1> DEFINE n == L.disp
           mod == IF f.rm.k = "mem" THEN ModOf(f.rm.mem, n) ELSE 3
           rm == IF f.rm.k = "mem" THEN RmOf(f.rm.mem) ELSE f.rm.reg
           rm2 == IF part = "rm" THEN v ELSE rm
           reg == f.reg
           reg2 == IF part = "rm" THEN reg ELSE v
           rest == IF f.rm.k = "mem"
                   THEN SIBBytes(f.rm.mem) \o LittleEndian(f.rm.mem.offset, DispLength(f.rm.mem, n))
                   ELSE <<>>
           modRm == at + Len(HeadBytes(f, L))
           y == RegOp(x.size, v)
           a == ModRegRm(mod, reg, rm)
           b == ModRegRm(mod, reg2, rm2)
<1>1. y.k = "reg" /\ y.reg = v
  BY DEF RegOp
<1>2. /\ g.args = f.args /\ g.bytes = f.bytes
      /\ DOMAIN g.tail = DOMAIN f.tail /\ \A i \in DOMAIN f.tail : g.tail[i] = f.tail[i]
  BY DEF Swapped
<1>3. /\ part = "rm" => g.rm = y /\ g.reg = f.reg
      /\ part = "reg" => g.rm = f.rm /\ g.reg = v
  <2>1. NoSegment(x) = x /\ NoSegment(y) = y
    BY <1>1 DEF NoSegment
  <2>2. QED
    BY <1>1, <2>1 DEF Swapped
<1>4. f.rm.k \in {"reg", "mem"} /\ g.rm.k = f.rm.k /\ (f.rm.k = "mem" => g.rm = f.rm)
  BY <1>1, <1>3
<1>5. f.rm.k = "mem" => IsMem(f.rm.mem, Reg)
  BY DEF IsInstruction
<1>6. n \in {1, 4}
  BY DEF Layouts
<1>7. mod \in 0 .. 3 /\ rm \in 0 .. 7 /\ rm2 \in 0 .. 7 /\ reg \in 0 .. 7 /\ reg2 \in 0 .. 7
  <2>1. CASE f.rm.k = "mem"
    <3>1. ModOf(f.rm.mem, n) \in 0 .. 2 /\ RmOf(f.rm.mem) \in 0 .. 7
      BY <1>5, <1>6, <2>1, MemBytesShape, 0 \in 0 .. 7
    <3>2. QED
      BY <2>1, <3>1 DEF IsInstruction
  <2>2. CASE f.rm.k = "reg"
    BY <2>2 DEF IsInstruction, Reg
  <2>3. QED
    BY <1>4, <2>1, <2>2
<1>8. rest \in Seq(Data)
  <2>1. CASE f.rm.k = "mem"
    <3>1. /\ SIBBytes(f.rm.mem) \in Seq(ByteValue)
          /\ LittleEndian(f.rm.mem.offset, DispLength(f.rm.mem, n)) \in Seq(ByteValue)
      BY <1>5, <1>6, <2>1, MemBytesShape, 0 \in 0 .. 7
    <3>2. QED
      BY <2>1, <3>1, BytesAreData, ConcatProperties DEF Data
  <2>2. CASE f.rm.k # "mem"
    BY <2>2
  <2>3. QED
    BY <2>1, <2>2
<1>9. RmBytes(f, L) = <<a>> \o rest /\ RmBytes(g, L) = <<b>> \o rest
  <2>1. CASE f.rm.k = "mem"
    <3>1. part = "reg"
      BY <2>1
    <3>2. RmBytes(f, L) = MemBytes(f.rm.mem, reg, n) /\ RmBytes(g, L) = MemBytes(f.rm.mem, reg2, n)
      BY <1>3, <1>4, <2>1, <3>1 DEF RmBytes
    <3>3. QED
      BY <2>1, <3>1, <3>2 DEF MemBytes
  <2>2. CASE f.rm.k = "reg"
    <3>1. /\ RmBytes(f, L) = <<ModRegRm(RegAddr, f.reg, f.rm.reg)>>
          /\ RmBytes(g, L) = <<ModRegRm(RegAddr, g.reg, g.rm.reg)>>
      BY <1>4, <2>2 DEF RmBytes
    <3>2. g.reg = reg2 /\ g.rm.reg = rm2
      BY <1>1, <1>3, <2>2
    <3>3. rest = <<>> /\ mod = RegAddr /\ rm = f.rm.reg
      BY <2>2 DEF RegAddr
    <3> HIDE DEF a, b, rest, mod, rm, rm2, reg2
    <3>4. <<a>> \o rest = <<a>> /\ <<b>> \o rest = <<b>>
      <4>1. <<a>> \in Seq({a}) /\ <<b>> \in Seq({b})
        OBVIOUS
      <4>2. QED
        BY <3>3, <4>1, ConcatEmptySeq
    <3>5. QED
      BY <3>1, <3>2, <3>3, <3>4 DEF a, b
  <2>3. QED
    BY <1>4, <2>1, <2>2
<1>10. /\ Fields(f, part, L, at) = [reg |-> RegBits(modRm, IF part = "rm" THEN 0 ELSE 3)]
  BY HandlesOf DEF Fields
<1>11. h = RegBits(modRm, IF part = "rm" THEN 0 ELSE 3)
  BY <1>10
<1> HIDE DEF n, mod, rm, rm2, reg, reg2, rest, modRm, y
<1>12. a = mod * 64 + reg * 8 + rm /\ b = mod * 64 + reg2 * 8 + rm2
  BY DEF ModRegRm
<1> HIDE DEF a, b
<1>13. a \in ByteValue /\ b \in ByteValue
  BY <1>7, <1>12 DEF ByteValue
<1>14. b = Refilled(h, v, a)
  <2>1. CASE part = "rm"
    <3>1. h = RegBits(modRm, 0) /\ rm2 = v /\ reg2 = reg
      BY <1>11, <2>1 DEF rm2, reg2
    <3>2. Refilled(RegBits(modRm, 0), v, a) = mod * 64 + reg * 8 + v
      BY <1>7, <1>12, FieldRefilled
    <3>3. QED
      BY <1>12, <3>1, <3>2
  <2>2. CASE part = "reg"
    <3>1. h = RegBits(modRm, 3) /\ rm2 = rm /\ reg2 = v
      BY <1>11, <2>2 DEF rm2, reg2
    <3>2. Refilled(RegBits(modRm, 3), v, a) = mod * 64 + v * 8 + rm
      BY <1>7, <1>12, FieldRefilled, SMTT(40)
    <3>3. QED
      BY <1>12, <3>1, <3>2
  <2>3. QED
    BY <2>1, <2>2
<1>15. h.kind = "bits" /\ h.mask = 7 /\ h.shift \in {0, 3} /\ h.at = modRm
  BY <1>11 DEF RegBits, Bits
<1>16. Takes(h, v)
  BY <1>15 DEF Takes
<1>17. PatchesAt(<<a>>, <<b>>, 0, h, v)
  BY <1>13, <1>14, <1>15, PatchesByte
<1>18. <<a>> \in Seq(Data) /\ <<b>> \in Seq(Data) /\ Len(<<a>>) = 1 /\ Len(<<b>>) = 1
  <2>1. a \in Data /\ b \in Data
    BY <1>13 DEF Data
  <2>2. QED
    BY <2>1
<1>19. PatchesAt(RmBytes(f, L), RmBytes(g, L), 0, h, v)
  BY <1>8, <1>9, <1>16, <1>17, <1>18, PatchesBefore
<1>20. HeadBytes(g, L) = HeadBytes(f, L)
  BY <1>2, <1>4 DEF HeadBytes
<1>21. Len(FrontBytes(g, L)) = Len(FrontBytes(f, L))
  <2>1. HeadBytes(f, L) \in Seq(Data)
    BY FormShape, 0 \in Int, None \in Ptr \cup {None}, BytesAreData DEF Data
  <2>2. RmBytes(f, L) \in Seq(Data) /\ RmBytes(g, L) \in Seq(Data)
    BY <1>8, <1>9, <1>18, ConcatProperties
  <2>3. Len(RmBytes(g, L)) = Len(RmBytes(f, L))
    BY <1>19 DEF PatchesAt, Sets
  <2>4. /\ Len(HeadBytes(f, L) \o RmBytes(f, L)) = Len(HeadBytes(f, L)) + Len(RmBytes(f, L))
        /\ Len(HeadBytes(f, L) \o RmBytes(g, L)) = Len(HeadBytes(f, L)) + Len(RmBytes(g, L))
    BY <2>1, <2>2, Joined
  <2>5. QED
    BY <1>20, <2>3, <2>4 DEF FrontBytes
<1>22. SameShape(f, g, L)
  BY <1>2, <1>4, <1>20, <1>21 DEF SameShape
<1>23. IsInstruction(g)
  <2>1. g.bytes \in Seq(ByteValue) /\ \A i \in DOMAIN g.tail : IsPart(g.tail[i])
    BY <1>2 DEF IsInstruction, IsTail
  <2>2. g.reg \in 0 .. 7
    BY <1>3 DEF IsInstruction
  <2>3. g.rm.k = "reg" => g.rm.reg \in Reg
    BY <1>1, <1>3, <1>4 DEF IsInstruction, Reg
  <2>4. g.rm.k = "mem" => IsMem(g.rm.mem, Reg)
    BY <1>4, <1>5
  <2>5. QED
    BY <1>22, <2>1, <2>2, <2>3, <2>4, SameParts
<1>24. Suits(L, g)
  BY <1>4 DEF Suits
<1>25. PatchesAt(FormBytes(f, L, p, to), FormBytes(g, L, p, to), Len(HeadBytes(f, L)) + 0, h, v)
  BY <1>2, <1>16, <1>19, <1>20, <1>23, RmPatched DEF SameTail
<1>26. Len(HeadBytes(f, L)) + 0 \in Nat /\ h.at = at + (Len(HeadBytes(f, L)) + 0)
  <2>1. HeadBytes(f, L) \in Seq(ByteValue)
    BY FormShape
  <2>2. Len(HeadBytes(f, L)) \in Nat
    BY <2>1
  <2>3. QED
    BY <1>15, <2>2 DEF modRm
<1>27. \A q : HasPart(f, q) => Fields(g, q, L, at) = Fields(f, q, L, at)
  BY <1>22, SameFields
<1>28. QED
  BY <1>2, <1>16, <1>23, <1>24, <1>25, <1>26, <1>27 DEF Patched

\* A register in the low bits of the opcode.
LEMMA OpcodeOperandPatched ==
  ASSUME NEW f, IsInstruction(f), NEW g, NEW L \in Layouts, Suits(L, f), HasPart(f, "opcode"),
         NEW x, IsOperand(x), x.k = "reg", NEW v \in 0 .. 7,
         Swapped(f, g, "opcode", x, RegOp(x.size, v)),
         NEW at \in Nat, NEW p \in Int, NEW to \in Ptr \cup {None},
         at + Len(FrontBytes(f, L)) < AddrSpace,
         NEW h, h = Fields(f, "opcode", L, at)["reg"]
  PROVE  Patched(f, g, L, at, p, to, h, v)
<1>1. /\ g.args = f.args /\ g.rm = f.rm /\ g.reg = f.reg
      /\ DOMAIN g.tail = DOMAIN f.tail /\ \A i \in DOMAIN f.tail : g.tail[i] = f.tail[i]
  BY DEF Swapped
<1>2. PICK s \in Seq(ByteValue), n \in Nat :
        n % 8 = 0 /\ f.bytes = Append(s, n + x.reg) /\ g.bytes = Append(s, n + RegOp(x.size, v).reg)
  BY DEF Swapped
<1> DEFINE a == n + x.reg
           b == n + v
           k == Len(s)
<1>3. g.bytes = Append(s, b) /\ f.bytes = Append(s, a)
  BY <1>2 DEF RegOp
<1>4. k \in Nat
  OBVIOUS
<1>5. x.reg \in 0 .. 7
  BY DEF IsOperand, Reg
<1>6. a \in ByteValue
  <2>1. f.bytes \in Seq(ByteValue)
    BY DEF IsInstruction
  <2>2. a \in Int
    BY <1>5
  <2> HIDE DEF a, k
  <2>3. s \in Seq(Int)
    <3>1. ByteValue \subseteq Int
      BY DEF ByteValue
    <3>2. s \in [1 .. Len(s) -> ByteValue]
      BY LenProperties
    <3>3. s \in [1 .. Len(s) -> Int]
      BY <3>1, <3>2
    <3>4. QED
      BY <3>3
  <2>4. Len(f.bytes) = k + 1 /\ f.bytes[k + 1] = a
    BY <1>3, <2>2, <2>3 DEF k
  <2>5. QED
    BY <1>4, <2>1, <2>4
<1>7. b \in ByteValue /\ a % 8 = x.reg
  <2> DEFINE r == x.reg
  <2>1. r \in 0 .. 7 /\ n + r \in 0 .. 255 /\ n % 8 = 0
    BY <1>2, <1>5, <1>6 DEF ByteValue
  <2> HIDE DEF r
  <2>2. n + v \in 0 .. 255 /\ (n + r) % 8 = r
    BY <2>1
  <2>3. QED
    BY <2>2 DEF r, ByteValue
<1> HIDE DEF k
<1>8. f.bytes = s \o <<a>> /\ g.bytes = s \o <<b>>
  <2> HIDE DEF a, b
  <2>1. Append(s, a) = s \o <<a>> /\ Append(s, b) = s \o <<b>>
    BY <1>6, <1>7, AppendProperties, ConcatProperties, AppendIsConcat
  <2>2. QED
    BY <1>3, <2>1
<1>9. f.rm.k \notin {"reg", "mem"}
  BY DEF HasPart
<1>10. <<a>> \in Seq(ByteValue) /\ <<b>> \in Seq(ByteValue) /\ Len(<<a>>) = 1 /\ Len(<<b>>) = 1
  BY <1>6, <1>7
<1>11. /\ f.bytes \in Seq(ByteValue) /\ g.bytes \in Seq(ByteValue)
       /\ Len(f.bytes) = k + 1 /\ Len(g.bytes) = k + 1
  <2> HIDE DEF a, b
  <2>1. /\ Len(s \o <<a>>) = Len(s) + Len(<<a>>) /\ Len(s \o <<b>>) = Len(s) + Len(<<b>>)
    BY <1>10, Joined
  <2>2. s \o <<a>> \in Seq(ByteValue) /\ s \o <<b>> \in Seq(ByteValue)
    BY <1>10, ConcatProperties
  <2>3. QED
    BY <1>8, <1>10, <2>1, <2>2 DEF k
<1>12. /\ FrontBytes(f, L) = f.bytes /\ FrontBytes(g, L) = g.bytes
       /\ HeadBytes(f, L) = f.bytes /\ HeadBytes(g, L) = g.bytes
  <2>1. /\ HeadBytes(f, L) = <<>> \o f.bytes /\ HeadBytes(g, L) = <<>> \o g.bytes
        /\ RmBytes(f, L) = <<>> /\ RmBytes(g, L) = <<>>
    BY <1>1, <1>9 DEF HeadBytes, RmBytes
  <2>2. <<>> \o f.bytes = f.bytes /\ <<>> \o g.bytes = g.bytes
        /\ f.bytes \o <<>> = f.bytes /\ g.bytes \o <<>> = g.bytes
    BY <1>11, ConcatEmptySeq
  <2>3. QED
    BY <2>1, <2>2 DEF FrontBytes
<1>13. h = RegBits(Minus(at + (k + 1), 1), 0)
  <2>1. Fields(f, "opcode", L, at) = [reg |-> RegBits(Minus(at + Len(FrontBytes(f, L)), 1), 0)]
    BY HandlesOf DEF Fields
  <2>2. QED
    BY <1>11, <1>12, <2>1
<1>14. h = RegBits(at + k, 0)
  <2>1. at + (k + 1) < AddrSpace
    BY <1>11, <1>12
  <2>2. (at + (k + 1)) - 1 = at + k /\ at + k >= 0 /\ at + k < AddrSpace
    BY <1>4, <2>1, BlockAssumption
  <2>3. Minus(at + (k + 1), 1) = at + k
    BY <1>4, <2>2, BlockAssumption DEF Minus, Wrap
  <2>4. QED
    BY <1>13, <2>3
<1>15. h.kind = "bits" /\ h.shift = 0 /\ h.mask = 7 /\ h.at = at + k
  BY <1>14 DEF RegBits, Bits
<1>16. Takes(h, v)
  BY <1>15 DEF Takes
<1>17. b = Refilled(h, v, a)
  <2>1. 2 ^ 0 = 1
    OBVIOUS
  <2>2. Refilled(h, v, a) = a + (v - ((a \div 1) % (7 + 1))) * 1
    BY <1>15, <2>1 DEF Refilled
  <2> DEFINE r == x.reg
  <2>3. a = n + r /\ b = n + v /\ r \in 0 .. 7 /\ a % 8 = r /\ a \in Int
    BY <1>5, <1>6, <1>7 DEF ByteValue
  <2> HIDE DEF r, a, b
  <2>4. (a \div 1) % (7 + 1) = r /\ a + (v - r) * 1 = b
    BY <2>3
  <2>5. QED
    BY <2>2, <2>4
<1> HIDE DEF a, b
<1>18. PatchesAt(<<a>>, <<b>>, 0, h, v)
  BY <1>6, <1>7, <1>15, <1>17, PatchesByte
<1>19. PatchesAt(s \o <<a>>, s \o <<b>>, k + 0, h, v)
  <2>1. s \in Seq(Data) /\ <<a>> \in Seq(Data) /\ <<b>> \in Seq(Data)
    BY <1>10, BytesAreData DEF Data
  <2>2. QED
    BY <1>16, <1>18, <2>1, PatchesBehind DEF k
<1>20. PatchesAt(FrontBytes(f, L), FrontBytes(g, L), k, h, v)
  <2>1. k + 0 = k
    BY <1>4
  <2>2. QED
    BY <1>8, <1>12, <1>19, <2>1
<1>21. SameShape(f, g, L)
  BY <1>1, <1>9, <1>11, <1>12 DEF SameShape
<1>22. IsInstruction(g)
  <2>1. g.reg \in 0 .. 7 /\ \A i \in DOMAIN g.tail : IsPart(g.tail[i])
    BY <1>1 DEF IsInstruction, IsTail
  <2>2. g.rm.k # "reg" /\ g.rm.k # "mem"
    BY <1>1, <1>9
  <2>3. QED
    BY <1>11, <1>21, <2>1, <2>2, SameParts
<1>23. Suits(L, g)
  BY <1>1, <1>9 DEF Suits
<1>24. PatchesAt(FormBytes(f, L, p, to), FormBytes(g, L, p, to), k, h, v)
  BY <1>1, <1>16, <1>20, <1>22, FrontPatched DEF SameTail
<1>25. \A q : HasPart(f, q) => Fields(g, q, L, at) = Fields(f, q, L, at)
  BY <1>21, SameFields
<1>26. QED
  BY <1>1, <1>4, <1>15, <1>16, <1>22, <1>23, <1>24, <1>25 DEF Patched

\* An immediate.
LEMMA ImmOperandPatched ==
  ASSUME NEW f, IsInstruction(f), NEW g, NEW L \in Layouts, Suits(L, f),
         NEW part \in {"imm", "imm2"}, HasPart(f, part),
         NEW x, NEW type, NEW v \in Int, Swapped(f, g, part, x, ImmOp(type, v)),
         NEW at \in Nat, NEW p \in Int, NEW to \in Ptr \cup {None},
         NEW h, h = Fields(f, part, L, at)["imm"]
  PROVE  Patched(f, g, L, at, p, to, h, v)
<1> DEFINE i == IF part = "imm" THEN 1 ELSE 2
           front == FrontBytes(f, L)
           q == Plus(p, Len(front))
           u1 == OnePart(f, 1, q, to)
           u2 == OnePart(f, 2, q, to)
           w1 == OnePart(g, 1, q, to)
           w2 == OnePart(g, 2, q, to)
           k == IF part = "imm" THEN 0 ELSE Len(u1)
<1>1. /\ g.args = f.args /\ g.rm = f.rm /\ g.reg = f.reg /\ g.bytes = f.bytes
      /\ DOMAIN g.tail = DOMAIN f.tail /\ \A j \in DOMAIN f.tail \ {i} : g.tail[j] = f.tail[j]
  BY DEF Swapped
<1>2. i \in DOMAIN f.tail
  BY DEF HasPart
<1>3. PICK n : f.tail[i] = ImmPart(x, n) /\ g.tail[i] = ImmPart(ImmOp(type, v), n)
  BY <1>2 DEF Swapped
<1>4. /\ f.tail[i].k = "imm" /\ f.tail[i].size = n /\ f.tail[i].value = x.value
      /\ g.tail[i].k = "imm" /\ g.tail[i].size = n /\ g.tail[i].value = v
  BY <1>3 DEF ImmPart, ImmOp
<1>5. n \in {1, 2, 4} /\ x.value \in Int
  BY <1>2, <1>4 DEF IsInstruction, IsTail, IsPart
<1>6. /\ HeadBytes(g, L) = HeadBytes(f, L) /\ RmBytes(g, L) = RmBytes(f, L)
      /\ FrontBytes(g, L) = front
  BY <1>1 DEF FrontBytes, HeadBytes, RmBytes
<1>7. SameShape(f, g, L)
  BY <1>1, <1>4, <1>6 DEF SameShape
<1>8. IsInstruction(g)
  <2>1. IsPart(g.tail[i])
    BY <1>4, <1>5 DEF IsPart
  <2>2. \A j \in DOMAIN g.tail : IsPart(g.tail[j])
    BY <1>1, <2>1 DEF IsInstruction, IsTail
  <2>3. /\ g.bytes \in Seq(ByteValue) /\ g.reg \in 0 .. 7
        /\ g.rm.k = "reg" => g.rm.reg \in Reg
        /\ g.rm.k = "mem" => IsMem(g.rm.mem, Reg)
    BY <1>1 DEF IsInstruction
  <2>4. QED
    BY <1>7, <2>2, <2>3, SameParts
<1>9. Suits(L, g)
  BY <1>1 DEF Suits
<1>10. front \in Seq(ByteValue)
  BY FormShape
<1> HIDE DEF front
<1>11. Len(front) \in Nat
  BY <1>10
<1>12. q \in Int
  BY <1>11, BlockAssumption DEF Plus, Wrap
<1> HIDE DEF q, u1, u2, w1, w2
<1>13. /\ FormBytes(f, L, p, to) = front \o TailBytes(f, q, to)
       /\ FormBytes(g, L, p, to) = front \o TailBytes(g, q, to)
  BY <1>6 DEF FormBytes, front, q
<1>14. /\ TailBytes(f, q, to) = u1 \o u2 /\ TailBytes(g, q, to) = w1 \o w2
       /\ u1 \in Seq(Data) /\ u2 \in Seq(Data) /\ w1 \in Seq(Data) /\ w2 \in Seq(Data)
       /\ Len(u1) = PartLength(f, 1)
  <2>1. IsTail(f.tail) /\ IsTail(g.tail)
    BY <1>8 DEF IsInstruction
  <2>2. /\ TailBytes(f, q, to) = OnePart(f, 1, q, to) \o OnePart(f, 2, q, to)
        /\ \A j \in {1, 2} : /\ OnePart(f, j, q, to) \in Seq(ByteValue \cup {Hole})
                             /\ Len(OnePart(f, j, q, to)) = PartLength(f, j)
    BY <1>12, <2>1, TailBytesType
  <2>3. /\ TailBytes(g, q, to) = OnePart(g, 1, q, to) \o OnePart(g, 2, q, to)
        /\ \A j \in {1, 2} : /\ OnePart(g, j, q, to) \in Seq(ByteValue \cup {Hole})
                             /\ Len(OnePart(g, j, q, to)) = PartLength(g, j)
    BY <1>12, <2>1, TailBytesType
  <2>4. QED
    BY <2>2, <2>3 DEF u1, u2, w1, w2, Data
<1>15. /\ part = "imm" => u1 = LittleEndian(x.value, n) /\ w1 = LittleEndian(v, n) /\ w2 = u2
       /\ part = "imm2" => u2 = LittleEndian(x.value, n) /\ w2 = LittleEndian(v, n) /\ w1 = u1
  <2>1. /\ OnePart(f, i, q, to) = LittleEndian(x.value, n)
        /\ OnePart(g, i, q, to) = LittleEndian(v, n)
    BY <1>1, <1>2, <1>4 DEF OnePart, PartBytes
  <2>2. \A j : j # i => OnePart(g, j, q, to) = OnePart(f, j, q, to)
    BY <1>1 DEF OnePart
  <2>3. QED
    BY <2>1, <2>2 DEF u1, u2, w1, w2
<1>16. /\ h.kind = "bytes" /\ h.size = n /\ h.at = at + (Len(front) + k)
       /\ \E e : h = Bytes(e, n)
  <2>1. CASE part = "imm"
    <3>1. Fields(f, part, L, at) = [imm |-> Bytes(at + Len(front), f.tail[1].size)]
      BY <2>1, HandlesOf DEF Fields, front
    <3>2. h = Bytes(at + Len(front), n)
      BY <1>4, <2>1, <3>1
    <3>3. Len(front) + 0 = Len(front) /\ k = 0
      BY <1>11, <2>1
    <3> HIDE DEF k
    <3>4. h.at = at + (Len(front) + k)
      BY <3>2, <3>3 DEF Bytes
    <3>5. h.kind = "bytes" /\ h.size = n
      BY <3>2 DEF Bytes
    <3>6. QED
      BY <3>2, <3>4, <3>5
  <2>2. CASE part = "imm2"
    <3>1. Fields(f, part, L, at) =
            [imm |-> Bytes(at + Len(front) + f.tail[1].size, f.tail[2].size)]
      BY <2>2, HandlesOf DEF Fields, front
    <3>2. 1 \in DOMAIN f.tail
      BY <1>2, <2>2 DEF IsInstruction, IsTail
    <3>3. f.tail[1].size = Len(u1) /\ f.tail[1].size \in Nat
      BY <1>14, <3>2, AddrBytesAssumption DEF PartLength, IsInstruction, IsTail, IsPart
    <3>4. h = Bytes(at + Len(front) + f.tail[1].size, n)
      BY <1>4, <2>2, <3>1
    <3> DEFINE l == Len(front)
               z == f.tail[1].size
    <3>5. l \in Nat /\ z \in Nat /\ k = z /\ h = Bytes(at + l + z, n)
      BY <1>11, <2>2, <3>3, <3>4
    <3> HIDE DEF k, l, z
    <3>6. at + l + z = at + (l + k)
      BY <3>5
    <3>7. h.kind = "bytes" /\ h.size = n /\ h.at = at + (l + k)
      BY <3>5, <3>6 DEF Bytes
    <3>8. QED
      BY <3>4, <3>7 DEF l
  <2>3. QED
    BY <2>1, <2>2
<1>17. Takes(h, v)
  BY <1>5, <1>16 DEF Takes
<1>18. PatchesAt(LittleEndian(x.value, n), LittleEndian(v, n), 0, h, v)
  <2>1. n \in Nat
    BY <1>5
  <2>2. QED
    BY <1>5, <1>16, <2>1, PatchesInt
<1>19. PatchesAt(u1 \o u2, w1 \o w2, k, h, v) /\ k \in Nat
  <2>1. CASE part = "imm"
    <3>1. PatchesAt(u1, w1, 0, h, v)
      BY <1>15, <1>18, <2>1
    <3>2. PatchesAt(u1 \o u2, w1 \o u2, 0, h, v)
      BY <1>14, <1>17, <3>1, PatchesBefore
    <3>3. QED
      BY <1>15, <2>1, <3>2
  <2>2. CASE part = "imm2"
    <3>1. PatchesAt(u2, w2, 0, h, v)
      BY <1>15, <1>18, <2>2
    <3>2. PatchesAt(u1 \o u2, u1 \o w2, Len(u1) + 0, h, v)
      BY <1>14, <1>17, <3>1, PatchesBehind
    <3>3. Len(u1) \in Nat
      BY <1>14
    <3>4. QED
      BY <1>15, <2>2, <3>2, <3>3
  <2>3. QED
    BY <2>1, <2>2
<1> HIDE DEF k
<1>20. PatchesAt(front \o (u1 \o u2), front \o (w1 \o w2), Len(front) + k, h, v)
  <2>1. front \in Seq(Data) /\ u1 \o u2 \in Seq(Data) /\ w1 \o w2 \in Seq(Data)
    BY <1>10, <1>14, BytesAreData, ConcatProperties DEF Data
  <2>2. QED
    BY <1>17, <1>19, <2>1, PatchesBehind
<1>21. PatchesAt(FormBytes(f, L, p, to), FormBytes(g, L, p, to), Len(front) + k, h, v)
  BY <1>13, <1>14, <1>20
<1>22. Len(front) + k \in Nat
  BY <1>11, <1>19
<1>23. \A r : HasPart(f, r) => Fields(g, r, L, at) = Fields(f, r, L, at)
  BY <1>7, SameFields
<1>24. QED
  BY <1>1, <1>8, <1>9, <1>16, <1>17, <1>21, <1>22, <1>23 DEF Patched

\* A value is put in through a handle: the bytes are those of the instruction with the
\* operand that has this value.
LEMMA OperandPatched ==
  ASSUME NEW f, IsInstruction(f), NEW g, NEW L \in Layouts, Suits(L, f),
         NEW part, HasPart(f, part), NEW x, IsOperand(x), Replaces(x, part, f),
         NEW at \in Nat, NEW p \in Int, NEW to \in Ptr \cup {None},
         at + Len(FrontBytes(f, L)) < AddrSpace,
         NEW field, field \in DOMAIN Fields(f, part, L, at), field # "label",
         NEW h, h = Fields(f, part, L, at)[field], NEW v, Admits(field, v),
         Swapped(f, g, part, x, Replaced(x, field, v)),
         field = "base" => ReplaceableBase(x.mem, v),
         field = "offset" => h.size = 4 \/ IsByteOffset(v)
  PROVE  Patched(f, g, L, at, p, to, h, v)
<1>1. CASE part = "rm" /\ f.rm.k = "mem"
  <2>1. f.rm = x \/ f.rm = NoSegment(x)
    BY <1>1 DEF Swapped
  <2>2. x.k = "mem"
    BY <1>1, <2>1, NoSegmentOf
  <2>3. QED
    BY <1>1, <2>2, MemOperandPatched
<1>2. CASE part = "rm" /\ f.rm.k = "reg"
  <2>1. f.rm = x \/ f.rm = NoSegment(x)
    BY <1>2 DEF Swapped
  <2>2. x.k = "reg"
    BY <1>2, <2>1, NoSegmentOf DEF Replaces
  <2>3. Fields(f, part, L, at) = [reg |-> RegBits(at + Len(HeadBytes(f, L)), 0)]
    BY <1>2, HandlesOf DEF Fields
  <2>4. field = "reg"
    BY <2>3
  <2>5. v \in 0 .. 7 /\ Replaced(x, field, v) = RegOp(x.size, v)
    BY <2>2, <2>4, ReplacedOf DEF Admits
  <2>6. QED
    BY <1>2, <2>2, <2>4, <2>5, RegOperandPatched
<1>3. CASE part = "reg"
  <2>1. x.k = "reg" /\ f.rm.k \in {"reg", "mem"}
    BY <1>3 DEF Replaces, HasPart
  <2>2. Fields(f, part, L, at) = [reg |-> RegBits(at + Len(HeadBytes(f, L)), 3)]
    BY <1>3, HandlesOf DEF Fields
  <2>3. field = "reg"
    BY <2>2
  <2>4. v \in 0 .. 7 /\ Replaced(x, field, v) = RegOp(x.size, v)
    BY <2>1, <2>3, ReplacedOf DEF Admits
  <2>5. QED
    BY <1>3, <2>1, <2>3, <2>4, RegOperandPatched
<1>4. CASE part = "opcode"
  <2>1. x.k = "reg"
    BY <1>4 DEF Replaces
  <2>2. Fields(f, part, L, at) = [reg |-> RegBits(Minus(at + Len(FrontBytes(f, L)), 1), 0)]
    BY <1>4, HandlesOf DEF Fields
  <2>3. field = "reg"
    BY <2>2
  <2>4. v \in 0 .. 7 /\ Replaced(x, field, v) = RegOp(x.size, v)
    BY <2>1, <2>3, ReplacedOf DEF Admits
  <2>5. QED
    BY <1>4, <2>1, <2>3, <2>4, OpcodeOperandPatched
<1>5. CASE part \in {"imm", "imm2"}
  <2>1. x.k = "imm"
    BY <1>5 DEF Replaces
  <2> DEFINE tail == at + Len(FrontBytes(f, L))
             e1 == Bytes(tail, f.tail[1].size)
             e2 == Bytes(tail + f.tail[1].size, f.tail[2].size)
  <2>a. /\ part = "imm" => Fields(f, part, L, at) = [imm |-> e1]
        /\ part = "imm2" => Fields(f, part, L, at) = [imm |-> e2]
    BY HandlesOf DEF Fields
  <2> HIDE DEF tail, e1, e2
  <2>2. \E e : Fields(f, part, L, at) = [imm |-> e]
    BY <1>5, <2>a
  <2>3. field = "imm"
    BY <2>2
  <2>4. v \in Int /\ Replaced(x, field, v) = ImmOp(x.type, v)
    BY <2>1, <2>3, ReplacedOf DEF Admits
  <2>5. QED
    BY <1>5, <2>3, <2>4, ImmOperandPatched
<1>6. CASE part = "label"
  <2>1. Fields(f, part, L, at) = [label |-> at + Len(FrontBytes(f, L))]
    BY <1>6, HandlesOf DEF Fields
  <2>2. QED
    BY <2>1
<1>7. CASE part = "none"
  <2>1. Fields(f, part, L, at) = <<>>
    BY <1>7, HandlesOf DEF Fields, NoHandles
  <2>2. QED
    BY <2>1
<1>8. QED
  BY <1>1, <1>2, <1>3, <1>4, <1>5, <1>6, <1>7 DEF HasPart

\* An address is an integer.
LEMMA PlusType == ASSUME NEW p \in Int, NEW n \in Nat PROVE Plus(p, n) \in Int
BY BlockAssumption DEF Plus, Wrap

\* What binding the label of an instruction to t does: data at offset o of its bytes.
Labelled(f, g, L, at, p, to, t, o, size, data) ==
  /\ IsInstruction(g) /\ Suits(L, g) /\ g.args = f.args
  /\ \A part : HasPart(f, part) => Fields(g, part, L, at) = Fields(f, part, L, at)
  /\ Fields(f, "label", L, at) = [label |-> at + o] /\ o \in Nat
  /\ data \in Seq(ByteValue) /\ Len(data) = size /\ size \in Nat
  /\ Sets(FormBytes(f, L, p, to), FormBytes(g, L, p, t), o, data)

\* A label is bound to t: the displacement is what leads there.
LEMMA LabelPatched ==
  ASSUME NEW f, IsInstruction(f), NEW g, NEW L \in Layouts, Suits(L, f), HasPart(f, "label"),
         NEW x, NEW y, Swapped(f, g, "label", x, y),
         NEW at \in Nat, NEW p \in Int, NEW to \in Ptr \cup {None}, NEW t \in Ptr,
         NEW o, o = Len(FrontBytes(f, L)), NEW size, size = f.tail[1].size,
         NEW data, data = LittleEndian(CalcJumpOffset(Plus(p, o), t, size), size)
  PROVE  Labelled(f, g, L, at, p, to, t, o, size, data)
<1>1. /\ g.args = f.args /\ g.rm = f.rm /\ g.reg = f.reg /\ g.bytes = f.bytes
      /\ DOMAIN g.tail = DOMAIN f.tail /\ \A j \in DOMAIN f.tail : g.tail[j] = f.tail[j]
  BY DEF Swapped
<1>2. 1 \in DOMAIN f.tail /\ f.tail[1].k = "label" /\ 2 \notin DOMAIN f.tail
  BY DEF HasPart, IsInstruction, IsTail
<1>3. size \in {1, AddrBytes} /\ size \in Nat
  BY <1>2, AddrBytesAssumption DEF IsInstruction, IsTail, IsPart
<1>4. FrontBytes(g, L) = FrontBytes(f, L) /\ HeadBytes(g, L) = HeadBytes(f, L)
  BY <1>1 DEF FrontBytes, HeadBytes, RmBytes
<1>5. SameShape(f, g, L)
  BY <1>1, <1>4 DEF SameShape
<1>6. IsInstruction(g)
  <2>1. /\ g.bytes \in Seq(ByteValue) /\ g.reg \in 0 .. 7
        /\ g.rm.k = "reg" => g.rm.reg \in Reg
        /\ g.rm.k = "mem" => IsMem(g.rm.mem, Reg)
        /\ \A i \in DOMAIN g.tail : IsPart(g.tail[i])
    BY <1>1 DEF IsInstruction, IsTail
  <2>2. QED
    BY <1>5, <2>1, SameParts
<1>7. Suits(L, g)
  BY <1>1 DEF Suits
<1>8. \A part : HasPart(f, part) => Fields(g, part, L, at) = Fields(f, part, L, at)
  BY <1>5, SameFields
<1>9. Fields(f, "label", L, at) = [label |-> at + o]
  BY HandlesOf DEF Fields
<1> DEFINE front == FrontBytes(f, L)
           q == Plus(p, o)
           u == PartBytes(f.tail[1], q, to)
<1>10. front \in Seq(ByteValue)
  BY FormShape
<1> HIDE DEF front
<1>11. o \in Nat /\ o = Len(front)
  BY <1>10 DEF front
<1>12. q \in Int
  BY <1>11, BlockAssumption DEF Plus, Wrap
<1> HIDE DEF q, u
<1>13. u \in Seq(Data) /\ Len(u) = size
  <2>1. IsPart(f.tail[1])
    BY <1>2 DEF IsInstruction, IsTail
  <2>2. QED
    BY <1>12, <2>1, PartBytesType DEF u, Data
<1>14. PartBytes(f.tail[1], q, t) = data
  <2>1. t # None
    BY BlockAssumption DEF Ptr, None
  <2>2. QED
    BY <1>2, <2>1 DEF PartBytes, q
<1>15. data \in Seq(ByteValue) /\ data \in Seq(Data) /\ Len(data) = size
  <2>1. CalcJumpOffset(Plus(p, o), t, size) \in Int
    <3> DEFINE c == Plus(Plus(p, o), size)
    <3>1. c \in Int
      <4>1. Plus(p, o) \in Int
        BY <1>12 DEF q
      <4>2. QED
        BY <1>3, <4>1, PlusType
    <3> HIDE DEF c
    <3>2. Minus(t, c) \in Int
      BY <3>1, BlockAssumption DEF Minus, Wrap, Ptr
    <3>3. QED
      BY <3>2, BlockAssumption DEF CalcJumpOffset, c
  <2>2. QED
    BY <1>3, <2>1, LittleEndianType, BytesAreData DEF Data
<1>16. /\ FormBytes(f, L, p, to) = front \o u /\ FormBytes(g, L, p, t) = front \o data
  <2>1. TailBytes(f, q, to) = u \o <<>> /\ TailBytes(g, q, t) = data \o <<>>
    BY <1>1, <1>2, <1>14 DEF TailBytes, u
  <2>2. u \o <<>> = u /\ data \o <<>> = data
    BY <1>13, <1>15, ConcatEmptySeq
  <2>3. QED
    BY <1>4, <1>11, <2>1, <2>2 DEF FormBytes, q, front
<1>17. Sets(u, data, 0, data)
  BY <1>13, <1>15, SetsAll
<1>18. Sets(front \o u, front \o data, Len(front) + 0, data)
  <2>1. front \in Seq(Data)
    BY <1>10, BytesAreData DEF Data
  <2>2. QED
    BY <1>13, <1>15, <1>17, <2>1, SetsBehind
<1>19. Sets(FormBytes(f, L, p, to), FormBytes(g, L, p, t), o, data)
  <2>1. Len(front) + 0 = o
    BY <1>11
  <2>2. QED
    BY <1>16, <1>18, <2>1
<1>20. QED
  BY <1>1, <1>3, <1>6, <1>7, <1>8, <1>9, <1>11, <1>15, <1>19 DEF Labelled
=============================================================================
