-------------------------- MODULE Encoding_proofs --------------------------
(***************************************************************************)
(* What the emitters leave behind, for every block and every operand: the  *)
(* bytes of module Encoding, which depend on the instruction and on where  *)
(* it is, and on nothing that was in memory before.  The notion is         *)
(* Puts(D, b, a, data, s): block a is block b after the bytes of data,     *)
(* with up to s more changed behind the cursor.  It adds to Emits of       *)
(* module Emitters_proofs what the bytes are, and is closed under          *)
(* sequencing in the same way (PutsThen): a part that spills is always     *)
(* followed by one that covers the spill, or is the last.                  *)
(***************************************************************************)
EXTENDS Encoding, Emitters_proofs

(***************************************************************************)
(* The notion                                                              *)
(***************************************************************************)
\* Unless an assertion stopped the program, data is where the cursor was.
Leaves(D, b, a, data) ==
  ~a.aborted /\ ~a.measure =>
    \A q \in D, k \in 1 .. Len(data) :
      Minus(q, b.start) = GetOffset(b) + (k - 1) /\ data[k] # Hole => a.mem[q] = data[k]

\* Block a is block b after the bytes of data, with up to s more changed behind them.
Puts(D, b, a, data, s) ==
  /\ data \in Seq(ByteValue \cup {Hole})
  /\ Emits(D, b, a, Len(data), s)
  /\ Leaves(D, b, a, data)

\* The distance from the cursor of what is k bytes further from the start.
LEMMA BackDistance ==
  ASSUME NEW q \in Ptr, NEW c \in Ptr, NEW s \in Ptr, NEW k \in Int, 0 <= k, k < AddrSpace,
         Minus(q, s) = Minus(c, s) + k
  PROVE  Minus(q, c) = k
<1>1. AddrSpace \in Nat /\ q \in Int /\ c \in Int /\ s \in Int
      /\ 0 <= q /\ q < AddrSpace /\ 0 <= c /\ c < AddrSpace /\ 0 <= s /\ s < AddrSpace
  BY BlockAssumption DEF Ptr
<1>2. /\ Minus(q, s) = IF q - s < 0 THEN q - s + AddrSpace ELSE q - s
      /\ Minus(c, s) = IF c - s < 0 THEN c - s + AddrSpace ELSE c - s
      /\ Minus(q, c) = IF q - c < 0 THEN q - c + AddrSpace ELSE q - c
  BY <1>1 DEF Minus, Wrap
<1>3. QED
  BY <1>1, <1>2

\* WriteRaw of some bytes and SkipBytes over the first n of them puts those.
LEMMA WriteSkipPuts ==
  ASSUME NEW D \in SUBSET Ptr, NEW b \in BlocksOver(D), NEW data \in Seq(ByteValue),
         NEW bytes \in Seq(ByteValue), NEW s \in 0 .. 3, Len(data) = Len(bytes) + s,
         \A k \in 1 .. Len(bytes) : bytes[k] = data[k],
         GetOffset(b) + Len(bytes) + 3 < AddrSpace
  PROVE  Puts(D, b, SkipBytes(WriteRaw(b, data), Len(bytes)), bytes, s)
<1> DEFINE n == Len(bytes)
           w == WriteRaw(b, data)
           a == SkipBytes(w, n)
<1>1. n \in Nat /\ Len(data) <= n + s /\ bytes \in Seq(ByteValue \cup {Hole})
  <2>1. bytes \in [1 .. Len(bytes) -> ByteValue \cup {Hole}]
    OBVIOUS
  <2>2. QED
    BY <2>1
<1>2. Emits(D, b, a, n, s)
  BY <1>1, WriteSkipEmits
<1>3. /\ b = [mem |-> b.mem, curr |-> b.curr, start |-> b.start, size |-> b.size,
              measure |-> b.measure, aborted |-> b.aborted]
      /\ b.mem \in [D -> ByteValue] /\ b.curr \in Ptr /\ b.start \in Ptr
      /\ b.measure \in BOOLEAN /\ b.aborted \in BOOLEAN
      /\ GetOffset(b) \in Ptr
  BY OffsetType DEF BlocksOver
<1>4. ASSUME ~a.aborted, ~a.measure
      PROVE  a.mem = Store(b.mem, b.curr, data)
  <2>1. ~b.aborted /\ ~b.measure
    BY <1>2, <1>4 DEF Emits
  <2>2. CASE NDEBUG \/ VerifyCurrent(b, Len(data))
    BY <1>3, <2>1, <2>2 DEF WriteRaw, SkipBytes, StoreUnlessAborted, Asserting
  <2>3. CASE ~(NDEBUG \/ VerifyCurrent(b, Len(data)))
    BY <1>3, <1>4, <2>1, <2>3 DEF WriteRaw, SkipBytes, StoreUnlessAborted, Asserting
  <2>4. QED
    BY <2>2, <2>3
<1> HIDE DEF a, w
<1>5. ASSUME ~a.aborted, ~a.measure, NEW q \in D, NEW k \in 1 .. n,
             Minus(q, b.start) = GetOffset(b) + (k - 1)
      PROVE  a.mem[q] = bytes[k]
  <2>1. Minus(q, b.curr) = k - 1
    <3>1. q \in Ptr /\ k \in Nat /\ k - 1 < AddrSpace /\ AddrSpace \in Nat
      BY <1>1, <1>3, <1>5, BlockAssumption DEF Ptr
    <3>2. Minus(q, b.start) = Minus(b.curr, b.start) + (k - 1)
      BY <1>5 DEF GetOffset
    <3>3. QED
      BY <1>3, <3>1, <3>2, BackDistance
  <2>2. a.mem[q] = IF Minus(q, b.curr) < Len(data) THEN data[Minus(q, b.curr) + 1] ELSE b.mem[q]
    BY <1>3, <1>4, <1>5 DEF Store
  <2>3. k - 1 < Len(data) /\ (k - 1) + 1 = k
    BY <1>1, <1>5
  <2>4. QED
    BY <1>5, <2>1, <2>2, <2>3
<1>6. Leaves(D, b, a, bytes)
  BY <1>5 DEF Leaves
<1>7. QED
  BY <1>1, <1>2, <1>6 DEF Puts, a, w

\* One part after another puts the bytes of the one before those of the other: the
\* second part changes nothing in front of it.
LEMMA PutsThen ==
  ASSUME NEW D \in SUBSET Ptr, NEW b \in BlocksOver(D), NEW m, NEW a,
         NEW d1, NEW d2, NEW s1 \in 0 .. 3, NEW s2 \in 0 .. 3,
         Puts(D, b, m, d1, s1), Puts(D, m, a, d2, s2), s1 <= Len(d2) + s2
  PROVE  Puts(D, b, a, d1 \o d2, s2)
<1>1. /\ d1 \in Seq(ByteValue \cup {Hole}) /\ d2 \in Seq(ByteValue \cup {Hole})
      /\ Len(d1) \in Nat /\ Len(d2) \in Nat
      /\ Emits(D, b, m, Len(d1), s1) /\ Emits(D, m, a, Len(d2), s2)
      /\ m \in BlocksOver(D)
  BY DEF Puts, Emits
<1>2. /\ d1 \o d2 \in Seq(ByteValue \cup {Hole}) /\ Len(d1 \o d2) = Len(d1) + Len(d2)
      /\ \A k \in 1 .. Len(d1) + Len(d2) :
           (d1 \o d2)[k] = IF k <= Len(d1) THEN d1[k] ELSE d2[k - Len(d1)]
  BY <1>1
<1>3. Emits(D, b, a, Len(d1) + Len(d2), s2)
  BY <1>1, EmitsThen
<1>4. ASSUME ~a.aborted, ~a.measure, NEW q \in D, NEW k \in 1 .. Len(d1) + Len(d2),
             Minus(q, b.start) = GetOffset(b) + (k - 1), (d1 \o d2)[k] # Hole
      PROVE  a.mem[q] = (d1 \o d2)[k]
  <2>1. ~m.aborted /\ ~m.measure /\ m.start = b.start
    BY <1>1, <1>4 DEF Emits
  <2>2. GetOffset(m) = GetOffset(b) + Len(d1) /\ GetOffset(b) \in Nat
    BY <1>1, <2>1, OffsetType DEF Emits, Ptr
  <2>3. CASE k <= Len(d1)
    <3>1. k \in 1 .. Len(d1)
      BY <1>1, <1>4, <2>3
    <3>2. m.mem[q] = d1[k]
      BY <1>2, <1>4, <2>1, <2>3, <3>1 DEF Puts, Leaves
    <3>3. ~(GetOffset(m) <= Minus(q, m.start))
      BY <1>1, <1>4, <2>1, <2>2, <2>3
    <3>4. a.mem[q] = m.mem[q]
      BY <1>1, <3>3 DEF Emits
    <3>5. QED
      BY <1>2, <1>4, <2>3, <3>2, <3>4
  <2>4. CASE k > Len(d1)
    <3>1. k - Len(d1) \in 1 .. Len(d2)
      BY <1>1, <1>4, <2>4
    <3>2. Minus(q, m.start) = GetOffset(m) + ((k - Len(d1)) - 1)
      BY <1>1, <1>4, <2>1, <2>2, <2>4
    <3>3. (d1 \o d2)[k] = d2[k - Len(d1)]
      BY <1>1, <1>2, <1>4, <2>4
    <3>4. QED
      BY <1>4, <3>1, <3>2, <3>3 DEF Puts, Leaves
  <2>5. QED
    BY <1>1, <1>4, <2>3, <2>4
<1>5. Leaves(D, b, a, d1 \o d2)
  BY <1>2, <1>4 DEF Leaves
<1>6. QED
  BY <1>2, <1>3, <1>5 DEF Puts

\* The room for two parts is, after the first one, room for the second.
LEMMA PutsRoom ==
  ASSUME NEW D \in SUBSET Ptr, NEW b \in BlocksOver(D), NEW m, NEW d1, NEW s,
         Puts(D, b, m, d1, s), NEW n2 \in Nat, GetOffset(b) + (Len(d1) + n2) + 3 < AddrSpace
  PROVE  m \in BlocksOver(D) /\ GetOffset(m) + n2 + 3 < AddrSpace
<1>1. Len(d1) \in Nat /\ Emits(D, b, m, Len(d1), s)
  BY DEF Puts
<1>2. QED
  BY <1>1, EmitsRoom

\* Putting nothing.
LEMMA PutsNothing ==
  ASSUME NEW D \in SUBSET Ptr, NEW b \in BlocksOver(D)
  PROVE  Puts(D, b, b, <<>>, 0)
<1>1. GetOffset(b) \in Nat
  BY OffsetType DEF Ptr
<1>2. Emits(D, b, b, 0, 0)
  BY <1>1 DEF Emits
<1>3. <<>> \in Seq(ByteValue \cup {Hole}) /\ Len(<<>>) = 0
  OBVIOUS
<1>4. QED
  BY <1>2, <1>3 DEF Puts, Leaves

\* Skipping bytes puts holes.
LEMMA SkipPuts ==
  ASSUME NEW D \in SUBSET Ptr, NEW b \in BlocksOver(D), NEW n \in Nat,
         GetOffset(b) + n + 3 < AddrSpace
  PROVE  Puts(D, b, SkipBytes(b, n), [i \in 1 .. n |-> Hole], 0)
<1> DEFINE data == [i \in 1 .. n |-> Hole]
<1>1. data \in Seq(ByteValue \cup {Hole}) /\ Len(data) = n /\ \A k \in 1 .. n : data[k] = Hole
  <2>1. data \in [1 .. n -> ByteValue \cup {Hole}]
    OBVIOUS
  <2>2. QED
    BY <2>1
<1>2. Emits(D, b, SkipBytes(b, n), n, 0)
  BY SkipEmits
<1> HIDE DEF data
<1>3. QED
  BY <1>1, <1>2 DEF Puts, Leaves, data

(***************************************************************************)
(* The pushes                                                              *)
(***************************************************************************)
\* Bytes are data.
LEMMA BytesAreData ==
  ASSUME NEW s \in Seq(ByteValue)
  PROVE  s \in Seq(ByteValue \cup {Hole}) /\ Len(s) \in Nat
<1>1. s \in [1 .. Len(s) -> ByteValue \cup {Hole}]
  OBVIOUS
<1>2. QED
  BY <1>1

\* PushRaw puts what it is given.
LEMMA PushRawPuts ==
  ASSUME NEW D \in SUBSET Ptr, NEW b \in BlocksOver(D), NEW data \in Seq(ByteValue),
         GetOffset(b) + Len(data) + 3 < AddrSpace
  PROVE  Puts(D, b, PushRaw(b, data), data, 0)
<1>1. Len(data) = Len(data) + 0 /\ \A k \in 1 .. Len(data) : data[k] = data[k]
  OBVIOUS
<1>2. QED
  BY <1>1, WriteSkipPuts DEF PushRaw

\* PushByte puts one byte.
LEMMA PushBytePuts ==
  ASSUME NEW D \in SUBSET Ptr, NEW b \in BlocksOver(D), NEW v \in ByteValue,
         GetOffset(b) + 1 + 3 < AddrSpace
  PROVE  Puts(D, b, PushByte(b, v), <<v>>, 0)
<1>1. <<v>> \in Seq(ByteValue) /\ Len(<<v>>) = 1
  OBVIOUS
<1>2. QED
  BY <1>1, PushRawPuts DEF PushByte

\* PushInt puts the integer, least significant byte first.
LEMMA PushIntPuts ==
  ASSUME NEW D \in SUBSET Ptr, NEW b \in BlocksOver(D), NEW v \in Int, NEW n \in Nat,
         GetOffset(b) + n + 3 < AddrSpace
  PROVE  Puts(D, b, PushInt(b, v, n), LittleEndian(v, n), 0)
BY LittleEndianType, PushRawPuts DEF PushInt

\* The first n + 1 elements of a sequence are the first n and one more.
LEMMA OneMore ==
  ASSUME NEW s \in Seq(ByteValue), NEW n \in Nat, n + 1 <= Len(s)
  PROVE  /\ SubSeq(s, 1, n + 1) = SubSeq(s, 1, n) \o <<s[n + 1]>>
         /\ SubSeq(s, 1, n) \in Seq(ByteValue) /\ Len(SubSeq(s, 1, n)) = n
         /\ s[n + 1] \in ByteValue
<1> DEFINE t == SubSeq(s, 1, n)
           u == SubSeq(s, 1, n + 1)
<1>1. /\ t \in Seq(ByteValue) /\ Len(t) = n /\ \A i \in 1 .. n : t[i] = s[i]
      /\ u \in Seq(ByteValue) /\ Len(u) = n + 1 /\ \A i \in 1 .. n + 1 : u[i] = s[i]
      /\ s[n + 1] \in ByteValue
  OBVIOUS
<1> HIDE DEF t, u
<1>2. /\ t \o <<s[n + 1]>> \in Seq(ByteValue) /\ Len(t \o <<s[n + 1]>>) = n + 1
      /\ \A i \in 1 .. n + 1 : (t \o <<s[n + 1]>>)[i] = IF i <= n THEN t[i] ELSE s[n + 1]
  BY <1>1
<1>3. \A i \in 1 .. n + 1 : i <= n \/ i = n + 1
  OBVIOUS
<1>4. \A i \in 1 .. Len(u) : u[i] = (t \o <<s[n + 1]>>)[i]
  BY <1>1, <1>2, <1>3
<1>5. u = t \o <<s[n + 1]>>
  BY <1>1, <1>2, <1>4, SeqEqual
<1>6. QED
  BY <1>1, <1>5 DEF t, u

\* PushBytes puts the bytes it is given, in order.
LEMMA PushBytesPuts ==
  ASSUME NEW D \in SUBSET Ptr, NEW b \in BlocksOver(D), NEW s \in Seq(ByteValue),
         GetOffset(b) + Len(s) + 3 < AddrSpace
  PROVE  Puts(D, b, PushBytes(b, s), s, 0)
<1>0. PICK n \in Nat : n = Len(s) /\ DOMAIN s = 1 .. n
  OBVIOUS
<1>1. PICK g : Chain(b, s, n, g)
  BY <1>0, PushBytesChain
<1> DEFINE P == {i \in Nat : i <= n => Puts(D, b, g[i], SubSeq(s, 1, i), 0)}
<1>2. 0 \in P
  <2>1. g[0] = b /\ SubSeq(s, 1, 0) = <<>>
    BY <1>1 DEF Chain
  <2>2. QED
    BY <2>1, PutsNothing
<1>3. ASSUME NEW i \in Nat, i \in P PROVE i + 1 \in P
  <2> SUFFICES ASSUME i + 1 <= n PROVE Puts(D, b, g[i + 1], SubSeq(s, 1, i + 1), 0)
    OBVIOUS
  <2>1. Puts(D, b, g[i], SubSeq(s, 1, i), 0)
    BY <1>3
  <2>2. /\ SubSeq(s, 1, i + 1) = SubSeq(s, 1, i) \o <<s[i + 1]>>
        /\ Len(SubSeq(s, 1, i)) = i /\ s[i + 1] \in ByteValue
    BY <1>0, OneMore
  <2>3. GetOffset(b) + (i + 1) + 3 < AddrSpace
    BY <1>0, OffsetType, BlockAssumption DEF Ptr
  <2>4. g[i] \in BlocksOver(D) /\ GetOffset(g[i]) + 1 + 3 < AddrSpace
    BY <2>1, <2>2, <2>3, PutsRoom
  <2>5. g[i + 1] = PushByte(g[i], s[i + 1])
    <3>1. i + 1 \in 1 .. n /\ (i + 1) - 1 = i
      BY <1>0
    <3>2. QED
      BY <1>1, <3>1 DEF Chain
  <2>6. Puts(D, g[i], g[i + 1], <<s[i + 1]>>, 0)
    BY <2>2, <2>4, <2>5, PushBytePuts
  <2>7. Len(<<s[i + 1]>>) = 1 /\ 0 \in 0 .. 3 /\ 0 <= Len(<<s[i + 1]>>) + 0
    OBVIOUS
  <2>8. QED
    BY <2>1, <2>2, <2>6, <2>7, PutsThen
<1> HIDE DEF P
<1>4. n \in P
  BY <1>2, <1>3, Induction
<1>5. SubSeq(s, 1, n) = s
  BY <1>0
<1>6. Puts(D, b, g[n], s, 0)
  <2>1. n <= n
    BY <1>0
  <2>2. n <= n => Puts(D, b, g[n], SubSeq(s, 1, n), 0)
    BY <1>4 DEF P
  <2>3. QED
    BY <1>5, <2>1, <2>2
<1>7. QED
  BY <1>1, <1>6 DEF Chain

(***************************************************************************)
(* Memory operands                                                         *)
(***************************************************************************)
\* Whoever spills s1 bytes spills at most s2.
LEMMA PutsMore ==
  ASSUME NEW D \in SUBSET Ptr, NEW b \in BlocksOver(D), NEW a, NEW data,
         NEW s1 \in 0 .. 3, NEW s2 \in 0 .. 3, Puts(D, b, a, data, s1), s1 <= s2
  PROVE  Puts(D, b, a, data, s2)
<1>1. Len(data) \in Nat
  BY DEF Puts
<1>2. QED
  BY <1>1, SpillsMore DEF Puts

\* WriteModRegRm puts the ModRM byte.
LEMMA ModRegRmPuts ==
  ASSUME NEW D \in SUBSET Ptr, NEW b \in BlocksOver(D), GetOffset(b) + 1 + 3 < AddrSpace,
         NEW mod \in 0 .. 3, NEW reg \in 0 .. 7, NEW rm \in 0 .. 7
  PROVE  Puts(D, b, WriteModRegRm(b, mod, reg, rm), <<ModRegRm(mod, reg, rm)>>, 0)
BY FieldsType, PushBytePuts DEF WriteModRegRm

\* One byte written, and skipped over if it is wanted: there is one byte, or nothing.
LEMMA OptionalPuts ==
  ASSUME NEW D \in SUBSET Ptr, NEW b \in BlocksOver(D), NEW v \in ByteValue,
         NEW wanted \in BOOLEAN, GetOffset(b) + (IF wanted THEN 1 ELSE 0) + 3 < AddrSpace
  PROVE  Puts(D, b, SkipBytes(WriteRaw(b, <<v>>), IF wanted THEN 1 ELSE 0),
              IF wanted THEN <<v>> ELSE <<>>, IF wanted THEN 0 ELSE 1)
<1>0. <<v>> \in Seq(ByteValue) /\ Len(<<v>>) = 1 /\ <<>> \in Seq(ByteValue) /\ Len(<<>>) = 0
  OBVIOUS
<1>1. CASE wanted
  <2>1. \A k \in 1 .. Len(<<v>>) : <<v>>[k] = <<v>>[k]
    OBVIOUS
  <2>2. Len(<<v>>) = Len(<<v>>) + 0 /\ 0 \in 0 .. 3 /\ GetOffset(b) + Len(<<v>>) + 3 < AddrSpace
    BY <1>0, <1>1
  <2>3. Puts(D, b, SkipBytes(WriteRaw(b, <<v>>), Len(<<v>>)), <<v>>, 0)
    BY <1>0, <2>1, <2>2, WriteSkipPuts
  <2>4. QED
    BY <1>0, <1>1, <2>3
<1>2. CASE ~wanted
  <2>1. \A k \in 1 .. Len(<<>>) : <<>>[k] = <<v>>[k]
    <3> SUFFICES ASSUME NEW k \in 1 .. 0 PROVE FALSE
      BY <1>0
    <3> QED
      OBVIOUS
  <2>2. /\ Len(<<v>>) = Len(<<>>) + 1 /\ 1 \in 0 .. 3
        /\ GetOffset(b) + Len(<<>>) + 3 < AddrSpace
    BY <1>0, OffsetType, BlockAssumption DEF Ptr
  <2>3. Puts(D, b, SkipBytes(WriteRaw(b, <<v>>), Len(<<>>)), <<>>, 1)
    BY <1>0, <2>1, <2>2, WriteSkipPuts
  <2>4. QED
    BY <1>0, <1>2, <2>3
<1>3. QED
  BY <1>1, <1>2

\* The first bytes of an integer do not depend on how many follow.
LEMMA LowBytes ==
  ASSUME NEW v \in Int, NEW n \in Nat, NEW k \in 1 .. n
  PROVE  LittleEndian(v, n)[k] = HighPart(v, k) % 256
BY DEF LittleEndian

\* No bytes of an integer.
LEMMA NoBytes ==
  ASSUME NEW v \in Int
  PROVE  LittleEndian(v, 0) = <<>>
<1>1. LittleEndian(v, 0) \in Seq(ByteValue) /\ Len(LittleEndian(v, 0)) = 0
  BY LittleEndianType
<1>2. QED
  BY <1>1

\* WriteSmallestOffset puts one byte of the offset, or four.
LEMMA SmallestOffsetPuts ==
  ASSUME NEW D \in SUBSET Ptr, NEW b \in BlocksOver(D), NEW m, m.offset \in Int,
         GetOffset(b) + OptimalBytes(m) + 3 < AddrSpace
  PROVE  Puts(D, b, WriteSmallestOffset(b, m), LittleEndian(m.offset, OptimalBytes(m)),
              OffsetSpill(m))
<1> DEFINE data == LittleEndian(m.offset, 4)
           n == OptimalBytes(m)
           bytes == LittleEndian(m.offset, n)
           s == OffsetSpill(m)
<1>1. n \in {1, 4} /\ s = 4 - n
  BY DEF OptimalBytes, OffsetSpill
<1>2. n \in Nat /\ n <= 4 /\ s \in 0 .. 3 /\ 4 \in Nat
  BY <1>1
<1>a. WriteSmallestOffset(b, m) = SkipBytes(WriteRaw(b, data), n)
  BY DEF WriteSmallestOffset
<1>b. GetOffset(b) + n + 3 < AddrSpace
  OBVIOUS
<1> HIDE DEF n, s
<1>3. /\ data \in Seq(ByteValue) /\ Len(data) = 4
      /\ bytes \in Seq(ByteValue) /\ Len(bytes) = n
  BY <1>2, LittleEndianType
<1>4. \A k \in 1 .. n : bytes[k] = data[k]
  <2> TAKE k \in 1 .. n
  <2>1. k \in 1 .. 4
    BY <1>2
  <2>2. QED
    BY <1>2, <2>1, LowBytes
<1> HIDE DEF data, bytes
<1>5. Puts(D, b, SkipBytes(WriteRaw(b, data), Len(bytes)), bytes, s)
  <2>1. /\ Len(data) = Len(bytes) + s /\ \A k \in 1 .. Len(bytes) : bytes[k] = data[k]
        /\ GetOffset(b) + Len(bytes) + 3 < AddrSpace
    BY <1>1, <1>2, <1>3, <1>4, <1>b
  <2>2. QED
    BY <1>2, <1>3, <2>1, WriteSkipPuts
<1>6. QED
  BY <1>3, <1>5, <1>a DEF bytes, n, s

\* WriteMem puts the bytes of the operand: whatever it writes too far, in front of a
\* SIB byte or a displacement, is written over or behind the end.
LEMMA MemPuts ==
  ASSUME NEW D \in SUBSET Ptr, NEW b \in BlocksOver(D), NEW m, IsMem(m, Reg),
         NEW reg \in 0 .. 7, GetOffset(b) + MemLength(m) + 3 < AddrSpace
  PROVE  Puts(D, b, WriteMem(b, m, reg), MemBytes(m, reg, OptimalBytes(m)), MemSpill(m))
<1> DEFINE n == OptimalBytes(m)
           k == DispLength(m, n)
           b1 == WriteModRegRm(b, ModOf(m, n), reg, RmOf(m))
           b2 == IF HasSIB(m) THEN WriteSIB(b1, m)
                 ELSE IF m.mode = "OFFSET" THEN b1 ELSE WriteEspPostfix(b1, m)
           a == IF k = 0 THEN b2
                ELSE IF m.mode \in {"BASE_OFFSET", "BASE_INDEX_OFFSET"}
                THEN WriteSmallestOffset(b2, m) ELSE WriteOffset(b2, m)
           s2 == IF m.mode \in {"BASE", "BASE_OFFSET"} THEN EspSpill(m) ELSE 0
           s3 == MemSpill(m)
           d1 == <<ModRegRm(ModOf(m, n), reg, RmOf(m))>>
           d2 == SIBBytes(m)
           d3 == LittleEndian(m.offset, k)
<1>1. /\ m.mode \in {"OFFSET", "BASE", "BASE_OFFSET", "INDEX_OFFSET", "BASE_INDEX",
                     "BASE_INDEX_OFFSET"}
      /\ HasSIB(m) <=> m.mode \in {"INDEX_OFFSET", "BASE_INDEX", "BASE_INDEX_OFFSET"}
      /\ m.offset \in Int /\ m.scale \in 0 .. 3
      /\ HasSIB(m) => m.index \in Reg /\ m.base \in Reg \cup {None}
      /\ m.mode \in {"BASE", "BASE_OFFSET"} => m.base \in Reg
      /\ m.mode = "OFFSET" => ~EspBase(m)
      /\ n \in {1, 4}
  BY DEF IsMem, HasSIB, WithBase, WithIndexReg, OptimalBytes, EspBase, None, ESP
<1>2. WriteMem(b, m, reg) = a
  <2>1. n = 1 <=> ByteOffset(m)
    BY DEF OptimalBytes
  <2>2. QED
    BY <1>1, <2>1 DEF WriteMem, HasSIB, ModOf, RmOf, DispLength, DispMod, WithIndexReg
<1>3. /\ k \in {0, 1, 4}
      /\ k = 0 => s2 = s3
      /\ s2 \in 0 .. 1 /\ s3 \in 0 .. 3
      /\ MemLength(m) = 1 + (Len(d2) + k)
      /\ Len(d2) \in 0 .. 1
      /\ ModOf(m, n) \in 0 .. 3 /\ RmOf(m) \in 0 .. 7
  BY <1>1 DEF DispLength, EspSpill, EspLength, MemSpill, OffsetSpill, MemLength, SIBBytes, ModOf,
     RmOf, RegInd, Disp1, Disp4, HasSIB, Reg
<1>4. GetOffset(b) \in Nat /\ AddrSpace \in Nat /\ GetOffset(b) + 1 + 3 < AddrSpace
      /\ GetOffset(b) + (1 + (Len(d2) + k)) + 3 < AddrSpace
  BY <1>3, OffsetType, BlockAssumption DEF Ptr
<1>5. Puts(D, b, b1, d1, 0) /\ Len(d1) = 1
  BY <1>3, <1>4, ModRegRmPuts
<1> HIDE DEF b1
<1>6. b1 \in BlocksOver(D) /\ GetOffset(b1) + (Len(d2) + k) + 3 < AddrSpace
  <2>1. Len(d2) + k \in Nat
    BY <1>3
  <2>2. GetOffset(b) + (Len(d1) + (Len(d2) + k)) + 3 < AddrSpace
    BY <1>4, <1>5
  <2> HIDE DEF d1, d2, k
  <2>3. QED
    BY <1>5, <2>1, <2>2, PutsRoom
<1>7. Puts(D, b1, b2, d2, s2)
  <2>0. GetOffset(b1) \in Nat
    BY <1>6, OffsetType DEF Ptr
  <2>1. CASE HasSIB(m)
    <3> DEFINE v == BuildSIB(m.scale, m.index, IF m.base = None THEN 5 ELSE m.base)
    <3>1. v \in ByteValue
      BY <1>1, <2>1, FieldsType DEF Reg, None
    <3>2. d2 = <<v>> /\ b2 = PushByte(b1, v) /\ s2 = 0
      BY <1>1, <2>1 DEF SIBBytes, WriteSIB
    <3> HIDE DEF v
    <3>3. GetOffset(b1) + 1 + 3 < AddrSpace
      BY <1>3, <1>4, <1>6, <2>0, <3>2
    <3>4. QED
      BY <1>6, <3>1, <3>2, <3>3, PushBytePuts
  <2>2. CASE ~HasSIB(m) /\ m.mode = "OFFSET"
    <3>1. d2 = <<>> /\ b2 = b1 /\ s2 = 0
      BY <1>1, <2>2 DEF SIBBytes
    <3>2. QED
      BY <1>6, <3>1, PutsNothing
  <2>3. CASE ~HasSIB(m) /\ m.mode # "OFFSET"
    <3> DEFINE wanted == EspBase(m)
    <3>1. /\ d2 = IF wanted THEN <<\h24>> ELSE <<>>
          /\ b2 = SkipBytes(WriteRaw(b1, <<\h24>>), IF wanted THEN 1 ELSE 0)
          /\ s2 = IF wanted THEN 0 ELSE 1
          /\ wanted \in BOOLEAN /\ \h24 \in ByteValue
      BY <1>1, <2>3 DEF SIBBytes, WriteEspPostfix, EspSpill, EspLength, EspBase, ByteValue
    <3>a. Len(d2) = IF wanted THEN 1 ELSE 0
      BY <3>1
    <3>2. GetOffset(b1) + (IF wanted THEN 1 ELSE 0) + 3 < AddrSpace
      BY <1>3, <1>4, <1>6, <2>0, <3>a
    <3> HIDE DEF wanted
    <3>3. QED
      BY <1>6, <3>1, <3>2, OptionalPuts
  <2>4. QED
    BY <2>1, <2>2, <2>3
<1> HIDE DEF b2
<1>8. b2 \in BlocksOver(D) /\ GetOffset(b2) + k + 3 < AddrSpace
  BY <1>3, <1>6, <1>7, PutsRoom
<1>9. Puts(D, b2, a, d3, s3)
  <2>1. CASE k = 0
    <3>1. d3 = <<>> /\ a = b2
      BY <1>1, <2>1, NoBytes
    <3>2. Puts(D, b2, b2, <<>>, 0)
      BY <1>8, PutsNothing
    <3>3. QED
      BY <1>3, <1>8, <3>1, <3>2, PutsMore
  <2>2. CASE k # 0 /\ m.mode \in {"BASE_OFFSET", "BASE_INDEX_OFFSET"}
    <3>1. k = n /\ a = WriteSmallestOffset(b2, m) /\ s3 = OffsetSpill(m)
      BY <2>2 DEF DispLength, MemSpill
    <3>2. QED
      BY <1>1, <1>8, <3>1, SmallestOffsetPuts
  <2>3. CASE k # 0 /\ m.mode \notin {"BASE_OFFSET", "BASE_INDEX_OFFSET"}
    <3>1. k = 4 /\ a = PushInt(b2, m.offset, 4) /\ s3 = 0
      BY <1>1, <2>3 DEF DispLength, MemSpill, WriteOffset
    <3>2. QED
      BY <1>1, <1>8, <3>1, PushIntPuts
  <2>4. QED
    BY <2>1, <2>2, <2>3
<1>10. Len(d3) = k
  <2>1. k \in Nat /\ m.offset \in Int
    BY <1>1, <1>3
  <2> HIDE DEF k
  <2>2. QED
    BY <2>1, LittleEndianType
<1>11. MemBytes(m, reg, n) = d1 \o (d2 \o d3)
  BY DEF MemBytes
<1> HIDE DEF a, d1, d2, d3, s2, s3, k
<1>12. Puts(D, b1, a, d2 \o d3, s3)
  <2>1. s2 <= Len(d3) + s3 /\ s2 \in 0 .. 3
    BY <1>3, <1>10
  <2>2. QED
    BY <1>3, <1>6, <1>7, <1>9, <2>1, PutsThen
<1>13. Puts(D, b, a, d1 \o (d2 \o d3), s3)
  <2>1. Len(d2 \o d3) \in Nat
    BY <1>12 DEF Puts
  <2>2. 0 <= Len(d2 \o d3) + s3 /\ 0 \in 0 .. 3
    BY <1>3, <2>1
  <2>3. QED
    BY <1>3, <1>5, <1>12, <2>2, PutsThen
<1>14. QED
  BY <1>2, <1>11, <1>13 DEF s3

(***************************************************************************)
(* Instructions: head, register or memory operand, tail                    *)
(***************************************************************************)
\* What is put into a block that is stopped already may be anything: it is not there.
LEMMA PutsStopped ==
  ASSUME NEW D \in SUBSET Ptr, NEW b \in BlocksOver(D), NEW a, NEW d1,
         NEW d2 \in Seq(ByteValue \cup {Hole}), NEW s,
         Puts(D, b, a, d1, s), Len(d2) = Len(d1), ~b.aborted => d2 = d1
  PROVE  Puts(D, b, a, d2, s)
<1>1. Emits(D, b, a, Len(d2), s)
  BY DEF Puts
<1>2. b.aborted => a.aborted
  BY <1>1 DEF Emits
<1>3. QED
  BY <1>1, <1>2 DEF Puts, Leaves

\* Where the cursor is after n bytes.
LEMMA CursorAfter ==
  ASSUME NEW D \in SUBSET Ptr, NEW b \in BlocksOver(D), NEW a \in BlocksOver(D), NEW n \in Nat,
         a.start = b.start, GetOffset(a) = GetOffset(b) + n, GetOffset(b) + n < AddrSpace
  PROVE  a.curr = Plus(b.curr, n)
<1>1. /\ a.curr \in Int /\ b.curr \in Int /\ b.start \in Int /\ AddrSpace \in Nat
      /\ 0 <= a.curr /\ a.curr < AddrSpace /\ 0 <= b.curr /\ b.curr < AddrSpace
      /\ 0 <= b.start /\ b.start < AddrSpace
  BY BlockAssumption DEF BlocksOver, Ptr
<1>2. /\ GetOffset(a) = IF a.curr - b.start < 0 THEN a.curr - b.start + AddrSpace
                        ELSE a.curr - b.start
      /\ GetOffset(b) = IF b.curr - b.start < 0 THEN b.curr - b.start + AddrSpace
                        ELSE b.curr - b.start
  BY <1>1 DEF GetOffset, Minus, Wrap
<1>3. Plus(b.curr, n) = IF b.curr + n >= AddrSpace THEN b.curr + n - AddrSpace ELSE b.curr + n
  BY <1>1 DEF Plus, Wrap
<1>4. QED
  BY <1>1, <1>2, <1>3

\* A jump's offset is an integer.
LEMMA JumpType ==
  ASSUME NEW p \in Int, NEW to \in Ptr, NEW n \in Nat
  PROVE  CalcJumpOffset(p, to, n) \in Int
BY BlockAssumption DEF CalcJumpOffset, Minus, Plus, Wrap, Ptr

\* The bytes of a part are as many as its size says.
LEMMA PartBytesType ==
  ASSUME NEW part, IsPart(part), NEW p \in Int, NEW to \in Ptr \cup {None}
  PROVE  /\ PartBytes(part, p, to) \in Seq(ByteValue \cup {Hole})
         /\ Len(PartBytes(part, p, to)) = part.size /\ part.size \in Nat
<1>1. part.size \in Nat
  BY AddrBytesAssumption DEF IsPart
<1>2. ASSUME NEW v \in Int
      PROVE  /\ LittleEndian(v, part.size) \in Seq(ByteValue \cup {Hole})
             /\ Len(LittleEndian(v, part.size)) = part.size
  BY <1>1, LittleEndianType, BytesAreData
<1>3. CASE part.k = "imm"
  <2>1. part.value \in Int /\ PartBytes(part, p, to) = LittleEndian(part.value, part.size)
    BY <1>3 DEF IsPart, PartBytes
  <2>2. QED
    BY <1>1, <1>2, <2>1
<1>4. CASE part.k = "label" /\ to = None
  <2> DEFINE data == [i \in 1 .. part.size |-> Hole]
  <2>1. data \in [1 .. part.size -> ByteValue \cup {Hole}]
    OBVIOUS
  <2>2. PartBytes(part, p, to) = data
    BY <1>4 DEF PartBytes
  <2>3. data \in Seq(ByteValue \cup {Hole}) /\ Len(data) = part.size
    BY <1>1, <2>1
  <2>4. QED
    BY <1>1, <2>2, <2>3
<1>5. CASE part.k = "label" /\ to # None
  <2>1. CalcJumpOffset(p, to, part.size) \in Int
    BY <1>1, <1>5, JumpType
  <2>2. PartBytes(part, p, to) = LittleEndian(CalcJumpOffset(p, to, part.size), part.size)
    BY <1>5 DEF PartBytes
  <2>3. QED
    BY <1>1, <1>2, <2>1, <2>2
<1>6. CASE part.k = "addr"
  <2>1. CalcJumpOffset(p, part.to, part.size) \in Int
    BY <1>1, <1>6, JumpType DEF IsPart
  <2>2. PartBytes(part, p, to) = LittleEndian(CalcJumpOffset(p, part.to, part.size), part.size)
    BY <1>6 DEF PartBytes
  <2>3. QED
    BY <1>1, <1>2, <2>1, <2>2
<1>7. QED
  BY <1>3, <1>4, <1>5, <1>6 DEF IsPart

\* WritePart puts the bytes of a part; of a label that is not bound, holes.
LEMMA PartPuts ==
  ASSUME NEW D \in SUBSET Ptr, NEW b \in BlocksOver(D), NEW part, IsPart(part),
         GetOffset(b) + part.size + 3 < AddrSpace
  PROVE  Puts(D, b, WritePart(b, part), PartBytes(part, b.curr, None), 0)
<1>1. part.size \in Nat /\ b.curr \in Int
  BY AddrBytesAssumption DEF IsPart, BlocksOver, Ptr
<1>2. CASE part.k = "imm"
  <2>1. /\ part.value \in Int
        /\ WritePart(b, part) = PushInt(b, part.value, part.size)
        /\ PartBytes(part, b.curr, None) = LittleEndian(part.value, part.size)
    BY <1>2 DEF IsPart, WritePart, PartBytes
  <2>2. QED
    BY <1>1, <2>1, PushIntPuts
<1>3. CASE part.k = "label"
  <2>1. /\ WritePart(b, part) = SkipBytes(b, part.size)
        /\ PartBytes(part, b.curr, None) = [i \in 1 .. part.size |-> Hole]
    BY <1>3 DEF WritePart, PartBytes
  <2>2. QED
    BY <1>1, <2>1, SkipPuts
<1>4. CASE part.k = "addr"
  <2> DEFINE jump == CalcJumpOffset(b.curr, part.to, part.size)
  <2>1. part.to \in Ptr
    BY <1>4 DEF IsPart
  <2>2. jump \in Int
    BY <1>1, <2>1, JumpType
  <2>3. /\ WritePart(b, part) = PushInt(b, jump, part.size)
        /\ PartBytes(part, b.curr, None) = LittleEndian(jump, part.size)
    BY <1>4 DEF WritePart, PartBytes
  <2> HIDE DEF jump
  <2>4. QED
    BY <1>1, <2>2, <2>3, PushIntPuts
<1>5. QED
  BY <1>2, <1>3, <1>4 DEF IsPart

\* The bytes of the i-th part of the tail, if there is one.
OnePart(f, i, p, to) == IF i \in DOMAIN f.tail THEN PartBytes(f.tail[i], p, to) ELSE <<>>

\* The bytes of the tail are as many as the sizes of its parts say.
LEMMA TailBytesType ==
  ASSUME NEW f, IsTail(f.tail), NEW p \in Int, NEW to \in Ptr \cup {None}
  PROVE  /\ TailBytes(f, p, to) = OnePart(f, 1, p, to) \o OnePart(f, 2, p, to)
         /\ TailBytes(f, p, to) \in Seq(ByteValue \cup {Hole})
         /\ Len(TailBytes(f, p, to)) = TailLength(f)
         /\ \A i \in {1, 2} : /\ OnePart(f, i, p, to) \in Seq(ByteValue \cup {Hole})
                              /\ Len(OnePart(f, i, p, to)) = PartLength(f, i)
<1>1. TailBytes(f, p, to) = OnePart(f, 1, p, to) \o OnePart(f, 2, p, to)
  BY DEF TailBytes, OnePart
<1>2. ASSUME NEW i \in {1, 2}
      PROVE  /\ OnePart(f, i, p, to) \in Seq(ByteValue \cup {Hole})
             /\ Len(OnePart(f, i, p, to)) = PartLength(f, i)
  <2>1. CASE i \in DOMAIN f.tail
    <3>1. IsPart(f.tail[i])
      BY <2>1 DEF IsTail
    <3>2. OnePart(f, i, p, to) = PartBytes(f.tail[i], p, to) /\ PartLength(f, i) = f.tail[i].size
      BY <2>1 DEF OnePart, PartLength
    <3>3. QED
      BY <3>1, <3>2, PartBytesType
  <2>2. CASE i \notin DOMAIN f.tail
    <3>1. OnePart(f, i, p, to) = <<>> /\ PartLength(f, i) = 0
      BY <2>2 DEF OnePart, PartLength
    <3>2. <<>> \in Seq(ByteValue \cup {Hole}) /\ Len(<<>>) = 0
      OBVIOUS
    <3>3. QED
      BY <3>1, <3>2
  <2>3. QED
    BY <2>1, <2>2
<1> DEFINE d1 == OnePart(f, 1, p, to)
           d2 == OnePart(f, 2, p, to)
<1>3. /\ d1 \in Seq(ByteValue \cup {Hole}) /\ Len(d1) = PartLength(f, 1)
      /\ d2 \in Seq(ByteValue \cup {Hole}) /\ Len(d2) = PartLength(f, 2)
  BY <1>2
<1> HIDE DEF d1, d2
<1>4. d1 \o d2 \in Seq(ByteValue \cup {Hole}) /\ Len(d1 \o d2) = Len(d1) + Len(d2)
  BY <1>3, ConcatProperties
<1>5. QED
  BY <1>1, <1>2, <1>3, <1>4 DEF TailLength, d1, d2

\* The second part of a tail is an immediate, whose bytes are the same anywhere.
LEMMA SecondPart ==
  ASSUME NEW f, IsTail(f.tail), NEW p, NEW q, NEW to1, NEW to2
  PROVE  OnePart(f, 2, p, to1) = OnePart(f, 2, q, to2)
BY DEF IsTail, OnePart, PartBytes

\* The tail puts its bytes.
LEMMA TailPuts ==
  ASSUME NEW D \in SUBSET Ptr, NEW b \in BlocksOver(D), NEW f, IsTail(f.tail),
         GetOffset(b) + TailLength(f) + 3 < AddrSpace
  PROVE  Puts(D, b, FoldLeft(WritePart, b, f.tail), TailBytes(f, b.curr, None), 0)
<1> DEFINE n1 == PartLength(f, 1)
           n2 == PartLength(f, 2)
           d1 == OnePart(f, 1, b.curr, None)
           d2 == OnePart(f, 2, b.curr, None)
           b1 == IF 1 \in DOMAIN f.tail THEN WritePart(b, f.tail[1]) ELSE b
           a == IF 2 \in DOMAIN f.tail THEN WritePart(b1, f.tail[2]) ELSE b1
<1>1. FoldLeft(WritePart, b, f.tail) = a
  <2>1. DOMAIN f.tail = {} \/ DOMAIN f.tail = {1} \/ DOMAIN f.tail = {1, 2}
    BY DEF IsTail
  <2>2. QED
    BY <2>1, FoldNone, FoldOne, FoldTwo
<1>2. /\ n1 \in Nat /\ n2 \in Nat /\ GetOffset(b) \in Nat /\ AddrSpace \in Nat
      /\ b.curr \in Int /\ GetOffset(b) + n1 + 3 < AddrSpace
      /\ GetOffset(b) + (n1 + n2) + 3 < AddrSpace
      /\ Len(d1) = n1 /\ Len(d2) = n2 /\ TailBytes(f, b.curr, None) = d1 \o d2
  <2>1. b.curr \in Int
    BY DEF BlocksOver, Ptr
  <2>2. n1 \in Nat /\ n2 \in Nat /\ GetOffset(b) \in Nat /\ AddrSpace \in Nat
    BY PartLengthType, OffsetType, BlockAssumption DEF Ptr
  <2>3. TailLength(f) = n1 + n2
    BY DEF TailLength
  <2>4. Len(d1) = n1 /\ Len(d2) = n2 /\ TailBytes(f, b.curr, None) = d1 \o d2
    <3>1. 1 \in {1, 2} /\ 2 \in {1, 2} /\ None \in Ptr \cup {None}
      OBVIOUS
    <3>2. QED
      BY <2>1, <3>1, TailBytesType
  <2> HIDE DEF n1, n2
  <2>5. QED
    BY <2>1, <2>2, <2>3, <2>4
<1>3. Puts(D, b, b1, d1, 0)
  <2>1. CASE 1 \in DOMAIN f.tail
    <3>1. /\ d1 = PartBytes(f.tail[1], b.curr, None) /\ n1 = f.tail[1].size
          /\ b1 = WritePart(b, f.tail[1]) /\ IsPart(f.tail[1])
      BY <2>1 DEF OnePart, PartLength, IsTail
    <3>2. QED
      BY <1>2, <3>1, PartPuts
  <2>2. CASE 1 \notin DOMAIN f.tail
    <3>1. d1 = <<>> /\ b1 = b
      BY <2>2 DEF OnePart
    <3>2. QED
      BY <3>1, PutsNothing
  <2>3. QED
    BY <2>1, <2>2
<1> HIDE DEF b1
<1>4. b1 \in BlocksOver(D) /\ GetOffset(b1) + n2 + 3 < AddrSpace
  <2>1. GetOffset(b) + (Len(d1) + n2) + 3 < AddrSpace
    BY <1>2
  <2> HIDE DEF d1, n2
  <2>2. QED
    BY <1>2, <1>3, <2>1, PutsRoom
<1>5. Puts(D, b1, a, d2, 0)
  <2>1. CASE 2 \in DOMAIN f.tail
    <3>1. /\ n2 = f.tail[2].size /\ a = WritePart(b1, f.tail[2]) /\ IsPart(f.tail[2])
          /\ OnePart(f, 2, b1.curr, None) = PartBytes(f.tail[2], b1.curr, None)
      BY <2>1 DEF OnePart, PartLength, IsTail
    <3>2. d2 = OnePart(f, 2, b1.curr, None)
      BY SecondPart
    <3> HIDE DEF a, d2
    <3>3. QED
      BY <1>4, <3>1, <3>2, PartPuts
  <2>2. CASE 2 \notin DOMAIN f.tail
    <3>1. d2 = <<>> /\ a = b1
      BY <2>2 DEF OnePart
    <3>2. QED
      BY <1>4, <3>1, PutsNothing
  <2>3. QED
    BY <2>1, <2>2
<1> HIDE DEF a, d1, d2
<1>6. Puts(D, b, a, d1 \o d2, 0)
  <2>1. 0 \in 0 .. 3 /\ 0 <= Len(d2) + 0
    BY <1>2
  <2>2. QED
    BY <1>3, <1>5, <2>1, PutsThen
<1>7. QED
  BY <1>1, <1>2, <1>6

\* The bytes of a memory operand, whatever the displacement's length.
LEMMA MemBytesShape ==
  ASSUME NEW m, IsMem(m, Reg), NEW reg \in 0 .. 7, NEW n \in {1, 4}
  PROVE  /\ ModOf(m, n) \in 0 .. 2 /\ RmOf(m) \in 0 .. 7
         /\ ModRegRm(ModOf(m, n), reg, RmOf(m)) \in ByteValue
         /\ SIBBytes(m) \in Seq(ByteValue) /\ Len(SIBBytes(m)) \in 0 .. 1
         /\ HasSIB(m) \/ EspBase(m) => Len(SIBBytes(m)) = 1
         /\ DispLength(m, n) \in {0, 1, 4}
         /\ LittleEndian(m.offset, DispLength(m, n)) \in Seq(ByteValue)
         /\ Len(LittleEndian(m.offset, DispLength(m, n))) = DispLength(m, n)
         /\ MemBytes(m, reg, n) \in Seq(ByteValue)
         /\ Len(MemBytes(m, reg, n)) = 1 + (Len(SIBBytes(m)) + DispLength(m, n))
<1> DEFINE v == ModRegRm(ModOf(m, n), reg, RmOf(m))
           d2 == SIBBytes(m)
           k == DispLength(m, n)
           d3 == LittleEndian(m.offset, k)
<1>1. ModOf(m, n) \in 0 .. 2 /\ RmOf(m) \in 0 .. 7 /\ v \in ByteValue
  <2>1. ModOf(m, n) \in 0 .. 2 /\ RmOf(m) \in 0 .. 7
    BY DEF ModOf, RmOf, RegInd, Disp1, Disp4, IsMem, WithBase, WithIndexReg, HasSIB, Reg
  <2>2. ModOf(m, n) \in 0 .. 3
    BY <2>1
  <2>3. QED
    BY <2>1, <2>2, FieldsType
<1>2. d2 \in Seq(ByteValue) /\ Len(d2) \in 0 .. 1 /\ (HasSIB(m) \/ EspBase(m) => Len(d2) = 1)
  <2>1. CASE HasSIB(m)
    <3> DEFINE w == BuildSIB(m.scale, m.index, IF m.base = None THEN 5 ELSE m.base)
    <3>1. m.scale \in 0 .. 3 /\ m.index \in 0 .. 7 /\ m.base \in 0 .. 7 \cup {None}
      BY <2>1 DEF IsMem, HasSIB, WithIndexReg, Reg
    <3>2. (IF m.base = None THEN 5 ELSE m.base) \in 0 .. 7
      BY <3>1 DEF None
    <3>3. w \in ByteValue
      BY <3>1, <3>2, FieldsType
    <3>4. d2 = <<w>>
      BY <2>1 DEF SIBBytes
    <3> HIDE DEF w
    <3>5. QED
      BY <3>3, <3>4
  <2>2. CASE ~HasSIB(m) /\ EspBase(m)
    <3>1. \h24 \in ByteValue /\ d2 = <<\h24>>
      BY <2>2 DEF SIBBytes, ByteValue
    <3>2. QED
      BY <3>1
  <2>3. CASE ~HasSIB(m) /\ ~EspBase(m)
    <3>1. d2 = <<>>
      BY <2>3 DEF SIBBytes
    <3>2. QED
      BY <2>3, <3>1
  <2>4. QED
    BY <2>1, <2>2, <2>3
<1>3. k \in {0, 1, 4} /\ k \in Nat
  BY DEF DispLength
<1>a. m.offset \in Int
  BY DEF IsMem
<1>m. MemBytes(m, reg, n) = <<v>> \o (d2 \o d3)
  BY DEF MemBytes
<1> HIDE DEF v, d2, k
<1>4. d3 \in Seq(ByteValue) /\ Len(d3) = k
  BY <1>3, <1>a, LittleEndianType
<1> HIDE DEF d3
<1>5. d2 \o d3 \in Seq(ByteValue) /\ Len(d2 \o d3) = Len(d2) + k
  BY <1>2, <1>4, ConcatProperties
<1>6. <<v>> \in Seq(ByteValue) /\ Len(<<v>>) = 1
  BY <1>1
<1>7. <<v>> \o (d2 \o d3) \in Seq(ByteValue) /\ Len(<<v>> \o (d2 \o d3)) = 1 + (Len(d2) + k)
  BY <1>5, <1>6, ConcatProperties
<1>8. QED
  BY <1>1, <1>2, <1>3, <1>4, <1>7, <1>m DEF v, d2, k, d3

\* The bytes of the segment prefix.
SegBytes(f, layout) == IF f.rm.k = "mem" /\ layout.seg THEN <<SegReg(f.rm.mem)>> ELSE <<>>

\* The parts of an instruction and their lengths, in any layout.
LEMMA FormShape ==
  ASSUME NEW f, IsInstruction(f), NEW layout \in Layouts, NEW p \in Int, NEW to \in Ptr \cup {None}
  PROVE  /\ SegBytes(f, layout) \in Seq(ByteValue) /\ Len(SegBytes(f, layout)) \in 0 .. 1
         /\ HeadBytes(f, layout) = SegBytes(f, layout) \o f.bytes
         /\ HeadBytes(f, layout) \in Seq(ByteValue)
         /\ Len(HeadBytes(f, layout)) = Len(SegBytes(f, layout)) + Len(f.bytes)
         /\ Len(f.bytes) \in 0 .. 4
         /\ RmBytes(f, layout) \in Seq(ByteValue) /\ Len(RmBytes(f, layout)) \in 0 .. 6
         /\ FrontBytes(f, layout) \in Seq(ByteValue)
         /\ Len(FrontBytes(f, layout)) = Len(HeadBytes(f, layout)) + Len(RmBytes(f, layout))
         /\ FormBytes(f, layout, p, to) \in Seq(ByteValue \cup {Hole})
         /\ Len(FormBytes(f, layout, p, to)) = Len(FrontBytes(f, layout)) + TailLength(f)
<1> DEFINE s0 == SegBytes(f, layout)
           s1 == HeadBytes(f, layout)
           s2 == RmBytes(f, layout)
           s3 == FrontBytes(f, layout)
<1>1. s0 \in Seq(ByteValue) /\ Len(s0) \in 0 .. 1
  <2>1. CASE f.rm.k = "mem" /\ layout.seg
    <3>1. SegReg(f.rm.mem) \in ByteValue
      BY <2>1 DEF IsInstruction, IsMem, SegReg, RegSeg, ES, CS, SS, DS, FS, GS, None, ByteValue
    <3>2. s0 = <<SegReg(f.rm.mem)>>
      BY <2>1 DEF SegBytes
    <3>3. QED
      BY <3>1, <3>2
  <2>2. CASE ~(f.rm.k = "mem" /\ layout.seg)
    <3>1. s0 = <<>>
      BY <2>2 DEF SegBytes
    <3>2. QED
      BY <3>1
  <2>3. QED
    BY <2>1, <2>2
<1>2. f.bytes \in Seq(ByteValue) /\ Len(f.bytes) \in 0 .. 4
  <2>1. f.bytes \in Seq(ByteValue) /\ Len(f.bytes) <= 4
    BY DEF IsInstruction
  <2> DEFINE n == Len(f.bytes)
  <2>2. n \in Nat /\ n <= 4
    BY <2>1
  <2> HIDE DEF n
  <2>3. n \in 0 .. 4
    BY <2>2
  <2>4. QED
    BY <2>1, <2>3 DEF n
<1>3. s1 = s0 \o f.bytes
  BY DEF HeadBytes, SegBytes
<1> HIDE DEF s0, s1
<1>4. s1 \in Seq(ByteValue) /\ Len(s1) = Len(s0) + Len(f.bytes)
  BY <1>1, <1>2, <1>3, ConcatProperties
<1>5. s2 \in Seq(ByteValue) /\ Len(s2) \in 0 .. 6
  <2>1. CASE f.rm.k = "mem"
    <3>1. IsMem(f.rm.mem, Reg) /\ f.reg \in 0 .. 7 /\ layout.disp \in {1, 4}
      BY <2>1 DEF IsInstruction, Layouts
    <3>2. s2 = MemBytes(f.rm.mem, f.reg, layout.disp)
      BY <2>1 DEF RmBytes
    <3> DEFINE m == f.rm.mem
               n == layout.disp
               n1 == Len(SIBBytes(m))
               n2 == DispLength(m, n)
    <3> HIDE DEF s2
    <3>a. IsMem(m, Reg) /\ f.reg \in 0 .. 7 /\ n \in {1, 4} /\ s2 = MemBytes(m, f.reg, n)
      BY <3>1, <3>2
    <3> HIDE DEF m, n
    <3>3. s2 \in Seq(ByteValue) /\ Len(s2) = 1 + (n1 + n2) /\ n1 \in 0 .. 1 /\ n2 \in {0, 1, 4}
      BY <3>a, MemBytesShape
    <3> HIDE DEF n1, n2, s2
    <3>4. QED
      BY <3>3
  <2>2. CASE f.rm.k = "reg"
    <3>1. s2 = <<ModRegRm(RegAddr, f.reg, f.rm.reg)>>
      BY <2>2 DEF RmBytes
    <3>2. ModRegRm(RegAddr, f.reg, f.rm.reg) \in ByteValue
      BY <2>2, FieldsType DEF IsInstruction, RegAddr, Reg
    <3>3. QED
      BY <3>1, <3>2
  <2>3. CASE f.rm.k \notin {"mem", "reg"}
    <3>1. s2 = <<>>
      BY <2>3 DEF RmBytes
    <3>2. QED
      BY <3>1
  <2>4. QED
    BY <2>1, <2>2, <2>3
<1>6. s3 = s1 \o s2
  BY DEF FrontBytes, s1
<1> HIDE DEF s2, s3
<1>7. s3 \in Seq(ByteValue) /\ Len(s3) = Len(s1) + Len(s2)
  BY <1>4, <1>5, <1>6, ConcatProperties
<1>8. s3 \in Seq(ByteValue \cup {Hole}) /\ Len(s3) \in Nat
  BY <1>7, BytesAreData
<1> DEFINE q == Plus(p, Len(s3))
           s4 == TailBytes(f, q, to)
<1>9. FormBytes(f, layout, p, to) = s3 \o s4
  BY DEF FormBytes, s3
<1>10. q \in Int
  BY <1>8, BlockAssumption DEF Plus, Wrap
<1> HIDE DEF q
<1>11. s4 \in Seq(ByteValue \cup {Hole}) /\ Len(s4) = TailLength(f)
  BY <1>10, TailBytesType DEF IsInstruction
<1> HIDE DEF s4
<1>12. s3 \o s4 \in Seq(ByteValue \cup {Hole}) /\ Len(s3 \o s4) = Len(s3) + TailLength(f)
  BY <1>8, <1>11, ConcatProperties
<1>13. QED
  BY <1>1, <1>2, <1>3, <1>4, <1>5, <1>7, <1>9, <1>12 DEF s0, s1, s2, s3

\* In the layout in which an instruction is written its parts have the lengths that
\* the emitters give them.
LEMMA LayoutLengths ==
  ASSUME NEW f, IsInstruction(f)
  PROVE  /\ LayoutOf(f) \in Layouts
         /\ Len(SegBytes(f, LayoutOf(f))) = IF f.rm.k = "mem" THEN SegLength(f.rm.mem) ELSE 0
         /\ Len(HeadBytes(f, LayoutOf(f))) = HeadLength(f)
         /\ Len(RmBytes(f, LayoutOf(f))) = RmLength(f)
         /\ \A p \in Int, to \in Ptr \cup {None} :
              Len(FormBytes(f, LayoutOf(f), p, to)) = InstrLength(f)
<1> DEFINE L == LayoutOf(f)
<1>1. L \in Layouts
  BY DEF LayoutOf, Layouts, OptimalBytes, CustomSegReg
<1>2. f.rm.k = "mem" => L.seg = CustomSegReg(f.rm.mem) /\ L.disp = OptimalBytes(f.rm.mem)
  <2>1. L = [seg  |-> f.rm.k = "mem" /\ CustomSegReg(f.rm.mem),
             disp |-> IF f.rm.k = "mem" THEN OptimalBytes(f.rm.mem) ELSE 4]
    BY DEF LayoutOf
  <2>2. /\ L.seg = (f.rm.k = "mem" /\ CustomSegReg(f.rm.mem))
        /\ L.disp = IF f.rm.k = "mem" THEN OptimalBytes(f.rm.mem) ELSE 4
    BY <2>1
  <2>3. CustomSegReg(f.rm.mem) \in BOOLEAN
    BY DEF CustomSegReg
  <2> HIDE DEF L
  <2>4. QED
    BY <2>2, <2>3
<1> HIDE DEF L
<1>3. Len(SegBytes(f, L)) = IF f.rm.k = "mem" THEN SegLength(f.rm.mem) ELSE 0
  BY <1>2 DEF SegBytes, SegLength
<1>4. 0 \in Int /\ None \in Ptr \cup {None}
  OBVIOUS
<1>5. Len(HeadBytes(f, L)) = HeadLength(f)
  <2>1. Len(HeadBytes(f, L)) = Len(SegBytes(f, L)) + Len(f.bytes)
    BY <1>1, <1>4, FormShape
  <2>2. QED
    BY <1>3, <2>1 DEF HeadLength
<1>6. Len(RmBytes(f, L)) = RmLength(f)
  <2>1. CASE f.rm.k = "mem"
    <3> DEFINE m == f.rm.mem
               n == OptimalBytes(m)
    <3>1. RmBytes(f, L) = MemBytes(m, f.reg, n) /\ RmLength(f) = MemLength(m)
      BY <1>2, <2>1 DEF RmBytes, RmLength
    <3>2. IsMem(m, Reg) /\ f.reg \in 0 .. 7 /\ n \in {1, 4}
      BY <2>1 DEF IsInstruction, OptimalBytes
    <3>3. MemLength(m) = 1 + (Len(SIBBytes(m)) + DispLength(m, n))
      BY <3>2 DEF MemLength, SIBBytes, DispLength, IsMem, EspLength, HasSIB, WithBase,
         WithIndexReg, EspBase, None, ESP
    <3> HIDE DEF m, n
    <3>4. QED
      BY <3>1, <3>2, <3>3, MemBytesShape
  <2>2. CASE f.rm.k # "mem"
    BY <2>2 DEF RmBytes, RmLength
  <2>3. QED
    BY <2>1, <2>2
<1>7. ASSUME NEW p \in Int, NEW to \in Ptr \cup {None}
      PROVE  Len(FormBytes(f, L, p, to)) = InstrLength(f)
  <2>1. /\ Len(FormBytes(f, L, p, to)) = Len(FrontBytes(f, L)) + TailLength(f)
        /\ Len(FrontBytes(f, L)) = Len(HeadBytes(f, L)) + Len(RmBytes(f, L))
    BY <1>1, FormShape
  <2>2. HeadLength(f) \in Int /\ RmLength(f) \in Int /\ TailLength(f) \in Int
    BY LengthsType
  <2>3. QED
    BY <1>5, <1>6, <2>1, <2>2 DEF InstrLength
<1>8. QED
  BY <1>1, <1>3, <1>5, <1>6, <1>7 DEF L

\* Segment prefix and opcode: of the prefix that is written and not wanted nothing is
\* left, the opcode is written over it.
LEMMA HeadPuts ==
  ASSUME NEW D \in SUBSET Ptr, NEW b \in BlocksOver(D), NEW f, IsInstruction(f),
         GetOffset(b) + HeadLength(f) + 3 < AddrSpace
  PROVE  Puts(D, b, WriteHead(b, f), HeadBytes(f, LayoutOf(f)), HeadSpill(f))
<1>0. /\ f.bytes \in Seq(ByteValue) /\ Len(f.bytes) \in Nat
      /\ GetOffset(b) \in Nat /\ AddrSpace \in Nat
  BY OffsetType, BlockAssumption DEF Ptr, IsInstruction
<1>1. CASE f.rm.k = "mem"
  <2> DEFINE m == f.rm.mem
             wanted == CustomSegReg(m)
             v == SegReg(m)
             b1 == WriteSegmPrefix(b, m)
             d1 == IF wanted THEN <<v>> ELSE <<>>
             s1 == IF wanted THEN 0 ELSE 1
             n == Len(f.bytes)
  <2>1. /\ v \in ByteValue /\ wanted \in BOOLEAN
        /\ b1 = SkipBytes(WriteRaw(b, <<v>>), IF wanted THEN 1 ELSE 0)
    BY <1>1 DEF WriteSegmPrefix, IsInstruction, IsMem, SegReg, RegSeg, ES, CS, SS, DS, FS, GS,
       None, ByteValue, CustomSegReg
  <2>2. HeadLength(f) = (IF wanted THEN 1 ELSE 0) + n /\ HeadSpill(f) = 1
    BY <1>1 DEF HeadLength, SegLength, HeadSpill
  <2>3. HeadBytes(f, LayoutOf(f)) = d1 \o f.bytes
    BY <1>1 DEF HeadBytes, LayoutOf
  <2>4. WriteHead(b, f) = PushBytes(b1, f.bytes)
    BY <1>1 DEF WriteHead
  <2>5. Len(d1) = (IF wanted THEN 1 ELSE 0) /\ s1 \in 0 .. 3 /\ s1 <= n + 1
    BY <1>0
  <2>6. GetOffset(b) + (Len(d1) + n) + 3 < AddrSpace
        /\ GetOffset(b) + (IF wanted THEN 1 ELSE 0) + 3 < AddrSpace
    <3>1. n \in Nat /\ GetOffset(b) \in Nat /\ AddrSpace \in Nat
          /\ GetOffset(b) + HeadLength(f) + 3 < AddrSpace
      BY <1>0
    <3> HIDE DEF n, d1, wanted
    <3>2. QED
      BY <3>1, <2>2, <2>5
  <2> HIDE DEF b1, wanted, v
  <2>7. Puts(D, b, b1, d1, s1)
    BY <2>1, <2>6, OptionalPuts
  <2> HIDE DEF d1, s1
  <2>8. b1 \in BlocksOver(D) /\ GetOffset(b1) + n + 3 < AddrSpace
    BY <1>0, <2>6, <2>7, PutsRoom
  <2>9. Puts(D, b1, PushBytes(b1, f.bytes), f.bytes, 1)
    <3>1. Puts(D, b1, PushBytes(b1, f.bytes), f.bytes, 0)
      BY <1>0, <2>8, PushBytesPuts
    <3>2. 0 \in 0 .. 3 /\ 1 \in 0 .. 3 /\ 0 <= 1
      OBVIOUS
    <3>3. QED
      BY <2>8, <3>1, <3>2, PutsMore
  <2>10. Puts(D, b, PushBytes(b1, f.bytes), d1 \o f.bytes, 1)
    <3>1. 1 \in 0 .. 3
      OBVIOUS
    <3>2. QED
      BY <2>5, <2>7, <2>9, <3>1, PutsThen
  <2>11. QED
    BY <2>2, <2>3, <2>4, <2>10
<1>2. CASE f.rm.k # "mem"
  <2>1. /\ WriteHead(b, f) = PushBytes(b, f.bytes) /\ HeadSpill(f) = 0
        /\ HeadLength(f) = Len(f.bytes) /\ HeadBytes(f, LayoutOf(f)) = <<>> \o f.bytes
    BY <1>0, <1>2 DEF WriteHead, HeadSpill, HeadLength, HeadBytes
  <2>2. <<>> \o f.bytes = f.bytes
    BY <1>0, ConcatEmptySeq
  <2>3. QED
    BY <1>0, <2>1, <2>2, PushBytesPuts
<1>3. QED
  BY <1>1, <1>2

\* The register or memory operand.
LEMMA RMPuts ==
  ASSUME NEW D \in SUBSET Ptr, NEW b \in BlocksOver(D), NEW f, IsInstruction(f),
         GetOffset(b) + RmLength(f) + 3 < AddrSpace
  PROVE  Puts(D, b, WriteRM(b, f), RmBytes(f, LayoutOf(f)), RmSpill(f))
<1>1. CASE f.rm.k = "mem"
  <2>1. /\ IsMem(f.rm.mem, Reg) /\ f.reg \in 0 .. 7
        /\ WriteRM(b, f) = WriteMem(b, f.rm.mem, f.reg)
        /\ RmBytes(f, LayoutOf(f)) = MemBytes(f.rm.mem, f.reg, OptimalBytes(f.rm.mem))
        /\ RmLength(f) = MemLength(f.rm.mem) /\ RmSpill(f) = MemSpill(f.rm.mem)
    BY <1>1 DEF IsInstruction, WriteRM, RmBytes, LayoutOf, RmLength, RmSpill
  <2>2. QED
    BY <2>1, MemPuts
<1>2. CASE f.rm.k = "reg"
  <2>1. /\ f.rm.reg \in 0 .. 7 /\ f.reg \in 0 .. 7 /\ RegAddr \in 0 .. 3
        /\ WriteRM(b, f) = WriteModRegRm(b, RegAddr, f.reg, f.rm.reg)
        /\ RmBytes(f, LayoutOf(f)) = <<ModRegRm(RegAddr, f.reg, f.rm.reg)>>
        /\ RmLength(f) = 1 /\ RmSpill(f) = 0
    BY <1>2 DEF IsInstruction, WriteRM, RmBytes, RmLength, RmSpill, Reg, RegAddr
  <2>2. QED
    BY <2>1, ModRegRmPuts
<1>3. CASE f.rm.k \notin {"mem", "reg"}
  <2>1. WriteRM(b, f) = b /\ RmBytes(f, LayoutOf(f)) = <<>> /\ RmSpill(f) = 0
    BY <1>3 DEF WriteRM, RmBytes, RmSpill
  <2>2. QED
    BY <2>1, PutsNothing
<1>4. QED
  BY <1>1, <1>2, <1>3

\* Of an operand that has been written, the code finds its replaceable parts where the
\* layout says they are.
LEMMA MemFieldsAgree ==
  ASSUME NEW m, IsMem(m, Reg), NEW at \in Nat
  PROVE  MemHandles(m, at) = MemFields(m, at, OptimalBytes(m))
<1> DEFINE n == OptimalBytes(m)
           sib == at + 1
<1>1. n \in {1, 4}
  BY DEF OptimalBytes
<1>2. Len(SIBBytes(m)) = IF HasSIB(m) \/ EspBase(m) THEN 1 ELSE 0
  BY DEF SIBBytes
<1>3. \A part \in ReplaceableParts(m) : part = "offset" => OffsetBytes(m) = DispLength(m, n)
  BY DEF IsMem, ReplaceableParts, WithBase, WithIndexReg, OffsetBytes, DispLength
<1>4. at + 1 + (IF HasSIB(m) \/ EspBase(m) THEN 1 ELSE 0) = sib + Len(SIBBytes(m))
  BY <1>2
<1>5. QED
  BY <1>3, <1>4 DEF MemHandles, MemFields

\* Instruction f puts the bytes of the encoding, into any block that has room for it,
\* whatever was there; and the handles are those of the encoding.
LEMMA WritePuts ==
  ASSUME NEW D \in SUBSET Ptr, NEW b \in BlocksOver(D), NEW f, IsInstruction(f),
         GetOffset(b) + InstrLength(f) + 3 < AddrSpace
  PROVE  /\ Puts(D, b, Write(b, f).b, FormBytes(f, LayoutOf(f), b.curr, None), RmSpill(f))
         /\ ~Write(b, f).b.aborted =>
              Write(b, f).h = [i \in DOMAIN f.args |->
                                 Fields(f, f.args[i], LayoutOf(f), GetOffset(b))]
<1> DEFINE L == LayoutOf(f)
           b1 == WriteHead(b, f)
           b2 == WriteRM(b1, f)
           a == FoldLeft(WritePart, b2, f.tail)
           modRm == GetOffset(b1)
           tail == GetOffset(b2)
           d1 == HeadBytes(f, L)
           d2 == RmBytes(f, L)
           d3 == TailBytes(f, b2.curr, None)
           p == Plus(b.curr, Len(FrontBytes(f, L)))
           d4 == TailBytes(f, p, None)
           n3 == TailLength(f)
           s1 == HeadSpill(f)
           s2 == RmSpill(f)
<1>0. /\ Write(b, f).b = a
      /\ Write(b, f).h = [i \in DOMAIN f.args |-> Handles(f, f.args[i], modRm, tail)]
  BY DEF Write, WriteFrom, WriteTail
<1>1. /\ Len(d1) = HeadLength(f) /\ Len(d2) = RmLength(f) /\ L \in Layouts
      /\ FrontBytes(f, L) = d1 \o d2
      /\ Len(FrontBytes(f, L)) = Len(d1) + Len(d2)
      /\ FormBytes(f, L, b.curr, None) = (d1 \o d2) \o d4
      /\ d1 \in Seq(ByteValue) /\ d2 \in Seq(ByteValue)
      /\ b.curr \in Int
  <2>1. b.curr \in Int
    BY DEF BlocksOver, Ptr
  <2>2. L \in Layouts /\ Len(d1) = HeadLength(f) /\ Len(d2) = RmLength(f)
    BY LayoutLengths
  <2>3. FrontBytes(f, L) = d1 \o d2 /\ FormBytes(f, L, b.curr, None) = (d1 \o d2) \o d4
    BY DEF FrontBytes, FormBytes
  <2>4. None \in Ptr \cup {None}
    OBVIOUS
  <2> HIDE DEF L
  <2>5. /\ d1 \in Seq(ByteValue) /\ d2 \in Seq(ByteValue)
        /\ Len(FrontBytes(f, L)) = Len(d1) + Len(d2)
    BY <2>1, <2>2, <2>4, FormShape
  <2>6. QED
    BY <2>1, <2>2, <2>3, <2>5
<1>2. /\ Len(d1) \in Nat /\ Len(d2) \in Nat /\ n3 \in Nat
      /\ GetOffset(b) \in Nat /\ AddrSpace \in Nat
      /\ GetOffset(b) + (Len(d1) + (Len(d2) + n3)) + 3 < AddrSpace
      /\ GetOffset(b) + HeadLength(f) + 3 < AddrSpace
      /\ s1 \in 0 .. 3 /\ s2 \in 0 .. 3 /\ s1 <= Len(d2) + s2
  <2>1. /\ HeadLength(f) \in Nat /\ RmLength(f) \in Nat /\ n3 \in Nat
        /\ s1 \in 0 .. 3 /\ s2 \in 0 .. 3 /\ s1 <= RmLength(f) + s2
    BY LengthsType
  <2>2. GetOffset(b) \in Nat /\ AddrSpace \in Nat
    BY OffsetType, BlockAssumption DEF Ptr
  <2>3. InstrLength(f) = HeadLength(f) + (RmLength(f) + n3)
    BY DEF InstrLength
  <2>4. Len(d1) = HeadLength(f) /\ Len(d2) = RmLength(f)
    BY <1>1
  <2> HIDE DEF d1, d2, n3, s1, s2
  <2>5. QED
    BY <2>1, <2>2, <2>3, <2>4
<1>3. Puts(D, b, b1, d1, s1)
  BY <1>2, HeadPuts
<1> HIDE DEF b1
<1>4. b1 \in BlocksOver(D) /\ GetOffset(b1) + (Len(d2) + n3) + 3 < AddrSpace
  <2> HIDE DEF d1, d2, n3
  <2>1. Len(d2) + n3 \in Nat
    BY <1>2
  <2>2. QED
    BY <1>2, <1>3, <2>1, PutsRoom
<1>5. Puts(D, b1, b2, d2, s2)
  <2>1. GetOffset(b1) + RmLength(f) + 3 < AddrSpace
    <3>1. GetOffset(b1) \in Nat
      BY <1>4, OffsetType DEF Ptr
    <3> HIDE DEF d2, n3
    <3>2. QED
      BY <1>1, <1>2, <1>4, <3>1
  <2>2. QED
    BY <1>4, <2>1, RMPuts
<1> HIDE DEF b2
<1>6. b2 \in BlocksOver(D) /\ GetOffset(b2) + n3 + 3 < AddrSpace
  <2> HIDE DEF d2, n3
  <2>1. QED
    BY <1>2, <1>4, <1>5, PutsRoom
<1>7. Puts(D, b2, a, d3, 0)
  BY <1>6, TailPuts DEF IsInstruction
<1> HIDE DEF a
<1>8. Puts(D, b, b2, d1 \o d2, s2)
  <2> HIDE DEF d1, d2, s1, s2
  <2>1. QED
    BY <1>2, <1>3, <1>5, PutsThen
<1>9. ~b2.aborted => /\ modRm = GetOffset(b) + Len(d1) /\ tail = modRm + Len(d2)
                     /\ b2.curr = p
  <2>1. /\ Emits(D, b, b1, Len(d1), s1) /\ Emits(D, b1, b2, Len(d2), s2)
    BY <1>3, <1>5 DEF Puts
  <2> HIDE DEF d1, d2, s1, s2
  <2>2. /\ ~b2.aborted => ~b1.aborted
        /\ b2.start = b.start
    BY <2>1 DEF Emits
  <2>3. ~b2.aborted => modRm = GetOffset(b) + Len(d1) /\ tail = modRm + Len(d2)
    BY <2>1, <2>2 DEF Emits
  <2> DEFINE n == Len(d1) + Len(d2)
  <2>4. ~b2.aborted => GetOffset(b2) = GetOffset(b) + n
    BY <1>2, <2>3
  <2>5. n \in Nat /\ GetOffset(b) + n < AddrSpace
    BY <1>2
  <2>6. p = Plus(b.curr, n)
    BY <1>1
  <2> HIDE DEF n, p
  <2>7. ~b2.aborted => b2.curr = Plus(b.curr, n)
    BY <1>6, <2>2, <2>4, <2>5, CursorAfter
  <2>8. QED
    BY <2>3, <2>6, <2>7
<1>10. Puts(D, b2, a, d4, 0) /\ Len(d4) = n3
  <2>1. p \in Int /\ b2.curr \in Int
    <3>1. Len(FrontBytes(f, L)) \in Nat
      <4> HIDE DEF d1, d2, L
      <4> QED
        BY <1>1, <1>2
    <3> DEFINE n == Len(FrontBytes(f, L))
    <3> HIDE DEF n
    <3>2. Plus(b.curr, n) \in Int
      BY <1>1, <3>1, BlockAssumption DEF Plus, Wrap, n
    <3>3. QED
      BY <1>6, <3>2 DEF BlocksOver, Ptr, n
  <2>2. None \in Ptr \cup {None} /\ IsTail(f.tail)
    BY DEF IsInstruction
  <2> HIDE DEF p
  <2>3. d4 \in Seq(ByteValue \cup {Hole}) /\ Len(d4) = n3 /\ Len(d3) = n3
    BY <2>1, <2>2, TailBytesType
  <2>4. ~b2.aborted => d4 = d3
    BY <1>9
  <2> HIDE DEF d3, d4, n3
  <2>5. QED
    BY <1>6, <1>7, <2>3, <2>4, PutsStopped
<1>11. Puts(D, b, a, (d1 \o d2) \o d4, s2)
  <2> HIDE DEF d1, d2, d4, s1, s2, n3
  <2>1. Puts(D, b2, a, d4, s2)
    <3>1. 0 \in 0 .. 3 /\ 0 <= s2
      BY <1>2
    <3>2. QED
      BY <1>2, <1>6, <1>10, <3>1, PutsMore
  <2>2. s2 <= Len(d4) + s2
    BY <1>2, <1>10
  <2>3. QED
    BY <1>2, <1>8, <2>1, <2>2, PutsThen
<1>12. ASSUME ~a.aborted, NEW i \in DOMAIN f.args
       PROVE  Handles(f, f.args[i], modRm, tail) = Fields(f, f.args[i], L, GetOffset(b))
  <2>1. ~b2.aborted
    BY <1>7, <1>12 DEF Puts, Emits
  <2>2. modRm = GetOffset(b) + Len(d1) /\ tail = GetOffset(b) + Len(FrontBytes(f, L))
        /\ modRm \in Nat
    <3> HIDE DEF d1, d2, modRm, tail, L
    <3>1. QED
      BY <1>1, <1>2, <1>9, <2>1
  <2>3. CASE f.args[i] = "rm" /\ f.rm.k = "mem"
    <3>1. IsMem(f.rm.mem, Reg) /\ L.disp = OptimalBytes(f.rm.mem)
      BY <2>3 DEF IsInstruction, LayoutOf
    <3>2. Handles(f, f.args[i], modRm, tail) = MemHandles(f.rm.mem, modRm)
      BY <2>3 DEF Handles
    <3>3. Fields(f, f.args[i], L, GetOffset(b)) = MemFields(f.rm.mem, modRm, L.disp)
      BY <2>2, <2>3 DEF Fields
    <3> HIDE DEF modRm, L
    <3>4. QED
      BY <2>2, <3>1, <3>2, <3>3, MemFieldsAgree
  <2>4. CASE ~(f.args[i] = "rm" /\ f.rm.k = "mem")
    BY <2>2, <2>4 DEF Fields
  <2>5. QED
    BY <2>3, <2>4
<1>13. QED
  BY <1>0, <1>1, <1>11, <1>12
=============================================================================
