---- MODULE Assembler_proofs ----
(***************************************************************************)
(* The two-pass client is safe for every set of calls, every block and     *)
(* every slack.  The argument, from the emitters up:                       *)
(*   - a call emits a number of bytes that depends on its operands only,   *)
(*     and its handles point into them (CallFits);                         *)
(*   - so the two passes advance alike (Pass), and a patch through a       *)
(*     handle changes only what the handle points to (ReplacePatches,      *)
(*     BindPatches);                                                       *)
(*   - so each action keeps the invariant IInv, the layout, and what is    *)
(*     behind the block (Keeps), one lemma per action;                     *)
(*   - and the properties that the runs check follow;                      *)
(*   - last, the instructions do not overlap (Ordered), so that what a     *)
(*     step did to the memory (Effect) it did to one instruction, which is *)
(*     a step of ByteStream (EffectOnContents).                            *)
(***************************************************************************)
EXTENDS Assembler, Emitters_proofs

(***************************************************************************)
(* What a call emits                                                       *)
(***************************************************************************)
\* The bytes that a call emits: they depend on its operands only.
LengthOf(c) ==
  IF c.class = "X64" THEN Length64(c)
  ELSE IF c.mn = "Nop" THEN c.ops[1].n
  ELSE (IF c.mn \in DOMAIN Waiting THEN 1 ELSE 0) + InstrLength(InstructionOf(c))

\* How many bytes behind its end the call may write.
SpillOf(c) ==
  IF c.class = "X64" THEN Spill64(c)
  ELSE IF c.mn = "Nop" THEN 0
  ELSE RmSpill(InstructionOf(c))

\* All handles of a call point into the bytes at offsets lo to hi - 1.
HandlesFit(h, lo, hi) ==
  \A k \in DOMAIN h : \A field \in DOMAIN h[k] : IsHandle(field, h[k][field], lo, hi)

\* A label handle is the only handle of its operand, and the operand is a label.
Labels(c, h) ==
  \A k \in DOMAIN h : "label" \in DOMAIN h[k] =>
    /\ DOMAIN h[k] = {"label"} /\ h[k].label \in Ptr
    /\ c.ops[k] = LabelOp(c.ops[k].jump, c.ops[k].to)

\* The displacement of a label is the last thing in its instruction.
LabelsEnd(c, h, end) ==
  \A k \in DOMAIN h : "label" \in DOMAIN h[k] =>
    h[k].label + OffsetSize(c.ops[k].jump) = end

\* Emitting call c to block b gives w.b and the handles w.h: n bytes, and unless an
\* assertion stopped the program, handles that point into them.
EmitsCall(D, b, c, w, n) ==
  /\ Emits(D, b, w.b, n, SpillOf(c))
  /\ DOMAIN w.h = DOMAIN c.ops
  /\ Labels(c, w.h)
  /\ ~w.b.aborted => /\ HandlesFit(w.h, GetOffset(b), GetOffset(b) + n)
                     /\ LabelsEnd(c, w.h, GetOffset(b) + n)

\* What the assumptions say of the two buffers: neither is near the end of the
\* address space.
LEMMA Bounds ==
  /\ AddrSpace \in Nat /\ BlockSize \in Nat /\ Start \in Nat /\ MeasureStart \in Nat
  /\ Start + BlockSize + 24 < AddrSpace /\ MeasureStart + BlockSize < AddrSpace
  /\ BlockSize + 24 < AddrSpace
BY BlockAssumption, AssemblerAssumption DEF Window, Ptr

\* A handle into some bytes is a handle into any range around them.
LEMMA IsHandleWider ==
  ASSUME NEW field, NEW h, NEW lo \in Nat, NEW hi \in Nat, NEW lo1 \in Nat, NEW hi1 \in Nat,
         IsHandle(field, h, lo1, hi1), lo <= lo1, hi1 <= hi
  PROVE  IsHandle(field, h, lo, hi)
<1>1. \A at \in Nat : lo1 <= at => lo <= at
  OBVIOUS
<1>2. \A at \in Nat : at < hi1 => at < hi
  OBVIOUS
<1>3. \A at \in Nat, n \in {1, 2, 4} : at + n <= hi1 => at + n <= hi
  OBVIOUS
<1>4. QED
  BY <1>1, <1>2, <1>3 DEF IsHandle

\* A call writes at most three bytes behind its end.
LEMMA SpillType ==
  ASSUME NEW c
  PROVE  SpillOf(c) \in 0 .. 3
BY MemSpillType DEF SpillOf, RmSpill, Spill64

\* Every call of the i386 and i387 classes fits its length; the wait forms write
\* FWAIT first.
LEMMA CallFits86 ==
  ASSUME NEW c, c.class # "X64", c.mn # "Nop", IsCall86(c)
  PROVE  /\ LengthOf(c) \in 0 .. 20
         /\ \A D \in SUBSET Ptr : \A b \in BlocksOver(D) :
              GetOffset(b) + LengthOf(c) + 3 < AddrSpace
                => EmitsCall(D, b, c, EmitOf(b, c), LengthOf(c))
<1> DEFINE f == InstructionOf(c)
           k == IF c.mn \in DOMAIN Waiting THEN 1 ELSE 0
           n == InstrLength(f)
<1>1. IsInstruction(f) /\ n \in 0 .. 19
  BY LengthsType DEF IsCall86, WellFormed
<1>2. LengthOf(c) = k + n
  BY DEF LengthOf
<1>a. /\ DOMAIN f.args = DOMAIN c.ops
      /\ \A i \in DOMAIN c.ops : f.args[i] = "label" =>
           /\ c.ops[i] = LabelOp(c.ops[i].jump, c.ops[i].to)
           /\ f.tail[1].size = OffsetSize(c.ops[i].jump)
  BY DEF IsCall86, WellFormed, Replaces, IsOperand
<1>3. ASSUME NEW D \in SUBSET Ptr, NEW b \in BlocksOver(D),
             GetOffset(b) + n + 3 < AddrSpace
      PROVE  EmitsCall(D, b, c, Write(b, f), n)
  <2>1. Emits(D, b, Write(b, f).b, n, SpillOf(c)) /\ DOMAIN Write(b, f).h = DOMAIN c.ops
    BY <1>1, <1>3, <1>a, WriteEmits DEF SpillOf
  <2>2. Labels(c, Write(b, f).h)
    BY <1>1, <1>3, <1>a, WriteEmits DEF Labels
  <2>3. ASSUME ~Write(b, f).b.aborted
        PROVE  /\ HandlesFit(Write(b, f).h, GetOffset(b), GetOffset(b) + n)
               /\ LabelsEnd(c, Write(b, f).h, GetOffset(b) + n)
    BY <1>1, <1>3, <1>a, <2>3, WriteEmits DEF HandlesFit, LabelsEnd
  <2>4. QED
    BY <2>1, <2>2, <2>3 DEF EmitsCall
<1>4. CASE c.mn \in DOMAIN Waiting
  <2>1. \A b : EmitOf(b, c) = Write(PushByte(b, \h9B), f)
    BY <1>4 DEF EmitOf, Emit, InstructionOf, WriteUnmaskExceptionPrefix
  <2>2. LengthOf(c) = 1 + n
    BY <1>2, <1>4
  <2>3. ASSUME NEW D \in SUBSET Ptr, NEW b \in BlocksOver(D),
               GetOffset(b) + (1 + n) + 3 < AddrSpace
        PROVE  EmitsCall(D, b, c, EmitOf(b, c), 1 + n)
    <3> DEFINE b1 == PushByte(b, \h9B)
               w == Write(b1, f)
    <3>1. \h9B \in ByteValue /\ GetOffset(b) + 1 + 3 < AddrSpace
          /\ GetOffset(b) \in Nat
      BY <1>1, <2>3, Bounds, OffsetType DEF ByteValue, Ptr
    <3>2. Emits(D, b, b1, 1, 0)
      BY <3>1, PushByteEmits
    <3>3. b1 \in BlocksOver(D) /\ GetOffset(b1) + n + 3 < AddrSpace
      BY <1>1, <2>3, <3>2, EmitsRoom
    <3> HIDE DEF b1, n
    <3>4. EmitsCall(D, b1, c, w, n)
      BY <1>3, <3>3
    <3>a. n \in Nat
      BY <1>1
    <3>b. 0 \in 0 .. 3 /\ SpillOf(c) \in 0 .. 3 /\ 0 <= n + SpillOf(c)
      BY <3>a, SpillType
    <3>5. Emits(D, b, w.b, 1 + n, SpillOf(c))
      BY <3>2, <3>4, <3>a, <3>b, EmitsThen DEF EmitsCall
    <3>6. ASSUME ~w.b.aborted
          PROVE  GetOffset(b1) = GetOffset(b) + 1
      BY <3>2, <3>4, <3>6 DEF EmitsCall, Emits
    <3>7. ASSUME ~w.b.aborted
          PROVE  /\ HandlesFit(w.h, GetOffset(b), GetOffset(b) + (1 + n))
                 /\ LabelsEnd(c, w.h, GetOffset(b) + (1 + n))
      <4>1. GetOffset(b1) + n = GetOffset(b) + (1 + n) /\ GetOffset(b1) \in Nat
            /\ GetOffset(b) <= GetOffset(b1) /\ GetOffset(b1) + n \in Nat
        BY <3>1, <3>6, <3>7, <3>a
      <4>2. HandlesFit(w.h, GetOffset(b1), GetOffset(b1) + n) /\ LabelsEnd(c, w.h, GetOffset(b1) + n)
        BY <3>4, <3>7 DEF EmitsCall
      <4>3. HandlesFit(w.h, GetOffset(b), GetOffset(b1) + n)
        <5> SUFFICES ASSUME NEW i \in DOMAIN w.h, NEW field \in DOMAIN w.h[i]
                     PROVE  IsHandle(field, w.h[i][field], GetOffset(b), GetOffset(b1) + n)
          BY DEF HandlesFit
        <5>1. IsHandle(field, w.h[i][field], GetOffset(b1), GetOffset(b1) + n)
          BY <4>2 DEF HandlesFit
        <5>2. QED
          BY <3>1, <4>1, <5>1, IsHandleWider
      <4>4. QED
        BY <4>1, <4>2, <4>3
    <3>8. DOMAIN w.h = DOMAIN c.ops /\ Labels(c, w.h)
      BY <3>4 DEF EmitsCall
    <3>9. EmitsCall(D, b, c, w, 1 + n)
      BY <3>5, <3>7, <3>8 DEF EmitsCall
    <3>10. QED
      BY <2>1, <3>9 DEF b1
  <2> HIDE DEF n
  <2>4. QED
    BY <1>1, <2>2, <2>3
<1>5. CASE c.mn \notin DOMAIN Waiting
  <2>1. \A b : EmitOf(b, c) = Write(b, f)
    BY <1>5 DEF EmitOf, Emit, InstructionOf
  <2>2. LengthOf(c) = n
    BY <1>1, <1>2, <1>5
  <2> HIDE DEF n, f
  <2>3. QED
    BY <1>1, <1>3, <2>1, <2>2
<1>6. QED
  BY <1>4, <1>5

\* So does a padding Nop.
LEMMA CallFitsNop ==
  ASSUME NEW c, c.class # "X64", c.mn = "Nop", IsCall(c)
  PROVE  /\ Emittable(LengthOf(c))
         /\ \A D \in SUBSET Ptr : \A b \in BlocksOver(D) :
              GetOffset(b) + LengthOf(c) + 3 < AddrSpace
                => EmitsCall(D, b, c, EmitOf(b, c), LengthOf(c))
<1> DEFINE n == c.ops[1].n
<1>1. LengthOf(c) = n /\ Emittable(n) /\ DOMAIN c.ops = {1}
  BY DEF LengthOf, IsCall
<1>2. ASSUME NEW D \in SUBSET Ptr, NEW b \in BlocksOver(D),
             GetOffset(b) + n + 3 < AddrSpace
      PROVE  EmitsCall(D, b, c, EmitOf(b, c), n)
  <2> DEFINE w == EmitOf(b, c)
  <2>0. c.mn \notin DOMAIN Waiting
    BY DEF Waiting
  <2>1. w = Nop(b, n)
    BY <2>0 DEF EmitOf, Emit
  <2>2. w.h = <<NoHandles>>
    BY <2>1 DEF Nop
  <2>3. Emits(D, b, w.b, n, SpillOf(c))
    BY <1>1, <1>2, <2>1, NopEmits DEF Emittable, SpillOf
  <2>4. DOMAIN w.h = {1} /\ \A k \in DOMAIN w.h : DOMAIN w.h[k] = {}
    BY <2>2 DEF NoHandles
  <2>5. QED
    BY <1>1, <2>3, <2>4 DEF EmitsCall, Labels, LabelsEnd, HandlesFit
<1>3. QED
  BY <1>1, <1>2

\* So does every x64 call, which returns no handles.
LEMMA CallFits64 ==
  ASSUME NEW c, c.class = "X64", IsCall64(c)
  PROVE  /\ LengthOf(c) \in 1 .. 12
         /\ \A D \in SUBSET Ptr : \A b \in BlocksOver(D) :
              GetOffset(b) + LengthOf(c) + 3 < AddrSpace
                => EmitsCall(D, b, c, EmitOf(b, c), LengthOf(c))
<1> DEFINE n == Length64(c)
<1>1. LengthOf(c) = n /\ n \in 1 .. 12
  BY Emits64 DEF LengthOf
<1>2. ASSUME NEW D \in SUBSET Ptr, NEW b \in BlocksOver(D),
             GetOffset(b) + n + 3 < AddrSpace
      PROVE  EmitsCall(D, b, c, EmitOf(b, c), n)
  <2> DEFINE w == EmitOf(b, c)
  <2>1. w = Emit64(b, c)
    BY DEF EmitOf
  <2>2. w.h = [i \in DOMAIN c.ops |-> NoHandles]
    BY <2>1 DEF Emit64
  <2>3. Emits(D, b, w.b, n, SpillOf(c))
    BY <1>2, <2>1, Emits64 DEF SpillOf
  <2>4. DOMAIN w.h = DOMAIN c.ops /\ \A k \in DOMAIN w.h : DOMAIN w.h[k] = {}
    BY <2>2 DEF NoHandles
  <2>5. QED
    BY <2>3, <2>4 DEF EmitsCall, Labels, LabelsEnd, HandlesFit
<1>3. QED
  BY <1>1, <1>2

\* Every call that the client may make emits its length, in every block with room.
LEMMA CallFits ==
  ASSUME NEW c, IsCall(c)
  PROVE  /\ Emittable(LengthOf(c))
         /\ \A D \in SUBSET Ptr : \A b \in BlocksOver(D) :
              GetOffset(b) + LengthOf(c) + 3 < AddrSpace
                => EmitsCall(D, b, c, EmitOf(b, c), LengthOf(c))
<1>1. CASE c.class = "X64"
  <2>1. IsCall64(c)
    BY <1>1 DEF IsCall
  <2>2. QED
    BY <1>1, <2>1, CallFits64, Bounds DEF Emittable
<1>2. CASE c.class # "X64" /\ c.mn = "Nop"
  BY <1>2, CallFitsNop
<1>3. CASE c.class # "X64" /\ c.mn # "Nop"
  <2>1. IsCall86(c)
    BY <1>3 DEF IsCall
  <2>2. QED
    BY <1>3, <2>1, CallFits86, Bounds DEF Emittable
<1>4. QED
  BY <1>1, <1>2, <1>3

\* A call that the client writes over another one has nothing behind its end.
LEMMA NoSpill ==
  ASSUME NEW c, IsCall(c), SpillFree(c)
  PROVE  SpillOf(c) = 0
<1>1. ASSUME NEW k \in DOMAIN c.ops, c.ops[k].k = "mem", NEW m,
             m.mode = c.ops[k].mem.mode, m.offset = c.ops[k].mem.offset
      PROVE  MemSpill(m) = 0
  <2>1. \/ m.mode \in {"OFFSET", "INDEX_OFFSET", "BASE_INDEX"}
        \/ m.mode \in {"BASE_OFFSET", "BASE_INDEX_OFFSET"} /\ ~ByteOffset(m)
    BY <1>1 DEF SpillFree, ByteOffset
  <2>2. QED
    BY <2>1 DEF MemSpill, OffsetSpill, OptimalBytes
<1>2. CASE c.class = "X64"
  <2>1. IsCall64(c)
    BY <1>2 DEF IsCall
  <2>2. CASE c.mn \in DOMAIN Conversion64Bytes \/ c.ops[2].k = "reg"
    BY <1>2, <2>2 DEF SpillOf, Spill64
  <2>3. CASE ~(c.mn \in DOMAIN Conversion64Bytes \/ c.ops[2].k = "reg")
    <3>1. 2 \in DOMAIN c.ops /\ c.ops[2].k = "mem"
      BY <2>1, <2>3 DEF IsCall64
    <3>2. MemSpill(c.ops[2].mem) = 0
      BY <1>1, <3>1
    <3>3. QED
      BY <1>2, <2>3, <3>2 DEF SpillOf, Spill64
  <2>4. QED
    BY <2>2, <2>3
<1>3. CASE c.class # "X64" /\ c.mn # "Nop"
  <2> DEFINE f == InstructionOf(c)
  <2>1. IsCall86(c)
    BY <1>3 DEF IsCall
  <2>2. CASE f.rm.k = "mem"
    <3>1. PICK k \in DOMAIN c.ops :
            /\ c.ops[k].k = "mem"
            /\ f.rm.mem.mode = c.ops[k].mem.mode /\ f.rm.mem.offset = c.ops[k].mem.offset
      BY <2>1, <2>2 DEF IsCall86
    <3>2. MemSpill(f.rm.mem) = 0
      BY <1>1, <3>1
    <3>3. QED
      BY <1>3, <2>2, <3>2 DEF SpillOf, RmSpill
  <2>3. CASE f.rm.k # "mem"
    BY <1>3, <2>3 DEF SpillOf, RmSpill
  <2>4. QED
    BY <2>2, <2>3
<1>4. CASE c.class # "X64" /\ c.mn = "Nop"
  BY <1>4 DEF SpillOf
<1>5. QED
  BY <1>2, <1>3, <1>4

(***************************************************************************)
(* Padding                                                                 *)
(***************************************************************************)
\* Remainder and quotient.
LEMMA Division ==
  ASSUME NEW n \in Nat \ {0}, NEW x \in Int
  PROVE  x % n \in 0 .. n - 1 /\ x \div n \in Int /\ x = n * (x \div n) + (x % n)
OBVIOUS

\* Adding a multiple of n keeps the remainder.
LEMMA ModPlusMultiple ==
  ASSUME NEW n \in Nat \ {0}, NEW x \in Int, NEW k \in Int
  PROVE  (x + k * n) % n = x % n
<1> DEFINE r == x % n
           q == x \div n
           r2 == (x + k * n) % n
           q2 == (x + k * n) \div n
<1>1. r \in 0 .. n - 1 /\ q \in Int /\ x = n * q + r
  OBVIOUS
<1>2. k * n \in Int
  OBVIOUS
<1>3. r2 \in 0 .. n - 1 /\ q2 \in Int /\ x + k * n = n * q2 + r2
  BY <1>2
<1> HIDE DEF r, q, r2, q2
<1>4. n * (q2 - q - k) = r - r2
  BY <1>1, <1>3
<1>5. q2 - q - k = 0
  <2> DEFINE d == q2 - q - k
  <2>1. d \in Int /\ n * d = r - r2
    BY <1>1, <1>3, <1>4
  <2> HIDE DEF d
  <2>2. -n < n * d /\ n * d < n
    BY <1>1, <1>3, <2>1
  <2>3. ~(d >= 1)
    BY <2>1, <2>2
  <2>4. ~(d <= -1)
    BY <2>1, <2>2
  <2>5. QED
    BY <2>1, <2>3, <2>4 DEF d
<1>6. r = r2
  BY <1>1, <1>3, <1>4, <1>5
<1>7. QED
  BY <1>6 DEF r, r2

\* Buffers that start at the same place modulo n agree modulo n at every offset.
LEMMA SamePadding ==
  ASSUME NEW n \in Nat \ {0}, NEW s \in Nat, NEW t \in Nat, s % n = t % n, NEW x \in Nat
  PROVE  (s + x) % n = (t + x) % n
<1> DEFINE k == (t \div n) - (s \div n)
<1>1. s % n \in Nat /\ s \div n \in Int /\ s = n * (s \div n) + (s % n)
  BY Division
<1>2. t % n \in Nat /\ t \div n \in Int /\ t = n * (t \div n) + (t % n)
  BY Division
<1>3. k \in Int /\ t = s + k * n
  BY <1>1, <1>2
<1> HIDE DEF k
<1>4. t + x = (s + x) + k * n /\ s + x \in Int
  BY <1>3
<1>5. QED
  BY <1>3, <1>4, ModPlusMultiple

\* CalcAlignSize pads by less than the alignment.
LEMMA AlignSizeType ==
  ASSUME NEW n \in Nat \ {0}, NEW p \in Nat
  PROVE  (n - (p % n)) % n \in 0 .. n - 1
<1>1. p % n \in 0 .. n - 1
  OBVIOUS
<1>2. n - (p % n) \in Nat
  BY <1>1
<1>3. QED
  BY <1>2

(***************************************************************************)
(* Patching: Replace and Bind                                              *)
(***************************************************************************)
\* Block a is block b after a write that changed nothing outside the bytes at
\* offsets lo to hi - 1 and was checked as one of n bytes at the cursor.
Patches(D, b, a, lo, hi, n) ==
  /\ a \in BlocksOver(D)
  /\ a.curr = b.curr /\ a.start = b.start /\ a.size = b.size /\ a.measure = b.measure
  /\ b.measure \/ b.aborted => a = b
  /\ a.aborted => b.aborted \/ ~(NDEBUG \/ GetOffset(b) + n <= b.size)
  /\ \A q \in D : a.mem[q] # b.mem[q] =>
       lo <= Minus(q, b.start) /\ Minus(q, b.start) < hi

\* Verify passes when the offset and the length fit: the check of a patch.
LEMMA VerifyInside ==
  ASSUME NEW D \in SUBSET Ptr, NEW b \in BlocksOver(D), NEW n \in Nat, NEW offset,
         b.start + b.size < AddrSpace, GetOffset(b) + n <= b.size
  PROVE  VerifyOffset(b, offset, n)
<1> USE BlockAssumption
<1>1. /\ b.curr \in Ptr /\ b.start \in Ptr /\ b.size \in Ptr
  BY DEF BlocksOver
<1>2. QED
  BY <1>1 DEF VerifyOffset, End, GetOffset, Minus, Plus, Wrap, Ptr

\* WriteRawAt changes the bytes it is given, at the place it is given.
LEMMA WriteAtPatches ==
  ASSUME NEW D \in SUBSET Ptr, NEW b \in BlocksOver(D), NEW at \in Nat, NEW n \in Nat,
         b.start + b.size < AddrSpace, at + n <= b.size,
         NEW data, ~b.measure /\ ~b.aborted => data \in Seq(ByteValue) /\ Len(data) = n
  PROVE  Patches(D, b, WriteRawAt(b, at, data), at, at + n, n)
<1> DEFINE a == WriteRawAt(b, at, data)
<1> USE BlockAssumption
<1> SUFFICES Patches(D, b, a, at, at + n, n)
  OBVIOUS
<1>0. /\ b = [mem |-> b.mem, curr |-> b.curr, start |-> b.start, size |-> b.size,
              measure |-> b.measure, aborted |-> b.aborted]
      /\ b.mem \in [D -> ByteValue] /\ b.curr \in Ptr /\ b.start \in Ptr /\ b.size \in Ptr
      /\ b.measure \in BOOLEAN /\ b.aborted \in BOOLEAN
  BY DEF BlocksOver
<1>1. CASE b.measure \/ b.aborted
  <2>1. a = b
    BY <1>1 DEF WriteRawAt
  <2> HIDE DEF a
  <2>2. QED
    BY <1>1, <2>1 DEF Patches
<1>2. CASE ~b.measure /\ ~b.aborted /\ ~NDEBUG /\ ~VerifyOffset(b, at, Len(data))
  <2>1. a = [b EXCEPT !.aborted = TRUE]
    BY <1>2 DEF WriteRawAt, StoreUnlessAborted, Asserting
  <2> HIDE DEF a
  <2>2. /\ a \in BlocksOver(D) /\ a.mem = b.mem /\ a.curr = b.curr
        /\ a.start = b.start /\ a.size = b.size /\ a.measure = b.measure
    BY <1>0, <2>1 DEF BlocksOver
  <2>3. ~(GetOffset(b) + n <= b.size)
    BY <1>2, VerifyInside
  <2>4. QED
    BY <1>2, <2>2, <2>3 DEF Patches
<1>3. CASE ~b.measure /\ ~b.aborted /\ (NDEBUG \/ VerifyOffset(b, at, Len(data)))
  <2> DEFINE p == Plus(b.start, at)
  <2>0. a = [b EXCEPT !.mem = Store(b.mem, p, data)]
    BY <1>3 DEF WriteRawAt, StoreUnlessAborted, Asserting
  <2> HIDE DEF a
  <2>1. a = [mem |-> Store(b.mem, p, data), curr |-> b.curr, start |-> b.start,
             size |-> b.size, measure |-> b.measure, aborted |-> b.aborted]
    BY <1>0, <2>0
  <2>2. data \in Seq(ByteValue) /\ Len(data) = n
    BY <1>3
  <2>3. p \in Ptr /\ p = b.start + at
    BY <1>0 DEF Plus, Wrap, Ptr
  <2> HIDE DEF p
  <2>4. /\ Store(b.mem, p, data) \in [D -> ByteValue]
        /\ \A q \in D : Store(b.mem, p, data)[q] # b.mem[q] => Minus(q, p) < Len(data)
    BY <1>0, <2>2, <2>3, StoreType
  <2>5. /\ a \in BlocksOver(D) /\ a.mem = Store(b.mem, p, data)
        /\ a.curr = b.curr /\ a.start = b.start /\ a.size = b.size /\ a.measure = b.measure
        /\ ~a.aborted
    BY <1>0, <1>3, <2>1, <2>4 DEF BlocksOver
  <2>6. ASSUME NEW q \in D, a.mem[q] # b.mem[q]
        PROVE  at <= Minus(q, b.start) /\ Minus(q, b.start) < at + n
    <3>1. q \in Ptr /\ Minus(q, p) < n
      BY <2>2, <2>4, <2>5, <2>6
    <3>2. Minus(p, b.start) = at
      BY <1>0, <2>3 DEF Minus, Wrap, Ptr
    <3>3. at + n <= AddrSpace
      BY <1>0 DEF Ptr
    <3>4. Minus(q, p) \in Nat /\ Minus(q, b.start) = at + Minus(q, p)
      BY <1>0, <2>3, <3>1, <3>2, <3>3, Distance
    <3>5. QED
      BY <3>1, <3>4
  <2>7. QED
    BY <1>3, <2>5, <2>6 DEF Patches
<1>4. QED
  BY <1>0, <1>1, <1>2, <1>3

\* The bit fields of a byte: replacing one leaves a byte.
LEMMA BitField ==
  ASSUME NEW byte \in ByteValue, NEW value, NEW shift, NEW mask,
         \/ shift = 0 /\ mask = 7 /\ value \in 0 .. 7
         \/ shift = 3 /\ mask = 7 /\ value \in 0 .. 7
         \/ shift = 6 /\ mask = 3 /\ value \in 0 .. 3
  PROVE  byte + (value - ((byte \div 2 ^ shift) % (mask + 1))) * 2 ^ shift \in ByteValue
<1>1. 2 ^ 0 = 1 /\ 2 ^ 3 = 8 /\ 2 ^ 6 = 64
  OBVIOUS
<1>2. CASE shift = 0 /\ mask = 7 /\ value \in 0 .. 7
  <2>1. byte + (value - ((byte \div 1) % 8)) * 1 \in ByteValue
    BY <1>2 DEF ByteValue
  <2>2. QED
    BY <1>1, <1>2, <2>1
<1>3. CASE shift = 3 /\ mask = 7 /\ value \in 0 .. 7
  <2>1. byte + (value - ((byte \div 8) % 8)) * 8 \in ByteValue
    BY <1>3 DEF ByteValue
  <2>2. QED
    BY <1>1, <1>3, <2>1
<1>4. CASE shift = 6 /\ mask = 3 /\ value \in 0 .. 3
  <2>1. byte + (value - ((byte \div 64) % 4)) * 64 \in ByteValue
    BY <1>4 DEF ByteValue
  <2>2. QED
    BY <1>1, <1>4, <2>1
<1>5. QED
  BY <1>2, <1>3, <1>4

\* A patch of some bytes is a patch of any range around them.
LEMMA PatchesWider ==
  ASSUME NEW D \in SUBSET Ptr, NEW b \in BlocksOver(D), NEW a,
         NEW lo \in Nat, NEW hi \in Nat, NEW n \in Nat,
         NEW lo1 \in Nat, NEW hi1 \in Nat, NEW n1 \in Nat,
         Patches(D, b, a, lo1, hi1, n1), lo <= lo1, hi1 <= hi, n1 <= n
  PROVE  Patches(D, b, a, lo, hi, n)
<1> USE BlockAssumption
<1>1. b.start \in Ptr /\ b.size \in Nat /\ GetOffset(b) \in Nat
  BY OffsetType DEF BlocksOver, Ptr
<1>2. a.aborted => b.aborted \/ ~(NDEBUG \/ GetOffset(b) + n <= b.size)
  BY <1>1 DEF Patches
<1>3. ASSUME NEW q \in D, a.mem[q] # b.mem[q]
      PROVE  lo <= Minus(q, b.start) /\ Minus(q, b.start) < hi
  <2>1. lo1 <= Minus(q, b.start) /\ Minus(q, b.start) < hi1
    BY <1>3 DEF Patches
  <2>2. Minus(q, b.start) \in Nat
    BY <1>1 DEF Minus, Wrap, Ptr
  <2>3. QED
    BY <2>1, <2>2
<1>4. QED
  BY <1>2, <1>3 DEF Patches

\* A value that the type of the handle admits.
Admits(field, v) ==
  /\ field \in {"reg", "base", "index"} => v \in 0 .. 7
  /\ field = "scale" => v \in 0 .. 3
  /\ field \in {"offset", "imm"} => v \in Int

\* The whole block lies in D.
Covers(D, b) == \A at \in Nat : at < b.size => Plus(b.start, at) \in D

\* Replacing a register or a scale, three or two bits of a byte, changes that byte.
LEMMA BitsPatches ==
  ASSUME NEW D \in SUBSET Ptr, NEW b \in BlocksOver(D), ~b.measure => Covers(D, b),
         b.start + b.size < AddrSpace, NEW at \in Nat, at < b.size,
         NEW shift, NEW mask, NEW v,
         \/ shift = 0 /\ mask = 7 /\ v \in 0 .. 7
         \/ shift = 3 /\ mask = 7 /\ v \in 0 .. 7
         \/ shift = 6 /\ mask = 3 /\ v \in 0 .. 3
  PROVE  Patches(D, b, Replace(b, Bits(at, shift, mask), v), at, at + 1, 1)
<1> DEFINE h == Bits(at, shift, mask)
           read == ReadRawAt(b, at, 1)
           byte == BytesAt(b, at, 1)[1]
           new == byte + (v - ((byte \div 2 ^ shift) % (mask + 1))) * 2 ^ shift
           a == WriteRawAt(read, at, <<new>>)
<1> USE BlockAssumption
<1>0. /\ b = [mem |-> b.mem, curr |-> b.curr, start |-> b.start, size |-> b.size,
              measure |-> b.measure, aborted |-> b.aborted]
      /\ b.mem \in [D -> ByteValue] /\ b.curr \in Ptr /\ b.start \in Ptr /\ b.size \in Ptr
      /\ b.measure \in BOOLEAN /\ b.aborted \in BOOLEAN
  BY DEF BlocksOver
<1>1. Replace(b, h, v) = a
  <2>1. /\ h.kind = "bits" /\ h.at = at /\ h.shift = shift /\ h.mask = mask
    BY DEF Bits
  <2> HIDE DEF h
  <2>2. QED
    BY <2>1 DEF Replace, ReplaceBits
<1>2. ~b.measure => byte \in ByteValue
  <2>1. byte = b.mem[Plus(Plus(b.start, at), 0)]
    BY DEF BytesAt, Fetch
  <2>2. Plus(b.start, at) \in Ptr
    BY <1>0 DEF Plus, Wrap, Ptr
  <2>3. Plus(Plus(b.start, at), 0) = Plus(b.start, at)
    BY <2>2 DEF Plus, Wrap, Ptr
  <2>4. QED
    BY <1>0, <2>1, <2>3 DEF Covers
<1> HIDE DEF byte
<1>3. ~b.measure => new \in ByteValue
  BY <1>2, BitField
<1> HIDE DEF new, h
<1>4. ~b.measure => <<new>> \in Seq(ByteValue) /\ Len(<<new>>) = 1
  BY <1>3
<1>5. CASE b.measure \/ b.aborted \/ NDEBUG \/ VerifyOffset(b, at, 1)
  <2>1. read = b
    <3>1. CASE b.measure \/ b.aborted
      BY <3>1 DEF ReadRawAt
    <3>2. CASE ~b.measure /\ ~b.aborted /\ (NDEBUG \/ VerifyOffset(b, at, 1))
      BY <3>2 DEF ReadRawAt, Asserting
    <3>3. QED
      BY <1>0, <1>5, <3>1, <3>2
  <2>2. Patches(D, b, WriteRawAt(b, at, <<new>>), at, at + 1, 1)
    <3>1. at + 1 <= b.size /\ 1 \in Nat
      BY <1>0 DEF Ptr
    <3>2. QED
      BY <1>4, <3>1, WriteAtPatches
  <2>3. QED
    BY <1>1, <2>1, <2>2 DEF h
<1>6. CASE ~b.measure /\ ~b.aborted /\ ~NDEBUG /\ ~VerifyOffset(b, at, 1)
  <2>1. read = [b EXCEPT !.aborted = TRUE]
    BY <1>6 DEF ReadRawAt, Asserting
  <2> HIDE DEF read
  <2>2. a = read
    BY <1>0, <2>1 DEF WriteRawAt
  <2> HIDE DEF a
  <2>3. /\ a \in BlocksOver(D) /\ a.mem = b.mem /\ a.curr = b.curr
        /\ a.start = b.start /\ a.size = b.size /\ a.measure = b.measure
    BY <1>0, <2>1, <2>2 DEF BlocksOver
  <2>4. ~(GetOffset(b) + 1 <= b.size)
    BY <1>6, VerifyInside
  <2>5. Patches(D, b, a, at, at + 1, 1)
    BY <1>6, <2>3, <2>4 DEF Patches
  <2>6. QED
    BY <1>1, <2>5 DEF h
<1>7. QED
  BY <1>0, <1>5, <1>6

\* Replace through any handle changes only bytes that the handle points to.
LEMMA ReplacePatches ==
  ASSUME NEW D \in SUBSET Ptr, NEW b \in BlocksOver(D), ~b.measure => Covers(D, b),
         b.start + b.size < AddrSpace,
         NEW field, NEW h, NEW lo \in Nat, NEW hi \in Nat,
         field # "label", IsHandle(field, h, lo, hi), hi <= b.size,
         NEW v, Admits(field, v)
  PROVE  Patches(D, b, Replace(b, h, v), lo, hi, 4)
<1>0. b.size \in Nat
  BY BlockAssumption DEF BlocksOver, Ptr
<1>1. CASE field \in {"reg", "base", "index"}
  <2>1. PICK at \in Nat, shift \in {0, 3} : lo <= at /\ at < hi /\ h = Bits(at, shift, 7)
    BY <1>1 DEF IsHandle
  <2>2. v \in 0 .. 7 /\ at < b.size /\ at + 1 <= hi /\ at + 1 \in Nat /\ 1 <= 4
    BY <1>0, <1>1, <2>1 DEF Admits
  <2>3. Patches(D, b, Replace(b, h, v), at, at + 1, 1)
    BY <2>1, <2>2, BitsPatches
  <2>4. QED
    BY <2>1, <2>2, <2>3, PatchesWider
<1>2. CASE field = "scale"
  <2>1. PICK at \in Nat : lo <= at /\ at < hi /\ h = Bits(at, 6, 3)
    BY <1>2 DEF IsHandle
  <2>2. v \in 0 .. 3 /\ at < b.size /\ at + 1 <= hi /\ at + 1 \in Nat /\ 1 <= 4
    BY <1>0, <1>2, <2>1 DEF Admits
  <2>3. Patches(D, b, Replace(b, h, v), at, at + 1, 1)
    BY <2>1, <2>2, BitsPatches
  <2>4. QED
    BY <2>1, <2>2, <2>3, PatchesWider
<1>3. CASE field \in {"offset", "imm"}
  <2>1. PICK at \in Nat, n \in {1, 2, 4} : lo <= at /\ at + n <= hi /\ h = Bytes(at, n)
    BY <1>3 DEF IsHandle
  <2>2. /\ v \in Int /\ at + n <= b.size /\ at + n \in Nat /\ n \in Nat /\ n <= 4
    BY <1>0, <1>3, <2>1 DEF Admits
  <2>3. h.kind = "bytes" /\ h.at = at /\ h.size = n
    BY <2>1 DEF Bytes
  <2>4. Replace(b, h, v) = WriteRawAt(b, at, LittleEndian(v, n))
    BY <2>3 DEF Replace, ReplaceBytes
  <2>5. LittleEndian(v, n) \in Seq(ByteValue) /\ Len(LittleEndian(v, n)) = n
    BY <2>2, LittleEndianType
  <2>6. Patches(D, b, Replace(b, h, v), at, at + n, n)
    BY <2>2, <2>4, <2>5, WriteAtPatches
  <2>7. QED
    BY <2>1, <2>2, <2>6, PatchesWider
<1>4. QED
  BY <1>1, <1>2, <1>3 DEF IsHandle

\* A displacement is one byte or an address.
LEMMA OffsetSizeType ==
  ASSUME NEW size
  PROVE  OffsetSize(size) \in {1, AddrBytes} /\ OffsetSize(size) \in 1 .. 8
BY AddrBytesAssumption DEF OffsetSize

\* The offset of a jump is an integer.
LEMMA JumpOffsetType ==
  ASSUME NEW p \in Ptr, NEW q \in Ptr, NEW n \in Nat, n < AddrSpace
  PROVE  CalcJumpOffset(p, q, n) \in Int
<1> USE BlockAssumption
<1>1. Plus(p, n) \in Ptr
  BY DEF Plus, Wrap, Ptr
<1> DEFINE d == Minus(q, Plus(p, n))
<1>2. d \in Ptr
  BY <1>1 DEF Minus, Wrap, Ptr
<1> HIDE DEF d
<1>3. CalcJumpOffset(p, q, n) = IF 2 * d >= AddrSpace THEN d - AddrSpace ELSE d
  BY DEF CalcJumpOffset, d
<1>4. QED
  BY <1>2, <1>3 DEF Ptr

\* Binding a label changes only the displacement.
LEMMA BindPatches ==
  ASSUME NEW D \in SUBSET Ptr, NEW b \in BlocksOver(D),
         b.start + b.size < AddrSpace, 8 < AddrSpace,
         NEW size, NEW at \in Nat, NEW p \in Ptr, at + OffsetSize(size) <= b.size
  PROVE  Patches(D, b, Bind(b, size, at, p), at, at + OffsetSize(size), AddrBytes)
<1> DEFINE n == OffsetSize(size)
           jump == CalcJumpOffset(Plus(b.start, at), p, n)
<1>1. n \in Nat /\ n <= 8 /\ n <= AddrBytes /\ AddrBytes \in Nat /\ AddrSpace \in Nat
  BY OffsetSizeType, AddrBytesAssumption, BlockAssumption
<1>2. b.start \in Ptr /\ b.size \in Nat /\ at + n \in Nat
  BY <1>1 DEF BlocksOver, Ptr
<1> HIDE DEF n
<1>3. Plus(b.start, at) \in Ptr /\ n < AddrSpace
  BY <1>1, <1>2 DEF Plus, Wrap, Ptr, n
<1>4. jump \in Int
  BY <1>1, <1>3, JumpOffsetType
<1> HIDE DEF jump
<1>5. LittleEndian(jump, n) \in Seq(ByteValue) /\ Len(LittleEndian(jump, n)) = n
  BY <1>1, <1>4, LittleEndianType
<1>6. CASE BindAccepts(b, size, at, p)
  <2>1. Bind(b, size, at, p) = WriteRawAt(b, at, LittleEndian(jump, n))
    BY <1>6 DEF Bind, jump, n
  <2>2. Patches(D, b, Bind(b, size, at, p), at, at + n, n)
    BY <1>1, <1>5, <2>1, WriteAtPatches DEF n
  <2>3. at <= at /\ at + n <= at + n
    BY <1>2
  <2>4. QED
    BY <1>1, <1>2, <2>2, <2>3, PatchesWider DEF n
<1>7. CASE ~BindAccepts(b, size, at, p)
  <2>1. Bind(b, size, at, p) = b
    BY <1>7 DEF Bind
  <2>2. QED
    BY <2>1 DEF Patches
<1>8. QED
  BY <1>6, <1>7

(***************************************************************************)
(* The inductive invariant                                                 *)
(***************************************************************************)
\* The code block of the client: over its allocation, in its place.
IsCode(b) ==
  b \in BlocksOver(Memory) /\ b.start = Start /\ b.size = BlockSize /\ ~b.measure
\* The measuring block: without memory, and never stopped by an assertion.
IsMeas(b) ==
  /\ b \in BlocksOver({}) /\ b.start = MeasureStart /\ b.size = BlockSize
  /\ b.measure /\ ~b.aborted

\* Neither block ever moves.
InPlace == IsCode(code) /\ IsMeas(meas)

\* The two passes are at the same offset until an assertion stops the program,
\* inside the block, and what is measured leaves the slack that the client adds.
Together ==
  /\ GetOffset(code) <= BlockSize /\ GetOffset(meas) <= BlockSize
  /\ prog # <<>> => GetOffset(meas) + Slack <= BlockSize
  /\ ~code.aborted => GetOffset(code) = GetOffset(meas)

\* What is recorded of an instruction: it starts with the slack to spare, and its
\* handles are those of its operands.
EntryType(e) ==
  /\ DOMAIN e = {"at", "call", "h"}
  /\ e.at \in Nat /\ e.at + Slack <= BlockSize
  /\ "ops" \in DOMAIN e.call /\ DOMAIN e.h = DOMAIN e.call.ops
  /\ Labels(e.call, e.h)

\* The displacements of the labels lie inside the block.
LabelsInside(c, h) ==
  \A k \in DOMAIN h : "label" \in DOMAIN h[k] =>
    h[k].label + OffsetSize(c.ops[k].jump) <= BlockSize

\* All handles of an instruction point into the block.
EntryInside(e) == HandlesFit(e.h, 0, BlockSize) /\ LabelsInside(e.call, e.h)

\* The program so far, and how much of it there may be.
Entries ==
  /\ prog \in Seq(Range(prog)) /\ Len(prog) <= MaxInstructions /\ moves \in 0 .. MaxMoves
  /\ \A i \in DOMAIN prog : EntryType(prog[i]) /\ (~code.aborted => EntryInside(prog[i]))

\* The inductive invariant, for every slack and every build. MeasureAgrees alone
\* is not inductive: a later Rewind, Overwrite or Patch works from what was
\* recorded, so each recorded instruction must start inside the block and its
\* handles must point into it, or writing through one could fail.
IInv == InPlace /\ Together /\ Entries

\* The instructions lie back to back: the first at the start, each ending where the
\* next begins, with its handles inside and a jump's displacement last. It needs
\* slack for the three bytes that may spill: an instruction that an assertion stops
\* on the way has no end.
Layout ==
  /\ IF prog = <<>> THEN GetOffset(code) = 0 ELSE prog[1].at = 0
  /\ \A i \in DOMAIN prog :
       /\ prog[i].at <= EndOf(i)
       /\ LabelsEnd(prog[i].call, prog[i].h, EndOf(i))
       /\ HandlesFit(prog[i].h, prog[i].at, EndOf(i))

(***************************************************************************)
(* Sequences of anything                                                   *)
(***************************************************************************)
\* A sequence is one over what it holds: programs are sequences without a set of
\* all entries.
LEMMA OwnRange ==
  ASSUME NEW S, NEW s \in Seq(S)
  PROVE  s \in Seq(Range(s))
<1>1. Len(s) \in Nat /\ s \in [1 .. Len(s) -> S]
  OBVIOUS
<1>2. s \in [1 .. Len(s) -> Range(s)]
  BY <1>1 DEF Range
<1>3. QED
  BY <1>1, <1>2

\* Appending an entry.
LEMMA AppendToSeq ==
  ASSUME NEW s, s \in Seq(Range(s)), NEW e
  PROVE  /\ Append(s, e) \in Seq(Range(Append(s, e)))
         /\ Len(s) \in Nat /\ DOMAIN s = 1 .. Len(s)
         /\ Len(Append(s, e)) = Len(s) + 1 /\ DOMAIN Append(s, e) = 1 .. Len(s) + 1
         /\ \A i \in 1 .. Len(s) : Append(s, e)[i] = s[i]
         /\ Append(s, e)[Len(s) + 1] = e
         /\ Append(s, e) # <<>>
<1> DEFINE S == Range(s) \cup {e}
<1>1. s \in Seq(S) /\ e \in S
  OBVIOUS
<1> HIDE DEF S
<1>2. Append(s, e) \in Seq(S)
  BY <1>1
<1>3. Append(s, e) \in Seq(Range(Append(s, e)))
  BY <1>2, OwnRange
<1>4. Len(Append(s, e)) = Len(s) + 1 /\ Len(s) \in Nat
  BY <1>1
<1>5. QED
  BY <1>1, <1>2, <1>3, <1>4

\* Replacing an entry.
LEMMA ExceptInSeq ==
  ASSUME NEW s, s \in Seq(Range(s)), NEW i \in DOMAIN s, NEW e
  PROVE  /\ [s EXCEPT ![i] = e] \in Seq(Range([s EXCEPT ![i] = e]))
         /\ Len([s EXCEPT ![i] = e]) = Len(s) /\ DOMAIN [s EXCEPT ![i] = e] = DOMAIN s
         /\ \A j \in DOMAIN s : [s EXCEPT ![i] = e][j] = IF j = i THEN e ELSE s[j]
         /\ s # <<>> /\ [s EXCEPT ![i] = e] # <<>>
         /\ Len(s) \in Nat /\ DOMAIN s = 1 .. Len(s)
<1> DEFINE S == Range(s) \cup {e}
           t == [s EXCEPT ![i] = e]
<1>1. s \in Seq(S) /\ e \in S
  OBVIOUS
<1> HIDE DEF S
<1>2. Len(s) \in Nat /\ DOMAIN s = 1 .. Len(s) /\ s \in [1 .. Len(s) -> S]
  BY <1>1
<1>3. t \in [1 .. Len(s) -> S]
  BY <1>1, <1>2
<1>4. \A j \in DOMAIN s : t[j] = IF j = i THEN e ELSE s[j]
  BY <1>2
<1>5. DOMAIN t = 1 .. Len(s)
  BY <1>3
<1> HIDE DEF t
<1>6. t \in Seq(S) /\ Len(t) = Len(s)
  BY <1>2, <1>3, <1>5
<1>7. t \in Seq(Range(t))
  BY <1>6, OwnRange
<1>8. s # <<>> /\ t # <<>>
  BY <1>2, <1>5
<1>9. QED
  BY <1>2, <1>4, <1>5, <1>6, <1>7, <1>8 DEF t

\* Dropping the entries from the i-th on.
LEMMA PrefixOfSeq ==
  ASSUME NEW s, s \in Seq(Range(s)), NEW i \in DOMAIN s
  PROVE  /\ SubSeq(s, 1, i - 1) \in Seq(Range(SubSeq(s, 1, i - 1)))
         /\ Len(SubSeq(s, 1, i - 1)) = i - 1 /\ DOMAIN SubSeq(s, 1, i - 1) = 1 .. i - 1
         /\ \A j \in 1 .. i - 1 : SubSeq(s, 1, i - 1)[j] = s[j] /\ j \in DOMAIN s
         /\ i = 1 <=> SubSeq(s, 1, i - 1) = <<>>
         /\ Len(s) \in Nat /\ DOMAIN s = 1 .. Len(s)
<1> DEFINE S == Range(s)
           t == SubSeq(s, 1, i - 1)
<1>1. s \in Seq(S)
  OBVIOUS
<1> HIDE DEF S
<1>2. Len(s) \in Nat /\ DOMAIN s = 1 .. Len(s) /\ i \in 1 .. Len(s)
  BY <1>1
<1>3. t \in Seq(S) /\ Len(t) = i - 1 /\ \A j \in 1 .. i - 1 : t[j] = s[j]
  BY <1>1, <1>2
<1> HIDE DEF t
<1>4. t \in Seq(Range(t)) /\ DOMAIN t = 1 .. i - 1
  BY <1>3, OwnRange
<1>5. i = 1 <=> t = <<>>
  BY <1>2, <1>3
<1>6. QED
  BY <1>2, <1>3, <1>4, <1>5 DEF t

(***************************************************************************)
(* Cursors and passes                                                      *)
(***************************************************************************)
\* The addresses of the block and of the bytes behind it.
LEMMA MemoryType ==
  /\ Memory \in SUBSET Ptr /\ {} \in SUBSET Ptr
  /\ \A q \in Memory : Minus(q, Start) = q - Start /\ q \in Nat
  /\ \A at \in Nat : at <= BlockSize => Plus(Start, at) = Start + at /\ Start + at \in Memory
BY Bounds DEF Memory, Ptr, Minus, Plus, Wrap, Window

\* A cursor's offset is a number.
LEMMA BlocksType ==
  ASSUME NEW b, IsCode(b) \/ IsMeas(b)
  PROVE  GetOffset(b) \in Nat
BY MemoryType, OffsetType DEF IsCode, IsMeas, Ptr

\* ResetTo moves the cursor to an offset inside the block and does nothing else;
\* an offset at or beyond the end it refuses.
LEMMA ResetToOffset ==
  ASSUME NEW D, NEW b \in BlocksOver(D), b.start + b.size < AddrSpace, NEW t \in Nat, t < AddrSpace
  PROVE  LET a == ResetTo(b, b.start + t)
         IN /\ a \in BlocksOver(D)
            /\ a.start = b.start /\ a.size = b.size /\ a.measure = b.measure
            /\ a.mem = b.mem /\ a.aborted = b.aborted
            /\ GetOffset(a) = IF ~b.aborted /\ t < b.size THEN t ELSE GetOffset(b)
<1> DEFINE a == ResetTo(b, b.start + t)
<1> USE BlockAssumption
<1>0. /\ b = [mem |-> b.mem, curr |-> b.curr, start |-> b.start, size |-> b.size,
              measure |-> b.measure, aborted |-> b.aborted]
      /\ b.mem \in [D -> ByteValue] /\ b.curr \in Ptr /\ b.start \in Ptr /\ b.size \in Ptr
      /\ b.measure \in BOOLEAN /\ b.aborted \in BOOLEAN
  BY DEF BlocksOver
<1>1. ResetAccepts(b, b.start + t) <=> t < b.size
  BY <1>0 DEF ResetAccepts, End, Plus, Wrap, Ptr
<1>2. CASE ~b.aborted /\ t < b.size
  <2>1. a = [b EXCEPT !.curr = b.start + t]
    BY <1>1, <1>2 DEF ResetTo
  <2> HIDE DEF a
  <2>2. b.start + t \in Ptr /\ Minus(b.start + t, b.start) = t
    BY <1>0, <1>2 DEF Minus, Wrap, Ptr
  <2>3. /\ a \in BlocksOver(D) /\ a.curr = b.start + t
        /\ a.start = b.start /\ a.size = b.size /\ a.measure = b.measure
        /\ a.mem = b.mem /\ a.aborted = b.aborted
    BY <1>0, <2>1, <2>2 DEF BlocksOver
  <2>4. GetOffset(a) = t
    BY <2>2, <2>3 DEF GetOffset
  <2>5. QED
    BY <1>2, <2>3, <2>4 DEF a
<1>3. CASE ~(~b.aborted /\ t < b.size)
  <2>1. a = b
    BY <1>1, <1>3 DEF ResetTo
  <2> HIDE DEF a
  <2>2. QED
    BY <1>3, <2>1 DEF a
<1>4. QED
  BY <1>2, <1>3

\* So it does for the two blocks of the client.
LEMMA Rewinds ==
  ASSUME NEW t \in Nat, t <= BlockSize
  PROVE  /\ \A b : IsCode(b) =>
              /\ IsCode(ResetTo(b, Start + t))
              /\ ResetTo(b, Start + t).mem = b.mem
              /\ ResetTo(b, Start + t).aborted = b.aborted
              /\ GetOffset(ResetTo(b, Start + t)) =
                   IF ~b.aborted /\ t < BlockSize THEN t ELSE GetOffset(b)
         /\ \A b : IsMeas(b) =>
              /\ IsMeas(ResetTo(b, MeasureStart + t))
              /\ GetOffset(ResetTo(b, MeasureStart + t)) =
                   IF t < BlockSize THEN t ELSE GetOffset(b)
<1>1. t < AddrSpace
  BY Bounds
<1>2. ASSUME NEW b, IsCode(b)
      PROVE  /\ IsCode(ResetTo(b, Start + t))
             /\ ResetTo(b, Start + t).mem = b.mem
             /\ ResetTo(b, Start + t).aborted = b.aborted
             /\ GetOffset(ResetTo(b, Start + t)) =
                  IF ~b.aborted /\ t < BlockSize THEN t ELSE GetOffset(b)
  <2> DEFINE a == ResetTo(b, Start + t)
  <2>1. b \in BlocksOver(Memory) /\ b.start = Start /\ b.size = BlockSize /\ ~b.measure
    BY <1>2 DEF IsCode
  <2>2. b.start + b.size < AddrSpace
    BY <2>1, Bounds
  <2>3. /\ a \in BlocksOver(Memory)
        /\ a.start = b.start /\ a.size = b.size /\ a.measure = b.measure
        /\ a.mem = b.mem /\ a.aborted = b.aborted
        /\ GetOffset(a) = IF ~b.aborted /\ t < b.size THEN t ELSE GetOffset(b)
    BY <1>1, <2>1, <2>2, ResetToOffset
  <2> HIDE DEF a
  <2>4. QED
    BY <2>1, <2>3 DEF IsCode, a
<1>3. ASSUME NEW b, IsMeas(b)
      PROVE  /\ IsMeas(ResetTo(b, MeasureStart + t))
             /\ GetOffset(ResetTo(b, MeasureStart + t)) =
                  IF t < BlockSize THEN t ELSE GetOffset(b)
  <2> DEFINE a == ResetTo(b, MeasureStart + t)
  <2>1. /\ b \in BlocksOver({}) /\ b.start = MeasureStart /\ b.size = BlockSize
        /\ b.measure /\ ~b.aborted
    BY <1>3 DEF IsMeas
  <2>2. b.start + b.size < AddrSpace
    BY <2>1, Bounds
  <2>3. /\ a \in BlocksOver({})
        /\ a.start = b.start /\ a.size = b.size /\ a.measure = b.measure
        /\ a.mem = b.mem /\ a.aborted = b.aborted
        /\ GetOffset(a) = IF ~b.aborted /\ t < b.size THEN t ELSE GetOffset(b)
    BY <1>1, <2>1, <2>2, ResetToOffset
  <2> HIDE DEF a
  <2>4. QED
    BY <2>1, <2>3 DEF IsMeas, a
<1>4. QED
  BY <1>2, <1>3

\* What the bytes that differ between two code blocks have in common.
Inside(b, a) ==
  Slack >= 3 \/ ~NDEBUG => \A q \in Memory : a.mem[q] # b.mem[q] => q < Start + BlockSize
\* The bytes that changed lie between the cursors or are the three behind.
Spills(b, a) ==
  \A q \in Memory : a.mem[q] # b.mem[q] => b.curr <= q /\ q < a.curr + 3

\* Unless an assertion stops it, the bytes that an emitter changes lie between the
\* cursors or are the s behind.
Writes(b, a, s) ==
  ~a.aborted =>
    \A q \in Memory : a.mem[q] # b.mem[q] =>
      Start + GetOffset(b) <= q /\ q < Start + GetOffset(a) + s

\* One instruction through both passes: they advance by the same bytes, the second
\* one stays inside the block when there is room for what may spill, and so no
\* assertion stops it then.
LEMMA Pass ==
  ASSUME NEW x, IsCode(x), ~x.aborted, NEW y, IsMeas(y), GetOffset(x) = GetOffset(y),
         GetOffset(y) <= BlockSize, NEW c, IsCall(c),
         GetOffset(EmitOf(y, c).b) + Slack <= BlockSize
  PROVE  LET n == LengthOf(c)
             w == EmitOf(x, c)
             m == EmitOf(y, c)
         IN /\ n \in Nat
            /\ IsMeas(m.b) /\ GetOffset(m.b) = GetOffset(y) + n
            /\ IsCode(w.b) /\ EmitsCall(Memory, x, c, w, n)
            /\ GetOffset(w.b) <= GetOffset(m.b)
            /\ ~w.b.aborted => GetOffset(w.b) = GetOffset(m.b)
            /\ Slack >= 3 => ~w.b.aborted
            /\ Inside(x, w.b) /\ Spills(x, w.b) /\ Writes(x, w.b, SpillOf(c))
<1> DEFINE n == LengthOf(c)
           w == EmitOf(x, c)
           m == EmitOf(y, c)
<1>1. n \in Nat /\ BlockSize + n + 3 < AddrSpace
  BY CallFits DEF Emittable
<1> HIDE DEF n, w, m
<1>2. GetOffset(x) \in Nat /\ GetOffset(y) \in Nat
      /\ GetOffset(x) + n + 3 < AddrSpace /\ GetOffset(y) + n + 3 < AddrSpace
  BY <1>1, BlocksType, Bounds
<1>3. x \in BlocksOver(Memory) /\ y \in BlocksOver({})
  BY DEF IsCode, IsMeas
<1>4. EmitsCall(Memory, x, c, w, n)
  BY <1>2, <1>3, CallFits, MemoryType DEF n, w
<1>5. EmitsCall({}, y, c, m, n)
  BY <1>2, <1>3, CallFits, MemoryType DEF n, m
<1>6. Emits(Memory, x, w.b, n, SpillOf(c)) /\ Emits({}, y, m.b, n, SpillOf(c))
  BY <1>4, <1>5 DEF EmitsCall
<1>7. IsMeas(m.b) /\ GetOffset(m.b) = GetOffset(y) + n
  BY <1>6 DEF Emits, IsMeas
<1>8. IsCode(w.b)
  BY <1>6 DEF Emits, IsCode
<1>9. GetOffset(w.b) <= GetOffset(m.b) /\ (~w.b.aborted => GetOffset(w.b) = GetOffset(m.b))
  BY <1>6, <1>7 DEF Emits
<1>10. GetOffset(x) + n + Slack <= BlockSize /\ Slack \in Nat
  BY <1>7, AssemblerAssumption DEF m
<1>11. x.start = Start /\ x.size = BlockSize /\ ~x.measure
  BY DEF IsCode
<1>12. Slack >= 3 => Roomy(x, n)
  BY <1>1, <1>2, <1>10, <1>11, Bounds DEF Roomy
<1>13. Slack >= 3 => ~w.b.aborted
  BY <1>6, <1>12 DEF Emits
<1>14. Straight(x, n)
  BY <1>1, <1>2, <1>10, <1>11, Bounds DEF Straight
<1>15. ASSUME NEW q \in Memory, w.b.mem[q] # x.mem[q]
       PROVE  /\ Start + GetOffset(x) <= q /\ q < Start + GetOffset(w.b) + 3
              /\ Slack >= 3 \/ ~NDEBUG => q < Start + BlockSize
  <2>1. /\ GetOffset(x) <= Minus(q, Start) /\ Minus(q, Start) <= GetOffset(w.b) + 2
        /\ NDEBUG \/ Minus(q, Start) < BlockSize
    BY <1>6, <1>11, <1>14, <1>15 DEF Emits
  <2>2. Minus(q, Start) = q - Start /\ q \in Nat /\ GetOffset(w.b) \in Nat
    BY <1>8, MemoryType, BlocksType
  <2>3. GetOffset(w.b) <= GetOffset(x) + n
    BY <1>6 DEF Emits
  <2>4. QED
    BY <1>1, <1>2, <1>10, <2>1, <2>2, <2>3, Bounds
<1>16. ASSUME NEW b, IsCode(b), GetOffset(b) <= BlockSize
       PROVE  b.curr = Start + GetOffset(b)
  <2>1. b.curr \in Ptr /\ GetOffset(b) = Minus(b.curr, Start)
    BY <1>16 DEF IsCode, BlocksOver, GetOffset
  <2>2. QED
    BY <1>16, <2>1, Bounds, BlockAssumption DEF Minus, Wrap, Ptr
<1>17. GetOffset(x) <= BlockSize /\ GetOffset(w.b) <= BlockSize
  BY <1>2, <1>6, <1>10, <1>8, <1>1, BlocksType, Bounds DEF Emits
<1>18. x.curr = Start + GetOffset(x) /\ w.b.curr = Start + GetOffset(w.b)
  BY <1>8, <1>16, <1>17
<1>19. Inside(x, w.b) /\ Spills(x, w.b)
  BY <1>15, <1>18 DEF Inside, Spills
<1>20. Writes(x, w.b, SpillOf(c))
  <2> SUFFICES ASSUME ~w.b.aborted, NEW q \in Memory, w.b.mem[q] # x.mem[q]
               PROVE  Start + GetOffset(x) <= q /\ q < Start + GetOffset(w.b) + SpillOf(c)
    BY DEF Writes
  <2>1. Minus(q, Start) < GetOffset(w.b) + SpillOf(c)
    BY <1>6, <1>11 DEF Emits
  <2>2. Minus(q, Start) = q - Start /\ q \in Nat /\ GetOffset(w.b) \in Nat
    BY <1>8, MemoryType, BlocksType
  <2>3. SpillOf(c) \in 0 .. 3
    BY SpillType
  <2>4. QED
    BY <1>15, <2>1, <2>2, <2>3, Bounds
<1>21. QED
  BY <1>1, <1>4, <1>7, <1>8, <1>9, <1>13, <1>19, <1>20 DEF n, w, m

\* The first n instructions are where they were.
Unmoved(n) == \A j \in 1 .. n : prog'[j].at = prog[j].at /\ EndOf(j)' = EndOf(j)

\* A step adds an instruction behind all others, changes bytes of one only, or gives
\* up the last ones.
Effect ==
  \/ /\ Len(prog') = Len(prog) + 1 /\ Unmoved(Len(prog))
     /\ \A q \in Memory : code'.mem[q] # code.mem[q] => Start + GetOffset(code) <= q
  \/ \E i \in DOMAIN prog :
       /\ Len(prog') = Len(prog) /\ Unmoved(Len(prog))
       /\ \A q \in Memory : code'.mem[q] # code.mem[q] =>
            Start + prog[i].at <= q /\ q < Start + EndOf(i)
  \/ \E n \in 0 .. Len(prog) :
       Len(prog') = n /\ Unmoved(n) /\ code'.mem = code.mem

\* What every step of the client keeps: the inductive invariant, the layout, every
\* instruction but the one that it is about, no assertion fails when the slack is
\* that of an address, and nothing is written behind the block that the slack, or
\* the assertions, keep it from.
Keeps ==
  /\ IInv'
  /\ Slack >= 3 /\ Layout => Layout' /\ (ChecksSpill => Effect)
  /\ Slack >= AddrBytes => ~code'.aborted
  /\ Inside(code, code')

\* The width of an address is at least the three bytes that spill.
LEMMA AtLeastThree ==
  Slack \in Nat /\ (Slack >= AddrBytes => Slack >= 3)
BY AssemblerAssumption, AddrBytesAssumption

\* The entry for an instruction that was just emitted is well formed.
LEMMA NewEntry ==
  ASSUME NEW x, IsCode(x), NEW at \in Nat, at + Slack <= BlockSize, NEW c, "ops" \in DOMAIN c,
         NEW w, NEW n \in Nat, EmitsCall(Memory, x, c, w, n), GetOffset(x) + n <= BlockSize
  PROVE  /\ EntryType(Entry(at, c, w.h))
         /\ ~w.b.aborted => EntryInside(Entry(at, c, w.h))
         /\ ~w.b.aborted => /\ LabelsEnd(c, w.h, GetOffset(x) + n)
                            /\ HandlesFit(w.h, GetOffset(x), GetOffset(x) + n)
<1> DEFINE e == Entry(at, c, w.h)
<1>1. /\ DOMAIN e = {"at", "call", "h"} /\ e.at = at /\ e.call = c /\ e.h = w.h
  BY DEF Entry
<1> HIDE DEF e
<1>2. EntryType(e)
  BY <1>1 DEF EntryType, EmitsCall
<1>3. ASSUME ~w.b.aborted
      PROVE  /\ EntryInside(e) /\ LabelsEnd(c, w.h, GetOffset(x) + n)
             /\ HandlesFit(w.h, GetOffset(x), GetOffset(x) + n)
  <2>1. /\ HandlesFit(w.h, GetOffset(x), GetOffset(x) + n)
        /\ LabelsEnd(c, w.h, GetOffset(x) + n)
    BY <1>3 DEF EmitsCall
  <2>2. GetOffset(x) \in Nat /\ GetOffset(x) + n \in Nat /\ 0 <= GetOffset(x) /\ BlockSize \in Nat
    BY BlocksType, Bounds
  <2>3. HandlesFit(w.h, 0, BlockSize)
    <3> SUFFICES ASSUME NEW k \in DOMAIN w.h, NEW field \in DOMAIN w.h[k]
                 PROVE  IsHandle(field, w.h[k][field], 0, BlockSize)
      BY DEF HandlesFit
    <3>1. IsHandle(field, w.h[k][field], GetOffset(x), GetOffset(x) + n)
      BY <2>1 DEF HandlesFit
    <3>2. QED
      BY <2>2, <3>1, IsHandleWider
  <2>4. LabelsInside(c, w.h)
    BY <2>1 DEF LabelsEnd, LabelsInside
  <2>5. QED
    BY <1>1, <2>1, <2>3, <2>4 DEF EntryInside
<1>4. QED
  BY <1>2, <1>3 DEF e

(***************************************************************************)
(* One lemma for each action                                               *)
(***************************************************************************)
\* Emitting a call in two passes, measured first, keeps them.
LEMMA TwoPassesKeeps ==
  ASSUME IInv, ~code.aborted, Len(prog) < MaxInstructions, NEW c, IsCall(c),
         TwoPasses(c, EmitOf(meas, c), EmitOf(code, c))
  PROVE  Keeps /\ Spills(code, code')
<1> DEFINE w == EmitOf(code, c)
           m == EmitOf(meas, c)
           n == LengthOf(c)
           e == Entry(GetOffset(code), c, w.h)
<1>1. /\ GetOffset(m.b) + Slack <= BlockSize
      /\ meas' = m.b /\ code' = w.b /\ prog' = Append(prog, e) /\ moves' = moves
  BY DEF TwoPasses, GetSize, GetOffset
<1>2. /\ IsCode(code) /\ IsMeas(meas) /\ GetOffset(code) = GetOffset(meas)
      /\ GetOffset(code) \in Nat /\ GetOffset(meas) \in Nat /\ GetOffset(meas) <= BlockSize
  BY BlocksType DEF IInv, InPlace, Together
<1>3. /\ n \in Nat
      /\ IsMeas(m.b) /\ GetOffset(m.b) = GetOffset(meas) + n
      /\ IsCode(w.b) /\ EmitsCall(Memory, code, c, w, n)
      /\ GetOffset(w.b) <= GetOffset(m.b)
      /\ ~w.b.aborted => GetOffset(w.b) = GetOffset(m.b)
      /\ Slack >= 3 => ~w.b.aborted
      /\ Inside(code, w.b) /\ Spills(code, w.b) /\ Writes(code, w.b, SpillOf(c))
  BY <1>1, <1>2, Pass
<1>4. "ops" \in DOMAIN c
  BY DEF IsCall
<1> HIDE DEF w, m, n
<1>5. Slack \in Nat /\ BlockSize \in Nat /\ GetOffset(w.b) \in Nat
  BY <1>3, BlocksType, Bounds, AssemblerAssumption
<1>6. GetOffset(code) + n + Slack <= BlockSize
  BY <1>1, <1>2, <1>3
<1>7. GetOffset(code) + Slack <= BlockSize /\ GetOffset(code) + n <= BlockSize
  BY <1>2, <1>3, <1>5, <1>6
<1>8. /\ EntryType(e) /\ (~w.b.aborted => EntryInside(e))
      /\ ~w.b.aborted => /\ LabelsEnd(c, w.h, GetOffset(code) + n)
                         /\ HandlesFit(w.h, GetOffset(code), GetOffset(code) + n)
  BY <1>2, <1>3, <1>4, <1>7, NewEntry
<1>e. e.at = GetOffset(code) /\ e.call = c /\ e.h = w.h
  BY DEF Entry
<1> HIDE DEF e
<1>9. prog \in Seq(Range(prog))
  BY DEF IInv, Entries
<1>10. /\ prog' \in Seq(Range(prog'))
       /\ Len(prog) \in Nat /\ DOMAIN prog = 1 .. Len(prog)
       /\ Len(prog') = Len(prog) + 1 /\ DOMAIN prog' = 1 .. Len(prog) + 1
       /\ \A i \in 1 .. Len(prog) : prog'[i] = prog[i]
       /\ prog'[Len(prog) + 1] = e /\ prog' # <<>>
  BY <1>1, <1>9, AppendToSeq
<1>11. InPlace'
  BY <1>1, <1>3 DEF InPlace
<1>12. Together'
  <2>1. GetOffset(w.b) <= BlockSize /\ GetOffset(m.b) <= BlockSize
    BY <1>1, <1>2, <1>3, <1>5
  <2>2. QED
    BY <1>1, <1>3, <2>1 DEF Together
<1>13. Entries'
  <2>1. Len(prog') <= MaxInstructions
    BY <1>10, AssemblerAssumption
  <2>2. moves' \in 0 .. MaxMoves
    BY <1>1 DEF IInv, Entries
  <2>3. ASSUME NEW i \in DOMAIN prog'
        PROVE  EntryType(prog'[i]) /\ (~code'.aborted => EntryInside(prog'[i]))
    <3>1. CASE i \in 1 .. Len(prog)
      BY <1>10, <3>1 DEF IInv, Entries
    <3>2. CASE i = Len(prog) + 1
      BY <1>1, <1>8, <1>10, <3>2
    <3>3. QED
      BY <1>10, <3>1, <3>2
  <2>4. QED
    BY <1>10, <2>1, <2>2, <2>3 DEF Entries
<1>u. Unmoved(Len(prog))
  <2> SUFFICES ASSUME NEW i \in 1 .. Len(prog)
               PROVE  EndOf(i)' = EndOf(i)
    BY <1>10 DEF Unmoved
  <2>a. Len(prog) \in Nat /\ Len(prog') = Len(prog) + 1
    BY <1>10
  <2>b. i \in Nat /\ i <= Len(prog) /\ i # Len(prog')
    BY <2>a
  <2>1. CASE i = Len(prog)
    <3>1. i # Len(prog') /\ i + 1 = Len(prog) + 1
      BY <2>b, <2>1
    <3>2. EndOf(i)' = prog'[i + 1].at
      BY <3>1 DEF EndOf
    <3>3. EndOf(i) = GetOffset(code)
      BY <2>1 DEF EndOf
    <3>4. prog'[i + 1] = e
      BY <1>10, <3>1
    <3>5. QED
      BY <1>e, <3>2, <3>3, <3>4
  <2>2. CASE i # Len(prog)
    <3>1. i + 1 \in 1 .. Len(prog) /\ i # Len(prog')
      BY <2>a, <2>b, <2>2
    <3>2. QED
      BY <1>10, <2>2, <3>1 DEF EndOf
  <2>3. QED
    BY <2>1, <2>2
<1>14. ASSUME Slack >= 3, Layout
       PROVE  Layout'
  <2>1. ~w.b.aborted /\ GetOffset(code') = GetOffset(code) + n
    BY <1>1, <1>2, <1>3, <1>14
  <2>2. prog'[1].at = 0
    <3>1. CASE prog = <<>>
      <4>1. Len(prog) = 0 /\ GetOffset(code) = 0
        BY <1>14, <3>1 DEF Layout
      <4>2. QED
        BY <1>10, <1>e, <4>1
    <3>2. CASE prog # <<>>
      <4>1. 1 \in 1 .. Len(prog)
        BY <1>9, <1>10, <3>2
      <4>2. QED
        BY <1>10, <1>14, <3>2, <4>1 DEF Layout
    <3>3. QED
      BY <3>1, <3>2
  <2>3. ASSUME NEW i \in DOMAIN prog'
        PROVE  /\ prog'[i].at <= EndOf(i)'
               /\ LabelsEnd(prog'[i].call, prog'[i].h, EndOf(i)')
               /\ HandlesFit(prog'[i].h, prog'[i].at, EndOf(i)')
    <3>1. CASE i \in 1 .. Len(prog)
      BY <1>10, <1>14, <1>u, <3>1 DEF Layout, Unmoved
    <3>2. CASE i = Len(prog) + 1
      <4>1. EndOf(i)' = GetOffset(code) + n
        BY <1>10, <2>1, <3>2 DEF EndOf
      <4>2. prog'[i] = e
        BY <1>10, <3>2
      <4>3. GetOffset(code) <= GetOffset(code) + n
        BY <1>2, <1>3
      <4>4. QED
        BY <1>8, <1>e, <2>1, <4>1, <4>2, <4>3
    <3>3. QED
      BY <1>10, <3>1, <3>2
  <2>4. QED
    BY <1>10, <2>2, <2>3 DEF Layout
<1>f. Slack >= 3 => Effect
  BY <1>1, <1>3, <1>10, <1>u DEF Effect, Writes
<1>15. Slack >= AddrBytes => ~code'.aborted
  BY <1>1, <1>3, AtLeastThree
<1>16. QED
  BY <1>1, <1>3, <1>11, <1>12, <1>13, <1>14, <1>15, <1>f DEF Keeps, IInv

\* The cursor is where its offset says.
LEMMA CursorAt ==
  ASSUME NEW b, IsCode(b) \/ IsMeas(b), GetOffset(b) <= BlockSize
  PROVE  b.curr = b.start + GetOffset(b) /\ GetOffset(b) \in Nat
<1>1. b.curr \in Ptr /\ b.start \in {Start, MeasureStart} /\ GetOffset(b) = Minus(b.curr, b.start)
  BY DEF IsCode, IsMeas, BlocksOver, GetOffset
<1>2. b.curr = b.start + GetOffset(b)
  BY <1>1, Bounds, BlockAssumption DEF Minus, Wrap, Ptr
<1>3. QED
  BY <1>2, BlocksType

\* Both buffers start at the same place modulo the alignment, so both passes pad alike.
LEMMA PadsAlike ==
  ASSUME IInv, ~code.aborted, NEW align \in Aligns, Pad(align)
  PROVE  LET c == Padding(code, align)
         IN IsCall(c) /\ TwoPasses(c, EmitOf(meas, c), EmitOf(code, c))
<1>1. /\ IsCode(code) /\ IsMeas(meas) /\ GetOffset(code) = GetOffset(meas)
      /\ GetOffset(code) <= BlockSize
  BY DEF IInv, InPlace, Together
<1>2. /\ code.curr = Start + GetOffset(code) /\ meas.curr = MeasureStart + GetOffset(code)
      /\ GetOffset(code) \in Nat
  BY <1>1, CursorAt DEF IsCode, IsMeas
<1>3. /\ Emittable(align) /\ align \in Nat \ {0} /\ MeasureStart % align = Start % align
  BY AssemblerAssumption DEF Emittable
<1>4. code.curr % align = meas.curr % align
  <2>1. /\ Start \in Nat /\ MeasureStart \in Nat /\ align \in Nat \ {0}
        /\ GetOffset(code) \in Nat /\ Start % align = MeasureStart % align
    BY <1>2, <1>3, Bounds
  <2>2. (Start + GetOffset(code)) % align = (MeasureStart + GetOffset(code)) % align
    BY <2>1, SamePadding
  <2>3. QED
    BY <1>2, <2>2
<1>5. GetAlignSize(meas, align) = GetAlignSize(code, align)
  BY <1>4 DEF GetAlignSize
<1> DEFINE c == Padding(code, align)
<1>6. Padding(meas, align) = c
  BY <1>5 DEF Padding
<1>7. GetAlignSize(code, align) \in 0 .. align - 1
  BY <1>2, <1>3, AlignSizeType, Bounds DEF GetAlignSize
<1>8. IsCall(c)
  <2>1. Emittable(GetAlignSize(code, align))
    BY <1>3, <1>7, Bounds DEF Emittable
  <2>2. /\ {"class", "mn", "ops"} \subseteq DOMAIN c /\ c.class = "X86" /\ c.mn = "Nop"
        /\ DOMAIN c.ops = {1} /\ c.ops[1].n = GetAlignSize(code, align)
    BY DEF Padding
  <2> HIDE DEF c
  <2>3. QED
    BY <2>1, <2>2 DEF IsCall
<1> HIDE DEF c
<1>9. TwoPasses(c, EmitOf(meas, c), EmitOf(code, c))
  BY <1>6 DEF Pad, c
<1>10. QED
  BY <1>8, <1>9 DEF c

\* Padding keeps them.
LEMMA PadKeeps ==
  ASSUME IInv, ~code.aborted, Len(prog) < MaxInstructions, NEW align \in Aligns, Pad(align)
  PROVE  Keeps /\ Spills(code, code')
<1> DEFINE c == Padding(code, align)
<1>1. IsCall(c) /\ TwoPasses(c, EmitOf(meas, c), EmitOf(code, c))
  BY PadsAlike
<1> HIDE DEF c
<1>2. QED
  BY <1>1, TwoPassesKeeps

\* Going back to an instruction, dropping it and what follows, keeps them.
LEMMA RewindKeeps ==
  ASSUME IInv, ~code.aborted, moves < MaxMoves, NEW i \in DOMAIN prog, RewindTo(i)
  PROVE  Keeps
<1>1. /\ IsCode(code) /\ IsMeas(meas) /\ GetOffset(code) = GetOffset(meas)
      /\ GetOffset(code) <= BlockSize /\ prog \in Seq(Range(prog))
      /\ prog # <<>> => GetOffset(meas) + Slack <= BlockSize
  BY DEF IInv, InPlace, Together, Entries
<1> DEFINE at == prog[i].at
<1>2. /\ prog # <<>> /\ DOMAIN prog = 1 .. Len(prog) /\ Len(prog) \in Nat
      /\ at \in Nat /\ at + Slack <= BlockSize /\ Slack \in Nat
  BY <1>1, AtLeastThree DEF IInv, Entries, EntryType
<1> HIDE DEF at
<1>3. at <= BlockSize /\ BlockSize \in Nat /\ GetOffset(code) \in Nat
  BY <1>1, <1>2, BlocksType, Bounds
<1>4. /\ IsCode(code') /\ code'.mem = code.mem /\ ~code'.aborted
      /\ GetOffset(code') = IF at < BlockSize THEN at ELSE GetOffset(code)
      /\ IsMeas(meas')
      /\ GetOffset(meas') = IF at < BlockSize THEN at ELSE GetOffset(meas)
  BY <1>1, <1>2, <1>3, Rewinds DEF RewindTo, at
<1>5. ResetAccepts(code, Start + at) <=> at < BlockSize
  <2>1. code.start = Start /\ code.size = BlockSize
    BY <1>1 DEF IsCode
  <2>2. End(code) = Start + BlockSize
    BY <2>1, Bounds DEF End, Plus, Wrap
  <2>3. QED
    BY <1>2, <1>3, <2>1, <2>2, Bounds DEF ResetAccepts
<1>6. InPlace'
  BY <1>4 DEF InPlace
<1>7. Together'
  <2>1. GetOffset(code') = GetOffset(meas') /\ GetOffset(meas') <= BlockSize
        /\ GetOffset(meas') + Slack <= BlockSize
    BY <1>1, <1>2, <1>3, <1>4
  <2>2. QED
    BY <2>1 DEF Together
<1>8. moves' = moves + 1 /\ moves' \in 0 .. MaxMoves
  BY AssemblerAssumption DEF RewindTo, IInv, Entries
<1>9. Inside(code, code')
  BY <1>4 DEF Inside
<1>10. CASE at < BlockSize
  <2>1. prog' = SubSeq(prog, 1, i - 1)
    BY <1>5, <1>10 DEF RewindTo, at
  <2>2. /\ prog' \in Seq(Range(prog')) /\ Len(prog') = i - 1 /\ DOMAIN prog' = 1 .. i - 1
        /\ \A j \in 1 .. i - 1 : prog'[j] = prog[j] /\ j \in DOMAIN prog
        /\ i = 1 <=> prog' = <<>>
    BY <1>1, <2>1, PrefixOfSeq
  <2>3. i \in 1 .. Len(prog) /\ i - 1 <= Len(prog)
    BY <1>2
  <2>4. Entries'
    <3>1. Len(prog') <= MaxInstructions
      BY <1>2, <2>2, <2>3, AssemblerAssumption DEF IInv, Entries
    <3>2. \A j \in DOMAIN prog' : EntryType(prog'[j]) /\ (~code'.aborted => EntryInside(prog'[j]))
      BY <2>2 DEF IInv, Entries
    <3>3. QED
      BY <1>8, <2>2, <3>1, <3>2 DEF Entries
  <2>a. ASSUME NEW j \in 1 .. i - 1
        PROVE  EndOf(j)' = EndOf(j)
    <3>a. GetOffset(code') = at
      BY <1>4, <1>10
    <3>1. j \in Nat /\ j + 1 \in 1 .. Len(prog) /\ j # Len(prog)
      BY <2>3
    <3>2. EndOf(j) = prog[j + 1].at
      BY <3>1 DEF EndOf
    <3>3. CASE j = i - 1
      <4>1. EndOf(j)' = GetOffset(code')
        BY <2>2, <3>3 DEF EndOf
      <4>2. j + 1 = i
        BY <2>3, <3>3
      <4>3. QED
        BY <3>a, <3>2, <4>1, <4>2 DEF at
    <3>4. CASE j # i - 1
      <4>1. j + 1 \in 1 .. i - 1
        BY <2>3, <3>4
      <4>2. EndOf(j)' = prog'[j + 1].at
        BY <2>2, <3>4 DEF EndOf
      <4>3. QED
        BY <2>2, <3>2, <4>1, <4>2
    <3>5. QED
      BY <3>3, <3>4
  <2>5. ASSUME Layout
        PROVE  Layout'
    <3>1. GetOffset(code') = at
      BY <1>4, <1>10
    <3>2. IF prog' = <<>> THEN GetOffset(code') = 0 ELSE prog'[1].at = 0
      <4>1. prog[1].at = 0
        BY <1>2, <2>5 DEF Layout
      <4>2. CASE i = 1
        BY <2>2, <3>1, <4>1, <4>2 DEF at
      <4>3. CASE i # 1
        <5>1. 1 \in 1 .. i - 1
          BY <2>3, <4>3
        <5>2. QED
          BY <2>2, <4>1, <4>3, <5>1
      <4>4. QED
        BY <4>2, <4>3
    <3>3. \A j \in DOMAIN prog' :
            /\ prog'[j].at <= EndOf(j)'
            /\ LabelsEnd(prog'[j].call, prog'[j].h, EndOf(j)')
            /\ HandlesFit(prog'[j].h, prog'[j].at, EndOf(j)')
      BY <2>2, <2>5, <2>a DEF Layout
    <3>4. QED
      BY <3>2, <3>3 DEF Layout
  <2>b. Effect
    <3>1. i - 1 \in 0 .. Len(prog)
      BY <1>2, <2>3
    <3>2. Unmoved(i - 1)
      BY <2>2, <2>a DEF Unmoved
    <3>3. QED
      BY <1>4, <2>2, <3>1, <3>2 DEF Effect
  <2>6. QED
    BY <1>4, <1>6, <1>7, <1>9, <2>4, <2>5, <2>b DEF Keeps, IInv
<1>11. CASE ~(at < BlockSize)
  <2>1. prog' = prog /\ ~(Slack >= 3)
    BY <1>2, <1>3, <1>5, <1>11 DEF RewindTo, at
  <2>2. Entries'
    BY <1>4, <1>8, <2>1 DEF IInv, Entries
  <2>3. QED
    BY <1>4, <1>6, <1>7, <1>9, <2>1, <2>2 DEF Keeps, IInv
<1>12. QED
  BY <1>10, <1>11

\* Every instruction ends with the slack to spare.
LEMMA EndInside ==
  ASSUME IInv, ~code.aborted, NEW i \in DOMAIN prog
  PROVE  EndOf(i) \in Nat /\ EndOf(i) + Slack <= BlockSize
<1>1. /\ GetOffset(code) = GetOffset(meas) /\ IsCode(code) /\ prog \in Seq(Range(prog))
      /\ prog # <<>> => GetOffset(meas) + Slack <= BlockSize
      /\ \A j \in DOMAIN prog : prog[j].at \in Nat /\ prog[j].at + Slack <= BlockSize
  BY DEF IInv, InPlace, Together, Entries, EntryType
<1>2. prog # <<>> /\ DOMAIN prog = 1 .. Len(prog) /\ Len(prog) \in Nat
  BY <1>1
<1>3. CASE i = Len(prog)
  BY <1>1, <1>2, <1>3, BlocksType DEF EndOf
<1>4. CASE i # Len(prog)
  <2>1. i + 1 \in DOMAIN prog
    BY <1>2, <1>4
  <2>2. QED
    BY <1>1, <1>4, <2>1 DEF EndOf
<1>5. QED
  BY <1>3, <1>4

\* Going back to write another instruction of the same length, and returning to the
\* end, keeps them.
LEMMA OverwriteKeeps ==
  ASSUME IInv, ~code.aborted, moves < MaxMoves, NEW i \in DOMAIN prog, NEW c, IsCall(c),
         Overwrite(i, c)
  PROVE  Keeps
<1> DEFINE at == prog[i].at
           end == EndOf(i)
           offset == GetOffset(code)
           x == ResetTo(code, Start + at)
           y == ResetTo(meas, MeasureStart + at)
           w == EmitOf(x, c)
           m == EmitOf(y, c)
           n == LengthOf(c)
           e == Entry(at, c, w.h)
<1>1. /\ IsCode(code) /\ IsMeas(meas) /\ offset = GetOffset(meas)
      /\ offset <= BlockSize /\ prog \in Seq(Range(prog))
      /\ prog # <<>> => offset + Slack <= BlockSize
  BY DEF IInv, InPlace, Together, Entries
<1>2. /\ prog # <<>> /\ DOMAIN prog = 1 .. Len(prog) /\ Len(prog) \in Nat
      /\ at \in Nat /\ at + Slack <= BlockSize /\ Slack \in Nat
      /\ BlockSize \in Nat /\ offset \in Nat
  BY <1>1, AtLeastThree, BlocksType, Bounds DEF IInv, Entries, EntryType
<1>3. end \in Nat /\ end + Slack <= BlockSize
  BY EndInside
<1>4. /\ GetOffset(m.b) = end
      /\ code' = ResetTo(w.b, code.curr)
      /\ meas' = ResetTo(m.b, meas.curr)
      /\ prog' = [prog EXCEPT ![i] = e]
      /\ moves' = moves + 1
  BY DEF Overwrite
<1>5. code.curr = Start + offset /\ meas.curr = MeasureStart + offset
  BY <1>1, CursorAt DEF IsCode, IsMeas
<1> HIDE DEF at, end, offset
<1>6. at <= BlockSize
  BY <1>2
<1>7. /\ IsCode(x) /\ x.mem = code.mem /\ ~x.aborted /\ IsMeas(y)
      /\ GetOffset(x) = IF at < BlockSize THEN at ELSE offset
      /\ GetOffset(y) = IF at < BlockSize THEN at ELSE offset
  BY <1>1, <1>2, <1>6, Rewinds DEF offset
<1> HIDE DEF x, y
<1>8. GetOffset(x) = GetOffset(y) /\ GetOffset(y) <= BlockSize /\ GetOffset(x) \in Nat
  BY <1>1, <1>2, <1>7
<1>9. /\ n \in Nat
      /\ IsMeas(m.b) /\ GetOffset(m.b) = GetOffset(y) + n
      /\ IsCode(w.b) /\ EmitsCall(Memory, x, c, w, n)
      /\ GetOffset(w.b) <= GetOffset(m.b)
      /\ ~w.b.aborted => GetOffset(w.b) = GetOffset(m.b)
      /\ Slack >= 3 => ~w.b.aborted
      /\ Inside(x, w.b) /\ Writes(x, w.b, SpillOf(c))
  BY <1>3, <1>4, <1>7, <1>8, Pass
<1>10. "ops" \in DOMAIN c
  BY DEF IsCall
<1> HIDE DEF w, m, n
<1>11. GetOffset(x) + n = end /\ GetOffset(w.b) \in Nat /\ end <= BlockSize
  BY <1>2, <1>3, <1>4, <1>8, <1>9, BlocksType
<1>12. /\ IsCode(code') /\ code'.mem = w.b.mem /\ code'.aborted = w.b.aborted
       /\ GetOffset(code') = IF ~w.b.aborted /\ offset < BlockSize THEN offset
                             ELSE GetOffset(w.b)
       /\ IsMeas(meas')
       /\ GetOffset(meas') = IF offset < BlockSize THEN offset ELSE end
  BY <1>1, <1>2, <1>4, <1>5, <1>9, Rewinds
<1>13. /\ EntryType(e) /\ (~w.b.aborted => EntryInside(e))
       /\ ~w.b.aborted => /\ LabelsEnd(c, w.h, GetOffset(x) + n)
                          /\ HandlesFit(w.h, GetOffset(x), GetOffset(x) + n)
  BY <1>2, <1>7, <1>9, <1>10, <1>11, NewEntry
<1>e. e.at = at /\ e.call = c /\ e.h = w.h
  BY DEF Entry
<1> HIDE DEF e
<1>14. /\ prog' \in Seq(Range(prog')) /\ Len(prog') = Len(prog) /\ DOMAIN prog' = DOMAIN prog
       /\ \A j \in DOMAIN prog : prog'[j] = IF j = i THEN e ELSE prog[j]
       /\ prog' # <<>>
  BY <1>1, <1>4, ExceptInSeq
<1>15. InPlace'
  BY <1>12 DEF InPlace
<1>16. Together'
  <2>a. GetOffset(w.b) <= BlockSize
    BY <1>2, <1>3, <1>4, <1>9, <1>11
  <2>b. GetOffset(code') <= BlockSize
    BY <1>1, <1>12, <2>a
  <2>c. GetOffset(meas') <= BlockSize /\ GetOffset(meas') + Slack <= BlockSize
    BY <1>1, <1>2, <1>3, <1>11, <1>12
  <2>2. ~code'.aborted => GetOffset(code') = GetOffset(meas')
    BY <1>4, <1>9, <1>12
  <2>3. QED
    BY <2>b, <2>c, <2>2 DEF Together
<1>17. Entries'
  <2>1. Len(prog') <= MaxInstructions
    BY <1>14 DEF IInv, Entries
  <2>2. moves' \in 0 .. MaxMoves
    BY <1>4, AssemblerAssumption DEF IInv, Entries
  <2>3. ASSUME NEW j \in DOMAIN prog'
        PROVE  EntryType(prog'[j]) /\ (~code'.aborted => EntryInside(prog'[j]))
    <3>1. CASE j = i
      BY <1>12, <1>13, <1>14, <3>1
    <3>2. CASE j # i
      BY <1>14, <3>2 DEF IInv, Entries
    <3>3. QED
      BY <3>1, <3>2
  <2>4. QED
    BY <1>14, <2>1, <2>2, <2>3 DEF Entries
<1>18. ASSUME Slack >= 3, Layout
       PROVE  Layout' /\ (ChecksSpill => Effect)
  <2>1. at < BlockSize /\ offset < BlockSize /\ ~w.b.aborted
    BY <1>1, <1>2, <1>9, <1>18
  <2>2. GetOffset(x) = at /\ GetOffset(code') = offset
    BY <1>7, <1>12, <2>1
  <2>3. \A j \in DOMAIN prog : prog'[j].at = prog[j].at
    BY <1>14, <1>e DEF at
  <2>4. \A j \in DOMAIN prog : EndOf(j)' = EndOf(j)
    <3> SUFFICES ASSUME NEW j \in DOMAIN prog
                 PROVE  EndOf(j)' = EndOf(j)
      OBVIOUS
    <3>1. CASE j = Len(prog)
      <4>1. EndOf(j)' = GetOffset(code') /\ EndOf(j) = GetOffset(code)
        BY <1>14, <3>1 DEF EndOf
      <4>2. QED
        BY <2>2, <4>1 DEF offset
    <3>2. CASE j # Len(prog)
      <4>1. j + 1 \in DOMAIN prog
        BY <1>2, <3>2
      <4>2. EndOf(j)' = prog'[j + 1].at /\ EndOf(j) = prog[j + 1].at
        BY <1>14, <3>2 DEF EndOf
      <4>3. QED
        BY <2>3, <4>1, <4>2
    <3>3. QED
      BY <3>1, <3>2
  <2>5. prog'[1].at = 0
    <3>1. 1 \in DOMAIN prog
      BY <1>2
    <3>2. QED
      BY <1>2, <1>18, <2>3, <3>1 DEF Layout
  <2>6. ASSUME NEW j \in DOMAIN prog'
        PROVE  /\ prog'[j].at <= EndOf(j)'
               /\ LabelsEnd(prog'[j].call, prog'[j].h, EndOf(j)')
               /\ HandlesFit(prog'[j].h, prog'[j].at, EndOf(j)')
    <3>1. CASE j = i
      <4>1. prog'[j] = e /\ EndOf(j)' = end
        BY <1>14, <2>4, <3>1 DEF end
      <4>2. at <= end
        BY <1>2, <1>9, <1>11, <2>2
      <4>3. LabelsEnd(c, w.h, end) /\ HandlesFit(w.h, at, end)
        BY <1>11, <1>13, <2>1, <2>2
      <4>4. QED
        BY <1>e, <4>1, <4>2, <4>3
    <3>2. CASE j # i
      BY <1>14, <1>18, <2>4, <3>2 DEF Layout
    <3>3. QED
      BY <3>1, <3>2
  <2>7. Layout'
    BY <1>14, <2>5, <2>6 DEF Layout
  <2>8. ASSUME ChecksSpill
        PROVE  Effect
    <3>1. SpillOf(c) = 0
      BY <2>8, NoSpill DEF Overwrite
    <3>2. ASSUME NEW q \in Memory, code'.mem[q] # code.mem[q]
          PROVE  Start + at <= q /\ q < Start + end
      <4>1. Start + GetOffset(x) <= q /\ q < Start + GetOffset(w.b) + 0
        BY <1>7, <1>9, <1>12, <2>1, <3>1, <3>2 DEF Writes
      <4>2. GetOffset(w.b) = end
        BY <1>4, <1>9, <2>1
      <4>3. QED
        BY <1>3, <2>2, <4>1, <4>2, Bounds
    <3>3. Unmoved(Len(prog))
      BY <1>2, <2>3, <2>4 DEF Unmoved
    <3>4. QED
      BY <1>14, <3>2, <3>3 DEF Effect, at, end
  <2>9. QED
    BY <2>7, <2>8
<1>19. Inside(code, code')
  BY <1>7, <1>9, <1>12 DEF Inside
<1>20. Slack >= AddrBytes => ~code'.aborted
  BY <1>9, <1>12, AtLeastThree
<1>21. QED
  BY <1>15, <1>16, <1>17, <1>18, <1>19, <1>20 DEF Keeps, IInv

\* Operand k of the call of entry e becomes op.
WithOperand(e, k, op) ==
  [e EXCEPT !.call = [e.call EXCEPT !.ops = [e.call.ops EXCEPT ![k] = op]]]

\* An entry stays well formed when an operand is replaced by one of its kind.
LEMMA WithOperandType ==
  ASSUME NEW e, EntryType(e), NEW k \in DOMAIN e.h, NEW op,
         "label" \in DOMAIN e.h[k] => op = LabelOp(e.call.ops[k].jump, op.to)
  PROVE  LET f == WithOperand(e, k, op)
         IN /\ EntryType(f) /\ f.at = e.at /\ f.h = e.h
            /\ EntryInside(e) => EntryInside(f)
            /\ \A end : LabelsEnd(e.call, e.h, end) => LabelsEnd(f.call, f.h, end)
<1> DEFINE f == WithOperand(e, k, op)
           c == e.call
           d == [c EXCEPT !.ops = [c.ops EXCEPT ![k] = op]]
<1>1. /\ DOMAIN e = {"at", "call", "h"} /\ e.at \in Nat /\ e.at + Slack <= BlockSize
      /\ "ops" \in DOMAIN c /\ DOMAIN e.h = DOMAIN c.ops /\ Labels(c, e.h)
  BY DEF EntryType
<1>2. f = [e EXCEPT !.call = d]
  BY DEF WithOperand
<1> HIDE DEF f
<1>3. /\ DOMAIN d = DOMAIN c /\ DOMAIN d.ops = DOMAIN c.ops
      /\ d.ops[k] = op
      /\ \A j \in DOMAIN c.ops : j # k => d.ops[j] = c.ops[j]
  BY <1>1
<1> HIDE DEF d
<1>4. DOMAIN f = DOMAIN e /\ f.at = e.at /\ f.h = e.h /\ f.call = d
  BY <1>1, <1>2
<1> HIDE DEF c
<1>5. ASSUME NEW j \in DOMAIN e.h, "label" \in DOMAIN e.h[j]
      PROVE  /\ DOMAIN e.h[j] = {"label"} /\ e.h[j].label \in Ptr
             /\ d.ops[j] = LabelOp(d.ops[j].jump, d.ops[j].to)
             /\ d.ops[j].jump = c.ops[j].jump
  <2>1. /\ DOMAIN e.h[j] = {"label"} /\ e.h[j].label \in Ptr
        /\ c.ops[j] = LabelOp(c.ops[j].jump, c.ops[j].to)
    BY <1>1, <1>5 DEF Labels
  <2>2. CASE j = k
    <3>1. d.ops[j] = LabelOp(c.ops[k].jump, op.to)
      BY <1>3, <1>5, <2>2 DEF c
    <3>2. d.ops[j].jump = c.ops[k].jump /\ d.ops[j].to = op.to
      BY <3>1 DEF LabelOp
    <3>3. QED
      BY <2>1, <2>2, <3>1, <3>2
  <2>3. CASE j # k
    BY <1>1, <1>3, <2>1, <2>3
  <2>4. QED
    BY <2>2, <2>3
<1>6. EntryType(f)
  BY <1>1, <1>3, <1>4, <1>5 DEF EntryType, Labels
<1>7. ASSUME EntryInside(e)
      PROVE  EntryInside(f)
  BY <1>4, <1>5, <1>7 DEF EntryInside, LabelsInside, c
<1>8. \A end : LabelsEnd(e.call, e.h, end) => LabelsEnd(f.call, f.h, end)
  BY <1>4, <1>5 DEF LabelsEnd, c
<1>9. QED
  BY <1>4, <1>6, <1>7, <1>8 DEF f

\* A patch inside the block keeps them.
LEMMA PatchedKeeps ==
  ASSUME IInv, ~code.aborted, NEW i \in DOMAIN prog, NEW k \in DOMAIN prog[i].h, NEW op,
         "label" \in DOMAIN prog[i].h[k] => op = LabelOp(prog[i].call.ops[k].jump, op.to),
         Patches(Memory, code, code', 0, BlockSize, AddrBytes), meas' = meas, moves' = moves,
         Layout => Patches(Memory, code, code', prog[i].at, EndOf(i), AddrBytes),
         prog' = [prog EXCEPT ![i] = WithOperand(prog[i], k, op)]
  PROVE  Keeps
<1> DEFINE e == prog[i]
           f == WithOperand(e, k, op)
<1>1. /\ IsCode(code) /\ IsMeas(meas) /\ prog \in Seq(Range(prog))
      /\ GetOffset(code) = GetOffset(meas) /\ GetOffset(meas) <= BlockSize
      /\ prog # <<>> => GetOffset(meas) + Slack <= BlockSize
      /\ EntryType(e) /\ EntryInside(e)
      /\ \A j \in DOMAIN prog : EntryType(prog[j]) /\ EntryInside(prog[j])
  BY DEF IInv, InPlace, Together, Entries
<1>2. /\ EntryType(f) /\ EntryInside(f) /\ f.at = e.at /\ f.h = e.h
      /\ \A end : LabelsEnd(e.call, e.h, end) => LabelsEnd(f.call, f.h, end)
  BY <1>1, WithOperandType
<1>f. prog' = [prog EXCEPT ![i] = f]
  OBVIOUS
<1> HIDE DEF f
<1>3. /\ prog' \in Seq(Range(prog')) /\ Len(prog') = Len(prog) /\ DOMAIN prog' = DOMAIN prog
      /\ \A j \in DOMAIN prog : prog'[j] = IF j = i THEN f ELSE prog[j]
      /\ prog # <<>> /\ prog' # <<>>
      /\ Len(prog) \in Nat /\ DOMAIN prog = 1 .. Len(prog)
  <2> DEFINE t == [prog EXCEPT ![i] = f]
  <2>1. prog \in Seq(Range(prog)) /\ i \in DOMAIN prog
    BY <1>1
  <2>2. /\ t \in Seq(Range(t))
        /\ Len(t) = Len(prog) /\ DOMAIN t = DOMAIN prog
        /\ \A j \in DOMAIN prog : t[j] = IF j = i THEN f ELSE prog[j]
        /\ prog # <<>> /\ t # <<>>
        /\ Len(prog) \in Nat /\ DOMAIN prog = 1 .. Len(prog)
    BY <2>1, ExceptInSeq
  <2> HIDE DEF t
  <2>3. prog' = t
    BY <1>f DEF t
  <2>4. QED
    BY <2>2, <2>3
<1>4. IsCode(code') /\ GetOffset(code') = GetOffset(code)
  BY <1>1 DEF Patches, IsCode, GetOffset
<1>5. InPlace' /\ Together'
  BY <1>1, <1>3, <1>4 DEF InPlace, Together
<1>6. Entries'
  <2>1. \A j \in DOMAIN prog' : EntryType(prog'[j]) /\ (~code'.aborted => EntryInside(prog'[j]))
    BY <1>1, <1>2, <1>3
  <2>2. QED
    BY <1>3, <2>1 DEF IInv, Entries
<1>7. ASSUME Layout
      PROVE  Layout' /\ Effect
  <2>1. \A j \in DOMAIN prog : prog'[j].at = prog[j].at
    BY <1>2, <1>3
  <2>2. \A j \in DOMAIN prog : EndOf(j)' = EndOf(j)
    <3> SUFFICES ASSUME NEW j \in DOMAIN prog
                 PROVE  EndOf(j)' = EndOf(j)
      OBVIOUS
    <3>1. CASE j = Len(prog)
      BY <1>3, <1>4, <3>1 DEF EndOf
    <3>2. CASE j # Len(prog)
      <4>1. j + 1 \in DOMAIN prog
        BY <1>3, <3>2
      <4>2. EndOf(j)' = prog'[j + 1].at /\ EndOf(j) = prog[j + 1].at
        BY <1>3, <3>2 DEF EndOf
      <4>3. QED
        BY <2>1, <4>1, <4>2
    <3>3. QED
      BY <3>1, <3>2
  <2>3. prog'[1].at = 0
    BY <1>3, <1>7, <2>1 DEF Layout
  <2>4. ASSUME NEW j \in DOMAIN prog'
        PROVE  /\ prog'[j].at <= EndOf(j)'
               /\ LabelsEnd(prog'[j].call, prog'[j].h, EndOf(j)')
               /\ HandlesFit(prog'[j].h, prog'[j].at, EndOf(j)')
    <3>1. /\ prog[j].at <= EndOf(j) /\ LabelsEnd(prog[j].call, prog[j].h, EndOf(j))
          /\ HandlesFit(prog[j].h, prog[j].at, EndOf(j))
      BY <1>3, <1>7 DEF Layout
    <3>2. prog'[j].h = prog[j].h
      BY <1>2, <1>3
    <3>3. QED
      BY <1>2, <1>3, <2>1, <2>2, <3>1, <3>2
  <2>5. Layout'
    BY <1>3, <2>3, <2>4 DEF Layout
  <2>6. ASSUME NEW q \in Memory, code'.mem[q] # code.mem[q]
        PROVE  Start + prog[i].at <= q /\ q < Start + EndOf(i)
    <3>1. prog[i].at <= Minus(q, Start) /\ Minus(q, Start) < EndOf(i)
      BY <1>1, <1>7, <2>6 DEF Patches, IsCode
    <3>2. Minus(q, Start) = q - Start /\ q \in Nat /\ prog[i].at \in Nat /\ EndOf(i) \in Nat
      BY <1>1, MemoryType, EndInside DEF EntryType
    <3>3. QED
      BY <3>1, <3>2, Bounds
  <2>7. Unmoved(Len(prog))
    BY <1>3, <2>1, <2>2 DEF Unmoved
  <2>8. QED
    BY <1>3, <2>5, <2>6, <2>7 DEF Effect
<1>8. Slack >= AddrBytes => ~code'.aborted
  BY <1>1, <1>3, AtLeastThree, AddrBytesAssumption, BlocksType, Bounds DEF Patches, IsCode
<1>9. Inside(code, code')
  BY <1>1, MemoryType, Bounds DEF Patches, Inside, IsCode
<1>10. QED
  BY <1>5, <1>6, <1>7, <1>8, <1>9 DEF Keeps, IInv

\* Replace and Bind on the measuring block do nothing.
LEMMA MeasureKept ==
  ASSUME NEW b, b.measure
  PROVE  /\ \A h, v : Replace(b, h, v) = b
         /\ \A size, at, p : Bind(b, size, at, p) = b
<1>1. \A at, data, n : WriteRawAt(b, at, data) = b /\ ReadRawAt(b, at, n) = b
  BY DEF WriteRawAt, ReadRawAt
<1>2. \A h, v : ReplaceBits(b, h, v) = b /\ ReplaceBytes(b, h, v) = b
  BY <1>1 DEF ReplaceBits, ReplaceBytes
<1>3. QED
  BY <1>1, <1>2 DEF Replace, Bind

\* The values that the client replaces by have the type of the handle.
LEMMA NewValuesAdmitted ==
  ASSUME NEW op, NEW field, NEW size, NEW h, NEW lo, NEW hi, IsHandle(field, h, lo, hi),
         field # "label", NEW v \in NewValues(op, field, size)
  PROVE  Admits(field, v)
<1>1. Regs \subseteq 0 .. 7 /\ Scales \subseteq 0 .. 3 /\ Offsets \subseteq Int /\ Imms \subseteq Int
  BY AssemblerAssumption DEF Reg
<1>2. CASE field \in {"reg", "base", "index"}
  <2>1. v \in Regs
    BY <1>2 DEF NewValues
  <2>2. QED
    BY <1>1, <1>2, <2>1 DEF Admits
<1>3. CASE field = "scale"
  <2>1. v \in Scales
    BY <1>3 DEF NewValues
  <2>2. QED
    BY <1>1, <1>3, <2>1 DEF Admits
<1>4. CASE field = "offset"
  <2>1. v \in Offsets
    BY <1>4 DEF NewValues
  <2>2. QED
    BY <1>1, <1>4, <2>1 DEF Admits
<1>5. CASE field = "imm"
  <2>1. v \in Imms
    BY <1>5 DEF NewValues
  <2>2. QED
    BY <1>1, <1>5, <2>1 DEF Admits
<1>6. QED
  BY <1>2, <1>3, <1>4, <1>5 DEF IsHandle

\* Replacing a field of an operand through its handle changes bytes of its instruction.
LEMMA ReplaceInside ==
  ASSUME IInv, ~code.aborted, NEW i \in DOMAIN prog, NEW k \in DOMAIN prog[i].h,
         NEW field \in DOMAIN prog[i].h[k], field # "label", NEW size,
         NEW v \in NewValues(prog[i].call.ops[k], field, size),
         ReplaceOperand(i, k, field, v)
  PROVE  /\ Patches(Memory, code, code', 0, BlockSize, AddrBytes)
         /\ Layout => Patches(Memory, code, code', prog[i].at, EndOf(i), AddrBytes)
<1> DEFINE e == prog[i]
           h == e.h[k][field]
<1>1. IsCode(code) /\ EntryType(e) /\ EntryInside(e)
  BY DEF IInv, InPlace, Entries
<1>2. code' = Replace(code, h, v)
  BY DEF ReplaceOperand
<1>3. IsHandle(field, h, 0, BlockSize)
  BY <1>1 DEF EntryInside, HandlesFit
<1>4. Admits(field, v)
  BY <1>3, NewValuesAdmitted
<1> HIDE DEF h
<1>5. ASSUME NEW lo \in Nat, NEW hi \in Nat, hi <= BlockSize, IsHandle(field, h, lo, hi)
      PROVE  Patches(Memory, code, code', lo, hi, AddrBytes)
  <2>1. /\ code \in BlocksOver(Memory) /\ code.start = Start /\ code.size = BlockSize
    BY <1>1 DEF IsCode
  <2>2. Covers(Memory, code)
    BY <2>1, MemoryType, Bounds DEF Covers
  <2>3. /\ code.start + code.size < AddrSpace /\ hi <= code.size /\ Memory \in SUBSET Ptr
    BY <1>5, <2>1, MemoryType, Bounds
  <2>4. Patches(Memory, code, Replace(code, h, v), lo, hi, 4)
    BY <1>4, <1>5, <2>1, <2>2, <2>3, ReplacePatches
  <2>5. /\ AddrBytes \in Nat /\ 4 <= AddrBytes /\ 4 \in Nat /\ lo <= lo /\ hi <= hi
    BY AddrBytesAssumption
  <2>6. QED
    BY <1>2, <2>1, <2>3, <2>4, <2>5, PatchesWider
<1>6. /\ Patches(Memory, code, code', 0, BlockSize, AddrBytes)
      /\ Layout => Patches(Memory, code, code', prog[i].at, EndOf(i), AddrBytes)
  <2>1. 0 \in Nat /\ BlockSize \in Nat /\ BlockSize <= BlockSize
    BY Bounds
  <2>2. Patches(Memory, code, code', 0, BlockSize, AddrBytes)
    BY <1>3, <1>5, <2>1
  <2>3. ASSUME Layout
        PROVE  Patches(Memory, code, code', prog[i].at, EndOf(i), AddrBytes)
    <3>1. IsHandle(field, h, prog[i].at, EndOf(i))
      BY <2>3 DEF Layout, HandlesFit, h
    <3>2. prog[i].at \in Nat /\ EndOf(i) \in Nat /\ EndOf(i) <= BlockSize
      BY <1>1, EndInside, AtLeastThree, Bounds DEF EntryType
    <3>3. QED
      BY <1>5, <3>1, <3>2
  <2>4. QED
    BY <2>2, <2>3
<1>7. QED
  BY <1>6

\* And keeps them.
LEMMA ReplaceKeeps ==
  ASSUME IInv, ~code.aborted, NEW i \in DOMAIN prog, NEW k \in DOMAIN prog[i].h,
         NEW field \in DOMAIN prog[i].h[k], field # "label", NEW size,
         NEW v \in NewValues(prog[i].call.ops[k], field, size),
         ReplaceOperand(i, k, field, v)
  PROVE  Keeps
<1> DEFINE e == prog[i]
           h == e.h[k][field]
           op == Replaced(e.call.ops[k], field, v)
<1>1. IsMeas(meas) /\ EntryType(e)
  BY DEF IInv, InPlace, Entries
<1>2. /\ meas' = Replace(meas, h, v) /\ moves' = moves
      /\ prog' = [prog EXCEPT ![i].call.ops[k] = op]
  BY DEF ReplaceOperand
<1>3. prog' = [prog EXCEPT ![i] = WithOperand(e, k, op)]
  BY <1>2 DEF WithOperand
<1>4. "label" \notin DOMAIN e.h[k]
  BY <1>1 DEF EntryType, Labels
<1>5. meas' = meas
  BY <1>1, <1>2, MeasureKept DEF IsMeas
<1>6. /\ Patches(Memory, code, code', 0, BlockSize, AddrBytes)
      /\ Layout => Patches(Memory, code, code', prog[i].at, EndOf(i), AddrBytes)
  BY ReplaceInside
<1> HIDE DEF op
<1>7. "label" \in DOMAIN prog[i].h[k] => op = LabelOp(prog[i].call.ops[k].jump, op.to)
  BY <1>4
<1>8. prog' = [prog EXCEPT ![i] = WithOperand(prog[i], k, op)] /\ moves' = moves
  BY <1>2, <1>3
<1>9. QED
  BY <1>5, <1>6, <1>7, <1>8, PatchedKeeps

\* Labels are bound to places in the block.
LEMMA TargetsType ==
  ASSUME IInv, NEW target \in Targets
  PROVE  target \in Nat /\ target <= BlockSize
<1>1. CASE target = GetOffset(code)
  BY <1>1, BlocksType DEF IInv, InPlace, Together
<1>2. CASE \E i \in DOMAIN prog : target = prog[i].at
  BY <1>2, AtLeastThree, Bounds DEF IInv, Entries, EntryType
<1>3. QED
  BY <1>1, <1>2 DEF Targets

\* Binding a label changes bytes of its instruction.
LEMMA BindInside ==
  ASSUME IInv, ~code.aborted, NEW i \in DOMAIN prog, NEW k \in DOMAIN prog[i].h,
         "label" \in DOMAIN prog[i].h[k], NEW target \in Targets, BindLabel(i, k, target)
  PROVE  /\ Patches(Memory, code, code', 0, BlockSize, AddrBytes)
         /\ Layout => Patches(Memory, code, code', prog[i].at, EndOf(i), AddrBytes)
<1> DEFINE e == prog[i]
           c == e.call
           size == c.ops[k].jump
           at == e.h[k].label
           p == Start + target
<1>1. IsCode(code) /\ EntryType(e) /\ EntryInside(e)
  BY DEF IInv, InPlace, Entries
<1>2. code' = Bind(code, size, at, p)
  BY DEF BindLabel
<1>3. /\ at \in Ptr /\ c.ops[k] = LabelOp(size, c.ops[k].to)
      /\ at + OffsetSize(size) <= BlockSize
      /\ k \in DOMAIN c.ops /\ "ops" \in DOMAIN c /\ "call" \in DOMAIN e
  BY <1>1 DEF EntryType, EntryInside, Labels, LabelsInside
<1>4. p \in Ptr
  BY TargetsType, Bounds DEF Ptr
<1>5. /\ Patches(Memory, code, code', 0, BlockSize, AddrBytes)
      /\ Layout => Patches(Memory, code, code', prog[i].at, EndOf(i), AddrBytes)
  <2>a. ASSUME Layout
        PROVE  prog[i].at <= at /\ at + OffsetSize(size) = EndOf(i)
    <3>1. IsHandle("label", at, prog[i].at, EndOf(i))
      BY <2>a DEF Layout, HandlesFit
    <3>2. at + OffsetSize(size) = EndOf(i)
      BY <2>a DEF Layout, LabelsEnd
    <3>3. QED
      BY <3>1, <3>2 DEF IsHandle
  <2>b. prog[i].at \in Nat /\ EndOf(i) \in Nat
    BY <1>1, EndInside DEF EntryType
  <2> HIDE DEF at, size, p, c, e
  <2>1. /\ code \in BlocksOver(Memory) /\ code.start = Start /\ code.size = BlockSize
        /\ Memory \in SUBSET Ptr /\ BlockSize \in Nat
    BY <1>1, MemoryType, Bounds DEF IsCode
  <2>2. /\ code.start + code.size < AddrSpace /\ 8 < AddrSpace /\ at \in Nat
        /\ at + OffsetSize(size) <= code.size
    BY <1>3, <2>1, Bounds DEF Ptr
  <2>3. Patches(Memory, code, code', at, at + OffsetSize(size), AddrBytes)
    BY <1>2, <1>4, <2>1, <2>2, BindPatches
  <2>4. /\ 0 \in Nat /\ at + OffsetSize(size) \in Nat /\ AddrBytes \in Nat
        /\ 0 <= at /\ AddrBytes <= AddrBytes /\ at + OffsetSize(size) <= BlockSize
    BY <1>3, <2>2, OffsetSizeType, AddrBytesAssumption
  <2>5. Patches(Memory, code, code', 0, BlockSize, AddrBytes)
    BY <2>1, <2>2, <2>3, <2>4, PatchesWider
  <2>6. ASSUME Layout
        PROVE  Patches(Memory, code, code', prog[i].at, EndOf(i), AddrBytes)
    <3>1. prog[i].at <= at /\ at + OffsetSize(size) <= EndOf(i)
      BY <2>6, <2>a, <2>b
    <3>2. QED
      BY <2>1, <2>2, <2>3, <2>4, <2>b, <3>1, PatchesWider
  <2>7. QED
    BY <2>5, <2>6
<1>6. QED
  BY <1>5

\* Binding a label keeps them, accepted or refused.
LEMMA BindKeeps ==
  ASSUME IInv, ~code.aborted, NEW i \in DOMAIN prog, NEW k \in DOMAIN prog[i].h,
         "label" \in DOMAIN prog[i].h[k], NEW target \in Targets, BindLabel(i, k, target)
  PROVE  Keeps
<1> DEFINE e == prog[i]
           c == e.call
           size == c.ops[k].jump
           at == e.h[k].label
           p == Start + target
           op == LabelOp(size, p)
<1>1. /\ IsCode(code) /\ IsMeas(meas) /\ EntryType(e) /\ EntryInside(e)
      /\ GetOffset(code) = GetOffset(meas) /\ GetOffset(meas) <= BlockSize
  BY DEF IInv, InPlace, Together, Entries
<1>2. /\ code' = Bind(code, size, at, p) /\ moves' = moves
      /\ meas' = Bind(meas, size, at, MeasureStart + target)
      /\ prog' = IF BindAccepts(code, size, at, p)
                 THEN [prog EXCEPT ![i].call.ops[k].to = p] ELSE prog
  BY DEF BindLabel
<1>3. meas' = meas
  BY <1>1, <1>2, MeasureKept DEF IsMeas
<1>4. /\ at \in Ptr /\ c.ops[k] = LabelOp(size, c.ops[k].to)
      /\ at + OffsetSize(size) <= BlockSize
      /\ k \in DOMAIN c.ops /\ "ops" \in DOMAIN c /\ "call" \in DOMAIN e
  BY <1>1 DEF EntryType, EntryInside, Labels, LabelsInside
<1>5. /\ Patches(Memory, code, code', 0, BlockSize, AddrBytes)
      /\ Layout => Patches(Memory, code, code', prog[i].at, EndOf(i), AddrBytes)
  BY BindInside
<1>6. CASE BindAccepts(code, size, at, p)
  <2>1. prog' = [prog EXCEPT ![i].call.ops[k].to = p]
    BY <1>2, <1>6
  <2>2. [c.ops[k] EXCEPT !.to = p] = op
    BY <1>4 DEF LabelOp
  <2>3. prog' = [prog EXCEPT ![i] = WithOperand(e, k, op)]
    BY <2>1, <2>2 DEF WithOperand
  <2>4. op = LabelOp(size, op.to)
    BY DEF LabelOp
  <2>5. QED
    BY <1>2, <1>3, <1>5, <2>3, <2>4, PatchedKeeps
<1>7. CASE ~BindAccepts(code, size, at, p)
  <2>1. prog' = prog /\ code' = code
    BY <1>2, <1>7 DEF Bind
  <2>2. IInv' /\ (Layout => Layout') /\ Effect
    <3>1. \A j : EndOf(j)' = EndOf(j)
      BY <2>1 DEF EndOf
    <3>2. Effect
      BY <2>1, <3>1 DEF Effect, Unmoved
    <3>3. QED
      BY <1>2, <1>3, <2>1, <3>1, <3>2 DEF IInv, InPlace, Together, Entries, Layout
  <2>3. QED
    BY <2>1, <2>2 DEF Keeps, Inside
<1>8. QED
  BY <1>6, <1>7

(***************************************************************************)
(* The invariant holds                                                     *)
(***************************************************************************)
\* Initially they hold: the block is empty, the memory fresh.
LEMMA InitHolds ==
  ASSUME Init
  PROVE  IInv /\ Layout /\ Contained /\ ~code.aborted
<1>1. /\ code = [mem |-> [p \in Memory |-> Fresh], curr |-> Start, start |-> Start,
                 size |-> BlockSize, measure |-> FALSE, aborted |-> FALSE]
      /\ meas = [mem |-> <<>>, curr |-> MeasureStart, start |-> MeasureStart,
                 size |-> BlockSize, measure |-> TRUE, aborted |-> FALSE]
      /\ prog = <<>> /\ moves = 0
  BY DEF Init, NewBlock
<1>2. [p \in Memory |-> Fresh] \in [Memory -> ByteValue] /\ <<>> \in [{} -> ByteValue]
  BY AssemblerAssumption
<1>3. Start \in Ptr /\ MeasureStart \in Ptr /\ BlockSize \in Ptr
  BY AssemblerAssumption, Bounds DEF Ptr
<1>4. InPlace
  <2>1. code \in BlocksOver(Memory) /\ meas \in BlocksOver({})
    BY <1>1, <1>2, <1>3 DEF BlocksOver
  <2>2. QED
    BY <1>1, <2>1 DEF InPlace, IsCode, IsMeas
<1>5. GetOffset(code) = 0 /\ GetOffset(meas) = 0
  BY <1>1, <1>3, BlockAssumption DEF GetOffset, Minus, Wrap, Ptr
<1>6. Together
  BY <1>1, <1>5, Bounds DEF Together
<1>7. Entries
  <2>1. <<>> \in Seq(Range(<<>>)) /\ Len(<<>>) = 0 /\ DOMAIN <<>> = {}
    OBVIOUS
  <2>2. QED
    BY <1>1, <2>1, AssemblerAssumption DEF Entries
<1>8. Layout
  BY <1>1, <1>5 DEF Layout
<1>9. Contained /\ ~code.aborted
  BY <1>1 DEF Contained
<1>10. QED
  BY <1>4, <1>6, <1>7, <1>8, <1>9 DEF IInv

\* Patching field of operand k of instruction i: by Replace, or by Bind for a label.
PatchOf(i, k, field) ==
  \/ /\ field # "label"
     /\ \E size : \E v \in NewValues(prog[i].call.ops[k], field, size) :
          ReplaceOperand(i, k, field, v)
  \/ field = "label" /\ \E target \in Targets : BindLabel(i, k, target)

\* Every patch keeps them.
LEMMA PatchKeeps ==
  ASSUME IInv, ~code.aborted, Patch
  PROVE  Keeps
<1>1. PICK i \in DOMAIN prog : \E k \in DOMAIN prog[i].h :
             \E field \in DOMAIN prog[i].h[k] : PatchOf(i, k, field)
  BY DEF Patch, PatchOf
<1>2. PICK k \in DOMAIN prog[i].h : \E field \in DOMAIN prog[i].h[k] : PatchOf(i, k, field)
  BY <1>1
<1>3. PICK field \in DOMAIN prog[i].h[k] : PatchOf(i, k, field)
  BY <1>2
<1>4. CASE field = "label"
  <2>1. PICK target \in Targets : BindLabel(i, k, target)
    BY <1>3, <1>4 DEF PatchOf
  <2>2. QED
    BY <1>4, <2>1, BindKeeps
<1>5. CASE field # "label"
  <2>1. PICK size : \E v \in NewValues(prog[i].call.ops[k], field, size) :
          ReplaceOperand(i, k, field, v)
    BY <1>3, <1>5 DEF PatchOf
  <2>2. PICK v \in NewValues(prog[i].call.ops[k], field, size) : ReplaceOperand(i, k, field, v)
    BY <2>1
  <2>3. QED
    BY <1>5, <2>2, ReplaceKeeps
<1>6. QED
  BY <1>4, <1>5

\* Only Emit and Pad make the program longer.
LEMMA NoLonger ==
  ASSUME IInv, IInv', Patch \/ (\E i \in DOMAIN prog : RewindTo(i) \/ \E c : Overwrite(i, c))
  PROVE  ~(Len(prog') > Len(prog))
<1>1. prog \in Seq(Range(prog)) /\ prog' \in Seq(Range(prog'))
  BY DEF IInv, Entries
<1>2. /\ DOMAIN prog = 1 .. Len(prog) /\ Len(prog) \in Nat
      /\ DOMAIN prog' = 1 .. Len(prog') /\ Len(prog') \in Nat
  BY <1>1
<1>3. CASE DOMAIN prog' = DOMAIN prog
  BY <1>2, <1>3
<1>4. CASE \E i \in DOMAIN prog : prog' = SubSeq(prog, 1, i - 1)
  <2>1. PICK i \in DOMAIN prog : prog' = SubSeq(prog, 1, i - 1)
    BY <1>4
  <2>2. Len(prog') = i - 1
    BY <1>1, <2>1, PrefixOfSeq
  <2>3. QED
    BY <1>2, <2>2
<1>5. CASE Patch
  <2>1. PICK i, k, field : PatchOf(i, k, field)
    BY <1>5 DEF Patch, PatchOf
  <2>2. DOMAIN prog' = DOMAIN prog
    BY <2>1 DEF PatchOf, ReplaceOperand, BindLabel
  <2>3. QED
    BY <1>3, <2>2
<1>6. CASE \E i \in DOMAIN prog : RewindTo(i)
  BY <1>3, <1>4, <1>6 DEF RewindTo
<1>7. CASE \E i \in DOMAIN prog : \E c : Overwrite(i, c)
  BY <1>3, <1>7 DEF Overwrite
<1>8. QED
  BY <1>5, <1>6, <1>7

\* Every step of the client keeps them, and when it emits an instruction at the end
\* the bytes that changed lie between the cursors or are the three behind.
LEMMA NextKeeps ==
  ASSUME IInv, Next
  PROVE  Keeps /\ (Len(prog') > Len(prog) => Spills(code, code'))
<1>1. ~code.aborted
  BY DEF Next
<1>2. CASE Len(prog) < MaxInstructions /\ \E c \in Calls : EmitCall(c)
  <2>1. PICK c \in Calls : EmitCall(c)
    BY <1>2
  <2>2. IsCall(c)
    BY AssemblerAssumption
  <2>3. TwoPasses(c, EmitOf(meas, c), EmitOf(code, c))
    BY <2>1 DEF EmitCall
  <2>4. QED
    BY <1>1, <1>2, <2>2, <2>3, TwoPassesKeeps
<1>3. CASE Len(prog) < MaxInstructions /\ \E align \in Aligns : Pad(align)
  BY <1>1, <1>3, PadKeeps
<1>4. CASE Patch
  BY <1>1, <1>4, PatchKeeps, NoLonger DEF Keeps
<1>5. CASE moves < MaxMoves /\ \E i \in DOMAIN prog : RewindTo(i)
  BY <1>1, <1>5, RewindKeeps, NoLonger DEF Keeps
<1>6. CASE moves < MaxMoves /\ \E i \in DOMAIN prog, c \in Calls : Overwrite(i, c)
  <2>1. PICK i \in DOMAIN prog, c \in Calls : Overwrite(i, c)
    BY <1>6
  <2>2. IsCall(c)
    BY AssemblerAssumption
  <2>3. Keeps
    BY <1>1, <1>6, <2>1, <2>2, OverwriteKeeps
  <2>4. QED
    BY <2>1, <2>3, NoLonger DEF Keeps
<1>7. QED
  BY <1>2, <1>3, <1>4, <1>5, <1>6 DEF Next

\* A step that changes nothing keeps them.
LEMMA StutterKeeps ==
  ASSUME IInv, UNCHANGED vars
  PROVE  IInv' /\ (Layout => Layout') /\ code' = code
<1>1. code' = code /\ meas' = meas /\ prog' = prog /\ moves' = moves
  BY DEF vars
<1>2. \A i : EndOf(i)' = EndOf(i)
  BY <1>1 DEF EndOf
<1>3. QED
  BY <1>1, <1>2 DEF IInv, InPlace, Together, Entries, Layout

\* The inductive invariant is one: whatever the client emits, rewinds, overwrites,
\* replaces or binds, and with any slack, the two passes stay together.
THEOREM Inductive == Spec => []IInv
<1>1. Init => IInv
  BY InitHolds
<1>2. IInv /\ [Next]_vars => IInv'
  BY NextKeeps, StutterKeeps DEF Keeps
<1>3. QED
  BY <1>1, <1>2, PTL DEF Spec

\* The type invariant of the client, for every set of calls, every buffer and every
\* slack: the cursors, the memory and the entries of the program have their types.
THEOREM TypeCorrect == Spec => []TypeOK
<1>1. IInv => TypeOK
  <2> SUFFICES ASSUME IInv PROVE TypeOK
    OBVIOUS
  <2>1. IsCode(code) /\ IsMeas(meas) /\ Entries
    BY DEF IInv, InPlace
  <2>2. code \in BlockType
    BY <2>1 DEF IsCode, BlocksOver, BlockType
  <2>3. meas \in BlockType
    <3>1. /\ meas = [mem |-> meas.mem, curr |-> meas.curr, start |-> meas.start,
                     size |-> meas.size, measure |-> meas.measure, aborted |-> meas.aborted]
          /\ meas.mem \in [{} -> ByteValue] /\ meas.curr \in Ptr /\ meas.start \in Ptr
          /\ meas.size \in Ptr /\ meas.measure \in BOOLEAN /\ meas.aborted \in BOOLEAN
      BY <2>1 DEF IsMeas, BlocksOver
    <3>2. meas.mem = <<>>
      BY <3>1
    <3>3. QED
      BY <3>1, <3>2 DEF BlockType
  <2>4. Len(prog) <= MaxInstructions /\ moves \in 0 .. MaxMoves
    BY <2>1 DEF Entries
  <2>5. ASSUME NEW i \in DOMAIN prog
        PROVE  /\ DOMAIN prog[i] = {"at", "call", "h"}
               /\ prog[i].at \in Ptr
               /\ DOMAIN prog[i].h = DOMAIN prog[i].call.ops
    BY <2>1, AtLeastThree, Bounds DEF Entries, EntryType, Ptr
  <2>6. QED
    BY <2>2, <2>3, <2>4, <2>5 DEF TypeOK
<1>2. QED
  BY <1>1, Inductive, PTL

\* MeasureBlock measures what CodeBlock writes: unless an assertion has stopped the
\* program, the measured size is the size written, whatever way the client went.
\* The reason is CallFits: the length of a call does not depend on the block.
THEOREM MeasuresWhatItWrites == Spec => []MeasureAgrees
<1>1. IInv => MeasureAgrees
  BY DEF IInv, Together, MeasureAgrees, GetSize, GetOffset
<1>2. QED
  BY <1>1, Inductive, PTL

\* A step that emits changes no byte before the cursor and none more than three
\* behind the new one: the 4 byte stores of shorter operands (PushInt of a 1 byte
\* offset or immediate in x86_base.h) spill that much and no more.
THEOREM SpillIsBounded == Spec => SpillsThreeBytes
<1>1. IInv /\ [Next]_vars =>
        [Len(prog') > Len(prog) =>
           \A p \in Memory : code'.mem[p] # code.mem[p] =>
                               code.curr <= p /\ p < code'.curr + 3]_vars
  BY NextKeeps DEF Spills
<1>2. QED
  BY <1>1, Inductive, PTL DEF Spec, SpillsThreeBytes

\* With the slack of an address added to what was measured no assertion of the
\* writing pass ever fails. The hypothesis is the one that the code needs: binding
\* an address checks room for one at the cursor (BaseBlock::Verify).
THEOREM MeasuredSizeIsEnough ==
  ASSUME Slack >= AddrBytes
  PROVE  Spec => []MeasuredSizeSuffices
<1>1. Init => MeasuredSizeSuffices
  BY InitHolds DEF MeasuredSizeSuffices
<1>2. IInv /\ MeasuredSizeSuffices /\ [Next]_vars => MeasuredSizeSuffices'
  BY NextKeeps, StutterKeeps DEF Keeps, MeasuredSizeSuffices
<1>3. QED
  BY <1>1, <1>2, Inductive, PTL DEF Spec

\* Nothing is ever written behind the block, if the client adds three bytes to what
\* it measured or builds with assertions. With neither, the last instruction of a
\* block spills behind it. (With assertions it is stopped: see the run Exact.)
THEOREM Containment ==
  ASSUME Slack >= 3 \/ ~NDEBUG
  PROVE  Spec => []Contained
<1>1. Init => Contained
  BY InitHolds
<1>2. IInv /\ Contained /\ [Next]_vars => Contained'
  <2> SUFFICES ASSUME IInv, Contained, [Next]_vars
               PROVE  Contained'
    OBVIOUS
  <2>1. Inside(code, code')
    BY NextKeeps, StutterKeeps DEF Keeps, Inside
  <2>2. ASSUME NEW p \in Memory, p >= Start + BlockSize
        PROVE  code'.mem[p] = Fresh
    <3>1. ~(p < Start + BlockSize)
      BY <2>2, MemoryType, Bounds
    <3>2. code'.mem[p] = code.mem[p]
      BY <2>1, <3>1 DEF Inside
    <3>3. QED
      BY <2>2, <3>2 DEF Contained
  <2>3. QED
    BY <2>2 DEF Contained
<1>3. QED
  BY <1>1, <1>2, Inductive, PTL DEF Spec

(***************************************************************************)
(* Labels                                                                  *)
(***************************************************************************)
\* The signed distance that a difference of addresses stands for.
SignedDistance(d) == IF 2 * d >= AddrSpace THEN d - AddrSpace ELSE d

\* The offset of a jump is the signed distance, in the block, from the end of the
\* displacement to the target: the start of the block cancels out.
LEMMA JumpOffset ==
  ASSUME NEW s \in Nat, s + BlockSize < AddrSpace, NEW at \in Ptr, NEW n \in 1 .. 8,
         NEW t \in Nat, t <= BlockSize
  PROVE  /\ CalcJumpOffset(Plus(s, at), s + t, n) = SignedDistance(Minus(Minus(t, at), n))
<1> USE BlockAssumption
<1>1. AddrSpace \in Nat /\ BlockSize \in Nat /\ 8 < AddrSpace
  BY Bounds
<1>2. Minus(s + t, Plus(Plus(s, at), n)) = Minus(Minus(t, at), n)
  BY <1>1 DEF Minus, Plus, Wrap, Ptr
<1>3. QED
  BY <1>2 DEF CalcJumpOffset, SignedDistance

\* A recorded label is an address.
LEMMA LabelsOf ==
  ASSUME IInv, NEW i \in DOMAIN prog, NEW k \in DOMAIN prog[i].h,
         "label" \in DOMAIN prog[i].h[k]
  PROVE  prog[i].h[k].label \in Ptr
BY DEF IInv, Entries, EntryType, Labels

\* The two blocks accept the same bindings: the offset does not depend on the block.
LEMMA AlikeInInv ==
  ASSUME IInv
  PROVE  BindsAlike
<1> SUFFICES ASSUME NEW i \in DOMAIN prog, NEW k \in DOMAIN prog[i].h,
                    "label" \in DOMAIN prog[i].h[k], NEW target \in Targets
             PROVE  BindAccepts(code, prog[i].call.ops[k].jump, prog[i].h[k].label,
                                Start + target)
                    <=> BindAccepts(meas, prog[i].call.ops[k].jump, prog[i].h[k].label,
                                    MeasureStart + target)
  BY DEF BindsAlike
<1> DEFINE size == prog[i].call.ops[k].jump
           at == prog[i].h[k].label
           n == OffsetSize(size)
<1>1. at \in Ptr /\ n \in 1 .. 8 /\ target \in Nat /\ target <= BlockSize
  BY LabelsOf, TargetsType, OffsetSizeType
<1>2. code.start = Start /\ meas.start = MeasureStart
  BY DEF IInv, InPlace, IsCode, IsMeas
<1> HIDE DEF size, at, n
<1>3. /\ Start \in Nat /\ MeasureStart \in Nat
      /\ Start + BlockSize < AddrSpace /\ MeasureStart + BlockSize < AddrSpace
  BY Bounds
<1>4. CalcJumpOffset(Plus(Start, at), Start + target, n)
        = CalcJumpOffset(Plus(MeasureStart, at), MeasureStart + target, n)
  <2>1. CalcJumpOffset(Plus(Start, at), Start + target, n) = SignedDistance(Minus(Minus(target, at), n))
    BY <1>1, <1>3, JumpOffset
  <2>2. CalcJumpOffset(Plus(MeasureStart, at), MeasureStart + target, n)
          = SignedDistance(Minus(Minus(target, at), n))
    BY <1>1, <1>3, JumpOffset
  <2>3. QED
    BY <2>1, <2>2
<1>5. QED
  BY <1>2, <1>4 DEF BindAccepts, size, at, n

\* A short jump is accepted if the target is at most 127 bytes after or 128 before the
\* end of its instruction: the displacement is last, so its end is the end of the
\* instruction.
LEMMA ReachInInv ==
  ASSUME BlockSize + 128 < AddrSpace, IInv, Layout
  PROVE  ShortReach
<1> SUFFICES ASSUME NEW i \in DOMAIN prog, NEW k \in DOMAIN prog[i].h,
                    "label" \in DOMAIN prog[i].h[k], prog[i].call.ops[k].jump = "SHORT",
                    NEW target \in Targets
             PROVE  BindAccepts(code, "SHORT", prog[i].h[k].label, Start + target)
                    <=> target - EndOf(i) \in -128 .. 127
  BY DEF ShortReach
<1> DEFINE at == prog[i].h[k].label
           end == EndOf(i)
<1>1. at \in Ptr /\ target \in Nat /\ target <= BlockSize
  BY LabelsOf, TargetsType
<1>2. at + 1 = end
  BY DEF Layout, LabelsEnd, OffsetSize
<1>3. end <= BlockSize
  <2>1. /\ prog \in Seq(Range(prog)) /\ GetOffset(code) <= BlockSize
        /\ \A j \in DOMAIN prog : prog[j].at \in Nat /\ prog[j].at + Slack <= BlockSize
    BY DEF IInv, Together, Entries, EntryType
  <2>2. CASE i = Len(prog)
    BY <2>1, <2>2 DEF EndOf
  <2>3. CASE i # Len(prog)
    <3>1. i + 1 \in DOMAIN prog
      BY <2>1, <2>3
    <3>2. end = prog[i + 1].at
      BY <2>3 DEF EndOf
    <3>3. QED
      BY <2>1, <3>1, <3>2, AtLeastThree, Bounds
  <2>4. QED
    BY <2>2, <2>3
<1>4. code.start = Start
  BY DEF IInv, InPlace, IsCode
<1> HIDE DEF at, end
<1> DEFINE jump == CalcJumpOffset(Plus(Start, at), Start + target, 1)
<1>5. jump = SignedDistance(Minus(Minus(target, at), 1))
  BY <1>1, Bounds, JumpOffset
<1>6. Minus(Minus(target, at), 1)
        = IF target >= end THEN target - end ELSE target - end + AddrSpace
  BY <1>1, <1>2, <1>3, Bounds, BlockAssumption DEF Minus, Wrap, Ptr
<1> HIDE DEF jump
<1>7. IsByteOffset(jump) <=> target - end \in -128 .. 127
  <2>1. end \in Nat /\ AddrSpace \in Nat /\ BlockSize \in Nat
    BY <1>1, <1>2, Bounds DEF Ptr
  <2>2. CASE target >= end
    BY <1>1, <1>3, <1>5, <1>6, <2>1, <2>2 DEF SignedDistance, IsByteOffset
  <2>3. CASE target < end
    BY <1>1, <1>3, <1>5, <1>6, <2>1, <2>3 DEF SignedDistance, IsByteOffset
  <2>4. QED
    BY <1>1, <2>1, <2>2, <2>3
<1>8. BindAccepts(code, "SHORT", at, Start + target) <=> IsByteOffset(jump)
  BY <1>4 DEF BindAccepts, OffsetSize, jump
<1>9. QED
  BY <1>7, <1>8 DEF at, end

\* The measuring pass refuses a label exactly when the writing pass does, for every
\* instruction, label and target: a client that measured a program can bind it.
THEOREM MeasureBindsAlike == Spec => []BindsAlike
BY AlikeInInv, Inductive, PTL

\* The instructions lie back to back, and each displacement ends its instruction,
\* with slack for the bytes that spill.
THEOREM Contiguous ==
  ASSUME Slack >= 3
  PROVE  Spec => []Layout
<1>1. Init => Layout
  BY InitHolds
<1>2. IInv /\ Layout /\ [Next]_vars => Layout'
  BY NextKeeps, StutterKeeps DEF Keeps
<1>3. QED
  BY <1>1, <1>2, Inductive, PTL DEF Spec

\* A short jump binds to every target that the instruction set reaches, 128 bytes
\* back to 127 bytes on, and to no other. A block so large that a distance in it
\* wraps into that range, which no allocation is, is excluded by the hypothesis.
THEOREM ShortJumpsReach ==
  ASSUME Slack >= 3, BlockSize + 128 < AddrSpace
  PROVE  Spec => []ShortReach
<1>1. IInv /\ Layout => ShortReach
  BY ReachInInv
<1>2. QED
  BY <1>1, Inductive, Contiguous, PTL

(***************************************************************************)
(* The bytes of an instruction are its own                                 *)
(***************************************************************************)
\* The instructions do not overlap: the layout, over any distance.
LEMMA Ordered ==
  ASSUME IInv, Layout, ~code.aborted
  PROVE  /\ \A i, j \in DOMAIN prog : i < j => EndOf(i) <= prog[j].at
         /\ \A i \in DOMAIN prog : EndOf(i) <= GetOffset(code)
<1>1. /\ prog \in Seq(Range(prog)) /\ Len(prog) \in Nat /\ DOMAIN prog = 1 .. Len(prog)
      /\ IsCode(code) /\ GetOffset(code) \in Nat
      /\ \A i \in DOMAIN prog : prog[i].at \in Nat
  BY BlocksType DEF IInv, InPlace, Entries, EntryType
<1>2. \A i \in DOMAIN prog : EndOf(i) \in Nat /\ prog[i].at <= EndOf(i)
  BY EndInside DEF Layout
<1>3. \A i \in DOMAIN prog : i + 1 \in DOMAIN prog => EndOf(i) = prog[i + 1].at
  BY <1>1 DEF EndOf
<1> DEFINE T == {n \in Nat : \A i \in DOMAIN prog :
                   i + n + 1 \in DOMAIN prog => EndOf(i) <= prog[i + n + 1].at}
<1>4. 0 \in T
  BY <1>1, <1>2, <1>3
<1>5. ASSUME NEW n \in Nat, n \in T
      PROVE  n + 1 \in T
  <2> SUFFICES ASSUME NEW i \in DOMAIN prog, i + (n + 1) + 1 \in DOMAIN prog
               PROVE  EndOf(i) <= prog[i + (n + 1) + 1].at
    OBVIOUS
  <2> DEFINE m == i + n + 1
  <2>1. m \in DOMAIN prog /\ m + 1 = i + (n + 1) + 1
    BY <1>1
  <2>2. EndOf(i) <= prog[m].at
    BY <1>5, <2>1
  <2> HIDE DEF m
  <2>3. prog[m].at <= EndOf(m) /\ EndOf(m) = prog[m + 1].at
    BY <1>2, <1>3, <2>1
  <2>4. QED
    BY <1>1, <1>2, <2>1, <2>2, <2>3
<1>6. Nat \subseteq T
  <2> HIDE DEF T
  <2>1. QED
    BY <1>4, <1>5, Induction
<1>7. ASSUME NEW i \in DOMAIN prog, NEW j \in DOMAIN prog, i < j
      PROVE  EndOf(i) <= prog[j].at
  <2>1. j - i - 1 \in Nat /\ i + (j - i - 1) + 1 = j
    BY <1>1, <1>7
  <2>2. j - i - 1 \in T
    BY <1>6, <2>1
  <2>3. QED
    BY <2>1, <2>2
<1>8. ASSUME NEW i \in DOMAIN prog
      PROVE  EndOf(i) <= GetOffset(code)
  <2> DEFINE last == Len(prog)
  <2>1. last \in DOMAIN prog /\ EndOf(last) = GetOffset(code)
    BY <1>1 DEF EndOf
  <2>2. CASE i = last
    BY <1>1, <2>1, <2>2
  <2>3. CASE i # last
    <3>1. i < last
      BY <1>1, <2>3
    <3> HIDE DEF last
    <3>2. EndOf(i) <= prog[last].at /\ prog[last].at <= EndOf(last)
      BY <1>2, <1>7, <2>1, <3>1
    <3>3. QED
      BY <1>1, <1>2, <2>1, <3>2
  <2>4. QED
    BY <2>2, <2>3
<1>9. QED
  BY <1>7, <1>8

\* An instruction that stays in its place keeps its bytes if nothing is written there.
LEMMA BytesKept ==
  ASSUME IInv, ~code.aborted, NEW j \in DOMAIN prog,
         prog'[j].at = prog[j].at, EndOf(j)' = EndOf(j),
         \A q \in Memory : Start + prog[j].at <= q /\ q < Start + EndOf(j)
           => code'.mem[q] = code.mem[q]
  PROVE  BytesOf(j)' = BytesOf(j)
<1> DEFINE at == prog[j].at
           len == EndOf(j) - at
<1>1. at \in Nat /\ EndOf(j) \in Nat /\ EndOf(j) <= BlockSize
  BY EndInside, AtLeastThree, Bounds DEF IInv, Entries, EntryType
<1>2. ASSUME NEW n \in 1 .. len
      PROVE  code'.mem[Start + at + n - 1] = code.mem[Start + at + n - 1]
  <2>1. /\ Start + at + n - 1 \in Memory
        /\ Start + at <= Start + at + n - 1 /\ Start + at + n - 1 < Start + EndOf(j)
    BY <1>1, Bounds DEF Memory, Window
  <2>2. QED
    BY <2>1
<1>3. BytesOf(j)' = [n \in 1 .. len |-> code'.mem[Start + at + n - 1]]
  BY DEF BytesOf
<1>4. BytesOf(j) = [n \in 1 .. len |-> code.mem[Start + at + n - 1]]
  BY DEF BytesOf
<1> HIDE DEF at, len
<1>5. QED
  BY <1>2, <1>3, <1>4

\* A function over 1 .. n is a sequence of n.
LEMMA LenOf ==
  ASSUME NEW n \in Nat, NEW f, f = [i \in 1 .. n |-> f[i]]
  PROVE  Len(f) = n
<1>1. f \in [1 .. n -> Range(f)]
  BY DEF Range
<1>2. QED
  BY <1>1

\* A function over the indexes of a sequence is a sequence as long as it.
LEMMA SameLen ==
  ASSUME NEW p, p \in Seq(Range(p)), NEW f, f = [i \in DOMAIN p |-> f[i]]
  PROVE  /\ Len(p) \in Nat /\ DOMAIN p = 1 .. Len(p)
         /\ DOMAIN f = 1 .. Len(p) /\ Len(f) = Len(p)
<1>1. Len(p) \in Nat /\ DOMAIN p = 1 .. Len(p)
  OBVIOUS
<1>2. f = [i \in 1 .. Len(p) |-> f[i]]
  BY <1>1
<1>3. Len(f) = Len(p)
  BY <1>1, <1>2, LenOf
<1>4. QED
  BY <1>1, <1>2, <1>3

\* Every effect that a step can have is one that ByteStream allows.
LEMMA EffectOnContents ==
  ASSUME IInv, IInv', Layout, ~code.aborted, Effect
  PROVE  Stored!Next
<1>1. /\ Len(prog) \in Nat /\ DOMAIN prog = 1 .. Len(prog)
      /\ DOMAIN Contents = 1 .. Len(prog) /\ Len(Contents) = Len(prog)
      /\ \A i \in 1 .. Len(prog) : Contents[i] = BytesOf(i)
  <2>1. prog \in Seq(Range(prog))
    BY DEF IInv, Entries
  <2>2. Contents = [i \in DOMAIN prog |-> BytesOf(i)]
    BY DEF Contents
  <2>3. \A i \in DOMAIN prog : Contents[i] = BytesOf(i)
    BY <2>2
  <2>4. Contents = [i \in DOMAIN prog |-> Contents[i]]
    BY <2>2
  <2>5. QED
    BY <2>1, <2>3, <2>4, SameLen
<1>2. /\ Len(prog') \in Nat /\ DOMAIN prog' = 1 .. Len(prog')
      /\ DOMAIN (Contents') = 1 .. Len(prog') /\ Len(Contents') = Len(prog')
      /\ \A i \in 1 .. Len(prog') : (Contents')[i] = BytesOf(i)'
  <2> DEFINE C == Contents'
  <2>1. prog' \in Seq(Range(prog'))
    BY DEF IInv, Entries
  <2>2. C = [i \in DOMAIN prog' |-> BytesOf(i)']
    BY DEF Contents
  <2> HIDE DEF C
  <2>3. \A i \in DOMAIN prog' : C[i] = BytesOf(i)'
    BY <2>2
  <2>4. C = [i \in DOMAIN prog' |-> C[i]]
    BY <2>2
  <2>5. /\ Len(prog') \in Nat /\ DOMAIN prog' = 1 .. Len(prog')
        /\ DOMAIN C = 1 .. Len(prog') /\ Len(C) = Len(prog')
    BY <2>1, <2>4, SameLen
  <2>6. QED
    BY <2>3, <2>5 DEF C
<1>3. ASSUME NEW j \in DOMAIN prog, j \in DOMAIN prog',
             prog'[j].at = prog[j].at, EndOf(j)' = EndOf(j),
             \A q \in Memory : Start + prog[j].at <= q /\ q < Start + EndOf(j)
               => code'.mem[q] = code.mem[q]
      PROVE  (Contents')[j] = Contents[j]
  BY <1>1, <1>2, <1>3, BytesKept
<1>4. /\ \A j \in DOMAIN prog : EndOf(j) \in Nat /\ prog[j].at \in Nat /\ EndOf(j) <= GetOffset(code)
      /\ \A i, j \in DOMAIN prog : i < j => EndOf(i) <= prog[j].at
      /\ GetOffset(code) \in Nat
  BY Ordered, EndInside, BlocksType DEF IInv, InPlace, Entries, EntryType
<1>5. Memory \subseteq Int
  BY MemoryType
<1>6. CASE /\ Len(prog') = Len(prog) + 1 /\ Unmoved(Len(prog))
           /\ \A q \in Memory : code'.mem[q] # code.mem[q] => Start + GetOffset(code) <= q
  <2>1. ASSUME NEW j \in DOMAIN prog
        PROVE  (Contents')[j] = Contents[j]
    <3>1. \A q \in Memory : Start + prog[j].at <= q /\ q < Start + EndOf(j)
            => code'.mem[q] = code.mem[q]
      BY <1>4, <1>5, <1>6, Bounds
    <3>2. j \in DOMAIN prog'
      BY <1>1, <1>2, <1>6
    <3>3. prog'[j].at = prog[j].at /\ EndOf(j)' = EndOf(j)
      BY <1>1, <1>6 DEF Unmoved
    <3>4. QED
      BY <1>3, <3>1, <3>2, <3>3
  <2>2. Stored!Add
    BY <1>1, <1>2, <1>6, <2>1 DEF Stored!Add
  <2>3. QED
    BY <2>2 DEF Stored!Next
<1>7. ASSUME NEW i \in DOMAIN prog,
             Len(prog') = Len(prog), Unmoved(Len(prog)),
             \A q \in Memory : code'.mem[q] # code.mem[q] =>
               Start + prog[i].at <= q /\ q < Start + EndOf(i)
      PROVE  Stored!Next
  <2>1. ASSUME NEW j \in DOMAIN prog \ {i}
        PROVE  (Contents')[j] = Contents[j]
    <3>1. EndOf(i) <= prog[j].at \/ EndOf(j) <= prog[i].at
      <4>1. i < j \/ j < i
        BY <1>1
      <4>2. QED
        BY <1>4, <4>1
    <3>2. \A q \in Memory : Start + prog[j].at <= q /\ q < Start + EndOf(j)
            => code'.mem[q] = code.mem[q]
      BY <1>4, <1>5, <1>7, <3>1, Bounds
    <3>3. prog'[j].at = prog[j].at /\ EndOf(j)' = EndOf(j) /\ j \in DOMAIN prog'
      BY <1>1, <1>2, <1>7 DEF Unmoved
    <3>4. QED
      BY <1>3, <3>2, <3>3
  <2>2. Len((Contents')[i]) = Len(Contents[i])
    <3> DEFINE n == EndOf(i) - prog[i].at
    <3>1. prog'[i].at = prog[i].at /\ EndOf(i)' = EndOf(i)
      BY <1>1, <1>7 DEF Unmoved
    <3>2. n \in Nat
      BY <1>4 DEF Layout
    <3>3. BytesOf(i) = [k \in 1 .. n |-> code.mem[Start + prog[i].at + k - 1]]
      BY DEF BytesOf
    <3>4. BytesOf(i)' = [k \in 1 .. n |-> code'.mem[Start + prog[i].at + k - 1]]
      BY <3>1 DEF BytesOf
    <3> HIDE DEF n
    <3>5. Len(BytesOf(i)) = n
      BY <3>2, <3>3, LenOf
    <3>6. Len(BytesOf(i)') = n
      <4> DEFINE s == BytesOf(i)'
      <4>1. s = [k \in 1 .. n |-> code'.mem[Start + prog[i].at + k - 1]]
        BY <3>4
      <4> HIDE DEF s
      <4>2. Len(s) = n
        BY <3>2, <4>1, LenOf
      <4>3. QED
        BY <4>2 DEF s
    <3>7. Contents[i] = BytesOf(i) /\ (Contents')[i] = BytesOf(i)'
      BY <1>1, <1>2, <1>7
    <3>8. QED
      BY <3>5, <3>6, <3>7
  <2>3. Stored!Change
    BY <1>1, <1>2, <1>7, <2>1, <2>2 DEF Stored!Change
  <2>4. QED
    BY <2>3 DEF Stored!Next
<1>8. ASSUME NEW n \in 0 .. Len(prog), Len(prog') = n, Unmoved(n), code'.mem = code.mem
      PROVE  Stored!Next
  <2>1. ASSUME NEW j \in 1 .. n
        PROVE  (Contents')[j] = Contents[j]
    <3>1. j \in DOMAIN prog /\ j \in DOMAIN prog'
      BY <1>1, <1>2, <1>8
    <3>2. prog'[j].at = prog[j].at /\ EndOf(j)' = EndOf(j)
      BY <1>8 DEF Unmoved
    <3>3. QED
      BY <1>3, <1>8, <3>1, <3>2
  <2>2. Stored!Cut
    BY <1>1, <1>2, <1>8, <2>1 DEF Stored!Cut
  <2>3. QED
    BY <2>2 DEF Stored!Next
<1>9. QED
  BY <1>6, <1>7, <1>8 DEF Effect

\* The client's block refines ByteStream: whatever it emits, replaces, binds or
\* overwrites, in any order, an instruction's bytes change only in the step that is
\* about this instruction, and their number never. Two conditions of the code: room
\* for the bytes that spill, and that what is written over another instruction has
\* none.
THEOREM InstructionsAreKeptApart ==
  ASSUME Slack >= 3, ChecksSpill
  PROVE  Spec => ImplementsBytes
<1>1. Init => Stored!Init
  <2> SUFFICES ASSUME Init PROVE Contents = <<>>
    BY DEF Stored!Init
  <2>1. prog = <<>>
    BY DEF Init
  <2>2. DOMAIN prog = {}
    BY <2>1
  <2>3. QED
    BY <2>2 DEF Contents
<1>2. IInv /\ IInv' /\ Layout /\ [Next]_vars => [Stored!Next]_Contents
  <2> SUFFICES ASSUME IInv, IInv', Layout, [Next]_vars
               PROVE  [Stored!Next]_Contents
    OBVIOUS
  <2>1. CASE Next
    <3>1. ~code.aborted /\ Effect
      BY <2>1, NextKeeps DEF Next, Keeps
    <3>2. QED
      BY <3>1, EffectOnContents
  <2>2. CASE UNCHANGED vars
    <3>1. code' = code /\ prog' = prog
      BY <2>2 DEF vars
    <3>2. \A i : EndOf(i)' = EndOf(i)
      BY <3>1 DEF EndOf
    <3>3. Contents' = Contents
      BY <3>1, <3>2 DEF Contents, BytesOf
    <3>4. QED
      BY <3>3
  <2>3. QED
    BY <2>1, <2>2
<1>3. QED
  BY <1>1, <1>2, Inductive, Contiguous, PTL DEF Spec, ImplementsBytes, Stored!Spec
====
