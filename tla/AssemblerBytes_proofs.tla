------------------------ MODULE AssemblerBytes_proofs ------------------------
(***************************************************************************)
(* The code block always holds the encoding of the calls with the operands *)
(* that they were last given, whatever the client emits, patches, rewinds  *)
(* and writes over (CallsAreEncoded).  The argument: an emitter leaves the *)
(* bytes of the encoding in a layout that it chooses (CallPuts); a         *)
(* replacement or a binding turns them into the bytes of the call with the *)
(* new operand in the same layout (PatchedRow, BoundRow); and no step      *)
(* touches any other instruction (RowKept, from the Effect of a step).     *)
(*                                                                         *)
(* Encoded alone is not inductive: a later patch works through the handles *)
(* that were returned when the instruction was written, so the invariant   *)
(* Rows also says that these name the fields of the layout that the bytes  *)
(* are in.                                                                 *)
(***************************************************************************)
EXTENDS Patching_proofs

(***************************************************************************)
(* The inductive invariant                                                 *)
(***************************************************************************)
\* The handles of call c at offset at are the fields of its instruction f in the layout,
\* and its label, if it has one, is bound to an address or to nothing.
Named(c, f, h, at, layout) ==
  /\ c.mn \notin DOMAIN Waiting /\ c.mn # "Nop"
  /\ WellFormed(c, f)
  /\ h = [k \in DOMAIN f.args |-> Fields(f, f.args[k], layout, at)]
  /\ TargetOf(c) \in Ptr \cup {None}

\* There is something in what the call returned that can be replaced.
Replaceable(h) == \E k \in DOMAIN h : DOMAIN h[k] # {}

\* The bytes of mem at offsets at to end - 1 are those of call c in the layout.
RowIn(c, h, at, end, mem, layout) ==
  /\ c.mn = "Nop" \/ Suits(layout, InstructionOf(c))
  /\ Len(CallBytes(c, layout, Start + at)) = end - at
  /\ Holds(mem, Start + at, CallBytes(c, layout, Start + at))
  /\ Replaceable(h) => Named(c, InstructionOf(c), h, at, layout)

\* So they are in one of the layouts, for the calls of the 32-bit classes.
IsRow(e, end, mem) ==
  /\ {"class", "mn", "ops"} \subseteq DOMAIN e.call
  /\ e.call.class = "X86" => \E layout \in Layouts : RowIn(e.call, e.h, e.at, end, mem, layout)

\* And so is every instruction of the program, until an assertion stops it.
Rows == ~code.aborted => \A i \in DOMAIN prog : IsRow(prog[i], EndOf(i), code.mem)

(***************************************************************************)
(* Instructions that are left alone                                        *)
(***************************************************************************)
\* The addresses of the bytes of an instruction in the block.
LEMMA Address ==
  ASSUME NEW at \in Nat, NEW k \in Nat, at + k <= BlockSize
  PROVE  /\ Plus(Start + at, k) = Start + (at + k) /\ Start + (at + k) \in Memory
         /\ Minus(Start + (at + k), Start) = at + k
BY Bounds DEF Plus, Minus, Wrap, Memory, Window

\* The bytes hold as long as none of them changes.
LEMMA HoldsStill ==
  ASSUME NEW at \in Nat, NEW bytes, Len(bytes) \in Nat, at + Len(bytes) <= BlockSize,
         NEW mem, NEW mem2, Holds(mem, Start + at, bytes),
         \A q \in Memory : Start + at <= q /\ q < Start + (at + Len(bytes)) => mem2[q] = mem[q]
  PROVE  Holds(mem2, Start + at, bytes)
<1> DEFINE n == Len(bytes)
<1> SUFFICES ASSUME NEW k \in 1 .. n, bytes[k] # Hole
             PROVE  mem2[Plus(Start + at, k - 1)] = bytes[k]
  BY DEF Holds
<1>1. mem[Plus(Start + at, k - 1)] = bytes[k]
  BY DEF Holds
<1>2. \A q \in Memory : Start + at <= q /\ q < Start + (at + n) => mem2[q] = mem[q]
  OBVIOUS
<1>3. n \in Nat /\ at + n <= BlockSize
  OBVIOUS
<1> HIDE DEF n
<1>4. k - 1 \in Nat /\ at + (k - 1) <= BlockSize /\ at + (k - 1) < at + n /\ at <= at + (k - 1)
  BY <1>3, Bounds
<1>5. Plus(Start + at, k - 1) = Start + (at + (k - 1)) /\ Start + (at + (k - 1)) \in Memory
  BY <1>4, Address
<1>6. Start + at <= Start + (at + (k - 1)) /\ Start + (at + (k - 1)) < Start + (at + n)
  BY <1>3, <1>4, Bounds
<1>7. QED
  BY <1>1, <1>2, <1>5, <1>6

\* So does an instruction.
LEMMA RowKept ==
  ASSUME NEW e, NEW end \in Nat, e.at \in Nat, e.at <= end, end <= BlockSize,
         NEW mem, NEW mem2, IsRow(e, end, mem),
         \A q \in Memory : Start + e.at <= q /\ q < Start + end => mem2[q] = mem[q]
  PROVE  IsRow(e, end, mem2)
<1> SUFFICES ASSUME e.call.class = "X86"
             PROVE  \E layout \in Layouts : RowIn(e.call, e.h, e.at, end, mem2, layout)
  BY DEF IsRow
<1>1. PICK layout \in Layouts : RowIn(e.call, e.h, e.at, end, mem, layout)
  BY DEF IsRow
<1> DEFINE bytes == CallBytes(e.call, layout, Start + e.at)
           at == e.at
<1>2. Len(bytes) = end - at /\ Holds(mem, Start + at, bytes)
  BY <1>1 DEF RowIn
<1> HIDE DEF bytes
<1>3. bytes = CallBytes(e.call, layout, Start + e.at)
  BY DEF bytes
<1>4. \A q \in Memory : Start + at <= q /\ q < Start + end => mem2[q] = mem[q]
  OBVIOUS
<1>5. at \in Nat /\ at <= end
  OBVIOUS
<1> HIDE DEF at
<1>6. at + Len(bytes) = end /\ Len(bytes) \in Nat
  BY <1>2, <1>5
<1>7. Holds(mem2, Start + at, bytes)
  BY <1>2, <1>4, <1>5, <1>6, HoldsStill
<1>8. RowIn(e.call, e.h, e.at, end, mem2, layout)
  BY <1>1, <1>3, <1>7 DEF RowIn, at
<1>9. QED
  BY <1>8

(***************************************************************************)
(* Instructions that are written                                           *)
(***************************************************************************)
\* An instruction suits the layout that it is written in.
LEMMA OwnLayout ==
  ASSUME NEW f
  PROVE  LayoutOf(f) \in Layouts /\ Suits(LayoutOf(f), f)
<1>1. LayoutOf(f) \in Layouts
  BY DEF LayoutOf, Layouts, OptimalBytes, CustomSegReg
<1>2. ASSUME f.rm.k = "mem"
      PROVE  /\ IF LayoutOf(f).seg THEN f.rm.mem.seg # None ELSE ~CustomSegReg(f.rm.mem)
             /\ DispLength(f.rm.mem, LayoutOf(f).disp) = 1 => ByteOffset(f.rm.mem)
  <2>1. LayoutOf(f).seg = CustomSegReg(f.rm.mem) /\ LayoutOf(f).disp = OptimalBytes(f.rm.mem)
    BY <1>2 DEF LayoutOf, CustomSegReg
  <2>2. CustomSegReg(f.rm.mem) => f.rm.mem.seg # None
    BY DEF CustomSegReg
  <2>3. DispLength(f.rm.mem, OptimalBytes(f.rm.mem)) = 1 => ByteOffset(f.rm.mem)
    BY DEF DispLength, OptimalBytes
  <2>4. QED
    BY <2>1, <2>2, <2>3
<1>3. QED
  BY <1>1, <1>2 DEF Suits

\* The label of a call that has just been made is bound to nothing.
LEMMA NoTarget ==
  ASSUME NEW c, IsCall86(c)
  PROVE  TargetOf(c) = None
<1>1. c.ops \in Seq(Range(c.ops)) /\ \A k \in DOMAIN c.ops : c.ops[k].k = "label" => c.ops[k].to = None
  BY DEF IsCall86, WellFormed
<1>2. c.ops # <<>> => Len(c.ops) \in DOMAIN c.ops
  BY <1>1
<1>3. QED
  BY <1>1, <1>2 DEF TargetOf

\* The calls that wait return no handles.
LEMMA NoHandlesWaiting ==
  ASSUME NEW c, c.mn \in DOMAIN Waiting, NEW f, WellFormed(c, f), NEW layout, NEW at
  PROVE  \A k \in DOMAIN f.args : DOMAIN Fields(f, f.args[k], layout, at) = {}
<1>1. c.mn \notin Handling /\ c.mn # "Bswap"
  BY DEF Handling, Waiting
<1>2. ~ReturnsHandles(c.mn, Kinds(c))
  BY <1>1, Names DEF ReturnsHandles, Handling
<1>3. \A k \in DOMAIN f.args : f.args[k] = "none"
  BY <1>2 DEF WellFormed
<1>4. Fields(f, "none", layout, at) = NoHandles
  BY HandlesOf DEF Fields
<1>5. QED
  BY <1>3, <1>4 DEF NoHandles

\* What a call puts into a block: its bytes, in the layout, and if something in it can be
\* replaced the handles name the fields.
CallPutsIn(D, b, c, w, layout) ==
  /\ c.mn = "Nop" \/ Suits(layout, InstructionOf(c))
  /\ Puts(D, b, w.b, CallBytes(c, layout, b.curr), SpillOf(c))
  /\ ~w.b.aborted /\ Replaceable(w.h) => Named(c, InstructionOf(c), w.h, GetOffset(b), layout)

\* Every call puts its bytes, in some layout, into every block with room.
LEMMA CallPuts ==
  ASSUME NEW D \in SUBSET Ptr, NEW b \in BlocksOver(D), NEW c, IsCall(c), c.class # "X64",
         GetOffset(b) + LengthOf(c) + 3 < AddrSpace
  PROVE  \E layout \in Layouts : CallPutsIn(D, b, c, EmitOf(b, c), layout)
<1> DEFINE w == EmitOf(b, c)
           f == InstructionOf(c)
           L == LayoutOf(f)
           n == InstrLength(f)
<1>0. GetOffset(b) \in Nat /\ b.curr \in Ptr /\ AddrSpace \in Nat
  BY OffsetType, BlockAssumption DEF BlocksOver, Ptr
<1>1. CASE c.mn = "Nop"
  <2> DEFINE m == c.ops[1].n
             d == [i \in 1 .. m |-> \h90]
  <2>1. m \in Nat /\ LengthOf(c) = m
    BY <1>1 DEF IsCall, Emittable, LengthOf
  <2>2. c.mn \notin DOMAIN Waiting
    BY <1>1 DEF Waiting
  <2>3. w = Nop(b, m)
    BY <1>1, <2>2 DEF EmitOf, Emit
  <2>4. w.h = <<NoHandles>> /\ w.b = PushRaw(b, d)
    BY <2>3 DEF Nop
  <2>5. \A layout : CallBytes(c, layout, b.curr) = d
    BY <1>1 DEF CallBytes
  <2>6. SpillOf(c) = 0
    BY <1>1 DEF SpillOf
  <2>7. d \in Seq(ByteValue) /\ Len(d) = m
    <3>1. d \in [1 .. m -> ByteValue]
      BY DEF ByteValue
    <3>2. QED
      BY <2>1, <3>1
  <2> HIDE DEF m, d, w
  <2>8. Puts(D, b, w.b, d, 0)
    BY <2>1, <2>4, <2>7, PushRawPuts
  <2>9. ~Replaceable(w.h)
    BY <2>4 DEF Replaceable, NoHandles
  <2>10. CallPutsIn(D, b, c, w, L)
    BY <1>1, <2>5, <2>6, <2>8, <2>9 DEF CallPutsIn
  <2>11. QED
    BY <2>10, OwnLayout DEF w
<1>2. CASE c.mn # "Nop"
  <2>1. IsCall86(c) /\ WellFormed(c, f) /\ IsInstruction(f)
    BY <1>2 DEF IsCall, IsCall86, WellFormed
  <2>2. L \in Layouts /\ Suits(L, f) /\ TargetOf(c) = None
    BY <2>1, OwnLayout, NoTarget
  <2>3. SpillOf(c) = RmSpill(f) /\ RmSpill(f) \in 0 .. 3
    BY <1>2, <2>1, LengthsType DEF SpillOf
  <2>4. n \in Nat /\ (\A p \in Int : Len(FormBytes(f, L, p, None)) = n)
    BY <2>1, LengthsType, LayoutLengths
  <2>5. CASE c.mn \notin DOMAIN Waiting
    <3>1. w = Write(b, f) /\ LengthOf(c) = n
      BY <1>2, <2>4, <2>5 DEF EmitOf, Emit, InstructionOf, LengthOf
    <3>2. CallBytes(c, L, b.curr) = FormBytes(f, L, b.curr, None)
      BY <1>2, <2>2, <2>5 DEF CallBytes
    <3> DEFINE handles == [i \in DOMAIN f.args |-> Fields(f, f.args[i], L, GetOffset(b))]
    <3> HIDE DEF f, L, n
    <3>3. /\ Puts(D, b, w.b, FormBytes(f, L, b.curr, None), RmSpill(f))
          /\ ~w.b.aborted => w.h = handles
      BY <1>0, <2>1, <2>4, <3>1, WritePuts DEF L, n
    <3> HIDE DEF w
    <3>4. ~w.b.aborted => Named(c, f, w.h, GetOffset(b), L)
      BY <1>2, <2>1, <2>2, <2>5, <3>3 DEF Named
    <3>5. CallPutsIn(D, b, c, w, L)
      BY <2>2, <2>3, <3>2, <3>3, <3>4 DEF CallPutsIn, f
    <3>6. QED
      BY <2>2, <3>5 DEF w
  <2>6. CASE c.mn \in DOMAIN Waiting
    <3> DEFINE b1 == PushByte(b, \h9B)
               p == Plus(b.curr, 1)
               d == FormBytes(f, L, p, None)
               d1 == FormBytes(f, L, b1.curr, None)
               handles == [i \in DOMAIN f.args |-> Fields(f, f.args[i], L, GetOffset(b1))]
    <3>1. w = Write(b1, f) /\ LengthOf(c) = 1 + n
      BY <1>2, <2>4, <2>6 DEF EmitOf, Emit, InstructionOf, LengthOf, WriteUnmaskExceptionPrefix
    <3>2. CallBytes(c, L, b.curr) = <<\h9B>> \o d
      BY <1>2, <2>2, <2>6 DEF CallBytes
    <3> HIDE DEF f, L, n
    <3>3. /\ \h9B \in ByteValue /\ GetOffset(b) + 1 + 3 < AddrSpace
          /\ Len(<<\h9B>>) = 1 /\ GetOffset(b) + (Len(<<\h9B>>) + n) + 3 < AddrSpace
      BY <1>0, <2>4, <3>1 DEF ByteValue
    <3>4. Puts(D, b, b1, <<\h9B>>, 0)
      BY <3>3, PushBytePuts
    <3>5. b1 \in BlocksOver(D) /\ GetOffset(b1) + n + 3 < AddrSpace
      <4> DEFINE d0 == <<\h9B>>
      <4>1. n \in Nat /\ Puts(D, b, b1, d0, 0) /\ GetOffset(b) + (Len(d0) + n) + 3 < AddrSpace
        BY <2>4, <3>3, <3>4
      <4> HIDE DEF d0, b1
      <4>2. QED
        BY <4>1, PutsRoom
    <3> HIDE DEF b1
    <3>6. /\ Puts(D, b1, w.b, d1, RmSpill(f))
          /\ ~w.b.aborted => w.h = handles
      BY <2>1, <3>1, <3>5, WritePuts DEF L, n
    <3>7. ~b1.aborted => b1.curr = p
      <4>1. Emits(D, b, b1, 1, 0)
        BY <3>3, <3>4 DEF Puts
      <4>2. ASSUME ~b1.aborted
            PROVE  b1.curr = Plus(b.curr, 1)
        <5>1. b1.start = b.start /\ GetOffset(b1) = GetOffset(b) + 1
          BY <4>1, <4>2 DEF Emits
        <5>2. GetOffset(b) + 1 < AddrSpace /\ 1 \in Nat
          BY <1>0, <3>3
        <5>3. QED
          BY <3>5, <5>1, <5>2, CursorAfter
      <4>3. QED
        BY <4>2
    <3>8. p \in Int /\ b1.curr \in Int
      BY <1>0, <3>5, PlusType DEF BlocksOver, Ptr
    <3>9. Puts(D, b1, w.b, d, RmSpill(f))
      <4>1. d \in Seq(ByteValue \cup {Hole}) /\ Len(d) = Len(d1)
        <5>1. None \in Ptr \cup {None}
          OBVIOUS
        <5> HIDE DEF p
        <5>2. QED
          BY <2>1, <2>2, <2>4, <3>8, <5>1, FormShape
      <4>2. ~b1.aborted => d = d1
        BY <3>7
      <4> HIDE DEF d, d1
      <4>3. QED
        BY <3>5, <3>6, <4>1, <4>2, PutsStopped
    <3>10. Puts(D, b, w.b, <<\h9B>> \o d, RmSpill(f))
      <4>1. Len(d) \in Nat
        BY <3>9 DEF Puts
      <4>2. 0 \in 0 .. 3 /\ 0 <= Len(d) + RmSpill(f)
        BY <2>3, <4>1
      <4> HIDE DEF d, w
      <4>3. QED
        BY <2>3, <3>4, <3>9, <4>2, PutsThen
    <3>11. ~w.b.aborted => ~Replaceable(w.h)
      <4>1. \A i \in DOMAIN f.args : DOMAIN Fields(f, f.args[i], L, GetOffset(b1)) = {}
        BY <2>1, <2>6, NoHandlesWaiting
      <4>2. QED
        BY <3>6, <4>1 DEF Replaceable
    <3> HIDE DEF w
    <3>12. CallPutsIn(D, b, c, w, L)
      BY <2>2, <2>3, <3>2, <3>10, <3>11 DEF CallPutsIn, f
    <3>13. QED
      BY <2>2, <3>12 DEF w
  <2>7. QED
    BY <2>5, <2>6
<1>3. QED
  BY <1>1, <1>2

\* What a call has just written is its encoding.
LEMMA NewRow ==
  ASSUME NEW x, IsCode(x), NEW c, IsCall(c), NEW n, n = LengthOf(c), n \in Nat,
         GetOffset(x) + n <= BlockSize, NEW w, w = EmitOf(x, c), EmitsCall(Memory, x, c, w, n),
         ~w.b.aborted, NEW at, at = GetOffset(x)
  PROVE  IsRow(Entry(at, c, w.h), at + n, w.b.mem)
<1> DEFINE e == Entry(at, c, w.h)
<1>1. e.at = at /\ e.call = c /\ e.h = w.h
  BY DEF Entry
<1> HIDE DEF e
<1>0. {"class", "mn", "ops"} \subseteq DOMAIN c
  BY DEF IsCall
<1> SUFFICES ASSUME c.class = "X86"
             PROVE  \E layout \in Layouts : RowIn(c, w.h, at, at + n, w.b.mem, layout)
  BY <1>0, <1>1 DEF IsRow, e
<1>2. /\ x \in BlocksOver(Memory) /\ x.start = Start /\ x.curr = Start + at /\ at \in Nat
      /\ Memory \in SUBSET Ptr
  <2>1. GetOffset(x) \in Nat
    BY BlocksType
  <2>2. GetOffset(x) <= BlockSize
    BY <2>1, Bounds
  <2>3. QED
    BY <2>1, <2>2, CursorAt, MemoryType DEF IsCode
<1>3. PICK layout \in Layouts : CallPutsIn(Memory, x, c, w, layout)
  <2>1. at + n + 3 < AddrSpace
    BY <1>2, Bounds
  <2>2. QED
    BY <1>2, <2>1, CallPuts
<1> DEFINE bytes == CallBytes(c, layout, Start + at)
<1>4. /\ c.mn = "Nop" \/ Suits(layout, InstructionOf(c))
      /\ Puts(Memory, x, w.b, bytes, SpillOf(c))
      /\ Replaceable(w.h) => Named(c, InstructionOf(c), w.h, at, layout)
  BY <1>2, <1>3 DEF CallPutsIn
<1> HIDE DEF bytes
<1>5. Len(bytes) = n
  <2>1. Emits(Memory, x, w.b, n, SpillOf(c)) /\ Emits(Memory, x, w.b, Len(bytes), SpillOf(c))
        /\ Len(bytes) \in Nat
    BY <1>4 DEF EmitsCall, Puts
  <2>2. GetOffset(w.b) = at + n /\ GetOffset(w.b) = at + Len(bytes)
    BY <2>1 DEF Emits
  <2>3. QED
    BY <1>2, <2>1, <2>2
<1>6. Holds(w.b.mem, Start + at, bytes)
  <2> SUFFICES ASSUME NEW k \in 1 .. Len(bytes), bytes[k] # Hole
               PROVE  w.b.mem[Plus(Start + at, k - 1)] = bytes[k]
    BY DEF Holds
  <2>1. k - 1 \in Nat /\ at + (k - 1) <= BlockSize
    BY <1>2, <1>5, Bounds
  <2> DEFINE q == Start + (at + (k - 1))
  <2>2. Plus(Start + at, k - 1) = q /\ q \in Memory /\ Minus(q, x.start) = at + (k - 1)
    BY <1>2, <2>1, Address
  <2> HIDE DEF q
  <2>3. ~w.b.measure
    BY <1>4 DEF Puts, Emits, IsCode
  <2>4. w.b.mem[q] = bytes[k]
    BY <1>4, <2>2, <2>3 DEF Puts, Leaves
  <2>5. QED
    BY <2>2, <2>4
<1>7. Len(bytes) = (at + n) - at
  BY <1>2, <1>5
<1>8. RowIn(c, w.h, at, at + n, w.b.mem, layout)
  BY <1>4, <1>6, <1>7 DEF RowIn, bytes
<1>9. QED
  BY <1>8

(***************************************************************************)
(* The program after a step                                                *)
(***************************************************************************)
\* An instruction is added behind the others.
LEMMA EndsAppended ==
  ASSUME prog \in Seq(Range(prog)), NEW e, prog' = Append(prog, e), e.at = GetOffset(code)
  PROVE  /\ Len(prog) \in Nat /\ DOMAIN prog = 1 .. Len(prog) /\ DOMAIN prog' = 1 .. Len(prog) + 1
         /\ \A j \in DOMAIN prog : prog'[j] = prog[j] /\ EndOf(j)' = EndOf(j)
         /\ \A n : n = Len(prog) + 1 => prog'[n] = e /\ EndOf(n)' = GetOffset(code')
<1>1. /\ Len(prog) \in Nat /\ DOMAIN prog = 1 .. Len(prog)
      /\ Len(prog') = Len(prog) + 1 /\ DOMAIN prog' = 1 .. Len(prog) + 1
      /\ \A i \in 1 .. Len(prog) : prog'[i] = prog[i]
      /\ prog'[Len(prog) + 1] = e
  BY AppendToSeq
<1>2. ASSUME NEW j \in DOMAIN prog
      PROVE  EndOf(j)' = EndOf(j)
  <2>1. j # Len(prog') /\ EndOf(j)' = prog'[j + 1].at
    <3>1. j # Len(prog')
      BY <1>1
    <3>2. QED
      BY <3>1 DEF EndOf
  <2>2. CASE j = Len(prog)
    BY <1>1, <2>1, <2>2 DEF EndOf
  <2>3. CASE j # Len(prog)
    <3>1. j + 1 \in 1 .. Len(prog)
      BY <1>1, <2>3
    <3>2. QED
      BY <1>1, <2>1, <2>3, <3>1 DEF EndOf
  <2>4. QED
    BY <2>2, <2>3
<1>3. \A n : n = Len(prog) + 1 => EndOf(n)' = GetOffset(code')
  BY <1>1 DEF EndOf
<1>4. QED
  BY <1>1, <1>2, <1>3

\* An instruction is replaced where it is.
LEMMA EndsExcept ==
  ASSUME prog \in Seq(Range(prog)), NEW i \in DOMAIN prog, NEW e, prog' = [prog EXCEPT ![i] = e],
         e.at = prog[i].at, GetOffset(code') = GetOffset(code)
  PROVE  /\ DOMAIN prog' = DOMAIN prog /\ prog'[i] = e
         /\ \A j \in DOMAIN prog : EndOf(j)' = EndOf(j) /\ (j # i => prog'[j] = prog[j])
<1>1. /\ Len(prog') = Len(prog) /\ DOMAIN prog' = DOMAIN prog
      /\ \A j \in DOMAIN prog : prog'[j] = IF j = i THEN e ELSE prog[j]
      /\ DOMAIN prog = 1 .. Len(prog) /\ Len(prog) \in Nat
  BY ExceptInSeq
<1>2. \A j \in DOMAIN prog : prog'[j].at = prog[j].at
  BY <1>1
<1>3. ASSUME NEW j \in DOMAIN prog
      PROVE  EndOf(j)' = EndOf(j)
  <2>1. CASE j = Len(prog)
    BY <1>1, <2>1 DEF EndOf
  <2>2. CASE j # Len(prog)
    <3>1. j + 1 \in DOMAIN prog
      BY <1>1, <2>2
    <3>2. EndOf(j)' = prog'[j + 1].at /\ EndOf(j) = prog[j + 1].at
      BY <1>1, <2>2 DEF EndOf
    <3>3. QED
      BY <1>2, <3>1, <3>2
  <2>3. QED
    BY <2>1, <2>2
<1>4. QED
  BY <1>1, <1>3

\* The instructions are where nothing of a step reaches the others.
LEMMA Places ==
  ASSUME IInv, Layout, ~code.aborted
  PROVE  /\ \A j \in DOMAIN prog : /\ prog[j].at \in Nat /\ EndOf(j) \in Nat
                                   /\ prog[j].at <= EndOf(j) /\ EndOf(j) <= BlockSize
                                   /\ EndOf(j) <= GetOffset(code)
         /\ \A i, j \in DOMAIN prog : i # j => EndOf(i) <= prog[j].at \/ EndOf(j) <= prog[i].at
<1>1. \A j \in DOMAIN prog : /\ prog[j].at \in Nat /\ EndOf(j) \in Nat
                             /\ prog[j].at <= EndOf(j) /\ EndOf(j) <= BlockSize
  BY EndInside, AtLeastThree, Bounds DEF IInv, Entries, EntryType, Layout
<1>2. /\ \A i, j \in DOMAIN prog : i < j => EndOf(i) <= prog[j].at
      /\ \A i \in DOMAIN prog : EndOf(i) <= GetOffset(code)
  BY Ordered
<1>3. DOMAIN prog \subseteq Int
  <2>1. prog \in Seq(Range(prog))
    BY DEF IInv, Entries
  <2>2. QED
    BY <2>1
<1>4. \A i, j \in DOMAIN prog : i # j => i < j \/ j < i
  BY <1>3
<1>5. QED
  BY <1>1, <1>2, <1>4

\* A step that is about the instruction i keeps the others.
LEMMA RowsAround ==
  ASSUME IInv, Layout, ~code.aborted, Rows, NEW i \in DOMAIN prog,
         DOMAIN prog' = DOMAIN prog,
         \A j \in DOMAIN prog : EndOf(j)' = EndOf(j) /\ (j # i => prog'[j] = prog[j]),
         \A q \in Memory : code'.mem[q] # code.mem[q] =>
           Start + prog[i].at <= q /\ q < Start + EndOf(i),
         IsRow(prog'[i], EndOf(i), code'.mem)
  PROVE  Rows'
<1> SUFFICES ASSUME NEW j \in DOMAIN prog, j # i
             PROVE  IsRow(prog[j], EndOf(j), code'.mem)
  BY DEF Rows
<1>1. IsRow(prog[j], EndOf(j), code.mem)
  BY DEF Rows
<1>2. /\ prog[j].at \in Nat /\ EndOf(j) \in Nat /\ prog[j].at <= EndOf(j) /\ EndOf(j) <= BlockSize
      /\ prog[i].at \in Nat /\ EndOf(i) \in Nat
      /\ EndOf(i) <= prog[j].at \/ EndOf(j) <= prog[i].at
  BY Places
<1>3. \A q \in Memory : Start + prog[j].at <= q /\ q < Start + EndOf(j) => code'.mem[q] = code.mem[q]
  BY <1>2, MemoryType, Bounds
<1> DEFINE e == prog[j]
           end == EndOf(j)
<1>4. /\ IsRow(e, end, code.mem) /\ e.at \in Nat /\ end \in Nat /\ e.at <= end /\ end <= BlockSize
      /\ \A q \in Memory : Start + e.at <= q /\ q < Start + end => code'.mem[q] = code.mem[q]
  BY <1>1, <1>2, <1>3
<1> HIDE DEF e, end
<1>5. IsRow(e, end, code'.mem)
  BY <1>4, RowKept
<1>6. QED
  BY <1>5 DEF e, end

\* A step that adds an instruction behind all others keeps them.
LEMMA RowsBefore ==
  ASSUME IInv, Layout, ~code.aborted, Rows, NEW n, n = Len(prog) + 1, DOMAIN prog' = 1 .. n,
         \A j \in DOMAIN prog : EndOf(j)' = EndOf(j) /\ prog'[j] = prog[j],
         \A q \in Memory : code'.mem[q] # code.mem[q] => Start + GetOffset(code) <= q,
         IsRow(prog'[n], EndOf(n)', code'.mem)
  PROVE  Rows'
<1>1. ASSUME NEW j \in DOMAIN prog
      PROVE  IsRow(prog[j], EndOf(j), code'.mem)
  <2>1. IsRow(prog[j], EndOf(j), code.mem)
    BY DEF Rows
  <2>2. /\ prog[j].at \in Nat /\ EndOf(j) \in Nat /\ prog[j].at <= EndOf(j) /\ EndOf(j) <= BlockSize
        /\ EndOf(j) <= GetOffset(code) /\ GetOffset(code) \in Nat
    BY Places, BlocksType DEF IInv, InPlace
  <2>3. \A q \in Memory : Start + prog[j].at <= q /\ q < Start + EndOf(j) => code'.mem[q] = code.mem[q]
    BY <2>2, MemoryType, Bounds
  <2> DEFINE e == prog[j]
             end == EndOf(j)
  <2>4. /\ IsRow(e, end, code.mem) /\ e.at \in Nat /\ end \in Nat /\ e.at <= end /\ end <= BlockSize
        /\ \A q \in Memory : Start + e.at <= q /\ q < Start + end => code'.mem[q] = code.mem[q]
    BY <2>1, <2>2, <2>3
  <2> HIDE DEF e, end
  <2>5. IsRow(e, end, code'.mem)
    BY <2>4, RowKept
  <2>6. QED
    BY <2>5 DEF e, end
<1>2. DOMAIN prog = 1 .. Len(prog) /\ Len(prog) \in Nat
  <2>1. prog \in Seq(Range(prog))
    BY DEF IInv, Entries
  <2>2. QED
    BY <2>1
<1>3. \A j \in DOMAIN prog' : j \in DOMAIN prog \/ j = n
  BY <1>2
<1>4. QED
  BY <1>1, <1>3 DEF Rows

(***************************************************************************)
(* One lemma for each action                                               *)
(***************************************************************************)
\* Emitting a call.
LEMMA TwoPassesRows ==
  ASSUME IInv, Layout, Rows, ~code.aborted, Slack >= 3, NEW c, IsCall(c),
         TwoPasses(c, EmitOf(meas, c), EmitOf(code, c))
  PROVE  Rows'
<1> DEFINE w == EmitOf(code, c)
           m == EmitOf(meas, c)
           n == LengthOf(c)
           at == GetOffset(code)
           e == Entry(at, c, w.h)
<1>1. /\ GetOffset(m.b) + Slack <= BlockSize
      /\ code' = w.b /\ prog' = Append(prog, e)
  BY DEF TwoPasses, GetSize, GetOffset
<1>2. /\ IsCode(code) /\ IsMeas(meas) /\ GetOffset(code) = GetOffset(meas)
      /\ GetOffset(code) \in Nat /\ GetOffset(meas) <= BlockSize /\ prog \in Seq(Range(prog))
  BY BlocksType DEF IInv, InPlace, Together, Entries
<1>3. /\ n \in Nat /\ GetOffset(m.b) = GetOffset(meas) + n
      /\ EmitsCall(Memory, code, c, w, n) /\ ~w.b.aborted
      /\ GetOffset(w.b) = GetOffset(m.b)
      /\ Writes(code, w.b, SpillOf(c))
  BY <1>1, <1>2, Pass
<1> HIDE DEF w, m, n
<1>4. /\ GetOffset(code) + n <= BlockSize /\ GetOffset(code') = GetOffset(code) + n
  BY <1>1, <1>2, <1>3, AtLeastThree, Bounds
<1>5. IsRow(e, at + n, w.b.mem)
  BY <1>2, <1>3, <1>4, NewRow DEF w, n
<1>6. e.at = GetOffset(code)
  BY DEF Entry
<1> HIDE DEF e
<1>7. /\ DOMAIN prog' = 1 .. Len(prog) + 1
      /\ \A j \in DOMAIN prog : prog'[j] = prog[j] /\ EndOf(j)' = EndOf(j)
      /\ \A k : k = Len(prog) + 1 => prog'[k] = e /\ EndOf(k)' = GetOffset(code')
  BY <1>1, <1>2, <1>6, EndsAppended
<1>8. \A q \in Memory : code'.mem[q] # code.mem[q] => Start + GetOffset(code) <= q
  BY <1>1, <1>3 DEF Writes
<1>9. ASSUME NEW k, k = Len(prog) + 1
      PROVE  IsRow(prog'[k], EndOf(k)', code'.mem)
  BY <1>1, <1>4, <1>5, <1>7, <1>9 DEF at
<1>10. QED
  BY <1>7, <1>8, <1>9, RowsBefore

\* Padding.
LEMMA PadRows ==
  ASSUME IInv, Layout, Rows, ~code.aborted, Slack >= 3, NEW align \in Aligns, Pad(align)
  PROVE  Rows'
<1> DEFINE c == Padding(code, align)
<1>1. IsCall(c) /\ TwoPasses(c, EmitOf(meas, c), EmitOf(code, c))
  BY PadsAlike
<1> HIDE DEF c
<1>2. QED
  BY <1>1, TwoPassesRows

\* Going back.
LEMMA RewindRows ==
  ASSUME IInv, Rows, ~code.aborted, Slack >= 3, NEW i \in DOMAIN prog, RewindTo(i)
  PROVE  Rows'
<1> DEFINE at == prog[i].at
<1>1. /\ IsCode(code) /\ prog \in Seq(Range(prog))
      /\ at \in Nat /\ at + Slack <= BlockSize /\ Slack \in Nat
  BY AtLeastThree DEF IInv, InPlace, Entries, EntryType
<1> HIDE DEF at
<1>2. at < BlockSize /\ at <= BlockSize
  BY <1>1, Bounds
<1>3. code'.mem = code.mem /\ GetOffset(code') = at
  BY <1>1, <1>2, Rewinds DEF RewindTo, at
<1>4. ResetAccepts(code, Start + at)
  <2>1. code.start = Start /\ code.size = BlockSize
    BY <1>1 DEF IsCode
  <2>2. End(code) = Start + BlockSize
    BY <2>1, Bounds DEF End, Plus, Wrap
  <2>3. QED
    BY <1>1, <1>2, <2>1, <2>2, Bounds DEF ResetAccepts
<1>5. prog' = SubSeq(prog, 1, i - 1)
  BY <1>4 DEF RewindTo, at
<1>6. /\ Len(prog') = i - 1 /\ DOMAIN prog' = 1 .. i - 1
      /\ \A j \in 1 .. i - 1 : prog'[j] = prog[j] /\ j \in DOMAIN prog
      /\ Len(prog) \in Nat /\ DOMAIN prog = 1 .. Len(prog)
  BY <1>1, <1>5, PrefixOfSeq
<1>7. ASSUME NEW j \in 1 .. i - 1
      PROVE  EndOf(j)' = EndOf(j)
  <2>1. EndOf(j) = prog[j + 1].at
    <3>1. j # Len(prog)
      <4>1. i \in 1 .. Len(prog) /\ Len(prog) \in Nat
        BY <1>6
      <4>2. QED
        BY <4>1
    <3>2. QED
      BY <3>1 DEF EndOf
  <2>2. CASE j = i - 1
    <3>1. EndOf(j)' = GetOffset(code') /\ j + 1 = i
      BY <1>6, <2>2 DEF EndOf
    <3>2. QED
      BY <1>3, <2>1, <3>1 DEF at
  <2>3. CASE j # i - 1
    <3>1. j + 1 \in 1 .. i - 1 /\ EndOf(j)' = prog'[j + 1].at
      BY <1>6, <2>3 DEF EndOf
    <3>2. QED
      BY <1>6, <2>1, <3>1
  <2>4. QED
    BY <2>2, <2>3
<1>8. QED
  BY <1>3, <1>6, <1>7 DEF Rows

\* Writing over an instruction.
LEMMA OverwriteRows ==
  ASSUME IInv, Layout, Rows, ~code.aborted, Slack >= 3, ChecksSpill, NEW i \in DOMAIN prog,
         NEW c, IsCall(c), Overwrite(i, c)
  PROVE  Rows'
<1> DEFINE at == prog[i].at
           end == EndOf(i)
           offset == GetOffset(code)
           x == ResetTo(code, Start + at)
           y == ResetTo(meas, MeasureStart + at)
           w == EmitOf(x, c)
           m == EmitOf(y, c)
           n == LengthOf(c)
           e == Entry(at, c, w.h)
<1>1. /\ IsCode(code) /\ IsMeas(meas) /\ prog \in Seq(Range(prog))
      /\ at \in Nat /\ at + Slack <= BlockSize /\ offset \in Nat
      /\ end \in Nat /\ end + Slack <= BlockSize /\ offset + Slack <= BlockSize
  <2>1. GetOffset(code) = GetOffset(meas) /\ prog # <<>>
    BY DEF IInv, Together, Entries
  <2>2. QED
    BY <2>1, EndInside, BlocksType DEF IInv, InPlace, Together, Entries, EntryType
<1>2. /\ GetOffset(m.b) = end
      /\ code' = ResetTo(w.b, code.curr)
      /\ prog' = [prog EXCEPT ![i] = e]
      /\ ChecksSpill => SpillFree(c)
  BY DEF Overwrite
<1>3. at < BlockSize /\ offset < BlockSize /\ end <= BlockSize /\ BlockSize \in Nat
  BY <1>1, AtLeastThree, Bounds
<1>4. code.curr = Start + offset
  BY <1>1, <1>3, CursorAt DEF IsCode
<1>5. at <= BlockSize /\ offset <= BlockSize /\ at \in Nat /\ offset \in Nat
  BY <1>1, <1>3
<1> HIDE DEF at, end, offset
<1>6. /\ IsCode(x) /\ x.mem = code.mem /\ ~x.aborted /\ IsMeas(y)
      /\ GetOffset(x) = at /\ GetOffset(y) = at
  BY <1>1, <1>3, <1>5, Rewinds
<1> HIDE DEF x, y
<1>7. /\ n \in Nat /\ GetOffset(m.b) = GetOffset(y) + n
      /\ IsCode(w.b) /\ EmitsCall(Memory, x, c, w, n) /\ ~w.b.aborted
      /\ GetOffset(w.b) = GetOffset(m.b) /\ Writes(x, w.b, SpillOf(c))
  <2>1. GetOffset(x) = GetOffset(y) /\ GetOffset(y) <= BlockSize
        /\ GetOffset(m.b) + Slack <= BlockSize
    BY <1>1, <1>2, <1>5, <1>6
  <2>2. QED
    BY <1>6, <2>1, Pass
<1> HIDE DEF w, m, n
<1>8. at + n = end /\ GetOffset(x) + n <= BlockSize
  BY <1>2, <1>3, <1>6, <1>7
<1>9. IsRow(e, at + n, w.b.mem)
  BY <1>6, <1>7, <1>8, NewRow DEF w, n
<1>10. e.at = prog[i].at
  BY DEF Entry, at
<1> HIDE DEF e
<1>11. code'.mem = w.b.mem /\ GetOffset(code') = offset
  BY <1>2, <1>3, <1>4, <1>5, <1>7, Rewinds
<1>12. /\ DOMAIN prog' = DOMAIN prog /\ prog'[i] = e
       /\ \A j \in DOMAIN prog : EndOf(j)' = EndOf(j) /\ (j # i => prog'[j] = prog[j])
  BY <1>1, <1>2, <1>10, <1>11, EndsExcept DEF offset
<1>13. ASSUME NEW q \in Memory, code'.mem[q] # code.mem[q]
       PROVE  Start + prog[i].at <= q /\ q < Start + EndOf(i)
  <2>1. SpillOf(c) = 0
    BY <1>2, NoSpill
  <2>2. Start + GetOffset(x) <= q /\ q < Start + GetOffset(w.b) + 0
    BY <1>6, <1>7, <1>11, <1>13, <2>1 DEF Writes
  <2>3. QED
    BY <1>1, <1>2, <1>6, <1>7, <2>2, Bounds DEF at, end
<1>14. IsRow(prog'[i], EndOf(i), code'.mem)
  BY <1>8, <1>9, <1>11, <1>12 DEF end
<1>15. QED
  BY <1>12, <1>13, <1>14, RowsAround

(***************************************************************************)
(* What is stored through a handle                                         *)
(***************************************************************************)
\* The bytes of an instruction after a part of them was stored.
LEMMA HoldsStored ==
  ASSUME NEW at \in Nat, NEW s, NEW t, NEW o, NEW data, Sets(s, t, o, data),
         Len(s) \in Nat, Len(data) \in Nat, at + Len(s) <= BlockSize,
         NEW mem \in [Memory -> ByteValue], Holds(mem, Start + at, s),
         NEW p, p = Start + (at + o)
  PROVE  Holds(Store(mem, p, data), Start + at, t)
<1> DEFINE n == Len(s)
           m == Len(data)
<1>1. /\ Len(t) = n /\ o \in Nat /\ o + m <= n
      /\ \A j \in 1 .. n : t[j] = IF o < j /\ j <= o + m THEN data[j - o] ELSE s[j]
  BY DEF Sets
<1>2. n \in Nat /\ m \in Nat /\ at + n <= BlockSize
  OBVIOUS
<1>a. \A k \in 1 .. n : s[k] # Hole => mem[Plus(Start + at, k - 1)] = s[k]
  BY DEF Holds
<1>3. SUFFICES ASSUME NEW j \in 1 .. n, t[j] # Hole
               PROVE  Store(mem, p, data)[Plus(Start + at, j - 1)] = t[j]
  BY <1>1 DEF Holds
<1>b. \A q \in Memory : Store(mem, p, data)[q] = IF Minus(q, p) < m THEN data[Minus(q, p) + 1] ELSE mem[q]
  BY DEF Store
<1> HIDE DEF n, m
<1> DEFINE q == Start + (at + (j - 1))
<1>4. Plus(Start + at, j - 1) = q /\ q \in Memory
  <2>1. j - 1 \in Nat /\ at + (j - 1) <= BlockSize
    BY <1>2, Bounds
  <2>2. QED
    BY <2>1, Address
<1>5. Minus(q, p) = IF j - 1 >= o THEN (j - 1) - o ELSE (j - 1) - o + AddrSpace
  <2> DEFINE d == (j - 1) - o
  <2>1. q - p = d /\ d \in Int /\ d < AddrSpace /\ d > -AddrSpace
    BY <1>1, <1>2, Bounds
  <2> HIDE DEF d, q
  <2>2. Minus(q, p) = IF d >= 0 THEN d ELSE d + AddrSpace
    BY <2>1, Bounds DEF Minus, Wrap
  <2>3. d >= 0 <=> j - 1 >= o
    BY <1>1 DEF d
  <2>4. QED
    BY <2>2, <2>3 DEF d
<1>6. Minus(q, p) < m <=> o < j /\ j <= o + m
  BY <1>1, <1>2, <1>5, Bounds
<1>7. CASE o < j /\ j <= o + m
  <2>1. Minus(q, p) + 1 = j - o
    BY <1>1, <1>2, <1>5, <1>7
  <2> HIDE DEF q
  <2>2. QED
    BY <1>1, <1>4, <1>6, <1>7, <1>b, <2>1
<1>8. CASE ~(o < j /\ j <= o + m)
  <2> HIDE DEF q
  <2>1. Store(mem, p, data)[q] = mem[q]
    BY <1>4, <1>6, <1>8, <1>b
  <2>2. t[j] = s[j]
    BY <1>1, <1>8
  <2>3. mem[q] = s[j]
    BY <1>3, <1>4, <1>a, <2>2
  <2>4. QED
    BY <1>4, <2>1, <2>2, <2>3
<1>9. QED
  BY <1>7, <1>8

\* What WriteRawAt does when no assertion stops it.
LEMMA WriteAtStores ==
  ASSUME NEW b, IsCode(b), NEW at \in Nat, at <= BlockSize, NEW data,
         NEW a, a = WriteRawAt(b, at, data), ~a.aborted
  PROVE  ~b.aborted /\ a.mem = Store(b.mem, Start + at, data)
<1>1. ~b.measure /\ b.start = Start
  BY DEF IsCode
<1>2. Plus(b.start, at) = Start + at
  BY <1>1, MemoryType
<1>3. ~b.aborted
  BY DEF WriteRawAt
<1>4. /\ b = [mem |-> b.mem, curr |-> b.curr, start |-> b.start, size |-> b.size,
              measure |-> b.measure, aborted |-> b.aborted]
  BY DEF IsCode, BlocksOver
<1>5. CASE NDEBUG \/ VerifyOffset(b, at, Len(data))
  <2>1. a = [b EXCEPT !.mem = Store(@, Start + at, data)]
    BY <1>1, <1>2, <1>3, <1>5 DEF WriteRawAt, StoreUnlessAborted, Asserting
  <2>2. QED
    BY <1>3, <1>4, <2>1
<1>6. CASE ~(NDEBUG \/ VerifyOffset(b, at, Len(data)))
  <2>1. a = [b EXCEPT !.aborted = TRUE]
    BY <1>1, <1>3, <1>6 DEF WriteRawAt, StoreUnlessAborted, Asserting
  <2>2. QED
    BY <1>4, <2>1
<1>7. QED
  BY <1>5, <1>6

\* And what Replace does.
LEMMA ReplaceStores ==
  ASSUME NEW b, IsCode(b), NEW h, h.at \in Nat, h.at <= BlockSize, h.kind \in {"bits", "bytes"},
         NEW v, NEW a, a = Replace(b, h, v), ~a.aborted,
         NEW byte, byte = b.mem[Start + h.at]
  PROVE  ~b.aborted /\ a.mem = Store(b.mem, Start + h.at, StoredBytes(h, v, byte))
<1> DEFINE at == h.at
<1>0. at \in Nat /\ at <= BlockSize /\ byte = b.mem[Start + at]
  OBVIOUS
<1>1. CASE h.kind = "bytes"
  <2>1. a = WriteRawAt(b, at, LittleEndian(v, h.size)) /\ StoredBytes(h, v, byte) = LittleEndian(v, h.size)
    BY <1>1 DEF Replace, ReplaceBytes, StoredBytes
  <2> HIDE DEF at
  <2>2. QED
    BY <1>0, <2>1, WriteAtStores DEF at
<1>2. CASE h.kind = "bits"
  <2> DEFINE read == ReadRawAt(b, at, 1)
  <2>1. BytesAt(b, at, 1)[1] = byte
    <3>1. BytesAt(b, at, 1)[1] = b.mem[Plus(Plus(b.start, at), 0)]
      BY DEF BytesAt, Fetch
    <3>2. Plus(b.start, at) = Start + at /\ Plus(Start + at, 0) = Start + (at + 0) /\ at + 0 = at
      BY <1>0, MemoryType, Address DEF IsCode
    <3>3. QED
      BY <1>0, <3>1, <3>2
  <2>2. a = WriteRawAt(read, at, <<Refilled(h, v, byte)>>)
    BY <1>2, <2>1 DEF Replace, ReplaceBits, Refilled
  <2>3. StoredBytes(h, v, byte) = <<Refilled(h, v, byte)>>
    BY <1>2 DEF StoredBytes
  <2> HIDE DEF at
  <2>4. read = b
    <3>1. /\ b = [mem |-> b.mem, curr |-> b.curr, start |-> b.start, size |-> b.size,
                  measure |-> b.measure, aborted |-> b.aborted]
          /\ ~b.measure
      BY DEF IsCode, BlocksOver
    <3>2. ~read.aborted
      <4>1. read.aborted => a = read
        BY <2>2 DEF WriteRawAt
      <4> HIDE DEF read
      <4>2. QED
        BY <4>1
    <3>3. read = b \/ read = [b EXCEPT !.aborted = TRUE]
      BY DEF ReadRawAt, Asserting
    <3> HIDE DEF read
    <3>4. QED
      BY <3>1, <3>2, <3>3
  <2> HIDE DEF read
  <2>5. QED
    BY <1>0, <2>2, <2>3, <2>4, WriteAtStores DEF at
<1>3. QED
  BY <1>1, <1>2

(***************************************************************************)
(* Calls with another operand                                              *)
(***************************************************************************)
\* Operand op can take the place of x.
SameKind(x, op) ==
  /\ op.k = x.k
  /\ x.k = "reg" => op.size = x.size
  /\ x.k = "imm" => op.type = x.type
  /\ x.k = "label" => op.jump = x.jump

\* A call with another operand is its twin.
LEMMA ReplacedTwin ==
  ASSUME NEW c, NEW f, WellFormed(c, f), {"class", "mn", "ops"} \subseteq DOMAIN c,
         NEW k \in DOMAIN c.ops, NEW op, SameKind(c.ops[k], op),
         NEW d, d = [c EXCEPT !.ops = [c.ops EXCEPT ![k] = op]]
  PROVE  /\ Twins(c, d, k) /\ d.ops[k] = op
         /\ DOMAIN d = DOMAIN c /\ d.class = c.class /\ d.mn = c.mn
<1> DEFINE s == c.ops
           t == [s EXCEPT ![k] = op]
<1>1. {"size", "lock"} \subseteq DOMAIN c /\ s \in Seq(Range(s)) /\ k \in DOMAIN s
  BY DEF WellFormed
<1>2. d = [c EXCEPT !.ops = t]
  OBVIOUS
<1>3. SameKind(s[k], op)
  OBVIOUS
<1> HIDE DEF s
<1>4. /\ t \in Seq(Range(t)) /\ Len(t) = Len(s) /\ DOMAIN t = DOMAIN s
      /\ \A j \in DOMAIN s : t[j] = IF j = k THEN op ELSE s[j]
  BY <1>1, ExceptInSeq
<1> HIDE DEF t
<1>5. DOMAIN d = DOMAIN c /\ d.class = c.class /\ d.mn = c.mn /\ d.size = c.size /\ d.lock = c.lock
      /\ d.ops = t
  BY <1>1, <1>2
<1>6. \A j \in DOMAIN s : t[j].k = s[j].k /\ (j # k => t[j] = s[j])
  BY <1>3, <1>4 DEF SameKind
<1>7. Kinds(d) = Kinds(c)
  BY <1>4, <1>5, <1>6 DEF Kinds, s
<1>8. t[k] = op
  BY <1>1, <1>4
<1>9. Alike(c, d, k)
  BY <1>1, <1>3, <1>4, <1>5, <1>6, <1>7, <1>8 DEF Alike, SameKind, s
<1>10. QED
  BY <1>1, <1>4, <1>5, <1>8, <1>9 DEF Twins, s

\* The operand in r/m is the one that the call has there.
LEMMA OwnOperand ==
  ASSUME NEW c, WellFormed(c, InstructionOf(c)), {"class", "mn", "ops"} \subseteq DOMAIN c,
         NEW k \in DOMAIN c.ops, NEW f, f = InstructionOf(c), f.args[k] = "rm"
  PROVE  f.rm = c.ops[k] \/ f.rm = NoSegment(c.ops[k])
<1>1. Twins(c, c, k)
  BY DEF Twins, Alike, WellFormed
<1>2. DOMAIN f.args = DOMAIN c.ops /\ ReturnsHandles(c.mn, Kinds(c))
  BY DEF WellFormed
<1>3. Swapped(f, f, "rm", c.ops[k], c.ops[k])
  BY <1>1, <1>2, SwapOperand DEF SwappedCalls, SwappedAt
<1>4. QED
  BY <1>3 DEF Swapped

\* What can be replaced in an operand is of its kind.
LEMMA FieldOfOperand ==
  ASSUME NEW f, IsInstruction(f), NEW L, NEW part, HasPart(f, part),
         NEW x, IsOperand(x), Replaces(x, part, f),
         part = "rm" => f.rm = x \/ f.rm = NoSegment(x),
         NEW at, NEW field, field \in DOMAIN Fields(f, part, L, at), field # "label"
  PROVE  \/ x.k = "reg" /\ field = "reg"
         \/ x.k = "imm" /\ field = "imm"
         \/ x.k = "mem" /\ field \in {"base", "index", "scale", "offset"}
<1>1. CASE part = "rm" /\ f.rm.k = "mem"
  <2>1. x.k = "mem"
    BY <1>1, NoSegmentOf
  <2>2. DOMAIN Fields(f, part, L, at) = ReplaceableParts(f.rm.mem)
    BY <1>1 DEF Fields, MemFields
  <2>3. IsMem(f.rm.mem, Reg)
    BY <1>1 DEF IsInstruction
  <2> DEFINE m == f.rm.mem
  <2>a. m.mode \in {"OFFSET", "BASE", "BASE_OFFSET", "INDEX_OFFSET", "BASE_INDEX",
                    "BASE_INDEX_OFFSET"}
    BY <2>3 DEF IsMem, WithIndexReg, WithBase
  <2>b. field \in ReplaceableParts(m)
    BY <2>2
  <2> HIDE DEF m
  <2>4. field \in {"base", "index", "scale", "offset"}
    BY <2>a, <2>b DEF ReplaceableParts
  <2>5. QED
    BY <2>1, <2>4
<1>2. CASE part = "rm" /\ f.rm.k = "reg"
  <2>1. x.k = "reg"
    BY <1>2, NoSegmentOf DEF Replaces
  <2>2. Fields(f, part, L, at) = [reg |-> RegBits(at + Len(HeadBytes(f, L)), 0)]
    BY <1>2, HandlesOf DEF Fields
  <2>3. QED
    BY <2>1, <2>2
<1>3. CASE part = "reg"
  <2>1. Fields(f, part, L, at) = [reg |-> RegBits(at + Len(HeadBytes(f, L)), 3)]
    BY <1>3, HandlesOf DEF Fields
  <2>2. QED
    BY <1>3, <2>1 DEF Replaces
<1>4. CASE part = "opcode"
  <2>1. Fields(f, part, L, at) = [reg |-> RegBits(Minus(at + Len(FrontBytes(f, L)), 1), 0)]
    BY <1>4, HandlesOf DEF Fields
  <2>2. QED
    BY <1>4, <2>1 DEF Replaces
<1>5. CASE part \in {"imm", "imm2"}
  <2>1. x.k = "imm"
    BY <1>5 DEF Replaces
  <2> DEFINE tail == at + Len(FrontBytes(f, L))
             e1 == Bytes(tail, f.tail[1].size)
             e2 == Bytes(tail + f.tail[1].size, f.tail[2].size)
  <2>2. /\ part = "imm" => Fields(f, part, L, at) = [imm |-> e1]
        /\ part = "imm2" => Fields(f, part, L, at) = [imm |-> e2]
    BY HandlesOf DEF Fields
  <2> HIDE DEF tail, e1, e2
  <2>3. field = "imm"
    BY <1>5, <2>2
  <2>4. QED
    BY <2>1, <2>3
<1>6. CASE part = "label"
  <2>1. Fields(f, part, L, at) = [label |-> at + Len(FrontBytes(f, L))]
    BY <1>6, HandlesOf DEF Fields
  <2>2. QED
    BY <2>1
<1>7. CASE part = "none"
  <2>1. Fields(f, part, L, at) = <<>>
    BY <1>7, HandlesOf DEF Fields, NoHandles
  <2>2. QED
    BY <2>1
<1>8. QED
  BY <1>1, <1>2, <1>3, <1>4, <1>5, <1>6, <1>7 DEF HasPart

\* So the operand with it replaced is one of the same kind.
LEMMA ReplacedOperand ==
  ASSUME NEW x, IsOperand(x), NEW field, NEW v, Admits(field, v),
         \/ x.k = "reg" /\ field = "reg"
         \/ x.k = "imm" /\ field = "imm"
         \/ x.k = "mem" /\ field \in {"base", "index", "scale", "offset"},
         NEW op, op = Replaced(x, field, v)
  PROVE  IsOperand(op) /\ SameKind(x, op) /\ x.k # "label"
<1>1. CASE x.k = "reg" /\ field = "reg"
  <2>1. op = RegOp(x.size, v) /\ v \in Reg
    BY <1>1, ReplacedOf DEF Admits, Reg
  <2>2. op.k = "reg" /\ op.size = x.size /\ op.reg = v
    BY <2>1 DEF RegOp
  <2>3. QED
    BY <1>1, <2>1, <2>2 DEF IsOperand, SameKind
<1>2. CASE x.k = "imm" /\ field = "imm"
  <2>1. op = ImmOp(x.type, v)
    BY <1>2, ReplacedOf
  <2>2. op.k = "imm" /\ op.type = x.type /\ op.value = v
    BY <2>1 DEF ImmOp
  <2>3. QED
    BY <1>2, <2>1, <2>2 DEF IsOperand, SameKind
<1>3. CASE x.k = "mem" /\ field \in {"base", "index", "scale", "offset"}
  BY <1>3, ReplacedOf DEF SameKind
<1>4. QED
  BY <1>1, <1>2, <1>3

\* The handles name the fields of the instruction with the other operand.
LEMMA StillNamed ==
  ASSUME NEW c, NEW d, NEW k, Twins(c, d, k), NEW f, NEW h, NEW at, NEW L, Named(c, f, h, at, L),
         NEW g, Swapped(f, g, f.args[k], c.ops[k], d.ops[k]), IsInstruction(g), g.args = f.args,
         \A part : HasPart(f, part) => Fields(g, part, L, at) = Fields(f, part, L, at),
         IsOperand(d.ops[k]), TargetOf(d) \in Ptr \cup {None}
  PROVE  Named(d, g, h, at, L)
<1>1. /\ DOMAIN d = DOMAIN c /\ d.mn = c.mn /\ DOMAIN d.ops = DOMAIN c.ops /\ Kinds(d) = Kinds(c)
      /\ \A j \in DOMAIN c.ops : d.ops[j].k = c.ops[j].k /\ (j # k => d.ops[j] = c.ops[j])
      /\ c.ops[k].k = "label" => d.ops[k].jump = c.ops[k].jump
      /\ d.ops \in Seq(Range(d.ops)) /\ k \in DOMAIN c.ops
  BY DEF Twins, Alike
<1>2. /\ c.mn \notin DOMAIN Waiting /\ c.mn # "Nop" /\ WellFormed(c, f)
      /\ h = [j \in DOMAIN f.args |-> Fields(f, f.args[j], L, at)]
  BY DEF Named
<1>3. /\ IsInstruction(f) /\ DOMAIN f.args = DOMAIN c.ops /\ {"size", "lock"} \subseteq DOMAIN c
      /\ \A j \in DOMAIN c.ops : IsOperand(c.ops[j]) /\ Replaces(c.ops[j], f.args[j], f)
      /\ (\E j \in DOMAIN c.ops : f.args[j] # "none") => ReturnsHandles(c.mn, Kinds(c))
  BY <1>2 DEF WellFormed
<1>4. \A j \in DOMAIN f.args : HasPart(f, f.args[j])
  BY <1>3 DEF IsInstruction
<1>5. ASSUME NEW j \in DOMAIN c.ops, f.args[j] = "label"
      PROVE  g.tail[1] = f.tail[1]
  <2>1. 1 \in DOMAIN f.tail /\ f.tail[1].k = "label"
    BY <1>3, <1>4, <1>5 DEF HasPart
  <2>2. \A n : f.tail[1] # ImmPart(c.ops[k], n)
    BY <2>1 DEF ImmPart
  <2>3. QED
    BY <2>1, <2>2 DEF Swapped
<1>6. ASSUME NEW j \in DOMAIN d.ops
      PROVE  IsOperand(d.ops[j]) /\ Replaces(d.ops[j], g.args[j], g)
  <2>1. IsOperand(d.ops[j])
    BY <1>1, <1>3, <1>6
  <2>2. d.ops[j].k = c.ops[j].k /\ Replaces(c.ops[j], f.args[j], f) /\ g.args[j] = f.args[j]
    BY <1>1, <1>3, <1>6
  <2>3. f.args[j] = "label" => d.ops[j].jump = c.ops[j].jump
    BY <1>1, <2>2 DEF Replaces
  <2>4. f.args[j] = "label" => g.tail[1] = f.tail[1]
    BY <1>1, <1>5, <1>6
  <2>5. QED
    BY <2>1, <2>2, <2>3, <2>4 DEF Replaces
<1>7. WellFormed(d, g)
  BY <1>1, <1>3, <1>6 DEF WellFormed
<1>8. h = [j \in DOMAIN g.args |-> Fields(g, g.args[j], L, at)]
  BY <1>2, <1>3, <1>4
<1>9. QED
  BY <1>1, <1>2, <1>7, <1>8 DEF Named

(***************************************************************************)
(* Instructions that are patched                                           *)
(***************************************************************************)
\* What is stored through a handle depends on the byte that is there only for bits.
LEMMA SameStored ==
  ASSUME NEW h, NEW v, NEW x, NEW y, h.kind = "bits" => x = y
  PROVE  StoredBytes(h, v, x) = StoredBytes(h, v, y)
BY DEF StoredBytes

\* The instruction of a call in the block.
LEMMA InBlock ==
  ASSUME NEW c, NEW f, NEW h, NEW at \in Nat, NEW L \in Layouts, Named(c, f, h, at, L),
         f = InstructionOf(c), NEW end \in Nat, end <= BlockSize, NEW mem,
         RowIn(c, h, at, end, mem, L)
  PROVE  /\ CallBytes(c, L, Start + at) = FormBytes(f, L, Start + at, TargetOf(c))
         /\ Suits(L, f) /\ TargetOf(c) \in Ptr \cup {None} /\ IsInstruction(f)
         /\ Len(FormBytes(f, L, Start + at, TargetOf(c))) = end - at
         /\ Holds(mem, Start + at, FormBytes(f, L, Start + at, TargetOf(c)))
         /\ at + Len(FrontBytes(f, L)) < AddrSpace /\ Len(FrontBytes(f, L)) \in Nat
<1> DEFINE to == TargetOf(c)
           p == Start + at
           s == FormBytes(f, L, p, to)
           n == Len(FrontBytes(f, L))
<1>1. c.mn \notin DOMAIN Waiting /\ c.mn # "Nop" /\ WellFormed(c, f) /\ to \in Ptr \cup {None}
  BY DEF Named
<1>2. CallBytes(c, L, p) = s
  BY <1>1 DEF CallBytes
<1>3. IsInstruction(f)
  BY <1>1 DEF WellFormed
<1>4. Suits(L, f) /\ Len(s) = end - at /\ Holds(mem, p, s)
  BY <1>1, <1>2 DEF RowIn
<1>5. p \in Int
  BY Bounds
<1> HIDE DEF p, to
<1>6. Len(s) = n + TailLength(f) /\ n \in Nat /\ TailLength(f) \in Nat
  <2>1. FrontBytes(f, L) \in Seq(ByteValue) /\ Len(s) = n + TailLength(f)
    BY <1>1, <1>3, <1>5, FormShape
  <2>2. QED
    BY <1>3, <2>1, LengthsType
<1> HIDE DEF s, n
<1>7. at + n < AddrSpace
  BY <1>4, <1>6, Bounds
<1>8. QED
  BY <1>1, <1>2, <1>3, <1>4, <1>6, <1>7 DEF s, p, to, n

\* Data set in the bytes of an instruction make those of another one in the same layout.
LEMMA RowSet ==
  ASSUME NEW d, NEW h, NEW at \in Nat, NEW end \in Nat, end <= BlockSize, at <= end,
         NEW L, Named(d, InstructionOf(d), h, at, L), Suits(L, InstructionOf(d)),
         NEW s, Len(s) = end - at, NEW mem \in [Memory -> ByteValue], Holds(mem, Start + at, s),
         NEW o, NEW data, Len(data) \in Nat,
         Sets(s, FormBytes(InstructionOf(d), L, Start + at, TargetOf(d)), o, data)
  PROVE  RowIn(d, h, at, end, Store(mem, Start + (at + o), data), L)
<1> DEFINE t == FormBytes(InstructionOf(d), L, Start + at, TargetOf(d))
           p == Start + (at + o)
           mem2 == Store(mem, p, data)
<1>1. CallBytes(d, L, Start + at) = t
  BY DEF CallBytes, Named
<1>2. Sets(s, t, o, data)
  OBVIOUS
<1> HIDE DEF t
<1>3. Len(s) \in Nat /\ at + Len(s) <= BlockSize
  OBVIOUS
<1>4. Holds(mem2, Start + at, t)
  BY <1>2, <1>3, HoldsStored
<1>5. Len(t) = end - at
  BY <1>2 DEF Sets
<1> HIDE DEF p, mem2
<1>6. RowIn(d, h, at, end, mem2, L)
  BY <1>1, <1>4, <1>5 DEF RowIn
<1>7. QED
  BY <1>6 DEF mem2, p

\* The target of a call whose operand that is replaced is no label.
LEMMA SameTarget ==
  ASSUME NEW c, NEW d, NEW k, Twins(c, d, k), c.ops[k].k # "label"
  PROVE  TargetOf(d) = TargetOf(c)
<1>1. /\ DOMAIN d.ops = DOMAIN c.ops /\ Len(d.ops) = Len(c.ops)
      /\ \A j \in DOMAIN c.ops : d.ops[j].k = c.ops[j].k /\ (j # k => d.ops[j] = c.ops[j])
      /\ c.ops \in Seq(Range(c.ops)) /\ d.ops \in Seq(Range(d.ops))
  BY DEF Twins, Alike
<1>2. c.ops = <<>> <=> d.ops = <<>>
  BY <1>1
<1>3. CASE c.ops = <<>>
  BY <1>2, <1>3 DEF TargetOf
<1>4. CASE c.ops # <<>>
  <2> DEFINE n == Len(c.ops)
  <2>1. n \in DOMAIN c.ops /\ Len(d.ops) = n
    BY <1>1, <1>4
  <2> HIDE DEF n
  <2>2. d.ops[n].k = c.ops[n].k /\ (n # k => d.ops[n] = c.ops[n])
    BY <1>1, <2>1
  <2>3. QED
    BY <1>2, <1>4, <2>1, <2>2 DEF TargetOf, n
<1>5. QED
  BY <1>3, <1>4

\* A value is put in through a handle: the bytes are those of the call with the operand
\* that has it.
LEMMA PatchedRow ==
  ASSUME NEW c, {"class", "mn", "ops"} \subseteq DOMAIN c, NEW h, NEW at \in Nat, NEW end \in Nat,
         at <= end, end <= BlockSize, NEW mem \in [Memory -> ByteValue],
         NEW L \in Layouts, RowIn(c, h, at, end, mem, L), Replaceable(h),
         NEW k \in DOMAIN h, NEW field \in DOMAIN h[k], field # "label",
         NEW handle, handle = h[k][field], NEW v, Admits(field, v),
         field = "base" => ReplaceableBase(c.ops[k].mem, v),
         field = "offset" => handle.size = 4 \/ IsByteOffset(v),
         NEW op, op = Replaced(c.ops[k], field, v),
         NEW d, d = [c EXCEPT !.ops = [c.ops EXCEPT ![k] = op]],
         NEW mem2, mem2 = Store(mem, Start + handle.at, StoredBytes(handle, v, mem[Start + handle.at]))
  PROVE  RowIn(d, h, at, end, mem2, L)
<1> DEFINE f == InstructionOf(c)
           g == InstructionOf(d)
           part == f.args[k]
           x == c.ops[k]
           to == TargetOf(c)
           p == Start + at
           s == FormBytes(f, L, p, to)
           t == FormBytes(g, L, p, to)
<1>1. Named(c, f, h, at, L)
  BY DEF RowIn
<1>2. /\ WellFormed(c, f) /\ IsInstruction(f) /\ k \in DOMAIN f.args /\ DOMAIN f.args = DOMAIN c.ops
      /\ h[k] = Fields(f, part, L, at) /\ IsOperand(x) /\ Replaces(x, part, f) /\ HasPart(f, part)
  BY <1>1 DEF Named, WellFormed, IsInstruction
<1>3. part = "rm" => f.rm = x \/ f.rm = NoSegment(x)
  BY <1>2, OwnOperand
<1> HIDE DEF f, g
<1>4. /\ CallBytes(c, L, p) = s /\ Suits(L, f) /\ to \in Ptr \cup {None}
      /\ Len(s) = end - at /\ Holds(mem, p, s) /\ at + Len(FrontBytes(f, L)) < AddrSpace
  BY <1>1, InBlock DEF f
<1>5. p \in Int
  BY Bounds
<1>6. /\ field \in DOMAIN Fields(f, part, L, at) /\ handle = Fields(f, part, L, at)[field]
      /\ part # "none"
  <2>1. Fields(f, "none", L, at) = <<>>
    BY HandlesOf DEF Fields, NoHandles
  <2>2. QED
    BY <1>2, <2>1
<1> HIDE DEF part
<1>7. IsOperand(op) /\ SameKind(x, op) /\ x.k # "label"
  <2> HIDE DEF x
  <2>1. \/ x.k = "reg" /\ field = "reg"
        \/ x.k = "imm" /\ field = "imm"
        \/ x.k = "mem" /\ field \in {"base", "index", "scale", "offset"}
    BY <1>2, <1>3, <1>6, FieldOfOperand
  <2>2. QED
    BY <1>2, <2>1, ReplacedOperand DEF x
<1>8. Twins(c, d, k) /\ d.ops[k] = op
  BY <1>2, <1>7, ReplacedTwin
<1>9. Swapped(f, g, part, x, op)
  <2>1. ReturnsHandles(c.mn, Kinds(c))
    BY <1>2, <1>6 DEF WellFormed, part
  <2>2. SwappedAt(f, g, c, d, k)
    BY <1>8, <2>1, SwapOperand DEF SwappedCalls, f, g
  <2>3. QED
    BY <1>6, <1>8, <2>2 DEF SwappedAt, part
<1>10. Patched(f, g, L, at, p, to, handle, v)
  <2> HIDE DEF x, p, to
  <2>1. op = Replaced(x, field, v) /\ (field = "base" => ReplaceableBase(x.mem, v))
    BY DEF x
  <2>2. QED
    BY <1>2, <1>4, <1>5, <1>6, <1>9, <2>1, OperandPatched
<1>11. TargetOf(d) = to
  BY <1>7, <1>8, SameTarget
<1>12. /\ IsInstruction(g) /\ Suits(L, g) /\ g.args = f.args /\ Takes(handle, v)
       /\ \A q : HasPart(f, q) => Fields(g, q, L, at) = Fields(f, q, L, at)
  BY <1>10 DEF Patched
<1>13. Named(d, g, h, at, L)
  <2>1. Swapped(f, g, f.args[k], x, d.ops[k]) /\ IsOperand(d.ops[k])
    BY <1>7, <1>8, <1>9 DEF part
  <2>2. TargetOf(d) \in Ptr \cup {None}
    BY <1>4, <1>11
  <2>3. QED
    BY <1>1, <1>8, <1>12, <2>1, <2>2, StillNamed
<1>14. PICK o \in Nat : handle.at = at + o /\ PatchesAt(s, t, o, handle, v)
  BY <1>10 DEF Patched
<1> DEFINE b1 == s[o + 1]
           b2 == mem[Start + handle.at]
           data == StoredBytes(handle, v, b1)
<1> HIDE DEF s, t
<1>15. Sets(s, t, o, data) /\ (handle.kind = "bits" => b1 \in ByteValue)
  BY <1>14 DEF PatchesAt
<1>16. /\ Len(data) \in Nat /\ (handle.kind = "bits" => Len(data) = 1)
  <2> HIDE DEF b1
  <2>1. data \in Seq(ByteValue) /\ Len(data) = IF handle.kind = "bits" THEN 1 ELSE handle.size
    BY <1>12, <1>15, StoredType
  <2>2. QED
    BY <2>1
<1>17. handle.kind = "bits" => b1 = b2
  <2> SUFFICES ASSUME handle.kind = "bits"
               PROVE  mem[Start + handle.at] = s[o + 1]
    OBVIOUS
  <2>1. o + 1 <= Len(s)
    BY <1>15, <1>16 DEF Sets
  <2>2. s[o + 1] \in ByteValue
    BY <1>15
  <2>3. s[o + 1] # Hole
    BY <2>2 DEF ByteValue, Hole
  <2> DEFINE n == Len(s)
             j == o + 1
  <2>a. n = end - at /\ j <= n
    BY <1>4, <2>1
  <2> HIDE DEF n
  <2>4. o + 1 \in 1 .. n
    BY <2>a
  <2> HIDE DEF j
  <2>5. mem[Plus(p, (o + 1) - 1)] = s[o + 1]
    BY <1>4, <2>3, <2>4 DEF Holds, n
  <2>6. (o + 1) - 1 = o /\ at + o <= BlockSize
    <3>1. o \in Nat /\ j = o + 1
      BY DEF j
    <3> HIDE DEF j
    <3>2. QED
      BY <2>a, <3>1, Bounds
  <2>7. Plus(p, o) = Start + (at + o)
    BY <2>6, Address
  <2>8. QED
    BY <1>14, <2>5, <2>6, <2>7
<1>18. mem2 = Store(mem, Start + (at + o), data)
  <2>1. StoredBytes(handle, v, b2) = data
    BY <1>17, SameStored
  <2>2. QED
    BY <1>14, <2>1
<1>19. QED
  <2> HIDE DEF data, to
  <2>1. Sets(s, FormBytes(g, L, p, TargetOf(d)), o, data)
    BY <1>11, <1>15 DEF t
  <2>2. RowIn(d, h, at, end, Store(mem, Start + (at + o), data), L)
    BY <1>4, <1>12, <1>13, <1>16, <2>1, RowSet DEF g
  <2>3. QED
    BY <1>18, <2>2

\* A label is the last operand of a call.
LEMMA LabelLast ==
  ASSUME NEW c, c.ops \in Seq(Range(c.ops)), ReturnsHandles(c.mn, Kinds(c)),
         NEW k \in DOMAIN c.ops, c.ops[k].k = "label"
  PROVE  k = Len(c.ops)
<1> DEFINE kinds == Kinds(c)
           mn == c.mn
<1>1. k \in DOMAIN kinds /\ kinds[k] = "label"
  BY DEF Kinds
<1>2. ReturnsHandles(mn, kinds)
  OBVIOUS
<1> HIDE DEF kinds, mn
<1>3. kinds \notin RegFirst \cup RegSecond \cup ImmSecond \cup {<<"imm", "mem">>}
  BY <1>1 DEF RegFirst, RegSecond, ImmSecond
<1>4. kinds \notin OneOperand \cup {<<"reg", "CL">>, <<"mem", "CL">>}
  BY <1>1 DEF OneOperand
<1>5. kinds \notin Double
  BY <1>1 DEF Double
<1>6. kinds \notin {<<"reg", "mem">>, <<"mem", "reg">>, <<"cc", "reg">>, <<"cc", "mem">>}
  BY <1>1
<1>7. kinds \notin {<<"reg">>, <<"imm">>, <<"imm", "imm">>}
  BY <1>1
<1>8. kinds = <<"label">> \/ kinds = <<"cc", "label">>
  BY <1>2, <1>3, <1>4, <1>5, <1>6, <1>7 DEF ReturnsHandles
<1>9. CASE kinds = <<"label">>
  <2>1. DOMAIN c.ops = 1 .. 1 /\ Len(c.ops) = 1
    BY <1>9, OneKind DEF kinds
  <2>2. QED
    BY <2>1
<1>10. CASE kinds = <<"cc", "label">>
  <2>1. DOMAIN c.ops = 1 .. 2 /\ Len(c.ops) = 2 /\ c.ops[1].k = "cc"
    BY <1>10, TwoKinds DEF kinds
  <2>2. QED
    BY <2>1
<1>11. QED
  BY <1>8, <1>9, <1>10

\* The handle of a label is one for the label of the instruction.
LEMMA LabelField ==
  ASSUME NEW f, IsInstruction(f), NEW L, NEW part, HasPart(f, part), NEW at,
         "label" \in DOMAIN Fields(f, part, L, at)
  PROVE  part = "label"
<1>1. CASE part = "rm" /\ f.rm.k = "mem"
  <2> DEFINE m == f.rm.mem
  <2>1. "label" \in ReplaceableParts(m)
    BY <1>1 DEF Fields, MemFields
  <2>2. m.mode \in {"OFFSET", "BASE", "BASE_OFFSET", "INDEX_OFFSET", "BASE_INDEX",
                    "BASE_INDEX_OFFSET"}
    BY <1>1 DEF IsInstruction, IsMem, WithIndexReg, WithBase
  <2> HIDE DEF m
  <2>3. QED
    BY <2>1, <2>2 DEF ReplaceableParts
<1>2. CASE ~(part = "rm" /\ f.rm.k = "mem") /\ part # "label"
  <2> DEFINE x == at + Len(HeadBytes(f, L))
             y == at + Len(FrontBytes(f, L))
  <2>1. Fields(f, part, L, at) = Handles(f, part, x, y)
    BY <1>2 DEF Fields
  <2> HIDE DEF x, y
  <2>2. (part = "rm" /\ f.rm.k = "reg") \/ part \in {"reg", "opcode", "imm", "imm2", "none"}
    BY <1>2 DEF HasPart
  <2>3. "label" \notin DOMAIN Handles(f, part, x, y)
    BY <2>2, HandlesOf DEF NoHandles
  <2>4. QED
    BY <2>1, <2>3
<1>3. QED
  BY <1>1, <1>2

\* A label is bound: the bytes are those of the call with the label at this address.
LEMMA BoundRow ==
  ASSUME NEW c, {"class", "mn", "ops"} \subseteq DOMAIN c, NEW h, NEW at \in Nat, NEW end \in Nat,
         at <= end, end <= BlockSize, NEW mem \in [Memory -> ByteValue],
         NEW L \in Layouts, RowIn(c, h, at, end, mem, L), Replaceable(h),
         NEW k \in DOMAIN h, "label" \in DOMAIN h[k], NEW place, place = h[k].label,
         NEW target \in Ptr, NEW op, op = LabelOp(c.ops[k].jump, target),
         NEW d, d = [c EXCEPT !.ops = [c.ops EXCEPT ![k] = op]],
         NEW size, size = OffsetSize(c.ops[k].jump),
         NEW data, data = LittleEndian(CalcJumpOffset(Start + place, target, size), size)
  PROVE  RowIn(d, h, at, end, Store(mem, Start + place, data), L)
<1> DEFINE f == InstructionOf(c)
           g == InstructionOf(d)
           x == c.ops[k]
           to == TargetOf(c)
           p == Start + at
           s == FormBytes(f, L, p, to)
           o == Len(FrontBytes(f, L))
<1>1. Named(c, f, h, at, L)
  BY DEF RowIn
<1>2. /\ WellFormed(c, f) /\ IsInstruction(f) /\ k \in DOMAIN f.args /\ DOMAIN f.args = DOMAIN c.ops
      /\ h[k] = Fields(f, f.args[k], L, at) /\ Replaces(x, f.args[k], f) /\ HasPart(f, f.args[k])
  BY <1>1 DEF Named, WellFormed, IsInstruction
<1> HIDE DEF f, g
<1>3. f.args[k] = "label"
  BY <1>2, LabelField
<1>4. x.k = "label" /\ f.tail[1].size = size /\ h[k] = Fields(f, "label", L, at)
  BY <1>2, <1>3 DEF Replaces
<1>5. /\ CallBytes(c, L, p) = s /\ Suits(L, f) /\ to \in Ptr \cup {None}
      /\ Len(s) = end - at /\ Holds(mem, p, s) /\ o \in Nat
  BY <1>1, InBlock DEF f
<1>6. p \in Int
  BY Bounds
<1>7. /\ op.k = "label" /\ op.jump = x.jump /\ op.to = target
      /\ SameKind(x, op) /\ IsOperand(op)
  <2>1. op.k = "label" /\ op.jump = x.jump /\ op.to = target
    BY DEF LabelOp
  <2>2. QED
    BY <1>4, <2>1 DEF SameKind, IsOperand
<1>8. Twins(c, d, k) /\ d.ops[k] = op /\ d.mn = c.mn
  BY <1>2, <1>7, ReplacedTwin
<1>9. ReturnsHandles(c.mn, Kinds(c))
  BY <1>2, <1>3 DEF WellFormed
<1>10. Swapped(f, g, "label", x, op)
  <2>1. SwappedAt(f, g, c, d, k)
    BY <1>8, <1>9, SwapOperand DEF SwappedCalls, f, g
  <2>2. QED
    BY <1>3, <1>8, <2>1 DEF SwappedAt
<1>11. TargetOf(d) = target
  <2>1. /\ DOMAIN d.ops = DOMAIN c.ops /\ Len(d.ops) = Len(c.ops) /\ k \in DOMAIN c.ops
        /\ c.ops \in Seq(Range(c.ops)) /\ d.ops \in Seq(Range(d.ops))
    BY <1>8 DEF Twins, Alike
  <2>2. k = Len(c.ops)
    BY <1>4, <1>9, <2>1, LabelLast
  <2>3. d.ops # <<>>
    BY <2>1
  <2>4. QED
    BY <1>7, <1>8, <2>1, <2>2, <2>3 DEF TargetOf
<1> DEFINE data1 == LittleEndian(CalcJumpOffset(Plus(p, o), target, size), size)
           t == FormBytes(g, L, p, target)
<1>12. /\ IsInstruction(g) /\ Suits(L, g) /\ g.args = f.args
       /\ \A part : HasPart(f, part) => Fields(g, part, L, at) = Fields(f, part, L, at)
       /\ Fields(f, "label", L, at) = [label |-> at + o]
       /\ Len(data1) = size /\ size \in Nat
       /\ Sets(s, t, o, data1)
  <2> DEFINE n == o
             u == LittleEndian(CalcJumpOffset(Plus(p, n), target, size), size)
  <2> HIDE DEF p, to, x
  <2>1. HasPart(f, "label") /\ size = f.tail[1].size /\ n = Len(FrontBytes(f, L))
    BY <1>2, <1>3, <1>4
  <2>2. u = LittleEndian(CalcJumpOffset(Plus(p, n), target, size), size)
    OBVIOUS
  <2> HIDE DEF n, u
  <2>3. /\ IsInstruction(f) /\ Suits(L, f) /\ p \in Int /\ to \in Ptr \cup {None}
        /\ Swapped(f, g, "label", x, op)
        /\ L \in Layouts /\ at \in Nat /\ target \in Ptr
    BY <1>2, <1>5, <1>6, <1>10
  <2>4. Labelled(f, g, L, at, p, to, target, n, size, u)
    BY <2>1, <2>2, <2>3, LabelPatched
  <2>5. QED
    BY <2>4 DEF Labelled, n, u
<1> HIDE DEF o, s, t
<1>13. place = at + o
  BY <1>4, <1>12
<1>14. Plus(p, o) = Start + place
  <2>1. o + size <= Len(s)
    BY <1>12 DEF Sets
  <2> DEFINE n == Len(s)
  <2>2. o + size <= n /\ n = end - at
    BY <1>5, <2>1
  <2> HIDE DEF n
  <2>3. at + o <= BlockSize
    <3>1. o \in Nat /\ size \in Nat
      BY <1>5, <1>12
    <3>2. QED
      BY <2>2, <3>1, Bounds
  <2>4. QED
    BY <1>5, <1>13, <2>3, Address
<1>15. data1 = data
  BY <1>14
<1>16. Named(d, g, h, at, L)
  <2>1. Swapped(f, g, f.args[k], x, d.ops[k]) /\ IsOperand(d.ops[k])
    BY <1>3, <1>7, <1>8, <1>10
  <2>2. TargetOf(d) \in Ptr \cup {None}
    BY <1>11
  <2>3. QED
    BY <1>1, <1>8, <1>12, <2>1, <2>2, StillNamed
<1>17. QED
  <2> HIDE DEF p, to
  <2>1. Sets(s, FormBytes(g, L, Start + at, TargetOf(d)), o, data) /\ Len(data) \in Nat
    BY <1>11, <1>12, <1>15 DEF t, p
  <2>2. RowIn(d, h, at, end, Store(mem, Start + (at + o), data), L)
    BY <1>5, <1>12, <1>16, <2>1, RowSet DEF g, p
  <2>3. QED
    BY <1>13, <2>2

(***************************************************************************)
(* Patches in the program                                                  *)
(***************************************************************************)
\* An entry with another operand is that of the call with it.
LEMMA WithOperandRow ==
  ASSUME NEW e, EntryType(e), NEW end, NEW mem, IsRow(e, end, mem), NEW mem2, NEW k, NEW op,
         NEW d, d = [e.call EXCEPT !.ops = [e.call.ops EXCEPT ![k] = op]],
         \A L \in Layouts : RowIn(e.call, e.h, e.at, end, mem, L) => RowIn(d, e.h, e.at, end, mem2, L)
  PROVE  IsRow(WithOperand(e, k, op), end, mem2)
<1> DEFINE f == WithOperand(e, k, op)
           c == e.call
<1>1. DOMAIN e = {"at", "call", "h"}
  BY DEF EntryType
<1>2. f = [e EXCEPT !.call = d]
  BY DEF WithOperand
<1> HIDE DEF f
<1>3. f.call = d /\ f.h = e.h /\ f.at = e.at
  BY <1>1, <1>2
<1>4. {"class", "mn", "ops"} \subseteq DOMAIN c /\ (c.class = "X86" => \E L \in Layouts : RowIn(c, e.h, e.at, end, mem, L))
  BY DEF IsRow
<1>5. DOMAIN d = DOMAIN c /\ d.class = c.class
  BY <1>4
<1>6. IsRow(f, end, mem2)
  BY <1>3, <1>4, <1>5 DEF IsRow
<1>7. QED
  BY <1>6 DEF f

\* A patch of an instruction keeps the others.
LEMMA PatchedRows ==
  ASSUME IInv, Layout, ~code.aborted, Rows, NEW i \in DOMAIN prog, NEW k \in DOMAIN prog[i].h, NEW op,
         "label" \in DOMAIN prog[i].h[k] => op = LabelOp(prog[i].call.ops[k].jump, op.to),
         Patches(Memory, code, code', prog[i].at, EndOf(i), AddrBytes),
         prog' = [prog EXCEPT ![i] = WithOperand(prog[i], k, op)],
         ~code'.aborted => IsRow(WithOperand(prog[i], k, op), EndOf(i), code'.mem)
  PROVE  Rows'
<1> SUFFICES ASSUME ~code'.aborted
             PROVE  Rows'
  BY DEF Rows
<1> DEFINE f == WithOperand(prog[i], k, op)
<1>1. /\ IsCode(code) /\ prog \in Seq(Range(prog)) /\ EntryType(prog[i])
      /\ prog[i].at \in Nat /\ EndOf(i) \in Nat
  BY Places DEF IInv, InPlace, Entries
<1>2. f.at = prog[i].at
  BY <1>1, WithOperandType
<1>3. prog' = [prog EXCEPT ![i] = f] /\ IsRow(f, EndOf(i), code'.mem)
  OBVIOUS
<1> HIDE DEF f
<1>4. GetOffset(code') = GetOffset(code)
  BY <1>1 DEF Patches, IsCode, GetOffset
<1>5. /\ DOMAIN prog' = DOMAIN prog /\ prog'[i] = f
      /\ \A j \in DOMAIN prog : EndOf(j)' = EndOf(j) /\ (j # i => prog'[j] = prog[j])
  BY <1>1, <1>2, <1>3, <1>4, EndsExcept
<1>6. ASSUME NEW q \in Memory, code'.mem[q] # code.mem[q]
      PROVE  Start + prog[i].at <= q /\ q < Start + EndOf(i)
  <2>1. prog[i].at <= Minus(q, Start) /\ Minus(q, Start) < EndOf(i)
    BY <1>1, <1>6 DEF Patches, IsCode
  <2>2. Minus(q, Start) = q - Start /\ q \in Nat
    BY MemoryType
  <2> DEFINE lo == prog[i].at
             hi == EndOf(i)
  <2>3. lo \in Nat /\ hi \in Nat /\ lo <= q - Start /\ q - Start < hi /\ q \in Nat /\ Start \in Nat
    BY <1>1, <2>1, <2>2, Bounds
  <2> HIDE DEF lo, hi
  <2>4. Start + lo <= q /\ q < Start + hi
    BY <2>3
  <2>5. QED
    BY <2>4 DEF lo, hi
<1>7. QED
  BY <1>3, <1>5, <1>6, RowsAround

\* Where a handle points.
LEMMA HandlePlace ==
  ASSUME IInv, ~code.aborted, NEW i \in DOMAIN prog, NEW k \in DOMAIN prog[i].h,
         NEW field \in DOMAIN prog[i].h[k], field # "label",
         NEW h, h = prog[i].h[k][field]
  PROVE  /\ IsHandle(field, h, 0, BlockSize)
         /\ h.at \in Nat /\ h.at <= BlockSize /\ h.kind \in {"bits", "bytes"}
<1>1. IsHandle(field, h, 0, BlockSize)
  BY DEF IInv, Entries, EntryInside, HandlesFit
<1>2. CASE \E at \in Nat : \E shift, mask : at < BlockSize /\ h = Bits(at, shift, mask)
  BY <1>1, <1>2, Bounds DEF Bits
<1>3. CASE \E at \in Nat, n \in {1, 2, 4} : at + n <= BlockSize /\ h = Bytes(at, n)
  BY <1>1, <1>3, Bounds DEF Bytes
<1>4. QED
  BY <1>1, <1>2, <1>3 DEF IsHandle

\* Replacing a field of an operand.
LEMMA ReplaceRows ==
  ASSUME IInv, Layout, Rows, ~code.aborted, ChecksOperands, NEW i \in DOMAIN prog,
         NEW k \in DOMAIN prog[i].h, NEW field \in DOMAIN prog[i].h[k], field # "label",
         NEW size, size = IF field \in {"offset", "imm"} THEN prog[i].h[k][field].size ELSE 1,
         NEW v \in NewValues(prog[i].call.ops[k], field, size),
         ReplaceOperand(i, k, field, v)
  PROVE  Rows'
<1> DEFINE e == prog[i]
           h == e.h[k][field]
           c == e.call
           x == c.ops[k]
           op == Replaced(x, field, v)
           d == [c EXCEPT !.ops = [c.ops EXCEPT ![k] = op]]
           end == EndOf(i)
           at == e.at
<1>1. IsCode(code) /\ EntryType(e) /\ IsRow(e, end, code.mem)
  BY DEF IInv, InPlace, Entries, Rows
<1>2. /\ at \in Nat /\ end \in Nat /\ at <= end /\ end <= BlockSize
  BY Places
<1>3. /\ code' = Replace(code, h, v) /\ prog' = [prog EXCEPT ![i] = WithOperand(e, k, op)]
      /\ field = "base" => ReplaceableBase(x.mem, v)
  BY DEF ReplaceOperand, WithOperand
<1>4. Patches(Memory, code, code', at, end, AddrBytes)
  BY ReplaceInside
<1>5. "label" \notin DOMAIN e.h[k]
  BY <1>1 DEF EntryType, Labels
<1>6. IsHandle(field, h, 0, BlockSize) /\ h.at \in Nat /\ h.at <= BlockSize /\ h.kind \in {"bits", "bytes"}
  BY HandlePlace
<1>7. Admits(field, v)
  BY <1>6, NewValuesAdmitted
<1>8. field = "offset" => h.size = 4 \/ IsByteOffset(v)
  BY DEF NewValues
<1>9. Replaceable(e.h)
  BY DEF Replaceable
<1>10. code.mem \in [Memory -> ByteValue]
  BY <1>1 DEF IsCode, BlocksOver
<1>11. ASSUME ~code'.aborted
       PROVE  IsRow(WithOperand(e, k, op), end, code'.mem)
  <2>1. code'.mem = Store(code.mem, Start + h.at, StoredBytes(h, v, code.mem[Start + h.at]))
    <3> HIDE DEF h
    <3>1. QED
      BY <1>1, <1>3, <1>6, <1>11, ReplaceStores
  <2>2. ASSUME NEW L \in Layouts, RowIn(c, e.h, at, end, code.mem, L)
        PROVE  RowIn(d, e.h, at, end, code'.mem, L)
    <3>1. {"class", "mn", "ops"} \subseteq DOMAIN c
      BY <1>1 DEF IsRow
    <3> DEFINE hs == e.h
               mem == code.mem
               mem2 == code'.mem
    <3>2. /\ k \in DOMAIN hs /\ field \in DOMAIN hs[k] /\ h = hs[k][field] /\ Replaceable(hs)
          /\ RowIn(c, hs, at, end, mem, L) /\ mem \in [Memory -> ByteValue]
          /\ mem2 = Store(mem, Start + h.at, StoredBytes(h, v, mem[Start + h.at]))
          /\ (field = "base" => ReplaceableBase(c.ops[k].mem, v))
          /\ op = Replaced(c.ops[k], field, v)
          /\ d = [c EXCEPT !.ops = [c.ops EXCEPT ![k] = op]]
      BY <1>3, <1>9, <1>10, <2>1, <2>2
    <3> HIDE DEF hs, mem, mem2, h, c, op, d, at, end
    <3>3. RowIn(d, hs, at, end, mem2, L)
      BY <1>2, <1>7, <1>8, <3>1, <3>2, PatchedRow
    <3>4. QED
      BY <3>3 DEF hs, mem2
  <2>3. QED
    <3> HIDE DEF op, d
    <3>1. d = [e.call EXCEPT !.ops = [e.call.ops EXCEPT ![k] = op]]
      BY DEF d
    <3>2. QED
      BY <1>1, <2>2, <3>1, WithOperandRow
<1>12. QED
  <2> HIDE DEF op
  <2>1. QED
    BY <1>3, <1>4, <1>5, <1>11, PatchedRows

\* Binding a label.
LEMMA BindRows ==
  ASSUME IInv, Layout, Rows, ~code.aborted, NEW i \in DOMAIN prog,
         NEW k \in DOMAIN prog[i].h, "label" \in DOMAIN prog[i].h[k],
         NEW target \in Targets, BindLabel(i, k, target)
  PROVE  Rows'
<1> DEFINE e == prog[i]
           c == e.call
           jump == c.ops[k].jump
           place == e.h[k].label
           p == Start + target
           op == LabelOp(jump, p)
           d == [c EXCEPT !.ops = [c.ops EXCEPT ![k] = op]]
           size == OffsetSize(jump)
           data == LittleEndian(CalcJumpOffset(Start + place, p, size), size)
           end == EndOf(i)
           at == e.at
<1>1. IsCode(code) /\ EntryType(e) /\ EntryInside(e) /\ IsRow(e, end, code.mem)
  BY DEF IInv, InPlace, Entries, Rows
<1>2. /\ at \in Nat /\ end \in Nat /\ at <= end /\ end <= BlockSize
  BY Places
<1>3. /\ code' = Bind(code, jump, place, p)
      /\ prog' = IF BindAccepts(code, jump, place, p)
                 THEN [prog EXCEPT ![i].call.ops[k].to = p] ELSE prog
  BY DEF BindLabel
<1>4. /\ place \in Nat /\ place <= BlockSize /\ c.ops[k] = LabelOp(jump, c.ops[k].to)
  <2>1. place \in Ptr /\ c.ops[k] = LabelOp(jump, c.ops[k].to) /\ place + size <= BlockSize
    BY <1>1 DEF EntryType, EntryInside, Labels, LabelsInside
  <2>2. size \in 1 .. 8
    BY OffsetSizeType
  <2> HIDE DEF place, size
  <2>3. QED
    BY <2>1, <2>2, Bounds DEF Ptr
<1>5. p \in Ptr
  BY TargetsType, Bounds DEF Ptr
<1>6. Patches(Memory, code, code', at, end, AddrBytes)
  BY BindInside
<1>7. CASE BindAccepts(code, jump, place, p)
  <2>1. prog' = [prog EXCEPT ![i] = WithOperand(e, k, op)]
    <3>1. prog' = [prog EXCEPT ![i].call.ops[k].to = p]
      BY <1>3, <1>7
    <3>2. [c.ops[k] EXCEPT !.to = p] = op
      BY <1>4 DEF LabelOp
    <3>3. QED
      BY <3>1, <3>2 DEF WithOperand
  <2>2. op = LabelOp(jump, op.to)
    BY DEF LabelOp
  <2>3. ASSUME ~code'.aborted
        PROVE  IsRow(WithOperand(e, k, op), end, code'.mem)
    <3>1. code' = WriteRawAt(code, place, data)
      <4>1. Plus(code.start, place) = Start + place
        BY <1>1, <1>4, MemoryType DEF IsCode
      <4>2. QED
        BY <1>3, <1>7, <4>1 DEF Bind
    <3>2. code'.mem = Store(code.mem, Start + place, data)
      <4> HIDE DEF place, data
      <4>1. QED
        BY <1>1, <1>4, <2>3, <3>1, WriteAtStores
    <3>3. ASSUME NEW L \in Layouts, RowIn(c, e.h, at, end, code.mem, L)
          PROVE  RowIn(d, e.h, at, end, code'.mem, L)
      <4> DEFINE hs == e.h
                 mem == code.mem
      <4>1. /\ {"class", "mn", "ops"} \subseteq DOMAIN c
            /\ k \in DOMAIN hs /\ "label" \in DOMAIN hs[k] /\ place = hs[k].label
            /\ Replaceable(hs) /\ mem \in [Memory -> ByteValue]
            /\ RowIn(c, hs, at, end, mem, L) /\ p \in Ptr
        BY <1>1, <1>5, <3>3 DEF IsRow, Replaceable, IsCode, BlocksOver
      <4>2. /\ op = LabelOp(c.ops[k].jump, p) /\ d = [c EXCEPT !.ops = [c.ops EXCEPT ![k] = op]]
            /\ size = OffsetSize(c.ops[k].jump)
            /\ data = LittleEndian(CalcJumpOffset(Start + place, p, size), size)
        OBVIOUS
      <4> HIDE DEF hs, mem, c, jump, place, p, op, d, size, data, end, at
      <4>3. RowIn(d, hs, at, end, Store(mem, Start + place, data), L)
        BY <1>2, <4>1, <4>2, BoundRow
      <4>4. QED
        BY <3>2, <4>3 DEF hs, mem
    <3>4. QED
      <4> HIDE DEF op, d
      <4>1. d = [e.call EXCEPT !.ops = [e.call.ops EXCEPT ![k] = op]]
        BY DEF d
      <4>2. QED
        BY <1>1, <3>3, <4>1, WithOperandRow
  <2>4. QED
    <3> HIDE DEF op
    <3>1. QED
      BY <1>6, <2>1, <2>2, <2>3, PatchedRows
<1>8. CASE ~BindAccepts(code, jump, place, p)
  <2>1. prog' = prog /\ code' = code
    BY <1>3, <1>8 DEF Bind
  <2>2. \A j : EndOf(j)' = EndOf(j)
    BY <2>1 DEF EndOf
  <2>3. QED
    BY <2>1, <2>2 DEF Rows
<1>9. QED
  BY <1>7, <1>8

\* Every patch.
LEMMA PatchRows ==
  ASSUME IInv, Layout, Rows, ~code.aborted, ChecksOperands, Patch
  PROVE  Rows'
<1> DEFINE Size(i, k, field) == IF field \in {"offset", "imm"} THEN prog[i].h[k][field].size ELSE 1
           Of(i, k, field) ==
             \/ /\ field # "label"
                /\ \E v \in NewValues(prog[i].call.ops[k], field, Size(i, k, field)) :
                     ReplaceOperand(i, k, field, v)
             \/ field = "label" /\ \E target \in Targets : BindLabel(i, k, target)
<1>1. \E i \in DOMAIN prog : \E k \in DOMAIN prog[i].h : \E field \in DOMAIN prog[i].h[k] :
        Of(i, k, field)
  BY DEF Patch
<1> HIDE DEF Of
<1>2. PICK i \in DOMAIN prog : \E k \in DOMAIN prog[i].h : \E field \in DOMAIN prog[i].h[k] :
        Of(i, k, field)
  BY <1>1
<1>3. PICK k \in DOMAIN prog[i].h : \E field \in DOMAIN prog[i].h[k] : Of(i, k, field)
  BY <1>2
<1>4. PICK field \in DOMAIN prog[i].h[k] : Of(i, k, field)
  BY <1>3
<1>5. CASE field = "label"
  <2>1. PICK target \in Targets : BindLabel(i, k, target)
    BY <1>4, <1>5 DEF Of
  <2>2. QED
    BY <1>5, <2>1, BindRows
<1>6. CASE field # "label"
  <2> DEFINE size == Size(i, k, field)
  <2>1. \E v \in NewValues(prog[i].call.ops[k], field, size) : ReplaceOperand(i, k, field, v)
    BY <1>4, <1>6 DEF Of
  <2>2. PICK v \in NewValues(prog[i].call.ops[k], field, size) : ReplaceOperand(i, k, field, v)
    BY <2>1
  <2>3. size = IF field \in {"offset", "imm"} THEN prog[i].h[k][field].size ELSE 1
    OBVIOUS
  <2> HIDE DEF size
  <2>4. QED
    BY <1>6, <2>2, <2>3, ReplaceRows
<1>7. QED
  BY <1>5, <1>6

(***************************************************************************)
(* The invariant holds                                                     *)
(***************************************************************************)
\* Every step keeps it.
LEMMA NextRows ==
  ASSUME IInv, Layout, Rows, Slack >= 3, ChecksOperands, ChecksSpill, [Next]_vars
  PROVE  Rows'
<1>1. CASE UNCHANGED vars
  <2>1. code' = code /\ prog' = prog
    BY <1>1 DEF vars
  <2>2. \A i : EndOf(i)' = EndOf(i)
    BY <2>1 DEF EndOf
  <2>3. QED
    BY <2>1, <2>2 DEF Rows
<1>2. CASE Next
  <2>1. ~code.aborted
    BY <1>2 DEF Next
  <2>2. CASE \E c \in Calls : EmitCall(c)
    <3>1. PICK c \in Calls : EmitCall(c)
      BY <2>2
    <3>2. IsCall(c)
      BY AssemblerAssumption
    <3>3. TwoPasses(c, EmitOf(meas, c), EmitOf(code, c))
      BY <3>1 DEF EmitCall
    <3>4. QED
      BY <2>1, <3>2, <3>3, TwoPassesRows
  <2>3. CASE \E align \in Aligns : Pad(align)
    BY <2>1, <2>3, PadRows
  <2>4. CASE Patch
    BY <2>1, <2>4, PatchRows
  <2>5. CASE \E i \in DOMAIN prog : RewindTo(i)
    BY <2>1, <2>5, RewindRows
  <2>6. CASE \E i \in DOMAIN prog, c \in Calls : Overwrite(i, c)
    <3>1. PICK i \in DOMAIN prog, c \in Calls : Overwrite(i, c)
      BY <2>6
    <3>2. IsCall(c)
      BY AssemblerAssumption
    <3>3. QED
      BY <2>1, <3>1, <3>2, OverwriteRows
  <2>7. QED
    BY <1>2, <2>2, <2>3, <2>4, <2>5, <2>6 DEF Next
<1>3. QED
  BY <1>1, <1>2

\* The bytes of the block are, instruction for instruction, the encoding of the calls
\* with the operands that they were last given, in a layout that fits. The client keeps
\* free the three bytes that an emitter may spill, replaces an operand only by one that
\* needs no other form, and writes over an instruction only with one that spills nothing.
THEOREM CallsAreEncoded ==
  ASSUME Slack >= 3, ChecksOperands, ChecksSpill
  PROVE  Spec => []Encoded
<1>1. Init => Rows
  <2> SUFFICES ASSUME Init PROVE Rows
    OBVIOUS
  <2>1. prog = <<>>
    BY DEF Init
  <2>2. DOMAIN prog = {}
    BY <2>1
  <2>3. QED
    BY <2>2 DEF Rows
<1>2. IInv /\ Layout /\ Rows /\ [Next]_vars => Rows'
  BY NextRows
<1>3. Rows => Encoded
  <2> SUFFICES ASSUME Rows, ~code.aborted, NEW i \in DOMAIN prog, prog[i].call.class = "X86"
               PROVE  IsEncoded(prog[i].call, Start + prog[i].at, EndOf(i) - prog[i].at)
    BY DEF Encoded
  <2>1. PICK L \in Layouts : RowIn(prog[i].call, prog[i].h, prog[i].at, EndOf(i), code.mem, L)
    BY DEF Rows, IsRow
  <2>2. QED
    BY <2>1 DEF RowIn, IsEncoded
<1>4. QED
  BY <1>1, <1>2, <1>3, Inductive, Contiguous, PTL DEF Spec
=============================================================================
