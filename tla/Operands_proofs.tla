-------------------------- MODULE Operands_proofs --------------------------
(***************************************************************************)
(* An instruction is its operands: the instruction of a call in which an   *)
(* operand is replaced is the instruction of the call with that one part   *)
(* of it replaced, and nothing else (SwapOperand).  So it is for every     *)
(* function that returns handles, and what a handle names is that part.    *)
(* The proof goes by the templates: each passes on its operands and        *)
(* chooses everything else by their kinds and sizes.                       *)
(***************************************************************************)
EXTENDS Assembler_proofs

(***************************************************************************)
(* What a function does, by its name                                       *)
(***************************************************************************)
\* The names of the functions that return handles, but for Bswap.
Handling ==
  {"Mov", "Lea", "Movsx", "Movzx", "Push", "Pop", "Xchg", "In", "Out",
   "Add", "Or", "Adc", "Sbb", "And", "Sub", "Xor", "Cmp",
   "Not", "Neg", "Mul", "Imul", "Div", "Idiv", "Inc", "Dec", "Test",
   "Rol", "Ror", "Rcl", "Rcr", "Shl", "Shr", "Sal", "Sar",
   "Bt", "Bts", "Btr", "Btc", "Shld", "Shrd", "Bsf", "Bsr", "Setcc",
   "Loopne", "Loope", "Loop", "Jecxz", "Jmp", "Call", "Jcc", "Jcxz", "Int", "Enter",
   "Ret", "Retf", "Aad", "Aam"}

\* Groups of them that are proved together: transfers, control flow, bits.
Transfers == {"Mov", "Lea", "Movsx", "Movzx", "Push", "Pop", "Xchg", "In", "Out"}
Flow == DOMAIN LoopOpcode \cup {"Jmp", "Call", "Jcc", "Jcxz", "Int", "Enter", "Ret", "Retf"}
Bit == DOMAIN BitSet \cup {"Shld", "Shrd", "Bsf", "Bsr", "Setcc"}

\* The names in the tables.
LEMMA Names ==
  /\ DOMAIN AluSet = {"Add", "Or", "Adc", "Sbb", "And", "Sub", "Xor", "Cmp"}
  /\ DOMAIN UnaryLarge = {"Not", "Neg", "Mul", "Imul", "Div", "Idiv", "Inc", "Dec"}
  /\ DOMAIN ShiftLarge = {"Rol", "Ror", "Rcl", "Rcr", "Shl", "Shr", "Sal", "Sar"}
  /\ DOMAIN BitSet = {"Bt", "Bts", "Btr", "Btc"}
  /\ DOMAIN LoopOpcode = {"Loopne", "Loope", "Loop", "Jecxz"}
BY DEF AluSet, UnaryLarge, ShiftLarge, BitSet, LoopOpcode

\* None of the functions that return handles is one of the floating point unit or of
\* a later processor.
LEMMA Dispatch ==
  ASSUME NEW c, c.mn \in Handling
  PROVE  InstructionOf(c) = Instruction(c)
<1>1. c.mn \notin DOMAIN Waiting
  BY DEF Handling, Waiting
<1>2. c.mn \notin FloatNames
  BY DEF Handling, FloatNames, FloatOpcode, IntOpcode, UncheckedOpcode, FromTopOpcode,
     StackOpcode, ExtendedByte, TwoByteOpcode
<1>3. /\ c.mn \notin DOMAIN FcmovOpcode /\ c.mn \notin DOMAIN FcomiOpcode
      /\ c.mn \notin DOMAIN ExchangeOpcode /\ c.mn # "Bswap" /\ c.mn \notin DOMAIN CacheOpcode
      /\ c.mn \notin DOMAIN LaterBytes
  BY DEF Handling, FcmovOpcode, FcomiOpcode, ExchangeOpcode, CacheOpcode, LaterBytes
<1>4. AnyInstruction(c) = Instruction(c)
  BY <1>2, <1>3 DEF AnyInstruction
<1>5. QED
  BY <1>1, <1>4 DEF InstructionOf

\* Bswap is one of a later processor.
LEMMA DispatchBswap ==
  ASSUME NEW c, c.mn = "Bswap"
  PROVE  InstructionOf(c) = Bswap(c)
<1>1. c.mn \notin DOMAIN Waiting
  BY DEF Waiting
<1>2. c.mn \notin FloatNames
  BY DEF FloatNames, FloatOpcode, IntOpcode, UncheckedOpcode, FromTopOpcode,
     StackOpcode, ExtendedByte, TwoByteOpcode
<1>3. /\ c.mn \notin DOMAIN FcmovOpcode /\ c.mn \notin DOMAIN FcomiOpcode
      /\ c.mn \notin DOMAIN ExchangeOpcode /\ c.mn \notin DOMAIN CacheOpcode
      /\ c.mn \notin DOMAIN LaterBytes
  BY DEF FcmovOpcode, FcomiOpcode, ExchangeOpcode, CacheOpcode, LaterBytes
<1>4. AnyInstruction(c) = Bswap(c)
  BY <1>2, <1>3 DEF AnyInstruction
<1>5. QED
  BY <1>1, <1>4 DEF InstructionOf

\* None of them is one of the regions without handles.
LEMMA NoOthers ==
  ASSUME NEW c, c.mn \in Handling
  PROVE  /\ c.mn \notin DOMAIN StringOpcode /\ c.mn \notin DOMAIN SystemLarge
         /\ c.mn \notin DOMAIN FixedBytes /\ c.mn \notin DOMAIN LoadSegOpcode
         /\ c.mn \notin {"Arpl", "Lar", "Lsl"}
<1>1. c.mn \notin DOMAIN StringOpcode /\ c.mn \notin DOMAIN SystemLarge
  BY DEF Handling, StringOpcode, SystemLarge
<1>2. c.mn \notin DOMAIN LoadSegOpcode /\ c.mn \notin {"Arpl", "Lar", "Lsl"}
  BY DEF Handling, LoadSegOpcode
<1>3. /\ c.mn \notin DOMAIN ConversionBytes /\ c.mn \notin DOMAIN DecimalBytes
      /\ c.mn \notin DOMAIN PushAllBytes /\ c.mn \notin DOMAIN PopAllBytes
      /\ c.mn \notin DOMAIN FlagBytes
  BY DEF Handling, ConversionBytes, DecimalBytes, PushAllBytes, PopAllBytes, FlagBytes
<1> DEFINE others ==
             [Xlat |-> <<\hD7>>, Int3 |-> <<\hCC>>, IntO |-> <<\hCE>>, Iret |-> <<\hCF>>,
              Leave |-> <<\hC9>>, Wait |-> <<\h9B>>, Hlt |-> <<\hF4>>, Clts |-> <<\h66, \h06>>,
              Lock |-> <<PrefixLock>>]
           tables == {ConversionBytes, DecimalBytes, PushAllBytes, PopAllBytes, FlagBytes, others}
<1>4. c.mn \notin DOMAIN others
  BY DEF Handling
<1>5. DOMAIN FixedBytes = UNION {DOMAIN t : t \in tables}
  BY DEF FixedBytes
<1> HIDE DEF others
<1>6. c.mn \notin DOMAIN FixedBytes
  BY <1>3, <1>4, <1>5
<1>7. QED
  BY <1>1, <1>2, <1>6

\* The region of a function.
LEMMA Regions ==
  ASSUME NEW c
  PROVE  /\ c.mn \in Transfers => Instruction(c) = DataTransfer(c)
         /\ c.mn \in DOMAIN AluSet => Instruction(c) = Alu(c, AluSet[c.mn])
         /\ c.mn \in DOMAIN UnaryLarge /\ Len(c.ops) = 1 =>
              Instruction(c) = Unary(c, UnaryLarge[c.mn])
         /\ c.mn = "Test" => Instruction(c) = Test(c)
         /\ c.mn \in DOMAIN ShiftLarge => Instruction(c) = Shift(c)
         /\ c.mn \in Bit => Instruction(c) = BitManipulation(c)
         /\ c.mn \in Flow => Instruction(c) = FlowControl(c)
         /\ c.mn \in {"Aad", "Aam"} => Instruction(c) = Other(c)
<1>1. CASE c.mn \in Transfers
  <2>1. /\ c.mn \in Handling
        /\ c.mn \notin DOMAIN AluSet /\ c.mn \notin DOMAIN UnaryLarge /\ c.mn # "Test"
        /\ c.mn \notin DOMAIN ShiftLarge /\ c.mn \notin Bit /\ c.mn \notin Flow
        /\ c.mn \notin {"Aad", "Aam"} /\ c.mn # "Imul"
    BY <1>1, Names DEF Handling, Transfers, Bit, Flow
  <2>2. Instruction(c) = DataTransfer(c)
    BY <1>1, <2>1, NoOthers DEF Instruction, Transfers, Bit, Flow
  <2>3. QED
    BY <2>1, <2>2
<1>2. CASE c.mn \in DOMAIN AluSet
  <2>1. /\ c.mn \in Handling
        /\ c.mn \notin Transfers /\ c.mn \notin DOMAIN UnaryLarge /\ c.mn # "Test"
        /\ c.mn \notin DOMAIN ShiftLarge /\ c.mn \notin Bit /\ c.mn \notin Flow
        /\ c.mn \notin {"Aad", "Aam"} /\ c.mn # "Imul"
    BY <1>2, Names DEF Handling, Transfers, Bit, Flow
  <2>2. Instruction(c) = Alu(c, AluSet[c.mn])
    BY <1>2, <2>1, NoOthers DEF Instruction, Transfers, Bit, Flow
  <2>3. QED
    BY <2>1, <2>2
<1>3. CASE c.mn \in DOMAIN UnaryLarge /\ Len(c.ops) = 1
  <2>1. /\ c.mn \in Handling
        /\ c.mn \notin Transfers /\ c.mn \notin DOMAIN AluSet /\ c.mn # "Test"
        /\ c.mn \notin DOMAIN ShiftLarge /\ c.mn \notin Bit /\ c.mn \notin Flow
        /\ c.mn \notin {"Aad", "Aam"} /\ ~(Len(c.ops) > 1)
    BY <1>3, Names DEF Handling, Transfers, Bit, Flow
  <2>2. Instruction(c) = Unary(c, UnaryLarge[c.mn])
    BY <1>3, <2>1, NoOthers DEF Instruction, Transfers, Bit, Flow
  <2>3. QED
    BY <2>1, <2>2
<1>4. CASE c.mn = "Test"
  <2>1. /\ c.mn \in Handling
        /\ c.mn \notin Transfers /\ c.mn \notin DOMAIN AluSet /\ c.mn \notin DOMAIN UnaryLarge
        /\ c.mn \notin DOMAIN ShiftLarge /\ c.mn \notin Bit /\ c.mn \notin Flow
        /\ c.mn \notin {"Aad", "Aam"} /\ c.mn # "Imul"
    BY <1>4, Names DEF Handling, Transfers, Bit, Flow
  <2>2. Instruction(c) = Test(c)
    BY <1>4, <2>1, NoOthers DEF Instruction, Transfers, Bit, Flow
  <2>3. QED
    BY <2>1, <2>2
<1>5. CASE c.mn \in DOMAIN ShiftLarge
  <2>1. /\ c.mn \in Handling
        /\ c.mn \notin Transfers /\ c.mn \notin DOMAIN AluSet /\ c.mn \notin DOMAIN UnaryLarge
        /\ c.mn # "Test" /\ c.mn \notin Bit /\ c.mn \notin Flow
        /\ c.mn \notin {"Aad", "Aam"} /\ c.mn # "Imul"
    BY <1>5, Names DEF Handling, Transfers, Bit, Flow
  <2>2. Instruction(c) = Shift(c)
    BY <1>5, <2>1, NoOthers DEF Instruction, Transfers, Bit, Flow
  <2>3. QED
    BY <2>1, <2>2
<1>6. CASE c.mn \in Bit
  <2>1. /\ c.mn \in Handling
        /\ c.mn \notin Transfers /\ c.mn \notin DOMAIN AluSet /\ c.mn \notin DOMAIN UnaryLarge
        /\ c.mn # "Test" /\ c.mn \notin DOMAIN ShiftLarge /\ c.mn \notin Flow
        /\ c.mn \notin {"Aad", "Aam"} /\ c.mn # "Imul"
    BY <1>6, Names DEF Handling, Transfers, Bit, Flow
  <2>2. Instruction(c) = BitManipulation(c)
    BY <1>6, <2>1, NoOthers DEF Instruction, Transfers, Bit, Flow
  <2>3. QED
    BY <2>1, <2>2
<1>7. CASE c.mn \in Flow
  <2>1. /\ c.mn \in Handling
        /\ c.mn \notin Transfers /\ c.mn \notin DOMAIN AluSet /\ c.mn \notin DOMAIN UnaryLarge
        /\ c.mn # "Test" /\ c.mn \notin DOMAIN ShiftLarge /\ c.mn \notin Bit
        /\ c.mn \notin {"Aad", "Aam"} /\ c.mn # "Imul"
    BY <1>7, Names DEF Handling, Transfers, Bit, Flow
  <2>2. Instruction(c) = FlowControl(c)
    BY <1>7, <2>1, NoOthers DEF Instruction, Transfers, Bit, Flow
  <2>3. QED
    BY <2>1, <2>2
<1>8. CASE c.mn \in {"Aad", "Aam"}
  <2>1. /\ c.mn \in Handling
        /\ c.mn \notin Transfers /\ c.mn \notin DOMAIN AluSet /\ c.mn \notin DOMAIN UnaryLarge
        /\ c.mn # "Test" /\ c.mn \notin DOMAIN ShiftLarge /\ c.mn \notin Bit
        /\ c.mn \notin Flow /\ c.mn # "Imul"
    BY <1>8, Names DEF Handling, Transfers, Bit, Flow
  <2>2. Instruction(c) = Other(c)
    BY <1>8, <2>1, NoOthers DEF Instruction, Transfers, Bit, Flow
  <2>3. QED
    BY <2>1, <2>2
<1>9. QED
  BY <1>1, <1>2, <1>3, <1>4, <1>5, <1>6, <1>7, <1>8

(***************************************************************************)
(* What a template does with its operands                                  *)
(***************************************************************************)
\* Call d is c, but for the value of operand k.
Alike(c, d, k) ==
  /\ k \in DOMAIN c.ops
  /\ DOMAIN d = DOMAIN c /\ {"mn", "size", "lock", "ops"} \subseteq DOMAIN c
  /\ d.mn = c.mn /\ d.size = c.size /\ d.lock = c.lock
  /\ DOMAIN d.ops = DOMAIN c.ops /\ Len(d.ops) = Len(c.ops) /\ Kinds(d) = Kinds(c)
  /\ \A j \in DOMAIN c.ops : d.ops[j].k = c.ops[j].k /\ (j # k => d.ops[j] = c.ops[j])
  /\ c.ops[k].k = "reg" => d.ops[k].size = c.ops[k].size
  /\ c.ops[k].k = "imm" => d.ops[k].type = c.ops[k].type
  /\ c.ops[k].k = "label" => d.ops[k].jump = c.ops[k].jump

\* Instruction g is f with operand y in the place of x, which is the given part.
Swapped(f, g, part, x, y) ==
  /\ g.args = f.args
  /\ IF part = "opcode"
     THEN \E s \in Seq(ByteValue), n \in Nat :
            n % 8 = 0 /\ f.bytes = Append(s, n + x.reg) /\ g.bytes = Append(s, n + y.reg)
     ELSE g.bytes = f.bytes
  /\ IF part = "rm"
     THEN \/ f.rm = x /\ g.rm = y
          \/ f.rm = NoSegment(x) /\ g.rm = NoSegment(y)
     ELSE g.rm = f.rm
  /\ IF part = "reg" THEN f.reg = x.reg /\ g.reg = y.reg ELSE g.reg = f.reg
  /\ DOMAIN g.tail = DOMAIN f.tail
  /\ \A i \in DOMAIN f.tail :
       IF (part = "imm" /\ i = 1) \/ (part = "imm2" /\ i = 2)
       THEN \E n : f.tail[i] = ImmPart(x, n) /\ g.tail[i] = ImmPart(y, n)
       ELSE g.tail[i] = f.tail[i]

\* So it is for operand k of c and d.
SwappedAt(f, g, c, d, k) ==
  f.args[k] # "none" => Swapped(f, g, f.args[k], c.ops[k], d.ops[k])

\* A lock prefix depends on the kinds of the operands.
LEMMA LockAlike ==
  ASSUME NEW c, NEW d, NEW k, Alike(c, d, k)
  PROVE  LockOf(d) = LockOf(c)
<1>1. (\E i \in DOMAIN d.ops : d.ops[i].k = "mem") <=> (\E i \in DOMAIN c.ops : c.ops[i].k = "mem")
  BY DEF Alike
<1>2. d.lock = c.lock
  BY DEF Alike
<1>3. QED
  BY <1>1, <1>2 DEF LockOf

\* The size of an immediate depends on its type.
LEMMA ImmAlike ==
  ASSUME NEW x, NEW y, x.type = y.type
  PROVE  /\ ImmSize(x) = ImmSize(y)
         /\ \A size : /\ ImmSizeOptimize(size, x) = ImmSizeOptimize(size, y)
                      /\ ImmSizeExtend(size, x) = ImmSizeExtend(size, y)
<1>1. ImmSize(x) = ImmSize(y)
  BY DEF ImmSize
<1>2. QED
  BY <1>1 DEF ImmSizeOptimize, ImmSizeExtend

\* Two fields of an instruction are replaced.
LEMMA TwoFields ==
  ASSUME NEW bytes, NEW rm, NEW reg, NEW args, NEW t, NEW a, NEW u
  PROVE  [[bytes |-> bytes, rm |-> rm, reg |-> reg, tail |-> u, args |-> args]
            EXCEPT !.tail = t, !.args = a] =
           [bytes |-> bytes, rm |-> rm, reg |-> reg, tail |-> t, args |-> a]
<1> DEFINE f == [bytes |-> bytes, rm |-> rm, reg |-> reg, tail |-> u, args |-> args]
           g == [bytes |-> bytes, rm |-> rm, reg |-> reg, tail |-> t, args |-> args]
<1>1. [f EXCEPT !.tail = t] = g
  OBVIOUS
<1>2. [g EXCEPT !.args = a] = [bytes |-> bytes, rm |-> rm, reg |-> reg, tail |-> t, args |-> a]
  OBVIOUS
<1> HIDE DEF f, g
<1>3. [f EXCEPT !.tail = t, !.args = a] =
        [bytes |-> bytes, rm |-> rm, reg |-> reg, tail |-> t, args |-> a]
  BY <1>1, <1>2, Zenon
<1>4. QED
  BY <1>3 DEF f

\* An instruction with an immediate behind it.
LEMMA WithImmOf ==
  ASSUME NEW bytes, NEW rm, NEW reg, NEW args, NEW imm, NEW n
  PROVE  WithImm(Form(bytes, rm, reg, args), imm, n) =
           [bytes |-> bytes, rm |-> rm, reg |-> reg, tail |-> <<ImmPart(imm, n)>>,
            args |-> Append(args, "imm")]
<1> DEFINE f == Form(bytes, rm, reg, args)
<1>1. f.tail = <<>> /\ f.args = args
  BY DEF Form
<1>2. WithImm(f, imm, n) = [f EXCEPT !.tail = Append(f.tail, ImmPart(imm, n)),
                                     !.args = Append(f.args, "imm")]
  BY DEF WithImm
<1>3. Append(f.tail, ImmPart(imm, n)) = <<ImmPart(imm, n)>>
  BY <1>1
<1>4. WithImm(f, imm, n) = [f EXCEPT !.tail = <<ImmPart(imm, n)>>, !.args = Append(args, "imm")]
  BY <1>1, <1>2, <1>3
<1>5. QED
  BY <1>4, TwoFields DEF Form

\* One and two entries and another one.
LEMMA AppendOne == ASSUME NEW x, NEW z PROVE Append(<<x>>, z) = <<x, z>>
<1> DEFINE S == {x, z}
           s == <<x>>
           t == <<x, z>>
           a == Append(s, z)
<1>1. s \in Seq(S) /\ Len(s) = 1 /\ s[1] = x
  OBVIOUS
<1>2. t \in Seq(S) /\ Len(t) = 2 /\ t[1] = x /\ t[2] = z
  OBVIOUS
<1>0. z \in S
  OBVIOUS
<1>5. s \in Seq(Range(s))
  BY <1>1, OwnRange
<1> HIDE DEF s, t, S
<1>3. a \in Seq(S)
  BY <1>1, <1>0
<1>4. Len(a) = Len(s) + 1
  BY <1>1, <1>0
<1>6. \A i \in 1 .. Len(s) : a[i] = s[i]
  BY <1>1, <1>0
<1>7. a[Len(s) + 1] = z
  BY <1>5, AppendToSeq
<1>8. Len(a) = 2 /\ a[1] = x /\ a[2] = z
  BY <1>1, <1>4, <1>6, <1>7
<1> HIDE DEF a
<1>9. a = t
  BY <1>2, <1>3, <1>8, SeqEqual
<1>10. QED
  BY <1>9 DEF s, t, a

\* A pair with one more element is a triple.
LEMMA AppendPair == ASSUME NEW x, NEW y, NEW z PROVE Append(<<x, y>>, z) = <<x, y, z>>
<1> DEFINE S == {x, y, z}
           s == <<x, y>>
           t == <<x, y, z>>
           a == Append(s, z)
<1>1. s \in Seq(S) /\ Len(s) = 2 /\ s[1] = x /\ s[2] = y
  OBVIOUS
<1>2. t \in Seq(S) /\ Len(t) = 3 /\ t[1] = x /\ t[2] = y /\ t[3] = z
  OBVIOUS
<1>0. z \in S
  OBVIOUS
<1>5. s \in Seq(Range(s))
  BY <1>1, OwnRange
<1> HIDE DEF s, t, S
<1>3. a \in Seq(S)
  BY <1>1, <1>0
<1>4. Len(a) = Len(s) + 1
  BY <1>1, <1>0
<1>6. \A i \in 1 .. Len(s) : a[i] = s[i]
  BY <1>1, <1>0
<1>7. a[Len(s) + 1] = z
  BY <1>5, AppendToSeq
<1>8. Len(a) = 3 /\ a[1] = x /\ a[2] = y /\ a[3] = z
  BY <1>1, <1>4, <1>6, <1>7
<1> HIDE DEF a
<1>9. a = t
  BY <1>2, <1>3, <1>8, SeqEqual
<1>10. QED
  BY <1>9 DEF s, t, a

\* And so with the parts that the handles name.
LEMMA WithImmTo ==
  ASSUME NEW bytes, NEW rm, NEW reg, NEW args, NEW imm, NEW n, NEW all, Append(args, "imm") = all
  PROVE  WithImm(Form(bytes, rm, reg, args), imm, n) =
           [bytes |-> bytes, rm |-> rm, reg |-> reg, tail |-> <<ImmPart(imm, n)>>, args |-> all]
<1>1. WithImm(Form(bytes, rm, reg, args), imm, n) =
        [bytes |-> bytes, rm |-> rm, reg |-> reg, tail |-> <<ImmPart(imm, n)>>,
         args |-> Append(args, "imm")]
  BY WithImmOf
<1>2. QED
  BY <1>1

\* One operand in r/m.
LEMMA SwapRm ==
  ASSUME NEW c, NEW d, NEW k, Alike(c, d, k), k = 1, NEW bytes, NEW reg, NEW args, args[1] = "rm"
  PROVE  SwappedAt(Form(bytes, c.ops[1], reg, args), Form(bytes, d.ops[1], reg, args), c, d, k)
BY DEF SwappedAt, Swapped, Form

\* Two operands, the first in r/m.
LEMMA SwapRmReg ==
  ASSUME NEW c, NEW d, NEW k, Alike(c, d, k), DOMAIN c.ops = 1 .. 2, NEW bytes
  PROVE  SwappedAt(RmReg(bytes, c.ops[1], c.ops[2].reg), RmReg(bytes, d.ops[1], d.ops[2].reg), c, d, k)
<1>1. CASE k = 1
  <2>1. d.ops[2] = c.ops[2]
    BY <1>1 DEF Alike
  <2>2. QED
    BY <1>1, <2>1 DEF SwappedAt, Swapped, Form, RmReg
<1>2. CASE k = 2
  <2>1. d.ops[1] = c.ops[1]
    BY <1>2 DEF Alike
  <2>2. QED
    BY <1>2, <2>1 DEF SwappedAt, Swapped, Form, RmReg
<1>3. QED
  BY <1>1, <1>2 DEF Alike

\* Two operands, the second in r/m.
LEMMA SwapRegRm ==
  ASSUME NEW c, NEW d, NEW k, Alike(c, d, k), DOMAIN c.ops = 1 .. 2, NEW bytes
  PROVE  SwappedAt(RegRm(bytes, c.ops[1].reg, c.ops[2]), RegRm(bytes, d.ops[1].reg, d.ops[2]), c, d, k)
<1>1. CASE k = 1
  <2>1. d.ops[2] = c.ops[2]
    BY <1>1 DEF Alike
  <2>2. QED
    BY <1>1, <2>1 DEF SwappedAt, Swapped, Form, RegRm
<1>2. CASE k = 2
  <2>1. d.ops[1] = c.ops[1]
    BY <1>2 DEF Alike
  <2>2. QED
    BY <1>2, <2>1 DEF SwappedAt, Swapped, Form, RegRm
<1>3. QED
  BY <1>1, <1>2 DEF Alike

\* An operand in r/m and an immediate behind it; the immediate is operand i of the
\* call, and the operand in r/m, operand j, may lose its segment.
LEMMA SwapRmImm ==
  ASSUME NEW c, NEW d, NEW k, Alike(c, d, k), DOMAIN c.ops = 1 .. 2,
         NEW i \in 1 .. 2, NEW j \in 1 .. 2, i # j, NEW bytes, NEW reg, NEW n, NEW x, NEW y,
         \/ x = c.ops[j] /\ y = d.ops[j]
         \/ x = NoSegment(c.ops[j]) /\ y = NoSegment(d.ops[j]),
         NEW args, args[j] = "rm", args[i] = "imm"
  PROVE  SwappedAt([bytes |-> bytes, rm |-> x, reg |-> reg,
                    tail |-> <<ImmPart(c.ops[i], n)>>, args |-> args],
                   [bytes |-> bytes, rm |-> y, reg |-> reg,
                    tail |-> <<ImmPart(d.ops[i], n)>>, args |-> args], c, d, k)
<1> DEFINE s == <<ImmPart(c.ops[i], n)>>
           t == <<ImmPart(d.ops[i], n)>>
           f == [bytes |-> bytes, rm |-> x, reg |-> reg, tail |-> s, args |-> args]
           g == [bytes |-> bytes, rm |-> y, reg |-> reg, tail |-> t, args |-> args]
<1>0. DOMAIN s = {1} /\ DOMAIN t = {1} /\ s[1] = ImmPart(c.ops[i], n) /\ t[1] = ImmPart(d.ops[i], n)
  OBVIOUS
<1> HIDE DEF s, t
<1>1. /\ f.bytes = g.bytes /\ f.rm = x /\ g.rm = y /\ f.reg = g.reg /\ f.tail = s /\ g.tail = t
      /\ f.args = args /\ g.args = args
  OBVIOUS
<1> HIDE DEF f, g
<1>2. CASE k = i
  <2>1. d.ops[j] = c.ops[j]
    BY <1>2 DEF Alike
  <2>2. x = y /\ args[k] = "imm"
    BY <1>2, <2>1
  <2>3. /\ f.tail[1] = ImmPart(c.ops[k], n) /\ g.tail[1] = ImmPart(d.ops[k], n)
        /\ DOMAIN f.tail = {1} /\ DOMAIN g.tail = {1} /\ f.rm = g.rm
    BY <1>0, <1>1, <1>2, <2>2
  <2>4. \A h \in DOMAIN f.tail : \E m : f.tail[h] = ImmPart(c.ops[k], m)
                                        /\ g.tail[h] = ImmPart(d.ops[k], m)
    BY <2>3
  <2>5. Swapped(f, g, args[k], c.ops[k], d.ops[k])
    <3>1. args[k] \notin {"opcode", "rm", "reg", "imm2"} /\ args[k] = "imm"
      BY <2>2
    <3>2. \A h \in DOMAIN f.tail :
            IF (args[k] = "imm" /\ h = 1) \/ (args[k] = "imm2" /\ h = 2)
            THEN \E m : f.tail[h] = ImmPart(c.ops[k], m) /\ g.tail[h] = ImmPart(d.ops[k], m)
            ELSE g.tail[h] = f.tail[h]
      BY <2>3, <2>4, <3>1
    <3>3. g.args = f.args /\ g.bytes = f.bytes /\ g.rm = f.rm /\ g.reg = f.reg
          /\ DOMAIN g.tail = DOMAIN f.tail
      BY <1>1, <2>2, <2>3
    <3>4. QED
      BY <3>1, <3>2, <3>3 DEF Swapped
  <2>6. QED
    BY <1>1, <2>2, <2>5 DEF SwappedAt, f, g, s, t
<1>3. CASE k = j
  <2>1. d.ops[i] = c.ops[i]
    BY <1>3 DEF Alike
  <2>2. s = t /\ args[k] = "rm"
    BY <1>3, <2>1 DEF s, t
  <2>3. Swapped(f, g, "rm", c.ops[k], d.ops[k])
    BY <1>0, <1>1, <1>3, <2>2 DEF Swapped
  <2>4. QED
    BY <1>1, <2>2, <2>3 DEF SwappedAt, f, g, s, t
<1>4. QED
  BY <1>2, <1>3 DEF Alike

\* An immediate, alone or before another one.
LEMMA SwapImms ==
  ASSUME NEW c, NEW d, NEW k, Alike(c, d, k), DOMAIN c.ops = 1 .. Len(c.ops),
         \A i \in DOMAIN c.ops : c.ops[i].k = "imm", Len(c.ops) \in {1, 2},
         NEW bytes
  PROVE  SwappedAt(OpcodeImm(bytes, c.ops), OpcodeImm(bytes, d.ops), c, d, k)
<1>1. /\ DOMAIN d.ops = DOMAIN c.ops /\ Len(d.ops) = Len(c.ops) /\ k \in DOMAIN c.ops
      /\ k \in {1, 2} /\ (k = 2 => Len(c.ops) = 2)
  BY DEF Alike
<1>2. \A i \in DOMAIN c.ops : ImmSize(d.ops[i]) = ImmSize(c.ops[i])
  <2> SUFFICES ASSUME NEW i \in DOMAIN c.ops PROVE ImmSize(d.ops[i]) = ImmSize(c.ops[i])
    OBVIOUS
  <2>1. d.ops[i].type = c.ops[i].type
    BY DEF Alike
  <2>2. QED
    BY <2>1, ImmAlike
<1> DEFINE s == [i \in DOMAIN c.ops |-> ImmPart(c.ops[i], ImmSize(c.ops[i]))]
           t == [i \in DOMAIN d.ops |-> ImmPart(d.ops[i], ImmSize(d.ops[i]))]
           args == SubSeq(<<"imm", "imm2">>, 1, Len(c.ops))
           f == OpcodeImm(bytes, c.ops)
           g == OpcodeImm(bytes, d.ops)
<1>3. /\ DOMAIN s = DOMAIN c.ops /\ DOMAIN t = DOMAIN c.ops
      /\ \A i \in DOMAIN c.ops : /\ s[i] = ImmPart(c.ops[i], ImmSize(c.ops[i]))
                                 /\ t[i] = ImmPart(d.ops[i], ImmSize(c.ops[i]))
                                 /\ i # k => t[i] = s[i]
  BY <1>1, <1>2 DEF Alike
<1>4. (k = 1 => args[k] = "imm") /\ (k = 2 => args[k] = "imm2")
  <2>1. Len(c.ops) = 1 \/ Len(c.ops) = 2
    OBVIOUS
  <2>2. QED
    BY <1>1, <2>1
<1>5. /\ f.bytes = g.bytes /\ f.rm = g.rm /\ f.reg = g.reg /\ f.tail = s /\ g.tail = t
      /\ f.args = args /\ g.args = args
  BY <1>1 DEF OpcodeImm, Opcode
<1> HIDE DEF s, t, args, f, g
<1>6. Swapped(f, g, args[k], c.ops[k], d.ops[k])
  <2>1. ASSUME NEW i \in DOMAIN f.tail
        PROVE  IF (args[k] = "imm" /\ i = 1) \/ (args[k] = "imm2" /\ i = 2)
               THEN \E n : f.tail[i] = ImmPart(c.ops[k], n) /\ g.tail[i] = ImmPart(d.ops[k], n)
               ELSE g.tail[i] = f.tail[i]
    <3>1. CASE i = k
      <4>1. /\ f.tail[i] = ImmPart(c.ops[k], ImmSize(c.ops[k]))
            /\ g.tail[i] = ImmPart(d.ops[k], ImmSize(c.ops[k]))
        BY <1>1, <1>3, <1>5, <3>1
      <4>2. (args[k] = "imm" /\ i = 1) \/ (args[k] = "imm2" /\ i = 2)
        <5>1. CASE k = 1
          <6>1. args[k] = "imm"
            BY <1>4, <5>1
          <6>2. i = 1
            BY <3>1, <5>1
          <6>3. QED
            BY <6>1, <6>2
        <5>2. CASE k = 2
          <6>1. args[k] = "imm2"
            BY <1>4, <5>2
          <6>2. i = 2
            BY <3>1, <5>2
          <6>3. QED
            BY <6>1, <6>2
        <5>3. QED
          BY <1>1, <5>1, <5>2
      <4>3. QED
        BY <4>1, <4>2
    <3>2. CASE i # k
      BY <1>1, <1>3, <1>4, <1>5, <3>2
    <3>3. QED
      BY <3>1, <3>2
  <2>2. args[k] \notin {"opcode", "rm", "reg"} /\ DOMAIN g.tail = DOMAIN f.tail
    BY <1>1, <1>3, <1>4, <1>5
  <2>3. QED
    BY <1>5, <2>1, <2>2 DEF Swapped
<1>7. QED
  BY <1>5, <1>6 DEF SwappedAt, f, g

\* A third operand that is not replaced, or a second one.
LEMMA SwapNone ==
  ASSUME NEW c, NEW d, NEW k, NEW f, NEW g, f.args[k] = "none"
  PROVE  SwappedAt(f, g, c, d, k)
BY DEF SwappedAt

\* A label is not part of the instruction.
LEMMA SwapLabel ==
  ASSUME NEW c, NEW d, NEW k, NEW f, f.args[k] \in {"none", "label"}
  PROVE  SwappedAt(f, f, c, d, k)
BY DEF SwappedAt, Swapped

\* A register in the opcode.
LEMMA SwapOpcode ==
  ASSUME NEW c, NEW d, NEW k, Alike(c, d, k), k = 1, NEW s \in Seq(ByteValue),
         NEW n \in Nat, n % 8 = 0,
         NEW tail, NEW args, args[1] = "opcode"
  PROVE  SwappedAt(Opcode(Append(s, n + c.ops[1].reg), tail, args),
                   Opcode(Append(s, n + d.ops[1].reg), tail, args), c, d, k)
<1> DEFINE f == Opcode(Append(s, n + c.ops[1].reg), tail, args)
           g == Opcode(Append(s, n + d.ops[1].reg), tail, args)
<1>1. /\ f.bytes = Append(s, n + c.ops[1].reg) /\ g.bytes = Append(s, n + d.ops[1].reg)
      /\ f.rm = g.rm /\ f.reg = g.reg /\ f.tail = g.tail /\ f.args = args /\ g.args = args
  BY DEF Opcode
<1> HIDE DEF f, g
<1>2. \E t \in Seq(ByteValue), m \in Nat :
        m % 8 = 0 /\ f.bytes = Append(t, m + c.ops[1].reg) /\ g.bytes = Append(t, m + d.ops[1].reg)
  BY <1>1
<1>3. args[k] = "opcode"
  OBVIOUS
<1>4. \A i \in DOMAIN f.tail :
        IF (args[k] = "imm" /\ i = 1) \/ (args[k] = "imm2" /\ i = 2)
        THEN \E m : f.tail[i] = ImmPart(c.ops[k], m) /\ g.tail[i] = ImmPart(d.ops[k], m)
        ELSE g.tail[i] = f.tail[i]
  BY <1>1, <1>3
<1>5. Swapped(f, g, args[k], c.ops[k], d.ops[k])
  BY <1>1, <1>2, <1>3, <1>4 DEF Swapped
<1>6. QED
  BY <1>1, <1>5 DEF SwappedAt, f, g

\* The two operands of template_prshift_operands, with a count in CL.
LEMMA SwapRmRegNone ==
  ASSUME NEW c, NEW d, NEW k, Alike(c, d, k), DOMAIN c.ops = 1 .. 3, NEW bytes
  PROVE  SwappedAt(Form(bytes, c.ops[1], c.ops[2].reg, <<"rm", "reg", "none">>),
                   Form(bytes, d.ops[1], d.ops[2].reg, <<"rm", "reg", "none">>), c, d, k)
<1>1. CASE k = 1
  <2>1. d.ops[2] = c.ops[2]
    BY <1>1 DEF Alike
  <2>2. QED
    BY <1>1, <2>1 DEF SwappedAt, Swapped, Form
<1>2. CASE k = 2
  <2>1. d.ops[1] = c.ops[1]
    BY <1>2 DEF Alike
  <2>2. QED
    BY <1>2, <2>1 DEF SwappedAt, Swapped, Form
<1>3. CASE k = 3
  BY <1>3 DEF SwappedAt, Form
<1>4. QED
  BY <1>1, <1>2, <1>3 DEF Alike

\* And with an immediate count.
LEMMA SwapRmRegImm ==
  ASSUME NEW c, NEW d, NEW k, Alike(c, d, k), DOMAIN c.ops = 1 .. 3, NEW bytes, NEW n
  PROVE  SwappedAt(WithImm(RmReg(bytes, c.ops[1], c.ops[2].reg), c.ops[3], n),
                   WithImm(RmReg(bytes, d.ops[1], d.ops[2].reg), d.ops[3], n), c, d, k)
<1> DEFINE s == <<ImmPart(c.ops[3], n)>>
           t == <<ImmPart(d.ops[3], n)>>
           f == WithImm(RmReg(bytes, c.ops[1], c.ops[2].reg), c.ops[3], n)
           g == WithImm(RmReg(bytes, d.ops[1], d.ops[2].reg), d.ops[3], n)
<1>0. DOMAIN s = {1} /\ DOMAIN t = {1} /\ s[1] = ImmPart(c.ops[3], n) /\ t[1] = ImmPart(d.ops[3], n)
  OBVIOUS
<1>1. /\ f.bytes = bytes /\ f.rm = c.ops[1] /\ f.reg = c.ops[2].reg /\ f.tail = s
      /\ f.args = <<"rm", "reg", "imm">>
  <2>1. f = WithImm(Form(bytes, c.ops[1], c.ops[2].reg, <<"rm", "reg">>), c.ops[3], n)
    BY DEF RmReg
  <2> DEFINE two == <<"rm", "reg">>
             all == <<"rm", "reg", "imm">>
  <2>2. Append(two, "imm") = all
    BY AppendPair
  <2> HIDE DEF two, all
  <2>3. WithImm(Form(bytes, c.ops[1], c.ops[2].reg, two), c.ops[3], n) =
          [bytes |-> bytes, rm |-> c.ops[1], reg |-> c.ops[2].reg,
           tail |-> <<ImmPart(c.ops[3], n)>>, args |-> all]
    BY <2>2, WithImmTo
  <2> HIDE DEF f
  <2>4. QED
    BY <2>1, <2>3 DEF two, all
<1>2. /\ g.bytes = bytes /\ g.rm = d.ops[1] /\ g.reg = d.ops[2].reg /\ g.tail = t
      /\ g.args = <<"rm", "reg", "imm">>
  <2>1. g = WithImm(Form(bytes, d.ops[1], d.ops[2].reg, <<"rm", "reg">>), d.ops[3], n)
    BY DEF RmReg
  <2> DEFINE two == <<"rm", "reg">>
             all == <<"rm", "reg", "imm">>
  <2>2. Append(two, "imm") = all
    BY AppendPair
  <2> HIDE DEF two, all
  <2>3. WithImm(Form(bytes, d.ops[1], d.ops[2].reg, two), d.ops[3], n) =
          [bytes |-> bytes, rm |-> d.ops[1], reg |-> d.ops[2].reg,
           tail |-> <<ImmPart(d.ops[3], n)>>, args |-> all]
    BY <2>2, WithImmTo
  <2> HIDE DEF g
  <2>4. QED
    BY <2>1, <2>3 DEF two, all
<1>3. k \in {1, 2, 3} /\ \A j \in {1, 2, 3} : j # k => d.ops[j] = c.ops[j]
  BY DEF Alike
<1> HIDE DEF f, g
<1>4. CASE k = 1
  <2>1. f.reg = g.reg /\ f.tail = g.tail /\ f.args[k] = "rm"
    BY <1>1, <1>2, <1>3, <1>4
  <2>2. Swapped(f, g, "rm", c.ops[k], d.ops[k])
    BY <1>1, <1>2, <1>4, <2>1 DEF Swapped
  <2>3. QED
    BY <2>1, <2>2 DEF SwappedAt, f, g
<1>5. CASE k = 2
  <2>1. f.rm = g.rm /\ f.tail = g.tail /\ f.args[k] = "reg"
    BY <1>1, <1>2, <1>3, <1>5
  <2>2. Swapped(f, g, "reg", c.ops[k], d.ops[k])
    BY <1>1, <1>2, <1>5, <2>1 DEF Swapped
  <2>3. QED
    BY <2>1, <2>2 DEF SwappedAt, f, g
<1>6. CASE k = 3
  <2>1. f.reg = g.reg /\ f.rm = g.rm /\ f.args[k] = "imm"
    BY <1>1, <1>2, <1>3, <1>6
  <2> HIDE DEF s, t
  <2>2. \A i \in DOMAIN f.tail : \E m : f.tail[i] = ImmPart(c.ops[k], m)
                                        /\ g.tail[i] = ImmPart(d.ops[k], m)
    BY <1>0, <1>1, <1>2, <1>6
  <2>3. /\ DOMAIN f.tail = {1} /\ DOMAIN g.tail = DOMAIN f.tail /\ f.bytes = g.bytes
        /\ f.args = g.args
    BY <1>0, <1>1, <1>2
  <2>4. \A i \in DOMAIN f.tail :
          IF ("imm" = "imm" /\ i = 1) \/ ("imm" = "imm2" /\ i = 2)
          THEN \E m : f.tail[i] = ImmPart(c.ops[k], m) /\ g.tail[i] = ImmPart(d.ops[k], m)
          ELSE g.tail[i] = f.tail[i]
    BY <2>2, <2>3
  <2>5. Swapped(f, g, "imm", c.ops[k], d.ops[k])
    BY <2>1, <2>3, <2>4 DEF Swapped
  <2>6. QED
    BY <2>1, <2>5 DEF SwappedAt, f, g
<1>7. QED
  BY <1>3, <1>4, <1>5, <1>6

(***************************************************************************)
(* The operands of a call, by their kinds                                  *)
(***************************************************************************)
\* A call with one kind of operand has one operand, of that kind.
LEMMA OneKind ==
  ASSUME NEW c, c.ops \in Seq(Range(c.ops)), NEW x, Kinds(c) = <<x>>
  PROVE  DOMAIN c.ops = 1 .. 1 /\ Len(c.ops) = 1 /\ c.ops[1].k = x
<1>1. DOMAIN Kinds(c) = DOMAIN c.ops /\ DOMAIN Kinds(c) = 1 .. 1
  <2>1. DOMAIN Kinds(c) = DOMAIN c.ops
    BY DEF Kinds
  <2>2. QED
    BY <2>1
<1>2. \A j \in DOMAIN c.ops : c.ops[j].k = Kinds(c)[j]
  BY DEF Kinds
<1>3. Len(c.ops) \in Nat /\ DOMAIN c.ops = 1 .. Len(c.ops)
  OBVIOUS
<1>4. Len(c.ops) = 1
  <2>1. 1 \in DOMAIN c.ops /\ 2 \notin DOMAIN c.ops
    BY <1>1
  <2>2. QED
    BY <1>3, <2>1
<1>5. QED
  BY <1>1, <1>2, <1>3, <1>4

\* So with two.
LEMMA TwoKinds ==
  ASSUME NEW c, c.ops \in Seq(Range(c.ops)), NEW x, NEW y, Kinds(c) = <<x, y>>
  PROVE  DOMAIN c.ops = 1 .. 2 /\ Len(c.ops) = 2 /\ c.ops[1].k = x /\ c.ops[2].k = y
<1>1. DOMAIN Kinds(c) = DOMAIN c.ops /\ DOMAIN Kinds(c) = 1 .. 2
  <2>1. DOMAIN Kinds(c) = DOMAIN c.ops
    BY DEF Kinds
  <2>2. QED
    BY <2>1
<1>2. \A j \in DOMAIN c.ops : c.ops[j].k = Kinds(c)[j]
  BY DEF Kinds
<1>3. Len(c.ops) \in Nat /\ DOMAIN c.ops = 1 .. Len(c.ops)
  OBVIOUS
<1>4. Len(c.ops) = 2
  <2>1. 2 \in DOMAIN c.ops /\ 3 \notin DOMAIN c.ops
    BY <1>1
  <2>2. QED
    BY <1>3, <2>1
<1>5. QED
  BY <1>1, <1>2, <1>3, <1>4

\* So with three.
LEMMA ThreeKinds ==
  ASSUME NEW c, c.ops \in Seq(Range(c.ops)), NEW x, NEW y, NEW z, Kinds(c) = <<x, y, z>>
  PROVE  /\ DOMAIN c.ops = 1 .. 3 /\ Len(c.ops) = 3
         /\ c.ops[1].k = x /\ c.ops[2].k = y /\ c.ops[3].k = z
<1>1. DOMAIN Kinds(c) = DOMAIN c.ops /\ DOMAIN Kinds(c) = 1 .. 3
  <2>1. DOMAIN Kinds(c) = DOMAIN c.ops
    BY DEF Kinds
  <2>2. QED
    BY <2>1
<1>2. \A j \in DOMAIN c.ops : c.ops[j].k = Kinds(c)[j]
  BY DEF Kinds
<1>3. Len(c.ops) \in Nat /\ DOMAIN c.ops = 1 .. Len(c.ops)
  OBVIOUS
<1>4. Len(c.ops) = 3
  <2>1. 3 \in DOMAIN c.ops /\ 4 \notin DOMAIN c.ops
    BY <1>1
  <2>2. QED
    BY <1>3, <2>1
<1>5. QED
  BY <1>1, <1>2, <1>3, <1>4

(***************************************************************************)
(* The templates and the functions                                         *)
(***************************************************************************)
\* Call d is c, but for an operand that can be replaced.
Twins(c, d, k) ==
  Alike(c, d, k) /\ c.ops \in Seq(Range(c.ops)) /\ d.ops \in Seq(Range(d.ops))

\* A register and an rm, in one of the two orders.
LEMMA SwapTemplate2Operands ==
  ASSUME NEW c, NEW d, NEW k, Twins(c, d, k), Kinds(c) \in RegFirst \cup RegSecond, NEW opcode
  PROVE  SwappedAt(Template2Operands(c, opcode), Template2Operands(d, opcode), c, d, k)
<1>1. Alike(c, d, k) /\ DOMAIN c.ops = 1 .. 2
  BY TwoKinds DEF Twins, RegFirst, RegSecond
<1>2. d.size = c.size /\ d.lock = c.lock /\ d.ops[1].k = c.ops[1].k
  BY <1>1 DEF Alike
<1>3. CASE c.ops[1].k = "mem"
  <2> DEFINE bytes == OpcodeBytes(c.size, c.lock, opcode)
  <2>1. /\ Template2Operands(c, opcode) = RmReg(bytes, c.ops[1], c.ops[2].reg)
        /\ Template2Operands(d, opcode) = RmReg(bytes, d.ops[1], d.ops[2].reg)
    BY <1>2, <1>3 DEF Template2Operands
  <2>2. QED
    BY <1>1, <2>1, SwapRmReg
<1>4. CASE c.ops[1].k # "mem"
  <2> DEFINE bytes == OpcodeBytes(c.size, FALSE, ToReg(opcode))
  <2>1. /\ Template2Operands(c, opcode) = RegRm(bytes, c.ops[1].reg, c.ops[2])
        /\ Template2Operands(d, opcode) = RegRm(bytes, d.ops[1].reg, d.ops[2])
    BY <1>2, <1>4 DEF Template2Operands
  <2>2. QED
    BY <1>1, <2>1, SwapRegRm
<1>5. QED
  BY <1>3, <1>4

\* A register and an rm, in the order that the opcode does not tell.
LEMMA SwapTemplate2OperandsSymetric ==
  ASSUME NEW c, NEW d, NEW k, Twins(c, d, k), Kinds(c) \in RegFirst \cup RegSecond, NEW opcode
  PROVE  SwappedAt(Template2OperandsSymetric(c, opcode), Template2OperandsSymetric(d, opcode),
                   c, d, k)
<1>1. Alike(c, d, k) /\ DOMAIN c.ops = 1 .. 2
  BY TwoKinds DEF Twins, RegFirst, RegSecond
<1>2. d.size = c.size /\ d.ops[1].k = c.ops[1].k
  BY <1>1 DEF Alike
<1> DEFINE bytes == OpcodeBytes(c.size, FALSE, opcode)
<1>3. CASE c.ops[1].k = "mem"
  <2>1. /\ Template2OperandsSymetric(c, opcode) = RmReg(bytes, c.ops[1], c.ops[2].reg)
        /\ Template2OperandsSymetric(d, opcode) = RmReg(bytes, d.ops[1], d.ops[2].reg)
    BY <1>2, <1>3 DEF Template2OperandsSymetric
  <2>2. QED
    BY <1>1, <2>1, SwapRmReg
<1>4. CASE c.ops[1].k # "mem"
  <2>1. /\ Template2OperandsSymetric(c, opcode) = RegRm(bytes, c.ops[1].reg, c.ops[2])
        /\ Template2OperandsSymetric(d, opcode) = RegRm(bytes, d.ops[1].reg, d.ops[2])
    BY <1>2, <1>4 DEF Template2OperandsSymetric
  <2>2. QED
    BY <1>1, <2>1, SwapRegRm
<1>5. QED
  BY <1>3, <1>4

\* A register that is loaded from a smaller rm.
LEMMA SwapTemplateExtendVal ==
  ASSUME NEW c, NEW d, NEW k, Twins(c, d, k), Kinds(c) \in RegFirst, NEW opcode
  PROVE  SwappedAt(TemplateExtendVal(c, opcode), TemplateExtendVal(d, opcode), c, d, k)
<1>1. Alike(c, d, k) /\ DOMAIN c.ops = 1 .. 2 /\ c.ops[1].k = "reg"
  BY TwoKinds DEF Twins, RegFirst
<1>2. d.size = c.size
  BY <1>1 DEF Alike
<1>3. d.ops[1].size = c.ops[1].size
  <2>1. k = 1 => d.ops[1].size = c.ops[1].size
    BY <1>1 DEF Alike
  <2>2. k # 1 => d.ops[1] = c.ops[1]
    BY <1>1 DEF Alike
  <2>3. QED
    BY <2>1, <2>2
<1> DEFINE bytes == OnlyExtendedPrefixs(c.ops[1].size, FALSE,
                                        IF c.size = WORD THEN SetBit(opcode, 0) ELSE opcode)
<1>4. /\ TemplateExtendVal(c, opcode) = RegRm(bytes, c.ops[1].reg, c.ops[2])
      /\ TemplateExtendVal(d, opcode) = RegRm(bytes, d.ops[1].reg, d.ops[2])
  BY <1>2, <1>3 DEF TemplateExtendVal
<1>5. QED
  BY <1>1, <1>4, SwapRegRm

\* A register and an rm of the same size, behind a two-byte opcode.
LEMMA SwapTemplateBitScan ==
  ASSUME NEW c, NEW d, NEW k, Twins(c, d, k), Kinds(c) \in RegFirst, NEW opcode
  PROVE  SwappedAt(TemplateBitScan(c, opcode), TemplateBitScan(d, opcode), c, d, k)
<1>1. Alike(c, d, k) /\ DOMAIN c.ops = 1 .. 2
  BY TwoKinds DEF Twins, RegFirst
<1>2. d.size = c.size
  BY <1>1 DEF Alike
<1> DEFINE bytes == OnlyExtendedPrefixs(c.size, FALSE, opcode)
<1>4. /\ TemplateBitScan(c, opcode) = RegRm(bytes, c.ops[1].reg, c.ops[2])
      /\ TemplateBitScan(d, opcode) = RegRm(bytes, d.ops[1].reg, d.ops[2])
  BY <1>2 DEF TemplateBitScan
<1>5. QED
  BY <1>1, <1>4, SwapRegRm

\* The type of an immediate stays, and with it its size.
LEMMA SameImmediate ==
  ASSUME NEW c, NEW d, NEW k, Alike(c, d, k), NEW i \in DOMAIN c.ops, c.ops[i].k = "imm"
  PROVE  /\ d.ops[i].k = "imm" /\ ImmSize(d.ops[i]) = ImmSize(c.ops[i])
         /\ \A size : /\ ImmSizeOptimize(size, d.ops[i]) = ImmSizeOptimize(size, c.ops[i])
                      /\ ImmSizeExtend(size, d.ops[i]) = ImmSizeExtend(size, c.ops[i])
<1>1. d.ops[i].type = c.ops[i].type /\ d.ops[i].k = "imm"
  <2>1. CASE i = k
    BY <2>1 DEF Alike
  <2>2. CASE i # k
    BY <2>2 DEF Alike
  <2>3. QED
    BY <2>1, <2>2
<1>2. QED
  BY <1>1, ImmAlike

\* An rm and an immediate that may be shortened.
LEMMA SwapTemplateImm ==
  ASSUME NEW c, NEW d, NEW k, Twins(c, d, k), Kinds(c) \in ImmSecond, NEW opcode, NEW mode
  PROVE  SwappedAt(TemplateImm(c, opcode, mode), TemplateImm(d, opcode, mode), c, d, k)
<1>1. Alike(c, d, k) /\ DOMAIN c.ops = 1 .. 2 /\ c.ops[2].k = "imm"
  BY TwoKinds DEF Twins, ImmSecond
<1>2. d.size = c.size /\ ImmSizeExtend(c.size, d.ops[2]) = ImmSizeExtend(c.size, c.ops[2])
  <2>1. d.size = c.size
    BY <1>1 DEF Alike
  <2>2. 2 \in DOMAIN c.ops
    BY <1>1
  <2>3. QED
    BY <1>1, <2>1, <2>2, SameImmediate
<1> DEFINE bytes == OpcodeBytes(c.size, FALSE, opcode)
           n == ImmSizeExtend(c.size, c.ops[2])
           args == <<"rm", "imm">>
           one == <<"rm">>
<1>3. Append(one, "imm") = args /\ args[1] = "rm" /\ args[2] = "imm"
  BY AppendOne
<1>4. /\ TemplateImm(c, opcode, mode) = WithImm(Form(bytes, c.ops[1], mode, one), c.ops[2], n)
      /\ TemplateImm(d, opcode, mode) = WithImm(Form(bytes, d.ops[1], mode, one), d.ops[2], n)
  BY <1>2 DEF TemplateImm
<1> HIDE DEF bytes, n, args, one
<1>5. /\ TemplateImm(c, opcode, mode) = [bytes |-> bytes, rm |-> c.ops[1], reg |-> mode,
                                         tail |-> <<ImmPart(c.ops[2], n)>>, args |-> args]
      /\ TemplateImm(d, opcode, mode) = [bytes |-> bytes, rm |-> d.ops[1], reg |-> mode,
                                         tail |-> <<ImmPart(d.ops[2], n)>>, args |-> args]
  BY <1>3, <1>4, WithImmTo
<1>6. 1 \in 1 .. 2 /\ 2 \in 1 .. 2
  OBVIOUS
<1>7. QED
  BY <1>1, <1>3, <1>5, <1>6, SwapRmImm

\* An rm and an immediate, with a short form for the accumulator.
LEMMA SwapTemplateImmOpt ==
  ASSUME NEW c, NEW d, NEW k, Twins(c, d, k), NEW i \in 1 .. 2, NEW j \in 1 .. 2, i # j,
         DOMAIN c.ops = 1 .. 2, c.ops[i].k = "imm", NEW opcode, NEW mode,
         NEW args, args[i] = "imm", args[j] = "rm"
  PROVE  SwappedAt([TemplateImmOpt(c, c.ops[j], c.ops[i], opcode, mode) EXCEPT !.args = args],
                   [TemplateImmOpt(d, d.ops[j], d.ops[i], opcode, mode) EXCEPT !.args = args],
                   c, d, k)
<1>1. Alike(c, d, k)
  BY DEF Twins
<1>2. /\ d.size = c.size /\ LockOf(d) = LockOf(c)
      /\ ImmSize(d.ops[i]) = ImmSize(c.ops[i])
      /\ ImmSizeOptimize(c.size, d.ops[i]) = ImmSizeOptimize(c.size, c.ops[i])
  <2>1. d.size = c.size /\ LockOf(d) = LockOf(c)
    BY <1>1, LockAlike DEF Alike
  <2>2. QED
    BY <1>1, <2>1, SameImmediate
<1> DEFINE bytes == OpcodeImmOptimized(c.size, ImmSize(c.ops[i]), LockOf(c), opcode)
           n == ImmSizeOptimize(c.size, c.ops[i])
           one == <<"rm">>
           both == Append(one, "imm")
           f == TemplateImmOpt(c, c.ops[j], c.ops[i], opcode, mode)
           g == TemplateImmOpt(d, d.ops[j], d.ops[i], opcode, mode)
<1>3. Append(one, "imm") = both
  OBVIOUS
<1>4. /\ f = WithImm(Form(bytes, c.ops[j], mode, one), c.ops[i], n)
      /\ g = WithImm(Form(bytes, d.ops[j], mode, one), d.ops[i], n)
  BY <1>2 DEF TemplateImmOpt
<1> HIDE DEF bytes, n, one, f, g, both
<1>5. /\ f = [bytes |-> bytes, rm |-> c.ops[j], reg |-> mode,
              tail |-> <<ImmPart(c.ops[i], n)>>, args |-> both]
      /\ g = [bytes |-> bytes, rm |-> d.ops[j], reg |-> mode,
              tail |-> <<ImmPart(d.ops[i], n)>>, args |-> both]
  BY <1>3, <1>4, WithImmTo
<1>6. /\ [f EXCEPT !.args = args] =
           [bytes |-> bytes, rm |-> c.ops[j], reg |-> mode,
            tail |-> <<ImmPart(c.ops[i], n)>>, args |-> args]
      /\ [g EXCEPT !.args = args] =
           [bytes |-> bytes, rm |-> d.ops[j], reg |-> mode,
            tail |-> <<ImmPart(d.ops[i], n)>>, args |-> args]
  BY <1>5
<1>7. SwappedAt([f EXCEPT !.args = args], [g EXCEPT !.args = args], c, d, k)
  BY <1>1, <1>6, SwapRmImm
<1>8. QED
  BY <1>7 DEF f, g

\* An rm alone.
LEMMA SwapTemplate1Operand ==
  ASSUME NEW c, NEW d, NEW k, Twins(c, d, k), Kinds(c) \in OneOperand, NEW opcode, NEW mode
  PROVE  SwappedAt(Template1Operand(c, opcode, mode), Template1Operand(d, opcode, mode), c, d, k)
<1>1. Alike(c, d, k) /\ DOMAIN c.ops = 1 .. 1
  BY OneKind DEF Twins, OneOperand
<1>2. d.size = c.size /\ LockOf(d) = LockOf(c) /\ k = 1
  BY <1>1, LockAlike DEF Alike
<1> DEFINE bytes == OpcodeBytes(c.size, LockOf(c), opcode)
<1>3. /\ Template1Operand(c, opcode, mode) = Form(bytes, c.ops[1], mode, <<"rm">>)
      /\ Template1Operand(d, opcode, mode) = Form(bytes, d.ops[1], mode, <<"rm">>)
  BY <1>2 DEF Template1Operand
<1>4. QED
  BY <1>1, <1>2, <1>3, SwapRm

\* An rm that is shifted by one, by CL or by an immediate.
LEMMA SwapTemplateShift ==
  ASSUME NEW c, NEW d, NEW k, Twins(c, d, k),
         Kinds(c) \in OneOperand \cup ImmSecond \cup {<<"reg", "CL">>, <<"mem", "CL">>},
         NEW opcode, NEW mode
  PROVE  SwappedAt(TemplateShift(c, opcode, mode), TemplateShift(d, opcode, mode), c, d, k)
<1>1. Alike(c, d, k) /\ Len(d.ops) = Len(c.ops) /\ k \in DOMAIN c.ops
  BY DEF Twins, Alike
<1>2. CASE Kinds(c) \in OneOperand
  <2>1. Len(c.ops) = 1
    BY <1>2, OneKind DEF Twins, OneOperand
  <2>2. /\ TemplateShift(c, opcode, mode) = Template1Operand(c, SetBit(opcode, 4), mode)
        /\ TemplateShift(d, opcode, mode) = Template1Operand(d, SetBit(opcode, 4), mode)
    BY <1>1, <2>1 DEF TemplateShift
  <2>3. QED
    BY <1>2, <2>2, SwapTemplate1Operand
<1> DEFINE bytes(op) == OpcodeBytes(c.size, LockOf(c), op)
<1>3. ASSUME DOMAIN c.ops = 1 .. 2
      PROVE  \A op : /\ Template1Operand(c, op, mode) = Form(bytes(op), c.ops[1], mode, <<"rm">>)
                     /\ Template1Operand(d, op, mode) = Form(bytes(op), d.ops[1], mode, <<"rm">>)
  <2>1. d.size = c.size /\ LockOf(d) = LockOf(c)
    BY <1>1, LockAlike DEF Alike
  <2>2. QED
    BY <2>1 DEF Template1Operand
<1>4. CASE Kinds(c) \in {<<"reg", "CL">>, <<"mem", "CL">>}
  <2>1. Len(c.ops) = 2 /\ c.ops[2].k = "CL" /\ DOMAIN c.ops = 1 .. 2
    BY <1>4, TwoKinds DEF Twins
  <2>2. Len(c.ops) # 1 /\ Len(d.ops) = 2 /\ Len(d.ops) # 1 /\ d.ops[2].k = "CL"
    BY <1>1, <2>1 DEF Alike
  <2> DEFINE op == SetBit(SetBit(opcode, 4), 1)
             args == <<"rm", "none">>
             some == bytes(op)
  <2>3. /\ TemplateShift(c, opcode, mode) = [Template1Operand(c, op, mode) EXCEPT !.args = args]
        /\ TemplateShift(d, opcode, mode) = [Template1Operand(d, op, mode) EXCEPT !.args = args]
    BY <2>1, <2>2 DEF TemplateShift
  <2>4. /\ Template1Operand(c, op, mode) = Form(some, c.ops[1], mode, <<"rm">>)
        /\ Template1Operand(d, op, mode) = Form(some, d.ops[1], mode, <<"rm">>)
    BY <1>3, <2>1
  <2>5. args[1] = "rm" /\ args[2] = "none"
    OBVIOUS
  <2> HIDE DEF op, args, some
  <2>6. /\ TemplateShift(c, opcode, mode) = Form(some, c.ops[1], mode, args)
        /\ TemplateShift(d, opcode, mode) = Form(some, d.ops[1], mode, args)
    BY <2>3, <2>4 DEF Form
  <2>7. CASE k = 1
    BY <1>1, <2>5, <2>6, <2>7, SwapRm
  <2>8. CASE k = 2
    <3>1. TemplateShift(c, opcode, mode).args[k] = "none"
      BY <2>5, <2>6, <2>8 DEF Form
    <3>2. QED
      BY <3>1, SwapNone
  <2>9. QED
    BY <1>1, <2>1, <2>7, <2>8
<1>5. CASE Kinds(c) \in ImmSecond
  <2>1. Len(c.ops) = 2 /\ c.ops[2].k = "imm" /\ DOMAIN c.ops = 1 .. 2
    BY <1>5, TwoKinds DEF Twins, ImmSecond
  <2>2. Len(c.ops) # 1 /\ Len(d.ops) # 1 /\ d.ops[2].k = "imm"
    BY <1>1, <2>1 DEF Alike
  <2> DEFINE args == <<"rm", "imm">>
             one == <<"rm">>
             some == bytes(opcode)
  <2>3. /\ TemplateShift(c, opcode, mode) = WithImm(Template1Operand(c, opcode, mode), c.ops[2], 1)
        /\ TemplateShift(d, opcode, mode) = WithImm(Template1Operand(d, opcode, mode), d.ops[2], 1)
    BY <2>1, <2>2 DEF TemplateShift
  <2>4. /\ Template1Operand(c, opcode, mode) = Form(some, c.ops[1], mode, one)
        /\ Template1Operand(d, opcode, mode) = Form(some, d.ops[1], mode, one)
    BY <1>3, <2>1
  <2>5. Append(one, "imm") = args /\ args[1] = "rm" /\ args[2] = "imm"
    BY AppendOne
  <2> HIDE DEF args, one, some
  <2>6. /\ TemplateShift(c, opcode, mode) =
             [bytes |-> some, rm |-> c.ops[1], reg |-> mode,
              tail |-> <<ImmPart(c.ops[2], 1)>>, args |-> args]
        /\ TemplateShift(d, opcode, mode) =
             [bytes |-> some, rm |-> d.ops[1], reg |-> mode,
              tail |-> <<ImmPart(d.ops[2], 1)>>, args |-> args]
    BY <2>3, <2>4, <2>5, WithImmTo
  <2>7. 1 \in 1 .. 2 /\ 2 \in 1 .. 2
    OBVIOUS
  <2>8. QED
    BY <1>1, <2>1, <2>5, <2>6, <2>7, SwapRmImm
<1>6. QED
  BY <1>2, <1>4, <1>5

\* An rm and the bit of it that a register or an immediate tells.
LEMMA SwapTemplateBitOperation ==
  ASSUME NEW c, NEW d, NEW k, Twins(c, d, k), Kinds(c) \in RegSecond \cup ImmSecond,
         NEW main, NEW mode
  PROVE  SwappedAt(TemplateBitOperation(c, main, mode), TemplateBitOperation(d, main, mode), c, d, k)
<1>1. Alike(c, d, k) /\ DOMAIN c.ops = 1 .. 2
  BY TwoKinds DEF Twins, RegSecond, ImmSecond
<1>2. d.size = c.size /\ LockOf(d) = LockOf(c) /\ d.ops[2].k = c.ops[2].k
  BY <1>1, LockAlike DEF Alike
<1>3. CASE Kinds(c) \in RegSecond
  <2> DEFINE bytes == OnlyExtendedPrefixs(c.size, LockOf(c), main)
  <2>1. c.ops[2].k # "imm"
    BY <1>3, TwoKinds DEF Twins, RegSecond
  <2>2. /\ TemplateBitOperation(c, main, mode) = RmReg(bytes, c.ops[1], c.ops[2].reg)
        /\ TemplateBitOperation(d, main, mode) = RmReg(bytes, d.ops[1], d.ops[2].reg)
    BY <1>2, <2>1 DEF TemplateBitOperation
  <2>3. QED
    BY <1>1, <2>2, SwapRmReg
<1>4. CASE Kinds(c) \in ImmSecond
  <2> DEFINE bytes == OnlyExtendedPrefixs(c.size, LockOf(c), \hBA)
             args == <<"rm", "imm">>
             one == <<"rm">>
             x == NoSegment(c.ops[1])
             y == NoSegment(d.ops[1])
  <2>1. c.ops[2].k = "imm"
    BY <1>4, TwoKinds DEF Twins, ImmSecond
  <2>2. /\ TemplateBitOperation(c, main, mode) = WithImm(Form(bytes, x, mode, one), c.ops[2], 1)
        /\ TemplateBitOperation(d, main, mode) = WithImm(Form(bytes, y, mode, one), d.ops[2], 1)
    BY <1>2, <2>1 DEF TemplateBitOperation
  <2>3. Append(one, "imm") = args /\ args[1] = "rm" /\ args[2] = "imm"
    BY AppendOne
  <2>4. (x = c.ops[1] /\ y = d.ops[1]) \/ (x = NoSegment(c.ops[1]) /\ y = NoSegment(d.ops[1]))
    OBVIOUS
  <2> HIDE DEF bytes, args, one, x, y
  <2>5. /\ TemplateBitOperation(c, main, mode) =
             [bytes |-> bytes, rm |-> x, reg |-> mode,
              tail |-> <<ImmPart(c.ops[2], 1)>>, args |-> args]
        /\ TemplateBitOperation(d, main, mode) =
             [bytes |-> bytes, rm |-> y, reg |-> mode,
              tail |-> <<ImmPart(d.ops[2], 1)>>, args |-> args]
    BY <2>2, <2>3, WithImmTo
  <2>6. 1 \in 1 .. 2 /\ 2 \in 1 .. 2
    OBVIOUS
  <2>7. QED
    BY <1>1, <2>3, <2>4, <2>5, <2>6, SwapRmImm
<1>5. QED
  BY <1>3, <1>4

\* An rm, a register and a count.
LEMMA SwapTemplatePrshift ==
  ASSUME NEW c, NEW d, NEW k, Twins(c, d, k), Kinds(c) \in Double, NEW opcode
  PROVE  SwappedAt(TemplatePrshift(c, opcode), TemplatePrshift(d, opcode), c, d, k)
<1>1. Alike(c, d, k) /\ DOMAIN c.ops = 1 .. 3
  BY ThreeKinds DEF Twins, Double
<1>2. d.size = c.size /\ d.ops[3].k = c.ops[3].k
  BY <1>1 DEF Alike
<1>3. CASE c.ops[3].k = "CL"
  <2> DEFINE bytes == OnlyExtendedPrefixs(c.size, FALSE, SetBit(opcode, 0))
  <2>1. /\ TemplatePrshift(c, opcode) =
             Form(bytes, c.ops[1], c.ops[2].reg, <<"rm", "reg", "none">>)
        /\ TemplatePrshift(d, opcode) =
             Form(bytes, d.ops[1], d.ops[2].reg, <<"rm", "reg", "none">>)
    BY <1>2, <1>3 DEF TemplatePrshift
  <2>2. QED
    BY <1>1, <2>1, SwapRmRegNone
<1>4. CASE c.ops[3].k # "CL"
  <2> DEFINE bytes == OnlyExtendedPrefixs(c.size, FALSE, opcode)
  <2>1. /\ TemplatePrshift(c, opcode) =
             WithImm(RmReg(bytes, c.ops[1], c.ops[2].reg), c.ops[3], 1)
        /\ TemplatePrshift(d, opcode) =
             WithImm(RmReg(bytes, d.ops[1], d.ops[2].reg), d.ops[3], 1)
    BY <1>2, <1>4 DEF TemplatePrshift
  <2>2. QED
    BY <1>1, <2>1, SwapRmRegImm
<1>5. QED
  BY <1>3, <1>4

\* A condition and the rm of one byte that it sets.
LEMMA SwapSetcc ==
  ASSUME NEW c, NEW d, NEW k, Twins(c, d, k), Kinds(c) \in {<<"cc", "reg">>, <<"cc", "mem">>}
  PROVE  SwappedAt(Setcc(c), Setcc(d), c, d, k)
<1>1. Alike(c, d, k) /\ DOMAIN c.ops = 1 .. 2
  BY TwoKinds DEF Twins
<1>2. CASE k = 1
  <2>1. Setcc(c).args[k] = "none"
    BY <1>2 DEF Setcc, TemplateSetcc, Form
  <2>2. QED
    BY <2>1, SwapNone
<1>3. CASE k = 2
  <2>1. d.ops[1] = c.ops[1]
    BY <1>1, <1>3 DEF Alike
  <2> DEFINE bytes == <<PrefixExtended, \h90 + c.ops[1].cc>>
  <2>2. /\ Setcc(c) = Form(bytes, c.ops[2], 0, <<"none", "rm">>)
        /\ Setcc(d) = Form(bytes, d.ops[2], 0, <<"none", "rm">>)
    BY <2>1 DEF Setcc, TemplateSetcc
  <2> HIDE DEF bytes
  <2>3. Swapped(Setcc(c), Setcc(d), "rm", c.ops[k], d.ops[k]) /\ Setcc(c).args[k] = "rm"
    BY <1>3, <2>2 DEF Swapped, Form
  <2>4. QED
    BY <2>3 DEF SwappedAt
<1>4. QED
  BY <1>1, <1>2, <1>3 DEF Alike

\* A register in the opcode.
LEMMA SwapOpcodeReg ==
  ASSUME NEW c, NEW d, NEW k, Twins(c, d, k), Kinds(c) = <<"reg">>,
         NEW opcode \in Nat, opcode % 8 = 0
  PROVE  SwappedAt(OpcodeReg(c, opcode), OpcodeReg(d, opcode), c, d, k)
<1>1. Alike(c, d, k) /\ DOMAIN c.ops = 1 .. 1
  BY OneKind DEF Twins
<1>2. d.size = c.size /\ k = 1
  BY <1>1 DEF Alike
<1> DEFINE s == OpcodePrefixes(c.size, FALSE)
<1>3. /\ OpcodeReg(c, opcode) = Opcode(Append(s, opcode + c.ops[1].reg), <<>>, <<"opcode">>)
      /\ OpcodeReg(d, opcode) = Opcode(Append(s, opcode + d.ops[1].reg), <<>>, <<"opcode">>)
  BY <1>2 DEF OpcodeReg
<1>4. s \in Seq(ByteValue)
  <2>1. /\ <<Prefix16>> \in Seq(ByteValue) /\ <<>> \in Seq(ByteValue)
        /\ \A u \in Seq(ByteValue) : u \o <<>> = u
    BY ConcatEmptySeq DEF Prefix16, ByteValue
  <2>2. s = (IF c.size = WORD THEN <<Prefix16>> ELSE <<>>) \o <<>>
    BY DEF OpcodePrefixes
  <2>3. QED
    BY <2>1, <2>2
<1> HIDE DEF s
<1>5. QED
  BY <1>1, <1>2, <1>3, <1>4, SwapOpcode

\* An rm that is jumped through.
LEMMA SwapIndirect ==
  ASSUME NEW c, NEW d, NEW k, Twins(c, d, k), Kinds(c) \in OneOperand, NEW near
  PROVE  SwappedAt(Indirect(c, near), Indirect(d, near), c, d, k)
<1>1. Alike(c, d, k) /\ DOMAIN c.ops = 1 .. 1
  BY OneKind DEF Twins, OneOperand
<1> DEFINE c4 == [c EXCEPT !.size = DWORD]
           d4 == [d EXCEPT !.size = DWORD]
           mode == IF c.size = 6 THEN near + 1 ELSE near
<1>2. /\ "size" \in DOMAIN c /\ "lock" \in DOMAIN c /\ "ops" \in DOMAIN c /\ "mn" \in DOMAIN c
      /\ DOMAIN d = DOMAIN c
  BY <1>1 DEF Alike
<1>3. /\ c4.size = DWORD /\ c4.lock = c.lock /\ c4.ops = c.ops /\ c4.mn = c.mn
      /\ d4.size = DWORD /\ d4.lock = d.lock /\ d4.ops = d.ops /\ d4.mn = d.mn
      /\ DOMAIN c4 = DOMAIN c /\ DOMAIN d4 = DOMAIN d
  BY <1>2
<1>4. Kinds(c4) = Kinds(c) /\ Kinds(d4) = Kinds(d)
  BY <1>3 DEF Kinds
<1>5. d.size = c.size
  BY <1>1 DEF Alike
<1>6. /\ Indirect(c, near) = Template1Operand(c4, \hFF, mode)
      /\ Indirect(d, near) = Template1Operand(d4, \hFF, mode)
  BY <1>5 DEF Indirect
<1> HIDE DEF c4, d4, mode
<1>7. Alike(c4, d4, k)
  BY <1>1, <1>3, <1>4 DEF Alike
<1>8. Twins(c4, d4, k) /\ Kinds(c4) \in OneOperand
  BY <1>3, <1>4, <1>7 DEF Twins
<1>9. SwappedAt(Template1Operand(c4, \hFF, mode), Template1Operand(d4, \hFF, mode), c4, d4, k)
  BY <1>8, SwapTemplate1Operand
<1>10. QED
  BY <1>3, <1>6, <1>9 DEF SwappedAt

\* An opcode and immediates.
LEMMA SwapOpcodeImm ==
  ASSUME NEW c, NEW d, NEW k, Twins(c, d, k), Kinds(c) \in {<<"imm">>, <<"imm", "imm">>}, NEW bytes
  PROVE  SwappedAt(OpcodeImm(bytes, c.ops), OpcodeImm(bytes, d.ops), c, d, k)
<1>1. CASE Kinds(c) = <<"imm">>
  <2>1. DOMAIN c.ops = 1 .. 1 /\ Len(c.ops) = 1 /\ c.ops[1].k = "imm"
    BY <1>1, OneKind DEF Twins
  <2>2. \A i \in DOMAIN c.ops : c.ops[i].k = "imm"
    BY <2>1
  <2>3. QED
    BY <2>1, <2>2, SwapImms DEF Twins
<1>2. CASE Kinds(c) = <<"imm", "imm">>
  <2>1. DOMAIN c.ops = 1 .. 2 /\ Len(c.ops) = 2 /\ c.ops[1].k = "imm" /\ c.ops[2].k = "imm"
    BY <1>2, TwoKinds DEF Twins
  <2>2. \A i \in DOMAIN c.ops : c.ops[i].k = "imm"
    BY <2>1
  <2>3. QED
    BY <2>1, <2>2, SwapImms DEF Twins
<1>3. QED
  BY <1>1, <1>2

(***************************************************************************)
(* The functions                                                           *)
(***************************************************************************)
\* The instructions of two calls that are alike.
SwappedCalls(c, d, k) == SwappedAt(InstructionOf(c), InstructionOf(d), c, d, k)

\* Both have the same name, which leads to the same region.
LEMMA SameRegion ==
  ASSUME NEW c, NEW d, NEW k, Twins(c, d, k)
  PROVE  /\ d.mn = c.mn /\ d.size = c.size /\ Kinds(d) = Kinds(c) /\ Len(d.ops) = Len(c.ops)
         /\ \A j \in DOMAIN c.ops : d.ops[j].k = c.ops[j].k
         /\ k \in DOMAIN c.ops
BY DEF Twins, Alike

\* Mov, in all its forms.
LEMMA SwapMov ==
  ASSUME NEW c, NEW d, NEW k, Twins(c, d, k), c.mn = "Mov",
         Kinds(c) \in RegFirst \cup RegSecond \cup ImmSecond
  PROVE  SwappedCalls(c, d, k)
<1>1. InstructionOf(c) = Mov(c) /\ InstructionOf(d) = Mov(d)
  <2>1. c.mn \in Handling /\ c.mn \in Transfers
    BY DEF Handling, Transfers
  <2>2. DataTransfer(c) = Mov(c) /\ DataTransfer(d) = Mov(d)
    BY SameRegion DEF DataTransfer
  <2>3. QED
    BY <2>1, <2>2, Dispatch, Regions, SameRegion
<1>2. CASE Kinds(c) \in RegFirst \cup RegSecond
  <2>1. DOMAIN c.ops = 1 .. 2 /\ c.ops[1].k \in {"reg", "mem"} /\ c.ops[2].k \in {"reg", "mem"}
    BY <1>2, TwoKinds DEF Twins, RegFirst, RegSecond
  <2>2. d.ops[1].k = c.ops[1].k /\ d.ops[2].k = c.ops[2].k /\ Kinds(d) = Kinds(c)
    BY <2>1, SameRegion
  <2>3. Mov(c) = Template2Operands(c, \h88)
    BY <1>2, <2>1 DEF Mov, RegFirst, RegSecond
  <2>4. Mov(d) = Template2Operands(d, \h88)
    BY <1>2, <2>1, <2>2 DEF Mov, RegFirst, RegSecond
  <2>5. QED
    BY <1>1, <1>2, <2>3, <2>4, SwapTemplate2Operands DEF SwappedCalls
<1>3. CASE Kinds(c) \in ImmSecond
  <2>1. DOMAIN c.ops = 1 .. 2 /\ c.ops[1].k \in {"reg", "mem"} /\ c.ops[2].k = "imm"
    BY <1>3, TwoKinds DEF Twins, ImmSecond
  <2>2. d.ops[1].k = c.ops[1].k /\ d.ops[2].k = c.ops[2].k /\ Kinds(d) = Kinds(c)
    BY <2>1, SameRegion
  <2>3. Kinds(c) \notin {<<"reg", "reg">>, <<"reg", "mem">>, <<"mem", "reg">>}
    BY <1>3 DEF ImmSecond
  <2>4. Mov(c) = TemplateImm(c, \hC6, 0)
    BY <2>1, <2>3 DEF Mov
  <2>5. Mov(d) = TemplateImm(d, \hC6, 0)
    BY <2>1, <2>2, <2>3 DEF Mov
  <2>6. QED
    BY <1>1, <1>3, <2>4, <2>5, SwapTemplateImm DEF SwappedCalls
<1>4. QED
  BY <1>2, <1>3

\* Add, Or, Adc, Sbb, And, Sub, Xor and Cmp.
LEMMA SwapAlu ==
  ASSUME NEW c, NEW d, NEW k, Twins(c, d, k), c.mn \in DOMAIN AluSet,
         Kinds(c) \in RegFirst \cup RegSecond \cup ImmSecond \cup {<<"imm", "mem">>}
  PROVE  SwappedCalls(c, d, k)
<1> DEFINE set == AluSet[c.mn]
<1>1. InstructionOf(c) = Alu(c, set) /\ InstructionOf(d) = Alu(d, set)
  <2>1. c.mn \in Handling
    BY Names DEF Handling
  <2>2. QED
    BY <2>1, Dispatch, Regions, SameRegion
<1> HIDE DEF set
<1>0. Kinds(d) = Kinds(c) /\ \A j \in DOMAIN c.ops : d.ops[j].k = c.ops[j].k
  BY SameRegion
<1>2. CASE Kinds(c) \in RegFirst \cup RegSecond
  <2>1. DOMAIN c.ops = 1 .. 2 /\ c.ops[1].k \in {"reg", "mem"} /\ c.ops[2].k \in {"reg", "mem"}
    BY <1>2, TwoKinds DEF Twins, RegFirst, RegSecond
  <2>2. d.ops[1].k = c.ops[1].k /\ d.ops[2].k = c.ops[2].k
    BY <2>1, <1>0
  <2>3. Kinds(c) # <<"imm">> /\ Kinds(c) # <<"imm", "mem">>
    BY <1>2 DEF RegFirst, RegSecond
  <2>4. Alu(c, set) = Template2Operands(c, set.main) /\ Alu(d, set) = Template2Operands(d, set.main)
    BY <1>0, <2>1, <2>2, <2>3 DEF Alu
  <2>5. QED
    BY <1>1, <1>2, <2>4, SwapTemplate2Operands DEF SwappedCalls
<1> DEFINE f(i, j) == TemplateImmOpt(c, c.ops[j], c.ops[i], set.opcode, set.mode)
           g(i, j) == TemplateImmOpt(d, d.ops[j], d.ops[i], set.opcode, set.mode)
<1>3. CASE Kinds(c) \in ImmSecond
  <2>1. DOMAIN c.ops = 1 .. 2 /\ c.ops[1].k \in {"reg", "mem"} /\ c.ops[2].k = "imm"
    BY <1>3, TwoKinds DEF Twins, ImmSecond
  <2>2. d.ops[1].k = c.ops[1].k /\ d.ops[2].k = c.ops[2].k
    BY <2>1, <1>0
  <2>3. Kinds(c) # <<"imm">> /\ Kinds(c) # <<"imm", "mem">>
    BY <1>3 DEF ImmSecond
  <2>4. Alu(c, set) = f(2, 1) /\ Alu(d, set) = g(2, 1)
    BY <1>0, <2>1, <2>2, <2>3 DEF Alu
  <2> DEFINE args == <<"rm", "imm">>
             one == <<"rm">>
  <2>5. Append(one, "imm") = args /\ args[1] = "rm" /\ args[2] = "imm"
    BY AppendOne
  <2>6. ASSUME NEW e, NEW x, NEW y
        PROVE  TemplateImmOpt(e, x, y, set.opcode, set.mode) =
                 [TemplateImmOpt(e, x, y, set.opcode, set.mode) EXCEPT !.args = args]
    <3> DEFINE bytes == OpcodeImmOptimized(e.size, ImmSize(y), LockOf(e), set.opcode)
               n == ImmSizeOptimize(e.size, y)
               h == TemplateImmOpt(e, x, y, set.opcode, set.mode)
    <3>1. h = WithImm(Form(bytes, x, set.mode, one), y, n)
      BY DEF TemplateImmOpt
    <3> HIDE DEF h, bytes, n, args, one
    <3>2. h = [bytes |-> bytes, rm |-> x, reg |-> set.mode, tail |-> <<ImmPart(y, n)>>, args |-> args]
      BY <2>5, <3>1, WithImmTo
    <3>3. h = [h EXCEPT !.args = args]
      BY <3>2
    <3>4. QED
      BY <3>3 DEF h
  <2> HIDE DEF args
  <2>7. f(2, 1) = [f(2, 1) EXCEPT !.args = args] /\ g(2, 1) = [g(2, 1) EXCEPT !.args = args]
    BY <2>6
  <2>8. 1 \in 1 .. 2 /\ 2 \in 1 .. 2
    OBVIOUS
  <2>9. SwappedAt([f(2, 1) EXCEPT !.args = args], [g(2, 1) EXCEPT !.args = args], c, d, k)
    BY <2>1, <2>5, <2>8, SwapTemplateImmOpt
  <2> HIDE DEF f, g
  <2>10. QED
    BY <1>1, <2>4, <2>7, <2>9 DEF SwappedCalls
<1>4. CASE Kinds(c) = <<"imm", "mem">>
  <2>1. DOMAIN c.ops = 1 .. 2 /\ c.ops[1].k = "imm" /\ c.ops[2].k = "mem"
    BY <1>4, TwoKinds DEF Twins
  <2>2. d.ops[1].k = c.ops[1].k /\ d.ops[2].k = c.ops[2].k
    BY <2>1, <1>0
  <2>3. Kinds(c) # <<"imm">>
    BY <1>4
  <2> DEFINE args == <<"imm", "rm">>
  <2>4. Alu(c, set) = [f(1, 2) EXCEPT !.args = args] /\ Alu(d, set) = [g(1, 2) EXCEPT !.args = args]
    BY <1>0, <1>4, <2>1, <2>2, <2>3 DEF Alu
  <2>5. args[1] = "imm" /\ args[2] = "rm" /\ 1 \in 1 .. 2 /\ 2 \in 1 .. 2
    OBVIOUS
  <2> HIDE DEF args
  <2>6. SwappedAt([f(1, 2) EXCEPT !.args = args], [g(1, 2) EXCEPT !.args = args], c, d, k)
    BY <2>1, <2>5, SwapTemplateImmOpt
  <2> HIDE DEF f, g
  <2>7. QED
    BY <1>1, <2>4, <2>6 DEF SwappedCalls
<1>5. QED
  BY <1>2, <1>3, <1>4

\* The functions that move data.
LEMMA SwapTransfer ==
  ASSUME NEW c, NEW d, NEW k, Twins(c, d, k),
         \/ c.mn \in {"Lea", "Movsx", "Movzx"} /\ Kinds(c) \in RegFirst
         \/ c.mn = "Xchg" /\ Kinds(c) \in {<<"reg", "mem">>, <<"mem", "reg">>}
         \/ c.mn \in {"Push", "Pop"} /\ Kinds(c) \in OneOperand
         \/ c.mn \in {"Push", "In", "Out"} /\ Kinds(c) = <<"imm">>
  PROVE  SwappedCalls(c, d, k)
<1>1. InstructionOf(c) = DataTransfer(c) /\ InstructionOf(d) = DataTransfer(d) /\ d.mn = c.mn
  <2>1. c.mn \in Handling /\ c.mn \in Transfers
    BY DEF Handling, Transfers
  <2>2. QED
    BY <2>1, Dispatch, Regions, SameRegion
<1>2. Kinds(d) = Kinds(c) /\ \A j \in DOMAIN c.ops : d.ops[j].k = c.ops[j].k
  BY SameRegion
<1>3. CASE c.mn = "Lea"
  <2>1. /\ DataTransfer(c) = Template2OperandsSymetric(c, \h8D)
        /\ DataTransfer(d) = Template2OperandsSymetric(d, \h8D)
    BY <1>1, <1>3 DEF DataTransfer
  <2>2. QED
    BY <1>1, <1>3, <2>1, SwapTemplate2OperandsSymetric DEF SwappedCalls
<1>4. CASE c.mn \in {"Movsx", "Movzx"}
  <2>1. \E op : /\ DataTransfer(c) = TemplateExtendVal(c, op)
                /\ DataTransfer(d) = TemplateExtendVal(d, op)
    BY <1>1, <1>4 DEF DataTransfer
  <2>2. QED
    BY <1>1, <1>4, <2>1, SwapTemplateExtendVal DEF SwappedCalls
<1>5. CASE c.mn = "Xchg"
  <2>1. DataTransfer(c) = Xchg(c) /\ DataTransfer(d) = Xchg(d)
    BY <1>1, <1>5 DEF DataTransfer
  <2>2. Kinds(c) \in {<<"reg", "mem">>, <<"mem", "reg">>}
    BY <1>5
  <2>3. Len(c.ops) = 2 /\ Len(d.ops) = 2 /\ Kinds(c) # <<"reg", "reg">>
    BY <2>2, TwoKinds, SameRegion DEF Twins
  <2>4. /\ Xchg(c) = Template2OperandsSymetric(c, \h86)
        /\ Xchg(d) = Template2OperandsSymetric(d, \h86)
    BY <1>2, <2>3 DEF Xchg
  <2>5. Kinds(c) \in RegFirst \cup RegSecond
    BY <2>2 DEF RegFirst, RegSecond
  <2>6. QED
    BY <1>1, <2>1, <2>4, <2>5, SwapTemplate2OperandsSymetric DEF SwappedCalls
<1>6. CASE c.mn \in {"Push", "Pop"} /\ Kinds(c) \in OneOperand
  <2>1. DOMAIN c.ops = 1 .. 1 /\ c.ops[1].k \in {"reg", "mem"} /\ 1 \in DOMAIN c.ops
    BY <1>6, OneKind DEF Twins, OneOperand
  <2>2. d.ops[1].k = c.ops[1].k
    BY <1>2, <2>1
  <2>3. CASE c.ops[1].k = "reg"
    <3>1. Kinds(c) = <<"reg">>
      BY <1>6, <2>3, OneKind DEF Twins, OneOperand
    <3>2. \E op \in Nat : /\ op % 8 = 0
                          /\ DataTransfer(c) = OpcodeReg(c, op) /\ DataTransfer(d) = OpcodeReg(d, op)
      <4>1. CASE c.mn = "Push"
        <5>1. DataTransfer(c) = OpcodeReg(c, \h50) /\ DataTransfer(d) = OpcodeReg(d, \h50)
          BY <1>1, <2>2, <2>3, <4>1 DEF DataTransfer, Push
        <5>2. \h50 \in Nat /\ \h50 % 8 = 0
          OBVIOUS
        <5>3. QED
          BY <5>1, <5>2
      <4>2. CASE c.mn = "Pop"
        <5>1. DataTransfer(c) = OpcodeReg(c, \h58) /\ DataTransfer(d) = OpcodeReg(d, \h58)
          BY <1>1, <2>2, <2>3, <4>2 DEF DataTransfer, Pop
        <5>2. \h58 \in Nat /\ \h58 % 8 = 0
          OBVIOUS
        <5>3. QED
          BY <5>1, <5>2
      <4>3. QED
        BY <1>6, <4>1, <4>2
    <3>3. QED
      BY <1>1, <3>1, <3>2, SwapOpcodeReg DEF SwappedCalls
  <2>4. CASE c.ops[1].k = "mem"
    <3>1. \E op, mode : /\ DataTransfer(c) = Template1Operand(c, op, mode)
                        /\ DataTransfer(d) = Template1Operand(d, op, mode)
      <4>1. CASE c.mn = "Push"
        <5>1. /\ DataTransfer(c) = Template1Operand(c, \hFF, 6)
              /\ DataTransfer(d) = Template1Operand(d, \hFF, 6)
          BY <1>1, <2>2, <2>4, <4>1 DEF DataTransfer, Push
        <5>2. QED
          BY <5>1
      <4>2. CASE c.mn = "Pop"
        <5>1. /\ DataTransfer(c) = Template1Operand(c, \h8F, 0)
              /\ DataTransfer(d) = Template1Operand(d, \h8F, 0)
          BY <1>1, <2>2, <2>4, <4>2 DEF DataTransfer, Pop
        <5>2. QED
          BY <5>1
      <4>3. QED
        BY <1>6, <4>1, <4>2
    <3>2. QED
      BY <1>1, <1>6, <3>1, SwapTemplate1Operand DEF SwappedCalls
  <2>5. QED
    BY <2>1, <2>3, <2>4
<1>7. CASE c.mn \in {"Push", "In", "Out"} /\ Kinds(c) = <<"imm">>
  <2>1. DOMAIN c.ops = 1 .. 1 /\ c.ops[1].k = "imm" /\ 1 \in DOMAIN c.ops /\ Len(c.ops) = 1
    BY <1>7, OneKind DEF Twins
  <2>2. d.ops[1].k = c.ops[1].k
    BY <1>2, <2>1
  <2>3. d.ops[1].type = c.ops[1].type
    <3>1. k = 1
      BY <2>1, SameRegion
    <3>2. QED
      BY <2>1, <3>1 DEF Twins, Alike
  <2>4. c.ops # <<>> /\ d.ops # <<>>
    BY <2>1, SameRegion
  <2>5. \E bytes : DataTransfer(c) = OpcodeImm(bytes, c.ops) /\ DataTransfer(d) = OpcodeImm(bytes, d.ops)
    <3>1. CASE c.mn = "Push"
      <4>1. /\ DataTransfer(c) = OpcodeImm(PushImmBytes(c.ops[1].type), c.ops)
            /\ DataTransfer(d) = OpcodeImm(PushImmBytes(c.ops[1].type), d.ops)
        BY <1>1, <2>1, <2>2, <2>3, <3>1 DEF DataTransfer, Push
      <4>2. QED
        BY <4>1
    <3>2. CASE c.mn \in {"In", "Out"}
      <4>1. \E op : /\ DataTransfer(c) = PortIO(c, op) /\ DataTransfer(d) = PortIO(d, op)
        <5>1. CASE c.mn = "In"
          <6>1. DataTransfer(c) = PortIO(c, \hE4) /\ DataTransfer(d) = PortIO(d, \hE4)
            BY <1>1, <5>1 DEF DataTransfer
          <6>2. QED
            BY <6>1
        <5>2. CASE c.mn = "Out"
          <6>1. DataTransfer(c) = PortIO(c, \hE6) /\ DataTransfer(d) = PortIO(d, \hE6)
            BY <1>1, <5>2 DEF DataTransfer
          <6>2. QED
            BY <6>1
        <5>3. QED
          BY <3>2, <5>1, <5>2
      <4>2. \A op : /\ PortIO(c, op) = OpcodeImm(OpcodeBytes(c.size, FALSE, op), c.ops)
                    /\ PortIO(d, op) = OpcodeImm(OpcodeBytes(c.size, FALSE, op), d.ops)
        BY <2>4, SameRegion DEF PortIO
      <4>3. QED
        BY <4>1, <4>2
    <3>3. QED
      BY <1>7, <3>1, <3>2
  <2>6. QED
    BY <1>1, <1>7, <2>5, SwapOpcodeImm DEF SwappedCalls
<1>8. QED
  BY <1>3, <1>4, <1>5, <1>6, <1>7

\* Not, Neg, Mul, Imul, Div, Idiv, Inc and Dec.
LEMMA SwapUnary ==
  ASSUME NEW c, NEW d, NEW k, Twins(c, d, k), c.mn \in DOMAIN UnaryLarge, Kinds(c) \in OneOperand
  PROVE  SwappedCalls(c, d, k)
<1> DEFINE large == UnaryLarge[c.mn]
<1>1. DOMAIN c.ops = 1 .. 1 /\ Len(c.ops) = 1 /\ Len(d.ops) = 1 /\ c.ops[1].k \in {"reg", "mem"}
      /\ 1 \in DOMAIN c.ops
  BY OneKind, SameRegion DEF Twins, OneOperand
<1>2. InstructionOf(c) = Unary(c, large) /\ InstructionOf(d) = Unary(d, large)
  <2>1. c.mn \in Handling
    BY Names DEF Handling
  <2>2. QED
    BY <1>1, <2>1, Dispatch, Regions, SameRegion
<1>3. d.mn = c.mn /\ d.size = c.size /\ d.ops[1].k = c.ops[1].k
  BY <1>1, SameRegion
<1>4. CASE c.mn \in {"Inc", "Dec"} /\ c.ops[1].k = "reg" /\ c.size # BYTE
  <2>1. Kinds(c) = <<"reg">>
    BY <1>4, OneKind DEF Twins, OneOperand
  <2>2. large.mode \in {0, 1}
    BY <1>4 DEF UnaryLarge, OpcodeLarge
  <2> DEFINE op == \h40 + 8 * large.mode
  <2>3. Unary(c, large) = OpcodeReg(c, op) /\ Unary(d, large) = OpcodeReg(d, op)
    BY <1>3, <1>4 DEF Unary
  <2>4. op \in Nat /\ op % 8 = 0
    BY <2>2
  <2> HIDE DEF op, large
  <2>5. QED
    BY <1>2, <2>1, <2>3, <2>4, SwapOpcodeReg DEF SwappedCalls
<1>5. CASE ~(c.mn \in {"Inc", "Dec"} /\ c.ops[1].k = "reg" /\ c.size # BYTE)
  <2>1. /\ Unary(c, large) = Template1Operand(c, large.opcode, large.mode)
        /\ Unary(d, large) = Template1Operand(d, large.opcode, large.mode)
    BY <1>3, <1>5 DEF Unary
  <2> HIDE DEF large
  <2>2. QED
    BY <1>2, <2>1, SwapTemplate1Operand DEF SwappedCalls
<1>6. QED
  BY <1>4, <1>5

\* Test.
LEMMA SwapTest ==
  ASSUME NEW c, NEW d, NEW k, Twins(c, d, k), c.mn = "Test",
         Kinds(c) \in {<<"reg", "mem">>, <<"mem", "reg">>} \cup ImmSecond
  PROVE  SwappedCalls(c, d, k)
<1>1. InstructionOf(c) = Test(c) /\ InstructionOf(d) = Test(d)
  <2>1. c.mn \in Handling
    BY DEF Handling
  <2>2. QED
    BY <2>1, Dispatch, Regions, SameRegion
<1>2. Kinds(d) = Kinds(c) /\ \A j \in DOMAIN c.ops : d.ops[j].k = c.ops[j].k
  BY SameRegion
<1>3. CASE Kinds(c) \in {<<"reg", "mem">>, <<"mem", "reg">>}
  <2>1. DOMAIN c.ops = 1 .. 2 /\ c.ops[2].k \in {"reg", "mem"} /\ 2 \in DOMAIN c.ops
    BY <1>3, TwoKinds DEF Twins
  <2>2. c.ops[2].k # "imm" /\ d.ops[2].k # "imm"
    BY <1>2, <2>1
  <2>3. Kinds(c) # <<"imm">> /\ Kinds(c) # <<"reg", "reg">>
    BY <1>3
  <2>4. /\ Test(c) = Template2OperandsSymetric(c, \h84)
        /\ Test(d) = Template2OperandsSymetric(d, \h84)
    BY <1>2, <2>2, <2>3 DEF Test
  <2>5. Kinds(c) \in RegFirst \cup RegSecond
    BY <1>3 DEF RegFirst, RegSecond
  <2>6. QED
    BY <1>1, <2>4, <2>5, SwapTemplate2OperandsSymetric DEF SwappedCalls
<1>4. CASE Kinds(c) \in ImmSecond
  <2>1. DOMAIN c.ops = 1 .. 2 /\ c.ops[2].k = "imm" /\ 2 \in DOMAIN c.ops
    BY <1>4, TwoKinds DEF Twins, ImmSecond
  <2>2. c.ops[2].k = "imm" /\ d.ops[2].k = "imm"
    BY <1>2, <2>1
  <2>3. Kinds(c) # <<"imm">> /\ Kinds(c) # <<"reg", "reg">>
    BY <1>4 DEF ImmSecond
  <2>4. Test(c) = TemplateImm(c, \hF6, 0) /\ Test(d) = TemplateImm(d, \hF6, 0)
    BY <1>2, <2>2, <2>3 DEF Test
  <2>5. QED
    BY <1>1, <1>4, <2>4, SwapTemplateImm DEF SwappedCalls
<1>5. QED
  BY <1>3, <1>4

\* The shifts and rotations.
LEMMA SwapShift ==
  ASSUME NEW c, NEW d, NEW k, Twins(c, d, k), c.mn \in DOMAIN ShiftLarge,
         Kinds(c) \in OneOperand \cup ImmSecond \cup {<<"reg", "CL">>, <<"mem", "CL">>}
  PROVE  SwappedCalls(c, d, k)
<1>1. InstructionOf(c) = Shift(c) /\ InstructionOf(d) = Shift(d)
  <2>1. c.mn \in Handling
    BY Names DEF Handling
  <2>2. QED
    BY <2>1, Dispatch, Regions, SameRegion
<1>2. \E opcode, mode : Shift(c) = TemplateShift(c, opcode, mode)
                        /\ Shift(d) = TemplateShift(d, opcode, mode)
  BY SameRegion DEF Shift
<1>3. QED
  BY <1>1, <1>2, SwapTemplateShift DEF SwappedCalls

\* The functions on bits.
LEMMA SwapBit ==
  ASSUME NEW c, NEW d, NEW k, Twins(c, d, k),
         \/ c.mn \in {"Bsf", "Bsr"} /\ Kinds(c) \in RegFirst
         \/ c.mn \in DOMAIN BitSet /\ Kinds(c) \in RegSecond \cup ImmSecond
         \/ c.mn \in {"Shld", "Shrd"} /\ Kinds(c) \in Double
         \/ c.mn = "Setcc" /\ Kinds(c) \in {<<"cc", "reg">>, <<"cc", "mem">>}
  PROVE  SwappedCalls(c, d, k)
<1>1. InstructionOf(c) = BitManipulation(c) /\ InstructionOf(d) = BitManipulation(d) /\ d.mn = c.mn
  <2>1. c.mn \in Handling /\ c.mn \in Bit
    BY Names DEF Handling, Bit
  <2>2. QED
    BY <2>1, Dispatch, Regions, SameRegion
<1>2. CASE c.mn \in {"Bsf", "Bsr"} /\ Kinds(c) \in RegFirst
  <2>0. c.mn \notin DOMAIN BitSet
    BY <1>2, Names
  <2>1. CASE c.mn = "Bsf"
    <3>1. /\ BitManipulation(c) = TemplateBitScan(c, \hBC)
          /\ BitManipulation(d) = TemplateBitScan(d, \hBC)
      BY <1>1, <2>0, <2>1 DEF BitManipulation
    <3>2. QED
      BY <1>1, <1>2, <3>1, SwapTemplateBitScan DEF SwappedCalls
  <2>2. CASE c.mn = "Bsr"
    <3>1. /\ BitManipulation(c) = TemplateBitScan(c, \hBD)
          /\ BitManipulation(d) = TemplateBitScan(d, \hBD)
      BY <1>1, <2>0, <2>2 DEF BitManipulation
    <3>2. QED
      BY <1>1, <1>2, <3>1, SwapTemplateBitScan DEF SwappedCalls
  <2>3. QED
    BY <1>2, <2>1, <2>2
<1>3. CASE c.mn \in DOMAIN BitSet /\ Kinds(c) \in RegSecond \cup ImmSecond
  <2>1. c.mn \notin {"Shld", "Shrd", "Bsf", "Bsr", "Setcc"}
    BY <1>3, Names
  <2>2. \E main, mode : /\ BitManipulation(c) = TemplateBitOperation(c, main, mode)
                        /\ BitManipulation(d) = TemplateBitOperation(d, main, mode)
    <3>1. /\ BitManipulation(c) = TemplateBitOperation(c, BitSet[c.mn].main, BitSet[c.mn].mode)
          /\ BitManipulation(d) = TemplateBitOperation(d, BitSet[c.mn].main, BitSet[c.mn].mode)
      BY <1>1, <1>3, <2>1 DEF BitManipulation
    <3>2. QED
      BY <3>1
  <2>3. QED
    BY <1>1, <1>3, <2>2, SwapTemplateBitOperation DEF SwappedCalls
<1>4. CASE c.mn \in {"Shld", "Shrd"} /\ Kinds(c) \in Double
  <2>0. c.mn \notin DOMAIN BitSet
    BY <1>4, Names
  <2>1. CASE c.mn = "Shld"
    <3>1. /\ BitManipulation(c) = TemplatePrshift(c, \hA4)
          /\ BitManipulation(d) = TemplatePrshift(d, \hA4)
      BY <1>1, <2>0, <2>1 DEF BitManipulation
    <3>2. QED
      BY <1>1, <1>4, <3>1, SwapTemplatePrshift DEF SwappedCalls
  <2>2. CASE c.mn = "Shrd"
    <3>1. /\ BitManipulation(c) = TemplatePrshift(c, \hAC)
          /\ BitManipulation(d) = TemplatePrshift(d, \hAC)
      BY <1>1, <2>0, <2>2 DEF BitManipulation
    <3>2. QED
      BY <1>1, <1>4, <3>1, SwapTemplatePrshift DEF SwappedCalls
  <2>3. QED
    BY <1>4, <2>1, <2>2
<1>5. CASE c.mn = "Setcc" /\ Kinds(c) \in {<<"cc", "reg">>, <<"cc", "mem">>}
  <2>0. c.mn \notin DOMAIN BitSet
    BY <1>5, Names
  <2>1. BitManipulation(c) = Setcc(c) /\ BitManipulation(d) = Setcc(d)
    BY <1>1, <1>5, <2>0 DEF BitManipulation
  <2>2. QED
    BY <1>1, <1>5, <2>1, SwapSetcc DEF SwappedCalls
<1>6. QED
  BY <1>2, <1>3, <1>4, <1>5

\* Jmp and Call through an rm.
LEMMA SwapIndirectJump ==
  ASSUME NEW c, NEW d, NEW k, Twins(c, d, k), c.mn \in {"Jmp", "Call"}, Kinds(c) \in OneOperand
  PROVE  SwappedCalls(c, d, k)
<1>1. InstructionOf(c) = FlowControl(c) /\ InstructionOf(d) = FlowControl(d) /\ d.mn = c.mn
  <2>1. c.mn \in Handling /\ c.mn \in Flow
    BY DEF Handling, Flow
  <2>2. QED
    BY <2>1, Dispatch, Regions, SameRegion
<1>2. c.ops[1].k \in {"reg", "mem"} /\ d.ops[1].k = c.ops[1].k
  BY OneKind, SameRegion DEF Twins, OneOperand
<1>3. c.mn \notin DOMAIN LoopOpcode
  BY Names
<1>4. CASE c.mn = "Jmp"
  <2>1. FlowControl(c) = Indirect(c, 4) /\ FlowControl(d) = Indirect(d, 4)
    BY <1>1, <1>2, <1>3, <1>4 DEF FlowControl, Jmp
  <2>2. QED
    BY <1>1, <2>1, SwapIndirect DEF SwappedCalls
<1>5. CASE c.mn = "Call"
  <2>1. FlowControl(c) = Indirect(c, 2) /\ FlowControl(d) = Indirect(d, 2)
    BY <1>1, <1>2, <1>3, <1>5 DEF FlowControl, CallTo
  <2>2. QED
    BY <1>1, <2>1, SwapIndirect DEF SwappedCalls
<1>6. QED
  BY <1>4, <1>5

\* What jumps to a label.
LEMMA SwapJumpLabel ==
  ASSUME NEW c, NEW d, NEW k, Twins(c, d, k),
         \/ c.mn \in {"Jmp", "Call", "Jcxz"} \cup DOMAIN LoopOpcode /\ Kinds(c) = <<"label">>
         \/ c.mn = "Jcc" /\ Kinds(c) = <<"cc", "label">>
  PROVE  SwappedCalls(c, d, k)
<1>1. InstructionOf(c) = FlowControl(c) /\ InstructionOf(d) = FlowControl(d) /\ d.mn = c.mn
  <2>1. c.mn \in Handling /\ c.mn \in Flow
    BY Names DEF Handling, Flow
  <2>2. QED
    BY <2>1, Dispatch, Regions, SameRegion
<1>2. CASE c.mn \in {"Jmp", "Call", "Jcxz"} \cup DOMAIN LoopOpcode /\ Kinds(c) = <<"label">>
  <2>1. c.ops[1].k = "label" /\ d.ops[1].k = c.ops[1].k /\ k = 1
    BY <1>2, OneKind, SameRegion DEF Twins
  <2>2. d.ops[1].jump = c.ops[1].jump
    BY <2>1 DEF Twins, Alike
  <2>3. \E bytes, jump : /\ FlowControl(c) = WithLabel(bytes, jump)
                         /\ FlowControl(d) = WithLabel(bytes, jump)
    <3>1. CASE c.mn = "Jmp"
      <4>0. c.mn \notin DOMAIN LoopOpcode
        BY <3>1, Names
      <4>1. FlowControl(c) = WriteJump(c.ops[1].jump) /\ FlowControl(d) = WriteJump(c.ops[1].jump)
        BY <1>1, <2>1, <2>2, <3>1, <4>0 DEF FlowControl, Jmp
      <4>2. QED
        BY <4>1 DEF WriteJump
    <3>2. CASE c.mn = "Call"
      <4>0. c.mn \notin DOMAIN LoopOpcode
        BY <3>2, Names
      <4>1. FlowControl(c) = WithLabel(<<\hE8>>, "LONG") /\ FlowControl(d) = WithLabel(<<\hE8>>, "LONG")
        BY <1>1, <2>1, <3>2, <4>0 DEF FlowControl, CallTo
      <4>2. QED
        BY <4>1
    <3>3. CASE c.mn = "Jcxz"
      <4>0. c.mn \notin DOMAIN LoopOpcode
        BY <3>3, Names
      <4>1. /\ FlowControl(c) = WithLabel(<<\h67, LoopOpcode.Jecxz>>, "SHORT")
            /\ FlowControl(d) = WithLabel(<<\h67, LoopOpcode.Jecxz>>, "SHORT")
        BY <1>1, <3>3, <4>0 DEF FlowControl
      <4>2. QED
        BY <4>1
    <3>4. CASE c.mn \in DOMAIN LoopOpcode
      <4>0. c.mn \notin {"Jmp", "Call", "Jcc", "Jcxz", "Int", "Enter", "Ret", "Retf"}
        BY <3>4, Names
      <4>1. /\ FlowControl(c) = WithLabel(<<LoopOpcode[c.mn]>>, "SHORT")
            /\ FlowControl(d) = WithLabel(<<LoopOpcode[c.mn]>>, "SHORT")
        BY <1>1, <3>4, <4>0 DEF FlowControl
      <4>2. QED
        BY <4>1
    <3>5. QED
      BY <1>2, <3>1, <3>2, <3>3, <3>4
  <2>4. FlowControl(c) = FlowControl(d) /\ FlowControl(c).args[k] = "label"
    <3>1. \A bytes, jump : WithLabel(bytes, jump).args = <<"label">>
      BY DEF WithLabel, Opcode
    <3>2. QED
      BY <2>1, <2>3, <3>1
  <2>5. QED
    BY <1>1, <2>4, SwapLabel DEF SwappedCalls
<1>3. CASE c.mn = "Jcc" /\ Kinds(c) = <<"cc", "label">>
  <2>0. c.mn \notin DOMAIN LoopOpcode
    BY <1>3, Names
  <2>1. DOMAIN c.ops = 1 .. 2 /\ c.ops[2].k = "label" /\ k \in 1 .. 2
    BY <1>3, TwoKinds, SameRegion DEF Twins
  <2>2. FlowControl(c) = Jcc(c) /\ FlowControl(d) = Jcc(d)
    BY <1>1, <1>3, <2>0 DEF FlowControl
  <2>3. Jcc(c).args = <<"none", "label">>
    BY DEF Jcc, WriteConditional, WithLabel, Opcode
  <2>4. CASE k = 1
    <3>1. InstructionOf(c).args[k] = "none"
      BY <1>1, <2>2, <2>3, <2>4
    <3>2. QED
      BY <3>1, SwapNone DEF SwappedCalls
  <2>5. CASE k = 2
    <3>1. d.ops[1] = c.ops[1] /\ d.ops[2].jump = c.ops[2].jump
      BY <2>1, <2>5 DEF Twins, Alike
    <3>2. Jcc(d) = Jcc(c)
      BY <3>1 DEF Jcc
    <3>3. Jcc(c).args[k] \in {"none", "label"}
      BY <2>3, <2>5
    <3>4. QED
      BY <1>1, <2>2, <3>2, <3>3, SwapLabel DEF SwappedCalls
  <2>6. QED
    BY <2>1, <2>4, <2>5
<1>4. QED
  BY <1>2, <1>3

\* The functions of immediates only.
LEMMA SwapImmediates ==
  ASSUME NEW c, NEW d, NEW k, Twins(c, d, k),
         \/ c.mn \in {"Int", "Ret", "Retf", "Aad", "Aam"} /\ Kinds(c) = <<"imm">>
         \/ c.mn = "Enter" /\ Kinds(c) = <<"imm", "imm">>
  PROVE  SwappedCalls(c, d, k)
<1>1. /\ d.mn = c.mn /\ c.ops # <<>> /\ d.ops # <<>>
      /\ Kinds(c) \in {<<"imm">>, <<"imm", "imm">>}
  <2>1. Len(c.ops) \in {1, 2} /\ Len(d.ops) = Len(c.ops)
    BY OneKind, TwoKinds, SameRegion DEF Twins
  <2>2. QED
    BY <2>1, SameRegion
<1>2. c.mn \notin DOMAIN LoopOpcode /\ c.mn \notin DOMAIN LoadSegOpcode
  BY Names DEF LoadSegOpcode
<1>3. \E bytes : /\ InstructionOf(c) = OpcodeImm(bytes, c.ops)
                 /\ InstructionOf(d) = OpcodeImm(bytes, d.ops)
  <2>1. CASE c.mn \in {"Int", "Ret", "Retf", "Enter"}
    <3>1. InstructionOf(c) = FlowControl(c) /\ InstructionOf(d) = FlowControl(d)
      <4>1. c.mn \in Handling /\ c.mn \in Flow
        BY <2>1 DEF Handling, Flow
      <4>2. QED
        BY <1>1, <4>1, Dispatch, Regions
    <3>2. CASE c.mn = "Int"
      <4>1. FlowControl(c) = OpcodeImm(<<\hCD>>, c.ops) /\ FlowControl(d) = OpcodeImm(<<\hCD>>, d.ops)
        BY <1>1, <1>2, <3>2 DEF FlowControl
      <4>2. QED
        BY <3>1, <4>1
    <3>3. CASE c.mn = "Ret"
      <4>1. FlowControl(c) = OpcodeImm(<<\hC2>>, c.ops) /\ FlowControl(d) = OpcodeImm(<<\hC2>>, d.ops)
        BY <1>1, <1>2, <3>3 DEF FlowControl
      <4>2. QED
        BY <3>1, <4>1
    <3>4. CASE c.mn = "Retf"
      <4>1. FlowControl(c) = OpcodeImm(<<\hCA>>, c.ops) /\ FlowControl(d) = OpcodeImm(<<\hCA>>, d.ops)
        BY <1>1, <1>2, <3>4 DEF FlowControl
      <4>2. QED
        BY <3>1, <4>1
    <3>5. CASE c.mn = "Enter"
      <4>1. FlowControl(c) = OpcodeImm(<<\hC8>>, c.ops) /\ FlowControl(d) = OpcodeImm(<<\hC8>>, d.ops)
        BY <1>1, <1>2, <3>5 DEF FlowControl
      <4>2. QED
        BY <3>1, <4>1
    <3>6. QED
      BY <2>1, <3>2, <3>3, <3>4, <3>5
  <2>2. CASE c.mn \in {"Aad", "Aam"}
    <3>1. InstructionOf(c) = Other(c) /\ InstructionOf(d) = Other(d)
      <4>1. c.mn \in Handling
        BY <2>2 DEF Handling
      <4>2. QED
        BY <1>1, <2>2, <4>1, Dispatch, Regions
    <3>2. CASE c.mn = "Aad"
      <4>1. Other(c) = OpcodeImm(<<\hD5>>, c.ops) /\ Other(d) = OpcodeImm(<<\hD5>>, d.ops)
        BY <1>1, <1>2, <3>2 DEF Other
      <4>2. QED
        BY <3>1, <4>1
    <3>3. CASE c.mn = "Aam"
      <4>1. Other(c) = OpcodeImm(<<\hD4>>, c.ops) /\ Other(d) = OpcodeImm(<<\hD4>>, d.ops)
        BY <1>1, <1>2, <3>3 DEF Other
      <4>2. QED
        BY <3>1, <4>1
    <3>4. QED
      BY <2>2, <3>2, <3>3
  <2>3. QED
    BY <2>1, <2>2
<1>4. QED
  BY <1>1, <1>3, SwapOpcodeImm DEF SwappedCalls

\* Bswap.
LEMMA SwapBswap ==
  ASSUME NEW c, NEW d, NEW k, Twins(c, d, k), c.mn = "Bswap", Kinds(c) = <<"reg">>
  PROVE  SwappedCalls(c, d, k)
<1>1. InstructionOf(c) = Bswap(c) /\ InstructionOf(d) = Bswap(d)
  BY DispatchBswap, SameRegion
<1>2. Alike(c, d, k) /\ k = 1
  BY OneKind, SameRegion DEF Twins
<1> DEFINE s == <<PrefixExtended>>
<1>3. \A n : <<PrefixExtended, n>> = Append(s, n)
  BY AppendOne
<1>4. /\ Bswap(c) = Opcode(Append(s, \hC8 + c.ops[1].reg), <<>>, <<"opcode">>)
      /\ Bswap(d) = Opcode(Append(s, \hC8 + d.ops[1].reg), <<>>, <<"opcode">>)
  BY <1>3 DEF Bswap
<1>5. \hC8 \in Nat /\ \hC8 % 8 = 0
  OBVIOUS
<1>6. s \in Seq(ByteValue)
  BY DEF PrefixExtended, ByteValue
<1> HIDE DEF s
<1>7. QED
  BY <1>1, <1>2, <1>4, <1>5, <1>6, SwapOpcode DEF SwappedCalls

\* An operand is replaced: the instruction has the new one where the old one was.
LEMMA SwapOperand ==
  ASSUME NEW c, NEW d, NEW k, Twins(c, d, k), ReturnsHandles(c.mn, Kinds(c))
  PROVE  SwappedCalls(c, d, k)
<1>1. CASE c.mn \in {"Mov"} \cup DOMAIN AluSet /\ Kinds(c) \in RegFirst \cup RegSecond \cup ImmSecond
  BY <1>1, SwapMov, SwapAlu
<1>2. CASE c.mn = "Cmp" /\ Kinds(c) = <<"imm", "mem">>
  BY <1>2, Names, SwapAlu
<1>3. CASE c.mn \in {"Lea", "Movsx", "Movzx", "Bsf", "Bsr"} /\ Kinds(c) \in RegFirst
  BY <1>3, SwapTransfer, SwapBit
<1>4. CASE c.mn \in {"Xchg", "Test"} /\ Kinds(c) \in {<<"reg", "mem">>, <<"mem", "reg">>}
  BY <1>4, SwapTransfer, SwapTest
<1>5. CASE c.mn = "Test" /\ Kinds(c) \in ImmSecond
  BY <1>5, SwapTest
<1>6. CASE /\ c.mn \in {"Push", "Pop", "Jmp", "Call"} \cup DOMAIN UnaryLarge
           /\ Kinds(c) \in OneOperand
  BY <1>6, SwapTransfer, SwapIndirectJump, SwapUnary
<1>7. CASE c.mn \in DOMAIN ShiftLarge
           /\ Kinds(c) \in OneOperand \cup ImmSecond \cup {<<"reg", "CL">>, <<"mem", "CL">>}
  BY <1>7, SwapShift
<1>8. CASE c.mn \in DOMAIN BitSet /\ Kinds(c) \in RegSecond \cup ImmSecond
  BY <1>8, SwapBit
<1>9. CASE c.mn \in {"Shld", "Shrd"} /\ Kinds(c) \in Double
  BY <1>9, SwapBit
<1>10. CASE c.mn = "Setcc" /\ Kinds(c) \in {<<"cc", "reg">>, <<"cc", "mem">>}
  BY <1>10, SwapBit
<1>11. CASE c.mn = "Bswap" /\ Kinds(c) = <<"reg">>
  BY <1>11, SwapBswap
<1>12. CASE /\ c.mn \in {"Push", "In", "Out", "Int", "Ret", "Retf", "Aad", "Aam"}
            /\ Kinds(c) = <<"imm">>
  BY <1>12, SwapTransfer, SwapImmediates
<1>13. CASE c.mn = "Enter" /\ Kinds(c) = <<"imm", "imm">>
  BY <1>13, SwapImmediates
<1>14. CASE \/ c.mn \in {"Jmp", "Call", "Jcxz"} \cup DOMAIN LoopOpcode /\ Kinds(c) = <<"label">>
            \/ c.mn = "Jcc" /\ Kinds(c) = <<"cc", "label">>
  BY <1>14, SwapJumpLabel
<1>15. QED
  BY <1>1, <1>2, <1>3, <1>4, <1>5, <1>6, <1>7, <1>8, <1>9, <1>10, <1>11, <1>12, <1>13, <1>14
     DEF ReturnsHandles
=============================================================================
