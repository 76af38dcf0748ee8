------------------------------ MODULE X86I386 ------------------------------
(***************************************************************************)
(* The public functions of class i386, region by region of x86_i386.h.     *)
(* Each is a line or two there: a template of module X86Templates applied  *)
(* to an opcode.  Instruction dispatches a call to its region.             *)
(***************************************************************************)
EXTENDS X86Templates

OpcodeSet(main, opcode, mode) == [main |-> main, opcode |-> opcode, mode |-> mode]

AluSet ==
  [Add |-> OpcodeSet(\h00, \h80, 0), Or  |-> OpcodeSet(\h08, \h80, 1),
   Adc |-> OpcodeSet(\h10, \h80, 2), Sbb |-> OpcodeSet(\h18, \h80, 3),
   And |-> OpcodeSet(\h20, \h80, 4), Sub |-> OpcodeSet(\h28, \h80, 5),
   Xor |-> OpcodeSet(\h30, \h80, 6), Cmp |-> OpcodeSet(\h38, \h80, 7)]

BitSet ==
  [Bt  |-> OpcodeSet(\hA3, \hBA, 4), Bts |-> OpcodeSet(\hAB, \hBA, 5),
   Btr |-> OpcodeSet(\hB3, \hBA, 6), Btc |-> OpcodeSet(\hBB, \hBA, 7)]

UnaryLarge ==
  [Not |-> OpcodeLarge(\hF6, 2), Neg  |-> OpcodeLarge(\hF6, 3),
   Mul |-> OpcodeLarge(\hF6, 4), Imul |-> OpcodeLarge(\hF6, 5),
   Div |-> OpcodeLarge(\hF6, 6), Idiv |-> OpcodeLarge(\hF6, 7),
   Inc |-> OpcodeLarge(\hFE, 0), Dec  |-> OpcodeLarge(\hFE, 1)]

ShiftLarge ==
  [Rol |-> OpcodeLarge(\hC0, 0), Ror |-> OpcodeLarge(\hC0, 1),
   Rcl |-> OpcodeLarge(\hC0, 2), Rcr |-> OpcodeLarge(\hC0, 3),
   Shl |-> OpcodeLarge(\hC0, 4), Shr |-> OpcodeLarge(\hC0, 5),
   Sal |-> OpcodeLarge(\hC0, 6), Sar |-> OpcodeLarge(\hC0, 7)]

SystemLarge ==
  [Sldt |-> OpcodeLarge(0, 0), Str  |-> OpcodeLarge(0, 1),
   Lldt |-> OpcodeLarge(0, 2), Ltr  |-> OpcodeLarge(0, 3),
   Verr |-> OpcodeLarge(0, 4), Verw |-> OpcodeLarge(0, 5),
   Sgdt |-> OpcodeLarge(1, 0), Sidt |-> OpcodeLarge(1, 1),
   Lgdt |-> OpcodeLarge(1, 2), Lidt |-> OpcodeLarge(1, 3),
   Smsw |-> OpcodeLarge(1, 4), Lmsw |-> OpcodeLarge(1, 6)]

(* The functions that write the same bytes whatever their arguments are. *)
ConversionBytes ==
  [Cbw |-> <<\h66, \h98>>, Cwde |-> <<\h98>>, Cwd |-> <<\h66, \h99>>, Cdq |-> <<\h99>>]
DecimalBytes == [Aaa |-> <<\h37>>, Aas |-> <<\h3F>>, Daa |-> <<\h27>>, Das |-> <<\h2F>>]
PushAllBytes == [Pusha |-> <<\h66, \h60>>, Pushad |-> <<\h60>>]
PopAllBytes == [Popa |-> <<\h66, \h61>>, Popad |-> <<\h61>>]
FlagBytes ==
  [Clc |-> <<\hF8>>, Cld |-> <<\hFC>>, Cli |-> <<\hFA>>, Cmc |-> <<\hF5>>,
   Lahf |-> <<\h9F>>, Sahf |-> <<\h9E>>, Salc |-> <<\hD6>>,
   Pushf |-> <<\h66, \h9C>>, Pushfd |-> <<\h9C>>,
   Popf |-> <<\h66, \h9D>>, Popfd |-> <<\h9D>>,
   Stc |-> <<\hF9>>, Std |-> <<\hFD>>, Sti |-> <<\hFB>>]
FixedBytes ==
  LET others ==
        [Xlat |-> <<\hD7>>, Int3 |-> <<\hCC>>, IntO |-> <<\hCE>>, Iret |-> <<\hCF>>,
         Leave |-> <<\hC9>>, Wait |-> <<\h9B>>, Hlt |-> <<\hF4>>, Clts |-> <<\h66, \h06>>,
         Lock |-> <<PrefixLock>>]
      tables == {ConversionBytes, DecimalBytes, PushAllBytes, PopAllBytes, FlagBytes, others}
  IN [mn \in UNION {DOMAIN t : t \in tables} |-> (CHOOSE t \in tables : mn \in DOMAIN t)[mn]]

StringOpcode ==
  [Ins |-> \h6C, Outs |-> \h6E, Movs |-> \hA4, Cmps |-> \hA6,
   Stos |-> \hAA, Lods |-> \hAC, Scas |-> \hAE]

LoopOpcode == [Loopne |-> \hE0, Loope |-> \hE1, Loop |-> \hE2, Jecxz |-> \hE3]

----------------------------------------------------------------------------
(* Data transfer. *)

MovSpecOpcode(c) ==
  (IF c.ops[1].k = "reg" THEN \h20 ELSE \h22)
  + (IF "dreg" \in {c.ops[1].k, c.ops[2].k} THEN 1 ELSE 0)

MovSpec(c, reg, spec) ==
  RegRm(<<PrefixExtended, MovSpecOpcode(c)>>, spec.n, reg)

Mov(c) ==
  CASE Kinds(c) \in {<<"reg", "reg">>, <<"reg", "mem">>, <<"mem", "reg">>} ->
         Template2Operands(c, \h88)
    [] c.ops[2].k = "imm" -> TemplateImm(c, \hC6, 0)
    [] "sreg" \in {c.ops[1].k, c.ops[2].k} -> Void(Template2OperandsSegm(c, \h8C), c)
    [] c.ops[2].k \in {"creg", "dreg"} -> Void(MovSpec(c, c.ops[1], c.ops[2]), c)
    [] c.ops[1].k \in {"creg", "dreg"} -> Void(MovSpec(c, c.ops[2], c.ops[1]), c)

PushSegBytes(sreg) ==
  CASE sreg = ES -> <<\h06>> [] sreg = CS -> <<\h0E>> [] sreg = SS -> <<\h16>>
    [] sreg = DS -> <<\h1E>> [] sreg = FS -> <<\h0F, \hA0>> [] sreg = GS -> <<\h0F, \hA8>>

PopSegBytes(sreg) ==   \* CS cannot be popped: nothing is written
  CASE sreg = ES -> <<\h07>> [] sreg = CS -> <<>> [] sreg = SS -> <<\h17>>
    [] sreg = DS -> <<\h1F>> [] sreg = FS -> <<\h0F, \hA1>> [] sreg = GS -> <<\h0F, \hA9>>

PushImmBytes(type) ==
  CASE type = "S8" -> <<\h6A>> [] type = "S16" -> <<Prefix16, \h68>>
    [] type = "S32" -> <<\h68>>

Push(c) ==
  CASE c.ops[1].k = "reg" -> OpcodeReg(c, \h50)
    [] c.ops[1].k = "mem" -> Template1Operand(c, \hFF, 6)
    [] c.ops[1].k = "sreg" -> Opcode(PushSegBytes(c.ops[1].sreg), <<>>, <<"none">>)
    [] c.ops[1].k = "imm" -> OpcodeImm(PushImmBytes(c.ops[1].type), c.ops)

Pop(c) ==
  CASE c.ops[1].k = "reg" -> OpcodeReg(c, \h58)
    [] c.ops[1].k = "mem" -> Template1Operand(c, \h8F, 0)
    [] c.ops[1].k = "sreg" -> Opcode(PopSegBytes(c.ops[1].sreg), <<>>, <<"none">>)

(* Xchg and Test of two registers write dst in the middle field. *)
SymetricRegs(c, opcode) ==
  Void(RegRm(OpcodeBytes(c.size, FALSE, opcode), c.ops[1].reg, c.ops[2]), c)

Xchg(c) ==
  CASE Len(c.ops) = 1 -> Void(OpcodeReg(c, \h90), c)
    [] Kinds(c) = <<"reg", "reg">> -> SymetricRegs(c, \h86)
    [] OTHER -> Template2OperandsSymetric(c, \h86)

(* In and Out: the port is an immediate or, without operands, DX. *)
PortIO(c, opcode) ==
  IF c.ops = <<>>
  THEN Opcode(OpcodeBytes(c.size, FALSE, SetBit(opcode, 3)), <<>>, <<>>)
  ELSE OpcodeImm(OpcodeBytes(c.size, FALSE, opcode), c.ops)

DataTransfer(c) ==
  CASE c.mn = "Mov" -> Mov(c)
    [] c.mn = "Lea" -> Template2OperandsSymetric(c, \h8D)
    [] c.mn = "Movsx" -> TemplateExtendVal(c, \hBE)
    [] c.mn = "Movzx" -> TemplateExtendVal(c, \hB6)
    [] c.mn = "Push" -> Push(c)
    [] c.mn = "Pop" -> Pop(c)
    [] c.mn = "Xchg" -> Xchg(c)
    [] c.mn = "In" -> PortIO(c, \hE4)
    [] c.mn = "Out" -> PortIO(c, \hE6)

----------------------------------------------------------------------------
(* Binary arithmetics and logical operations. *)

(* Add, Adc, Sub, Sbb, And, Or, Xor and Cmp.  The forms for the            *)
(* accumulator have opcodes of their own, four above the main ones.  Cmp   *)
(* alone has a form with the immediate first, which writes the same bytes. *)
Alu(c, set) ==
  CASE Kinds(c) = <<"imm">> -> Template2OperandsFirstRegImm(c, set.main + 4)
    [] Kinds(c) = <<"imm", "mem">> ->
         [TemplateImmOpt(c, c.ops[2], c.ops[1], set.opcode, set.mode)
            EXCEPT !.args = <<"imm", "rm">>]
    [] c.ops[2].k = "imm" -> TemplateImmOpt(c, c.ops[1], c.ops[2], set.opcode, set.mode)
    [] OTHER -> Template2Operands(c, set.main)

(* Inc and Dec of wide registers have one-byte forms. *)
Unary(c, large) ==
  IF c.mn \in {"Inc", "Dec"} /\ c.ops[1].k = "reg" /\ c.size # BYTE
  THEN OpcodeReg(c, \h40 + 8 * large.mode)
  ELSE Template1Operand(c, large.opcode, large.mode)

(* Imul of two and three operands.  With a register and an immediate, r/m  *)
(* is 0, which names the accumulator as the other factor.                  *)
ImulBy(c, rm, imm) ==
  Void(WithImm(RegRm(OpcodeImmOptimized(c.size, ImmSize(imm), FALSE, \h69),
                     c.ops[1].reg, rm),
               imm, ImmSize(imm)), c)

Imul(c) ==
  CASE Len(c.ops) = 3 -> ImulBy(c, c.ops[2], c.ops[3])
    [] c.ops[2].k = "imm" -> ImulBy(c, RegOp(c.size, 0), c.ops[2])
    [] OTHER -> Void(TemplateBitScan(c, \hAF), c)

Test(c) ==
  CASE Kinds(c) = <<"imm">> -> Template2OperandsFirstRegImm(c, \hA8)
    [] Kinds(c) = <<"reg", "reg">> -> SymetricRegs(c, \h84)
    [] c.ops[2].k = "imm" -> TemplateImm(c, \hF6, 0)
    [] OTHER -> Template2OperandsSymetric(c, \h84)

----------------------------------------------------------------------------
(* Bit shifts and bit manipulations. *)

Shift(c) == TemplateShift(c, ShiftLarge[c.mn].opcode, ShiftLarge[c.mn].mode)

\* The condition is a function of its own in the code: Seto to Setnle.
Setcc(c) == TemplateSetcc(c.ops[1].cc, c.ops[2])

BitManipulation(c) ==
  CASE c.mn = "Shld" -> TemplatePrshift(c, \hA4)
    [] c.mn = "Shrd" -> TemplatePrshift(c, \hAC)
    [] c.mn = "Bsf" -> TemplateBitScan(c, \hBC)
    [] c.mn = "Bsr" -> TemplateBitScan(c, \hBD)
    [] c.mn = "Setcc" -> Setcc(c)
    [] c.mn \in DOMAIN BitSet ->
         TemplateBitOperation(c, BitSet[c.mn].main, BitSet[c.mn].mode)

----------------------------------------------------------------------------
(* Flow control. *)

(* Jmp and Call through a register or memory; size 6 is FWORD_PTR. *)
Indirect(c, near) ==
  Template1Operand([c EXCEPT !.size = DWORD], \hFF, IF c.size = 6 THEN near + 1 ELSE near)

FarPointer(c, opcode) == Void(OpcodeImm(<<opcode>>, <<c.ops[2], c.ops[1]>>), c)

Jmp(c) ==
  CASE c.ops[1].k = "label" -> WriteJump(c.ops[1].jump)
    [] c.ops[1].k = "imm" -> FarPointer(c, \hEA)
    [] OTHER -> Indirect(c, 4)

CallTo(c) ==
  CASE c.ops[1].k = "addr" -> WriteCallAddr(c.ops[1].to)
    [] c.ops[1].k = "label" -> WithLabel(<<\hE8>>, "LONG")
    [] c.ops[1].k = "imm" -> FarPointer(c, \h9A)
    [] OTHER -> Indirect(c, 2)

\* So it is here: Jo to Jnle.
Jcc(c) == WriteConditional(c.ops[2].jump, c.ops[1].cc)

FlowControl(c) ==
  CASE c.mn = "Jmp" -> Jmp(c)
    [] c.mn = "Call" -> CallTo(c)
    [] c.mn = "Jcc" -> Jcc(c)
    [] c.mn \in DOMAIN LoopOpcode -> WithLabel(<<LoopOpcode[c.mn]>>, "SHORT")
    [] c.mn = "Jcxz" -> WithLabel(<<\h67, LoopOpcode.Jecxz>>, "SHORT")
    [] c.mn = "Int" -> OpcodeImm(<<\hCD>>, c.ops)
    [] c.mn = "Enter" -> OpcodeImm(<<\hC8>>, c.ops)
    [] c.mn = "Ret" -> OpcodeImm(IF c.ops = <<>> THEN <<\hC3>> ELSE <<\hC2>>, c.ops)
    [] c.mn = "Retf" -> OpcodeImm(IF c.ops = <<>> THEN <<\hCB>> ELSE <<\hCA>>, c.ops)

----------------------------------------------------------------------------
(* Strings: Movsw does not pass its RepPrefix on. *)
RepBytes(c) == IF c.rep = 0 \/ (c.mn = "Movs" /\ c.size = WORD) THEN <<>> ELSE <<c.rep>>

Strings(c) ==
  Opcode(OpcodePrefixes(c.size, FALSE)
           \o Append(RepBytes(c), Sized(StringOpcode[c.mn], c.size)), <<>>, <<>>)

(* Segment loads, Bound, Arpl, Lar, Lsl, Aad and Aam. *)
LoadSegOpcode ==
  [Lds |-> <<\hC5>>, Les |-> <<\hC4>>, Lfs |-> <<PrefixExtended, \hB4>>,
   Lgs |-> <<PrefixExtended, \hB5>>, Lss |-> <<PrefixExtended, \hB2>>,
   Bound |-> <<\h62>>]

Other(c) ==
  CASE c.mn \in DOMAIN LoadSegOpcode -> Void(TemplateLoadSegReg(c, LoadSegOpcode[c.mn]), c)
    [] c.mn = "Aad" -> OpcodeImm(<<\hD5>>, c.ops)
    [] c.mn = "Aam" -> OpcodeImm(<<\hD4>>, c.ops)
    [] c.mn = "Arpl" -> Void(RmReg(<<\h63>>, c.ops[1], c.ops[2].reg), c)
    [] c.mn = "Lar" -> Void(TemplateBitScan(c, \h02), c)
    [] c.mn = "Lsl" -> Void(TemplateBitScan(c, \h03), c)

(* The descriptor table and task register functions; those on registers    *)
(* treat all but Smsw's operand as a Reg32.                                *)
System(c, large) ==
  Void(Template1ExtOperand(IF c.mn = "Smsw" /\ c.ops[1].k = "reg" THEN c
                           ELSE [c EXCEPT !.size = DWORD],
                           large.opcode, large.mode), c)

----------------------------------------------------------------------------
(* The instruction of a call. *)
Instruction(c) ==
  CASE c.mn \in {"Mov", "Lea", "Movsx", "Movzx", "Push", "Pop", "Xchg", "In", "Out"} ->
         DataTransfer(c)
    [] c.mn \in DOMAIN AluSet -> Alu(c, AluSet[c.mn])
    [] c.mn = "Imul" /\ Len(c.ops) > 1 -> Imul(c)
    [] c.mn \in DOMAIN UnaryLarge /\ Len(c.ops) = 1 -> Unary(c, UnaryLarge[c.mn])
    [] c.mn = "Test" -> Test(c)
    [] c.mn \in DOMAIN ShiftLarge -> Shift(c)
    [] c.mn \in DOMAIN BitSet \cup {"Shld", "Shrd", "Bsf", "Bsr", "Setcc"} ->
         BitManipulation(c)
    [] c.mn \in DOMAIN LoopOpcode \cup {"Jmp", "Call", "Jcc", "Jcxz", "Int", "Enter",
                                        "Ret", "Retf"} -> FlowControl(c)
    [] c.mn \in DOMAIN StringOpcode -> Strings(c)
    [] c.mn \in DOMAIN SystemLarge -> System(c, SystemLarge[c.mn])
    [] c.mn \in DOMAIN FixedBytes -> Opcode(FixedBytes[c.mn], <<>>, <<>>)
    [] c.mn \in DOMAIN LoadSegOpcode \cup {"Aad", "Aam", "Arpl", "Lar", "Lsl"} -> Other(c)

(* The bytes of Nop(count) are written in one piece: of its asserts the    *)
(* last fails if any does.                                                 *)
Nop(b, count) ==
  [b |-> PushRaw(b, [i \in 1 .. count |-> \h90]), h |-> <<NoHandles>>]
=============================================================================
