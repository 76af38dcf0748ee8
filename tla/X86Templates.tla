--------------------------- MODULE X86Templates ---------------------------
(***************************************************************************)
(* The protected templates of class i386 in x86_i386.h: each writes one    *)
(* shape of instruction at the cursor of a block and returns handles to    *)
(* the operands that can be replaced later.  Module X86I386 has the public *)
(* functions, which name a template and an opcode.                         *)
(*                                                                         *)
(* A call of a public function is a record                                 *)
(*   mn     the function (the Jcc and Setcc functions are one each, with   *)
(*          the condition as their first operand; so are the size variants *)
(*          of a string instruction; aliases are left out)                 *)
(*   size   MemSize, in bytes: the SIZE argument or the operands' size     *)
(*   lock   the LockPrefix argument      rep    the RepPrefix argument     *)
(*   ops    the arguments, each with its kind in k                         *)
(*                                                                         *)
(* A template decides what is written, its instruction:                    *)
(*   bytes  the prefixes and the opcode                                    *)
(*   rm     the operand in r/m of ModRM, or NoRm without a ModRM byte      *)
(*   reg    the middle field of ModRM                                      *)
(*   tail   what follows: immediates and the operands of jumps             *)
(*   args   for each argument, the part of the instruction that the handle *)
(*          returned for it names                                          *)
(* and Write writes it, in the order in which every template does.         *)
(***************************************************************************)
EXTENDS X86Base

BYTE == 1
WORD == 2
DWORD == 4

RegOp(size, reg) == [k |-> "reg", size |-> size, reg |-> reg]
MemOp(m) == [k |-> "mem", mem |-> m]
ImmOp(type, value) == [k |-> "imm", type |-> type, value |-> value]
SegOp(sreg) == [k |-> "sreg", sreg |-> sreg]
SpecOp(file, n) == [k |-> file, n |-> n]    \* file is "creg" or "dreg"
CondOp(cc) == [k |-> "cc", cc |-> cc]
CLOp == [k |-> "CL"]
\* A jump's operand: FwdLabel<jump>, bound to address to, or to None yet.
LabelOp(jump, to) == [k |-> "label", jump |-> jump, to |-> to]
AddrOp(to) == [k |-> "addr", to |-> to]

Kinds(c) == [i \in DOMAIN c.ops |-> c.ops[i].k]
----------------------------------------------------------------------------
(* OpcodeWriter<SIZE> and OpcodeImmOptimizedWriter<SIZE, OPT_SIZE>: the     *)
(* bytes that they push, one at a time.                                    *)

OpcodePrefixes(size, lock) ==
  (IF size = WORD THEN <<Prefix16>> ELSE <<>>) \o (IF lock THEN <<PrefixLock>> ELSE <<>>)

Sized(opcode, size) == IF size = BYTE THEN opcode ELSE SetBit(opcode, 0)

OpcodeBytes(size, lock, opcode) ==
  Append(OpcodePrefixes(size, lock), Sized(opcode, size))

OnlyExtendedPrefixs(size, lock, opcode) ==
  OpcodePrefixes(size, lock) \o <<PrefixExtended, opcode>>

OpcodeImmOptimized(size, optSize, lock, opcode) ==
  OpcodeBytes(size, lock,
              IF optSize = BYTE /\ size # BYTE THEN SetBit(opcode, 1) ELSE opcode)

(* rmMode << 1: the direction bit, MODE_RM and MODE_RR set it. *)
ToReg(opcode) == SetBit(opcode, 1)

----------------------------------------------------------------------------
(* Immediates: the size of Imm<T>, and of what is written for it. *)

ImmSize(imm) ==
  CASE imm.type \in {"S8", "U8"} -> 1
    [] imm.type \in {"S16", "U16"} -> 2
    [] imm.type \in {"S32", "U32"} -> 4

ImmSizeOptimize(size, imm) ==
  IF size = DWORD /\ ImmSize(imm) = 2 THEN 4 ELSE ImmSize(imm)
ImmSizeExtend(size, imm) == IF ImmSize(imm) < size THEN size ELSE ImmSize(imm)

----------------------------------------------------------------------------
(* Instructions. *)

(* OpcodeLarge: an opcode and the extension of it in the middle field. *)
OpcodeLarge(opcode, mode) == [opcode |-> opcode, mode |-> mode]

NoRm == [k |-> "none"]

Form(bytes, rm, reg, args) ==
  [bytes |-> bytes, rm |-> rm, reg |-> reg, tail |-> <<>>, args |-> args]
Opcode(bytes, tail, args) ==
  [bytes |-> bytes, rm |-> NoRm, reg |-> 0, tail |-> tail, args |-> args]

ImmPart(imm, n) == [k |-> "imm", value |-> imm.value, size |-> n]

(* An immediate of n bytes behind an instruction, which can be replaced. *)
WithImm(f, imm, n) ==
  [f EXCEPT !.tail = Append(@, ImmPart(imm, n)), !.args = Append(@, "imm")]

(* The void functions return no handles. *)
Void(f, c) == [f EXCEPT !.args = [i \in DOMAIN c.ops |-> "none"]]

(* A memory operand's segment prefix comes before everything else. *)
WriteHead(b, f) ==
  PushBytes(IF f.rm.k = "mem" THEN WriteSegmPrefix(b, f.rm.mem) ELSE b, f.bytes)

WriteRM(b, f) ==
  CASE f.rm.k = "mem" -> WriteMem(b, f.rm.mem, f.reg)
    [] f.rm.k = "reg" -> WriteModRegRm(b, RegAddr, f.reg, f.rm.reg)
    [] OTHER -> b

(* The operand of a jump is skipped over, and a label names it; that of a  *)
(* call of an address is relative to where the block is now.               *)
WritePart(b, part) ==
  CASE part.k = "imm" -> PushInt(b, part.value, part.size)
    [] part.k = "label" -> SkipBytes(b, part.size)
    [] part.k = "addr" ->
         PushInt(b, CalcJumpOffset(b.curr, part.to, part.size), part.size)

NoHandles == <<>>   \* of an operand that cannot be replaced

(* The handles for a part of f: a function from what can be replaced there *)
(* to the handle for it.  The ModRM byte is at offset modRm, the tail at   *)
(* offset tail.                                                            *)
Handles(f, part, modRm, tail) ==
  CASE part = "rm" /\ f.rm.k = "mem" -> MemHandles(f.rm.mem, modRm)
    [] part = "rm" /\ f.rm.k = "reg" -> [reg |-> RegBits(modRm, 0)]
    [] part = "reg" -> [reg |-> RegBits(modRm, 3)]
    [] part = "opcode" -> [reg |-> RegBits(Minus(tail, 1), 0)]
    [] part = "imm" -> [imm |-> Bytes(tail, f.tail[1].size)]
    [] part = "imm2" -> [imm |-> Bytes(tail + f.tail[1].size, f.tail[2].size)]
    [] part = "label" -> [label |-> tail]
    [] part = "none" -> NoHandles

WriteTail(b, f, modRm) ==
  [b |-> FoldLeft(WritePart, b, f.tail),
   h |-> [i \in DOMAIN f.args |-> Handles(f, f.args[i], modRm, GetOffset(b))]]

WriteFrom(b, f) == WriteTail(WriteRM(b, f), f, GetOffset(b))

(* The block after instruction f (field b), and the handles returned for   *)
(* its arguments (field h).                                                *)
Write(b, f) == WriteFrom(WriteHead(b, f), f)

----------------------------------------------------------------------------
(* What an instruction can be. *)
IsPart(part) ==
  \/ part.k = "imm" /\ part.value \in Int /\ part.size \in {1, 2, 4}
  \/ part.k = "label" /\ part.size \in {1, AddrBytes}
  \/ part.k = "addr" /\ part.to \in Ptr /\ part.size = AddrBytes

(* A second part follows an immediate, and is one. *)
IsTail(tail) ==
  /\ DOMAIN tail \in {{}, {1}, {1, 2}}
  /\ \A i \in DOMAIN tail : IsPart(tail[i])
  /\ 2 \in DOMAIN tail => tail[1].k = "imm" /\ tail[2].k = "imm"

(* A handle is returned for a part only if it is there. *)
HasPart(f, part) ==
  CASE part \in {"rm", "reg"} -> f.rm.k \in {"reg", "mem"}
    [] part = "opcode" -> f.bytes # <<>> /\ f.rm.k \notin {"reg", "mem"}
    [] part = "imm" -> 1 \in DOMAIN f.tail /\ f.tail[1].k = "imm"
    [] part = "imm2" -> 2 \in DOMAIN f.tail
    [] part = "label" -> 1 \in DOMAIN f.tail /\ f.tail[1].k = "label"
    [] OTHER -> part = "none"

IsInstruction(f) ==
  /\ f.bytes \in Seq(ByteValue) /\ Len(f.bytes) <= 4
  /\ f.reg \in 0 .. 7
  /\ f.rm.k = "reg" => f.rm.reg \in Reg
  /\ f.rm.k = "mem" => IsMem(f.rm.mem, Reg)
  /\ IsTail(f.tail)
  /\ \A i \in DOMAIN f.args : HasPart(f, f.args[i])

----------------------------------------------------------------------------
(* The templates. *)

(* LockPrefix is passed on by the templates for memory operands only. *)
LockOf(c) == c.lock /\ \E i \in DOMAIN c.ops : c.ops[i].k = "mem"

(* One operand, in r/m, and an opcode extension in the middle field:       *)
(* template_1mem_operand and template_1reg_operand, and the heads of the   *)
(* templates with an immediate behind it.                                  *)
Template1Operand(c, opcode, mode) ==
  Form(OpcodeBytes(c.size, LockOf(c), opcode), c.ops[1], mode, <<"rm">>)

Template1ExtOperand(c, opcode, mode) ==
  Form(OnlyExtendedPrefixs(c.size, FALSE, opcode), c.ops[1], mode, <<"rm">>)

(* template_mem_imm_operands and template_reg_imm_operands. *)
TemplateImm(c, opcode, mode) ==
  WithImm(Form(OpcodeBytes(c.size, FALSE, opcode), c.ops[1], mode, <<"rm">>),
          c.ops[2], ImmSizeExtend(c.size, c.ops[2]))

(* template_mem_imm_opt_operands and template_reg_imm_opt_operands. *)
TemplateImmOpt(c, op, imm, opcode, mode) ==
  WithImm(Form(OpcodeImmOptimized(c.size, ImmSize(imm), LockOf(c), opcode), op, mode,
               <<"rm">>),
          imm, ImmSizeOptimize(c.size, imm))

(* A register operand in the middle field and r/m beside it: the functions *)
(* with a register destination name r/m second.                            *)
RegRm(bytes, reg, op) == Form(bytes, op, reg, <<"reg", "rm">>)
RmReg(bytes, op, reg) == Form(bytes, op, reg, <<"rm", "reg">>)

(* template_2operands: with a memory destination the direction bit stays   *)
(* clear, and only this form is locked.                                    *)
Template2Operands(c, opcode) ==
  IF c.ops[1].k = "mem"
  THEN RmReg(OpcodeBytes(c.size, c.lock, opcode), c.ops[1], c.ops[2].reg)
  ELSE RegRm(OpcodeBytes(c.size, FALSE, ToReg(opcode)), c.ops[1].reg, c.ops[2])

(* template_2operands_symetric, and Lea: memory is the destination for     *)
(* template_2operands, wherever it is for the caller.                      *)
Template2OperandsSymetric(c, opcode) ==
  IF c.ops[1].k = "mem"
  THEN RmReg(OpcodeBytes(c.size, FALSE, opcode), c.ops[1], c.ops[2].reg)
  ELSE RegRm(OpcodeBytes(c.size, FALSE, opcode), c.ops[1].reg, c.ops[2])

(* template_2operands_first_reg_imm: the accumulator is implied. *)
Template2OperandsFirstRegImm(c, opcode) ==
  Opcode(OpcodeBytes(c.size, FALSE, opcode),
         <<ImmPart(c.ops[1], ImmSizeExtend(c.size, c.ops[1]))>>, <<"none">>)

(* template_2operands_segm. *)
GetSegmentRegIndex(sreg) ==
  CASE sreg = ES -> 0 [] sreg = CS -> 1 [] sreg = SS -> 2
    [] sreg = DS -> 3 [] sreg = FS -> 4 [] sreg = GS -> 5

Template2OperandsSegm(c, opcode) ==
  CASE c.ops[1].k = "reg" ->
         RmReg(<<Prefix16, opcode>>, c.ops[1], GetSegmentRegIndex(c.ops[2].sreg))
    [] c.ops[1].k = "mem" ->
         RmReg(<<opcode>>, c.ops[1], GetSegmentRegIndex(c.ops[2].sreg))
    [] c.ops[1].k = "sreg" ->
         RegRm(<<ToReg(opcode)>>, GetSegmentRegIndex(c.ops[1].sreg), c.ops[2])

(* template_2reg_operands_extend_val and template_2operands_extend_val:    *)
(* c.size is the size of the source.                                       *)
TemplateExtendVal(c, opcode) ==
  RegRm(OnlyExtendedPrefixs(c.ops[1].size, FALSE,
                            IF c.size = WORD THEN SetBit(opcode, 0) ELSE opcode),
        c.ops[1].reg, c.ops[2])

(* template_2_operands_ext, template_bit_scan, and Imul of two operands.   *)
TemplateBitScan(c, opcode) ==
  RegRm(OnlyExtendedPrefixs(c.size, FALSE, opcode), c.ops[1].reg, c.ops[2])

(* template_bit_operation.  The form for a memory operand and an immediate *)
(* writes no segment prefix, whatever the operand's segment is.            *)
NoSegment(op) == IF op.k = "mem" THEN [op EXCEPT !.mem.seg = None] ELSE op

TemplateBitOperation(c, main, mode) ==
  IF c.ops[2].k = "imm"
  THEN WithImm(Form(OnlyExtendedPrefixs(c.size, LockOf(c), \hBA),
                    NoSegment(c.ops[1]), mode, <<"rm">>),
               c.ops[2], 1)
  ELSE RmReg(OnlyExtendedPrefixs(c.size, LockOf(c), main), c.ops[1], c.ops[2].reg)

(* template_shift_operands: once, CL times, or an immediate count. *)
TemplateShift(c, opcode, mode) ==
  CASE Len(c.ops) = 1 -> Template1Operand(c, SetBit(opcode, 4), mode)
    [] Len(c.ops) = 2 /\ c.ops[2].k = "CL" ->
         [Template1Operand(c, SetBit(SetBit(opcode, 4), 1), mode)
            EXCEPT !.args = <<"rm", "none">>]
    [] OTHER -> WithImm(Template1Operand(c, opcode, mode), c.ops[2], 1)

(* template_prshift_operands: the third operand is CL or the count. *)
TemplatePrshift(c, opcode) ==
  IF c.ops[3].k = "CL"
  THEN Form(OnlyExtendedPrefixs(c.size, FALSE, SetBit(opcode, 0)), c.ops[1],
            c.ops[2].reg, <<"rm", "reg", "none">>)
  ELSE WithImm(RmReg(OnlyExtendedPrefixs(c.size, FALSE, opcode), c.ops[1], c.ops[2].reg),
               c.ops[3], 1)

(* template_Setcc. *)
TemplateSetcc(cc, op) == Form(<<PrefixExtended, \h90 + cc>>, op, 0, <<"none", "rm">>)

(* JumpWriter, template_Loop and Call(). *)
WithLabel(bytes, jump) ==
  Opcode(bytes, <<[k |-> "label", size |-> OffsetSize(jump)]>>, <<"label">>)

WriteJump(jump) == WithLabel(IF jump = "SHORT" THEN <<\hEB>> ELSE <<\hE9>>, jump)

WriteConditional(jump, cc) ==
  [WithLabel(IF jump = "SHORT" THEN <<\h70 + cc>> ELSE <<PrefixExtended, \h80 + cc>>, jump)
     EXCEPT !.args = <<"none", "label">>]

(* template_Call of an address. *)
WriteCallAddr(to) == Opcode(<<\hE8>>, <<[k |-> "addr", to |-> to, size |-> AddrBytes]>>, <<"none">>)

(* template_LoadSegReg, template_LoadSegRegEx and Bound. *)
TemplateLoadSegReg(c, opcode) ==
  RegRm(OpcodePrefixes(c.size, FALSE) \o opcode, c.ops[1].reg, c.ops[2])

(* A register in the low bits of the opcode. *)
OpcodeReg(c, opcode) ==
  Opcode(Append(OpcodePrefixes(c.size, FALSE), opcode + c.ops[1].reg), <<>>, <<"opcode">>)

(* An opcode and its immediates, each at its own size. *)
OpcodeImm(bytes, imms) ==
  Opcode(bytes, [i \in DOMAIN imms |-> ImmPart(imms[i], ImmSize(imms[i]))],
         SubSeq(<<"imm", "imm2">>, 1, Len(imms)))
=============================================================================
