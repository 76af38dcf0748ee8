----------------------------- MODULE Assembler -----------------------------
(***************************************************************************)
(* A program that generates code with the library: it emits instructions   *)
(* into a CodeBlock, runs the same calls on a MeasureBlock to learn their  *)
(* size, replaces operands through the handles it was given, binds labels, *)
(* and moves the cursor back to emit again.                                *)
(*                                                                         *)
(* The question is whether the bytes say what the calls said, at every     *)
(* moment and whatever the order of the calls.  The client's discipline    *)
(* has a name for each rule, and a constant to switch it off:              *)
(*   Slack           the client keeps this many bytes free behind the      *)
(*                   instructions it has measured                          *)
(*   ChecksOperands  operands have an encoding, and replacing one does not *)
(*                   move it into a form that is encoded differently       *)
(*   ChecksSpill     an instruction is written over another one only if    *)
(*                   its emitter writes nothing behind its own end         *)
(***************************************************************************)
EXTENDS X64Decode, Encoding

CONSTANTS
  Start, BlockSize,   \* the region the CodeBlock was given
  MeasureStart,       \* where the MeasureBlock believes it is
  Fresh,              \* what the region and the memory around it hold
  Calls,              \* the calls the client makes, of one class unless it
                      \* makes one only
  Regs, Scales,       \* the values that replace registers and scales,
  Offsets,            \* displacements,
  Imms,               \* and immediates
  Aligns,             \* the boundaries that the client aligns code to
  MaxInstructions,    \* BOUND on the length of the program
  MaxMoves,           \* BOUND on how often the cursor is moved back
  Slack,
  ChecksOperands,
  ChecksSpill

----------------------------------------------------------------------------
(* What a call is.  The constructors of the operands and the signatures of *)
(* the functions let a client make no others.                              *)
InstructionOf(c) ==
  AnyInstruction(IF c.mn \in DOMAIN Waiting THEN [c EXCEPT !.mn = Waiting[c.mn]] ELSE c)

(* The functions that return handles, by the kinds of their operands.      *)
OneOperand == {<<"reg">>, <<"mem">>}
RegFirst == {<<"reg", "reg">>, <<"reg", "mem">>}
RegSecond == {<<"reg", "reg">>, <<"mem", "reg">>}
ImmSecond == {<<"reg", "imm">>, <<"mem", "imm">>}
Double == {<<"reg", "reg", "imm">>, <<"mem", "reg", "imm">>,
           <<"reg", "reg", "CL">>, <<"mem", "reg", "CL">>}

ReturnsHandles(mn, kinds) ==
  \/ mn \in {"Mov"} \cup DOMAIN AluSet /\ kinds \in RegFirst \cup RegSecond \cup ImmSecond
  \/ mn = "Cmp" /\ kinds = <<"imm", "mem">>
  \/ mn \in {"Lea", "Movsx", "Movzx", "Bsf", "Bsr"} /\ kinds \in RegFirst
  \/ mn \in {"Xchg", "Test"} /\ kinds \in {<<"reg", "mem">>, <<"mem", "reg">>}
  \/ mn = "Test" /\ kinds \in ImmSecond
  \/ mn \in {"Push", "Pop", "Jmp", "Call"} \cup DOMAIN UnaryLarge /\ kinds \in OneOperand
  \/ mn \in DOMAIN ShiftLarge
     /\ kinds \in OneOperand \cup ImmSecond \cup {<<"reg", "CL">>, <<"mem", "CL">>}
  \/ mn \in DOMAIN BitSet /\ kinds \in RegSecond \cup ImmSecond
  \/ mn \in {"Shld", "Shrd"} /\ kinds \in Double
  \/ mn = "Setcc" /\ kinds \in {<<"cc", "reg">>, <<"cc", "mem">>}
  \/ mn = "Bswap" /\ kinds = <<"reg">>
  \/ mn \in {"Push", "In", "Out", "Int", "Ret", "Retf", "Aad", "Aam"} /\ kinds = <<"imm">>
  \/ mn = "Enter" /\ kinds = <<"imm", "imm">>
  \/ mn \in {"Jmp", "Call", "Jcxz"} \cup DOMAIN LoopOpcode /\ kinds = <<"label">>
  \/ mn = "Jcc" /\ kinds = <<"cc", "label">>

IsOperand(op) ==
  /\ op.k = "reg" => op = RegOp(op.size, op.reg) /\ op.reg \in Reg
  /\ op.k = "mem" => op = MemOp(op.mem) /\ op.mem = Mem32(op.mem.mode, op.mem.seg, op.mem.base,
                                                         op.mem.index, op.mem.scale, op.mem.offset)
  /\ op.k = "imm" => op = ImmOp(op.type, op.value)
  /\ op.k = "label" => op = LabelOp(op.jump, op.to)

(* What a handle replaces, by the part of the instruction that it names.   *)
Replaces(op, part, f) ==
  /\ part \in {"reg", "opcode"} => op.k = "reg"
  /\ part = "rm" => op.k \in {"reg", "mem"}
  /\ part \in {"imm", "imm2"} => op.k = "imm"
  /\ part = "label" => op.k = "label" /\ f.tail[1].size = OffsetSize(op.jump)

WellFormed(c, f) ==
  /\ {"size", "lock"} \subseteq DOMAIN c
  /\ c.ops \in Seq(Range(c.ops)) /\ \A k \in DOMAIN c.ops : IsOperand(c.ops[k])
  /\ IsInstruction(f) /\ DOMAIN f.args = DOMAIN c.ops
  /\ \A k \in DOMAIN c.ops : Replaces(c.ops[k], f.args[k], f)
  /\ (\E k \in DOMAIN c.ops : f.args[k] # "none") => ReturnsHandles(c.mn, Kinds(c))

IsCall86(c) ==
  /\ WellFormed(c, InstructionOf(c))
  /\ InstructionOf(c).rm.k = "mem" => \E k \in DOMAIN c.ops :
       /\ c.ops[k].k = "mem"
       /\ \A field \in {"mode", "base", "index", "scale", "offset"} :
            c.ops[k].mem[field] = InstructionOf(c).rm.mem[field]
  /\ \A k \in DOMAIN c.ops : c.ops[k].k = "label" => c.ops[k].to = None

\* What is emitted at once does not reach around the address space.
Emittable(n) == n \in Nat /\ BlockSize + n + 3 < AddrSpace

IsCall(c) ==
  /\ {"class", "mn", "ops"} \subseteq DOMAIN c
  /\ IF c.class = "X64" THEN IsCall64(c)
     ELSE IF c.mn = "Nop" THEN DOMAIN c.ops = {1} /\ Emittable(c.ops[1].n)
     ELSE IsCall86(c)

ASSUME AssemblerAssumption ==
  /\ Start \in Ptr /\ MeasureStart \in Ptr /\ BlockSize \in Nat /\ Slack \in Nat
  /\ Start + BlockSize + Window < AddrSpace /\ MeasureStart + BlockSize < AddrSpace
  /\ Fresh \in ByteValue
  /\ \A c \in Calls : IsCall(c)
  /\ Regs \subseteq Reg /\ Scales \subseteq 0 .. 3
  /\ Offsets \subseteq Int /\ Imms \subseteq Int
  \* the length of the padding depends on where a block is
  /\ \A n \in Aligns : Emittable(n) /\ n > 0 /\ MeasureStart % n = Start % n
  /\ MaxInstructions \in Nat /\ MaxMoves \in Nat
  /\ ChecksOperands \in BOOLEAN /\ ChecksSpill \in BOOLEAN
  /\ MaxInstructions > 1 => \A c, d \in Calls : c.class = d.class

VARIABLES
  code,   \* the CodeBlock and the memory it writes to
  meas,   \* the MeasureBlock
  prog,   \* the instructions from the start to the cursor: where each one
          \* is, the call that wrote it with its operands as they are now,
          \* and the handles that the call returned
  moves   \* how often the cursor has been moved back

vars == <<code, meas, prog, moves>>

Memory == Start .. Start + BlockSize + Window

----------------------------------------------------------------------------
(* The rules for operands. *)

(* 101 as the base of mod 00 means "disp32, no base", and an index of 100  *)
(* means "no index": neither register can be used there.  Of the registers *)
(* of 64-bit code, R13 is 101 in its low bits and R12 is not 100.          *)
EncodableMem(m) ==
  /\ m.mode \in {"BASE", "BASE_INDEX"} => RemoveExtRegBit(m.base) # EBP
  /\ m.index # ESP

(* An immediate that is written as one byte is sign-extended.              *)
FitsImm(type, v) ==
  CASE type = "S8" -> v \in -128 .. 127 [] type = "U8" -> v \in 0 .. 255
    [] type = "S16" -> v \in -32768 .. 32767 [] type = "U16" -> v \in 0 .. 65535
    [] OTHER -> TRUE

SignExtended(c, op) ==
  op.type = "U8" /\ c.size # BYTE /\ c.mn \in DOMAIN AluSet \cup {"Imul"}

EncodableImm(c, op) ==
  FitsImm(op.type, op.value) /\ (SignExtended(c, op) => op.value < 128)

Encodable(c) ==
  \A i \in DOMAIN c.ops :
    /\ c.ops[i].k = "mem" => EncodableMem(c.ops[i].mem)
    /\ c.ops[i].k = "imm" => EncodableImm(c, c.ops[i])

(* The calls whose bytes are another instruction, although their operands  *)
(* have an encoding.                                                       *)
ImmediateTooLong(c) ==
  Len(c.ops) = 2 /\ c.ops[2].k = "imm" /\ ImmSize(c.ops[2]) > c.size
ImmediateTooShort(c) == Len(c.ops) = 3 /\ c.size = DWORD /\ ImmSize(c.ops[3]) = 2

Miswritten64(c) ==
  \/ Kinds(c) = <<"reg", "reg">> /\ c.ops[1].reg # c.ops[2].reg
  \/ Kinds(c) = <<"reg", "mem">> /\ FlatSeg(c.ops[2].mem.seg) # None
  \/ Kinds(c) = <<"reg", "mem">> /\ c.ops[2].mem.mode \in {"BASE", "BASE_OFFSET"}
     /\ c.ops[2].mem.base # ESP /\ RemoveExtRegBit(c.ops[2].mem.base) = ESP

(* A jump or call with an operand of more than the four bytes it has.      *)
JumpTooLong(c) ==
  \E i \in DOMAIN c.ops :
    \/ c.ops[i].k = "label" /\ OffsetSize(c.ops[i].jump) > 4
    \/ c.ops[i].k = "addr" /\ AddrBytes > 4

Miswritten(c) ==
  \/ c.class = "X64" /\ Miswritten64(c)
  \/ JumpTooLong(c)
  \/ c.mn \in {"Clts", "Invd", "Fxtract"}
  \/ c.mn = "Imul" /\ Kinds(c) = <<"reg", "imm">> /\ c.ops[1].reg # 0
  \/ c.mn = "Imul" /\ ImmediateTooShort(c)
  \/ c.mn \in {"Mov", "Test"} /\ ImmediateTooLong(c)
  \/ c.mn \in DOMAIN BitSet /\ Kinds(c) = <<"mem", "imm">> /\ CustomSegReg(c.ops[1].mem)
  \/ c.mn = "Movs" /\ c.size = WORD /\ c.rep # 0
  \/ c.mn = "Pop" /\ c.ops[1] = SegOp(CS)
  \/ c.lock /\ c.ops[1].k # "mem"

(* A base in ModRM cannot become ESP, which needs a SIB byte; and where    *)
(* no segment prefix was written because the operand's segment was the     *)
(* default of its base, the new base must have the same default.           *)
ReplaceableBase(m, base) ==
  /\ m.mode # "BASE_INDEX_OFFSET" => base # ESP
  /\ m.seg = None \/ CustomSegReg(m) \/ SegRegFromBase(base) = SegRegFromBase(m.base)

(* Operand op of c with its field set to v. *)
Replaced(op, field, v) ==
  CASE field = "reg" -> [op EXCEPT !.reg = v]
    [] field = "imm" -> [op EXCEPT !.value = v]
    [] field = "base" -> [op EXCEPT !.mem.base = v]
    [] field = "index" -> [op EXCEPT !.mem.index = v]
    [] field = "scale" -> [op EXCEPT !.mem.scale = v]
    [] field = "offset" -> [op EXCEPT !.mem.offset = v]

(* The values that the type of a handle admits. *)
NewValues(op, field, size) ==
  CASE field \in {"reg", "base", "index"} -> Regs
    [] field = "scale" -> Scales
    [] field = "offset" -> {v \in Offsets : size = 4 \/ IsByteOffset(v)}
    [] field = "imm" -> {v \in Imms : FitsImm(op.type, v)}

(* Emitters whose last write is longer than the part they skip: a plain    *)
(* base (the optional SIB byte) and a byte displacement (all four bytes).  *)
SpillFree(c) ==
  \A i \in DOMAIN c.ops : c.ops[i].k = "mem" =>
    \/ c.ops[i].mem.mode \in {"OFFSET", "INDEX_OFFSET", "BASE_INDEX"}
    \/ c.ops[i].mem.mode \in {"BASE_OFFSET", "BASE_INDEX_OFFSET"}
       /\ ~ByteOffset(c.ops[i].mem)

----------------------------------------------------------------------------
Entry(at, c, handles) == [at |-> at, call |-> c, h |-> handles]

(* The two passes: what is measured is emitted when it fits. *)
TwoPasses(c, measured, written) ==
  /\ GetSize(measured.b) + Slack <= BlockSize
  /\ meas' = measured.b
  /\ code' = written.b
  /\ prog' = Append(prog, Entry(GetOffset(code), c, written.h))
  /\ UNCHANGED moves

EmitCall(c) ==
  /\ ChecksOperands => Encodable(c)
  /\ \E measured \in {EmitOf(meas, c)}, written \in {EmitOf(code, c)} :
       TwoPasses(c, measured, written)

(* Nop(getAlignSize<align>()): each pass asks its own block.               *)
Padding(b, align) ==
  [class |-> "X86", mn |-> "Nop", size |-> DWORD, lock |-> FALSE, rep |-> 0,
   ops |-> <<[k |-> "padding", n |-> GetAlignSize(b, align), align |-> align]>>]

Pad(align) ==
  \E measured \in {EmitOf(meas, Padding(meas, align))},
     written \in {EmitOf(code, Padding(code, align))} :
    TwoPasses(Padding(code, align), measured, written)

(* Replaceable*::replace. *)
ReplaceOperand(i, k, field, v) ==
  LET c == prog[i].call
      h == prog[i].h[k][field]
      op == Replaced(c.ops[k], field, v)
  IN /\ ChecksOperands =>
          /\ Encodable([c EXCEPT !.ops[k] = op])
          /\ field = "base" => ReplaceableBase(c.ops[k].mem, v)
     /\ code' = Replace(code, h, v)
     /\ meas' = Replace(meas, h, v)
     /\ prog' = [prog EXCEPT ![i].call.ops[k] = op]
     /\ UNCHANGED moves

(* FwdLabel::bind to offset target of the block. *)
BindLabel(i, k, target) ==
  LET size == prog[i].call.ops[k].jump
      at == prog[i].h[k].label
  IN /\ code' = Bind(code, size, at, Start + target)
     /\ meas' = Bind(meas, size, at, MeasureStart + target)
     /\ prog' = IF BindAccepts(code, size, at, Start + target)
                THEN [prog EXCEPT ![i].call.ops[k].to = Start + target]
                ELSE prog
     /\ UNCHANGED moves

(* reset(ptr) to the start of an instruction, to continue from there. *)
RewindTo(i) ==
  /\ code' = ResetTo(code, Start + prog[i].at)
  /\ meas' = ResetTo(meas, MeasureStart + prog[i].at)
  /\ prog' = IF ResetAccepts(code, Start + prog[i].at) THEN SubSeq(prog, 1, i - 1) ELSE prog
  /\ moves' = moves + 1

EndOf(i) == IF i = Len(prog) THEN GetOffset(code) ELSE prog[i + 1].at

(* reset(ptr) to an instruction, another one of the same length written    *)
(* over it, and reset(ptr) to where the cursor was.                        *)
Overwrite(i, c) ==
  /\ ChecksOperands => Encodable(c)
  /\ ChecksSpill => SpillFree(c)
  /\ \E measured \in {EmitOf(ResetTo(meas, MeasureStart + prog[i].at), c)},
        written \in {EmitOf(ResetTo(code, Start + prog[i].at), c)} :
       /\ GetOffset(measured.b) = EndOf(i)
       /\ code' = ResetTo(written.b, code.curr)
       /\ meas' = ResetTo(measured.b, meas.curr)
       /\ prog' = [prog EXCEPT ![i] = Entry(prog[i].at, c, written.h)]
       /\ moves' = moves + 1

Init ==
  /\ code = NewBlock([p \in Memory |-> Fresh], Start, BlockSize, FALSE)
  /\ meas = NewBlock(<<>>, MeasureStart, BlockSize, TRUE)
  /\ prog = <<>>
  /\ moves = 0

Targets == {prog[i].at : i \in DOMAIN prog} \cup {GetOffset(code)}

Patch ==
  \E i \in DOMAIN prog : \E k \in DOMAIN prog[i].h : \E field \in DOMAIN prog[i].h[k] :
    \/ /\ field # "label"
       /\ \E v \in NewValues(prog[i].call.ops[k], field,
                             IF field \in {"offset", "imm"} THEN prog[i].h[k][field].size
                             ELSE 1) :
            ReplaceOperand(i, k, field, v)
    \/ field = "label" /\ \E target \in Targets : BindLabel(i, k, target)

Next ==
  /\ ~code.aborted
  /\ \/ Len(prog) < MaxInstructions /\ \E c \in Calls : EmitCall(c)
     \/ Len(prog) < MaxInstructions /\ \E align \in Aligns : Pad(align)
     \/ Patch
     \/ moves < MaxMoves /\ \E i \in DOMAIN prog : RewindTo(i)
     \/ moves < MaxMoves /\ \E i \in DOMAIN prog, c \in Calls : Overwrite(i, c)

Spec == Init /\ [][Next]_vars
----------------------------------------------------------------------------
(* Every variable has its type. *)
BlockType ==
  [mem : [Memory -> ByteValue] \cup {<<>>}, curr : Ptr, start : Ptr, size : Ptr,
   measure : BOOLEAN, aborted : BOOLEAN]

TypeOK ==
  /\ code \in BlockType /\ meas \in BlockType
  /\ Len(prog) <= MaxInstructions /\ moves \in 0 .. MaxMoves
  /\ \A i \in DOMAIN prog :
       /\ DOMAIN prog[i] = {"at", "call", "h"}
       /\ prog[i].at \in Ptr
       /\ DOMAIN prog[i].h = DOMAIN prog[i].call.ops

(* The instruction that was written by call i is still there, unharmed,    *)
(* with the operands it was last given, and ends where the next one        *)
(* starts.  Nop(count) is count instructions; the padding is no longer     *)
(* than it must be to end at its boundary.                                 *)
ReadsAlong(c, d, length) == ReadsOf(c, d) /\ d.len = length

IntactAt(c, p, length) ==
  IF c.mn = "Nop"
  THEN /\ length = c.ops[1].n
       /\ \A q \in p .. p + length - 1 : code.mem[q] = \h90
       /\ c.ops[1].k = "padding" =>
            (p + length) % c.ops[1].align = 0 /\ length < c.ops[1].align
  ELSE IF c.mn \in DOMAIN WithoutWait
  THEN /\ ReadsAlong([c EXCEPT !.mn = "Wait", !.ops = <<>>, !.size = DWORD],
                     Decode(code.mem, p), 1)
       /\ ReadsAlong([c EXCEPT !.mn = WithoutWait[@]], Decode(code.mem, p + 1), length - 1)
  ELSE ReadsAlong(c, DecodeOf(c, code.mem, p), length)

Intact(i) == IntactAt(prog[i].call, Start + prog[i].at, EndOf(i) - prog[i].at)

(* The processor, reading the block from its start to the cursor, finds    *)
(* the instructions that were asked for, in order, and nothing else: no    *)
(* emitter damages what is before it, no replaced operand and no bound     *)
(* label reaches beyond its own field, an optional byte written and not    *)
(* skipped over is always overwritten or behind the end.                   *)
Faithful ==
  ~code.aborted =>
    /\ prog # <<>> => prog[1].at = 0
    /\ prog = <<>> => GetOffset(code) = 0
    /\ \A i \in DOMAIN prog : Intact(i)

(* The bytes of a call of the 32-bit classes at address p, by Encoding.    *)
TargetOf(c) ==
  IF c.ops # <<>> /\ c.ops[Len(c.ops)].k = "label" THEN c.ops[Len(c.ops)].to ELSE None

CallBytes(c, layout, p) ==
  IF c.mn = "Nop" THEN [n \in 1 .. c.ops[1].n |-> \h90]
  ELSE IF c.mn \in DOMAIN Waiting
  THEN <<\h9B>> \o FormBytes(InstructionOf(c), layout, Plus(p, 1), TargetOf(c))
  ELSE FormBytes(InstructionOf(c), layout, p, TargetOf(c))

IsEncoded(c, p, length) ==
  \E layout \in Layouts :
    /\ c.mn = "Nop" \/ Suits(layout, InstructionOf(c))
    /\ Len(CallBytes(c, layout, p)) = length
    /\ Holds(code.mem, p, CallBytes(c, layout, p))

(* Every instruction of the 32-bit classes is, byte for byte, the form that *)
(* its function chooses, filled with the operands that it was last given:  *)
(* what was put in through a handle, or by binding a label, is where it    *)
(* would be if the instruction were written anew in the same layout.       *)
(* Faithful says that a processor reads these bytes as the call; this says *)
(* which bytes they are, the same for every history of the block.          *)
Encoded ==
  ~code.aborted =>
    \A i \in DOMAIN prog :
      prog[i].call.class = "X86" =>
        IsEncoded(prog[i].call, Start + prog[i].at, EndOf(i) - prog[i].at)

(* The calls that are not read as what was asked for are those whose       *)
(* operands have no encoding and those listed in Miswritten: no other call *)
(* of the families that are suspect, and every one of these.               *)
MisreadsExactly ==
  ~code.aborted =>
    \A i \in DOMAIN prog :
      Intact(i) <=> Encodable(prog[i].call) /\ ~Miswritten(prog[i].call)

(* "Fast measure of instructions size before write them": a block with     *)
(* room for what was measured (and Slack) takes it without an assert       *)
(* failing, and so does every later replacement.                           *)
MeasuredSizeSuffices == ~code.aborted

(* The MeasureBlock has moved exactly as far as the CodeBlock.             *)
MeasureAgrees == ~code.aborted => GetSize(meas) = GetSize(code)

(* The first pass, on a MeasureBlock at another address, gets the same     *)
(* answers from bind as the second, so that a client can choose between    *)
(* SHORT and LONG jumps before it emits them.                              *)
BindsAlike ==
  \A i \in DOMAIN prog : \A k \in DOMAIN prog[i].h :
    "label" \in DOMAIN prog[i].h[k] =>
      \A target \in Targets :
        BindAccepts(code, prog[i].call.ops[k].jump, prog[i].h[k].label, Start + target)
        <=> BindAccepts(meas, prog[i].call.ops[k].jump, prog[i].h[k].label,
                        MeasureStart + target)

(* A SHORT jump can be bound to exactly what is within a signed byte of    *)
(* the end of its instruction, whichever instruction it is.                *)
ShortReach ==
  \A i \in DOMAIN prog : \A k \in DOMAIN prog[i].h :
    "label" \in DOMAIN prog[i].h[k] /\ prog[i].call.ops[k].jump = "SHORT" =>
      \A target \in Targets :
        BindAccepts(code, "SHORT", prog[i].h[k].label, Start + target)
        <=> target - EndOf(i) \in -128 .. 127

(* An emitter writes at most three bytes behind the end of its             *)
(* instruction, and nothing before its beginning: this is what Slack is    *)
(* for, and why the order in which instructions are emitted matters.       *)
SpillsThreeBytes ==
  [][Len(prog') > Len(prog) =>
       \A p \in Memory : code'.mem[p] # code.mem[p] =>
                           code.curr <= p /\ p < code'.curr + 3]_vars

(* Whatever the operands, the bytes of one instruction are its own: a step *)
(* changes those of one instruction and keeps their number, adds some      *)
(* behind all others, or gives up the last ones.  Emitting does not write  *)
(* on what was emitted before, a replacement or a bind stays inside the    *)
(* instruction whose handle it uses, and writing over an instruction       *)
(* leaves its neighbours.                                                  *)
BytesOf(i) ==
  [n \in 1 .. EndOf(i) - prog[i].at |-> code.mem[Start + prog[i].at + n - 1]]
Contents == [i \in DOMAIN prog |-> BytesOf(i)]

Stored == INSTANCE ByteStream WITH stream <- Contents
ImplementsBytes == Stored!Spec

(* No byte outside the block changes, even in a build without asserts.     *)
Contained ==
  \A p \in Memory : p >= Start + BlockSize => code.mem[p] = Fresh
=============================================================================
