------------------------------ MODULE X64I386 ------------------------------
(***************************************************************************)
(* Class X64::i386, for 64-bit code: the operands of x64_base.h and the    *)
(* functions of x64_i386.h that can be instantiated.  Those are Cbw, Cwde, *)
(* Cwd, Cdq, Movsx and Movzx: every other function reaches                 *)
(* OpcodeWriter<MemSize, BLOCK> (x64_i386.h:88, 93), which names the       *)
(* enumeration where one of its values has to stand.                       *)
(*                                                                         *)
(* Registers are numbered from 0 to 15, and only Reg32 and Reg64 have more *)
(* than eight.  A memory operand is that of module X86Base with one more   *)
(* field: addr is 8 for Mem64, whose registers are 64 bits wide, and 4 for *)
(* Mem32.  Nothing returns a handle.                                       *)
(***************************************************************************)
EXTENDS X86I686

Mem64Op(m) == [k |-> "mem", addr |-> 8, mem |-> m]
Mem32Op(m) == [k |-> "mem", addr |-> 4, mem |-> m]

(* The bits of a register number that do not fit into ModRM or SIB go into *)
(* the REX prefix: bit 0 for r/m and the base, bit 1 for the index, bit 2  *)
(* for the middle field.                                                   *)
RemoveExtRegBit(reg) == reg % 8
ExtRegMask(reg, bitNumber) == (reg \div 8) * 2 ^ bitNumber

FirstRegBit == 0
BaseRegBit == 0
IndexRegBit == 1
SecondRegBit == 2

MaskOf(reg, bitNumber) == IF reg = None THEN 0 ELSE ExtRegMask(reg, bitNumber)
\* Mutant: the bits of base and index change places.
MemExtRegMaskSwapped(m) == MaskOf(m.base, IndexRegBit) + MaskOf(m.index, BaseRegBit)
MemExtRegMask(m) == MaskOf(m.base, BaseRegBit) + MaskOf(m.index, IndexRegBit)

----------------------------------------------------------------------------
(* Mem64<MODE>::write and Mem32<MODE>::write.  They are those of class     *)
(* X86::Mem32 but for the mode without registers; and whether a SIB byte   *)
(* follows is decided by the whole register, RSP, and not by its low bits. *)

WithoutIndex(b, m, mod, reg) ==
  WriteEspPostfix(WriteModRegRm(b, mod, reg, RemoveExtRegBit(m.base)), m)

WithIndex(b, m, mod, reg) ==
  PushByte(WriteModRegRm(b, mod, reg, 4),
           BuildSIB(m.scale, RemoveExtRegBit(m.index),
                    IF m.base = None THEN 5 ELSE RemoveExtRegBit(m.base)))

WriteMem64(b, m, reg) ==
  CASE m.mode = "OFFSET" ->
         WriteOffset(PushByte(WriteModRegRm(b, RegInd, reg, 4), \h25), m)
    [] m.mode = "BASE" -> WithoutIndex(b, m, RegInd, reg)
    [] m.mode = "BASE_OFFSET" ->
         WriteSmallestOffset(WithoutIndex(b, m, DispMod(m), reg), m)
    [] m.mode = "INDEX_OFFSET" -> WriteOffset(WithIndex(b, m, RegInd, reg), m)
    [] m.mode = "BASE_INDEX" -> WithIndex(b, m, RegInd, reg)
    [] m.mode = "BASE_INDEX_OFFSET" ->
         WriteSmallestOffset(WithIndex(b, m, DispMod(m), reg), m)

----------------------------------------------------------------------------
(* ExtendedOpcodeWriter<DST_SIZE, SRC_SIZE>: REX comes last of the         *)
(* prefixes, and only if it says something.                                *)
ExtendedOpcode(dstSize, srcSize, opcode, extRegsMask) ==
  (IF dstSize = WORD THEN <<Prefix16>> ELSE <<>>)
  \o (IF extRegsMask = 0 THEN <<>> ELSE <<\h40 + extRegsMask>>)
  \o <<PrefixExtended, Sized(opcode, srcSize)>>

(* template_reg_reg_ext: the destination is in r/m. *)
TemplateRegRegExt(b, c, opcode) ==
  LET dst == c.ops[1]
      src == c.ops[2]
      mask == ExtRegMask(dst.reg, FirstRegBit) + ExtRegMask(src.reg, SecondRegBit)
  IN WriteModRegRm(PushBytes(b, ExtendedOpcode(dst.size, src.size, opcode, mask)),
                   RegAddr, RemoveExtRegBit(src.reg), RemoveExtRegBit(dst.reg))

(* template_reg_mem_ext: Mem32 has the address size prefix.  The segment   *)
(* of the operand is not looked at.                                        *)
AddressPrefix(op) == IF op.addr = 4 THEN <<\h67>> ELSE <<>>

TemplateRegMemExt(b, c, opcode) ==
  LET dst == c.ops[1]
      src == c.ops[2]
      mask == MemExtRegMask(src.mem) + ExtRegMask(dst.reg, SecondRegBit)
  IN WriteMem64(PushBytes(b, AddressPrefix(src)
                             \o ExtendedOpcode(dst.size, c.size, ToReg(opcode), mask)),
                src.mem, RemoveExtRegBit(dst.reg))

----------------------------------------------------------------------------
(* The functions. *)
Conversion64Bytes ==
  [Cbw |-> <<\h66, \h98>>, Cdq |-> <<\h99>>, Cwd |-> <<\h66, \h99>>, Cwde |-> <<\h98>>]

ExtendOpcode64 == [Movsx |-> \hBE, Movzx |-> \hB6]

Written64(b, c) ==
  IF c.mn \in DOMAIN Conversion64Bytes THEN PushBytes(b, Conversion64Bytes[c.mn])
  ELSE CASE c.ops[2].k = "reg" -> TemplateRegRegExt(b, c, ExtendOpcode64[c.mn])
         [] c.ops[2].k = "mem" -> TemplateRegMemExt(b, c, ExtendOpcode64[c.mn])

Emit64(b, c) == [b |-> Written64(b, c), h |-> [i \in DOMAIN c.ops |-> NoHandles]]

(* Each call names its class: a program uses one of them (GArch in         *)
(* main.cpp).                                                              *)
EmitOf(b, c) == IF c.class = "X64" THEN Emit64(b, c) ELSE Emit(b, c)

(* The signatures of these functions. *)
Reg64 == 0 .. 15

IsCall64(c) ==
  \/ c.mn \in DOMAIN Conversion64Bytes
  \/ /\ c.mn \in DOMAIN ExtendOpcode64 /\ DOMAIN c.ops = {1, 2}
     /\ c.ops[1].k = "reg" /\ c.ops[1].reg \in Reg64
     /\ \/ c.ops[2].k = "reg" /\ c.ops[2].reg \in Reg64
        \/ c.ops[2].k = "mem" /\ IsMem(c.ops[2].mem, Reg64)
=============================================================================
