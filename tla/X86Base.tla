------------------------------ MODULE X86Base ------------------------------
(***************************************************************************)
(* What every x86 instruction emitter is built from: x86_64_base.h,        *)
(* x86_base.h and replaceable.h.                                           *)
(*                                                                         *)
(*   - the ModRM and SIB bytes and the six addressing modes of Mem32       *)
(*   - the handles an emitter returns, through which an operand can be     *)
(*     replaced after it has been written                                  *)
(*   - FwdLabel, the handle of a jump whose target is not known yet        *)
(*                                                                         *)
(* An operand is what the caller passes to the constructor; the members    *)
(* the constructors compute are operators on it.  An emitter maps a block  *)
(* to the block after its writes, and works on either class of block.      *)
(***************************************************************************)
EXTENDS Block, SequencesExt

CONSTANT AddrBytes      \* sizeof(Addr): 4 or 8, by the platform of the build

ASSUME AddrBytesAssumption == AddrBytes \in {4, 8}

ByteValue == 0 .. 255

None == -1      \* a register or segment that an operand does not name

\* Reg8, Reg16 and Reg32 are numbered alike.
Reg == 0 .. 7
ESP == 4
EBP == 5

\* RegSeg: a segment register is named by its prefix byte.
ES == \h26
CS == \h2E
SS == \h36
DS == \h3E
FS == \h64
GS == \h65
RegSeg == {ES, CS, SS, DS, FS, GS}

(* The value v, of at most four bytes, as n bytes, least significant first, *)
(* in two's complement.                                                    *)
HighPart(v, i) == IF i > 4 THEN (IF v < 0 THEN -1 ELSE 0) ELSE v \div 256 ^ (i - 1)
\* Mutant: the bytes are not cut off.
LittleEndianUnmasked(v, n) == [i \in 1 .. n |-> HighPart(v, i)]
LittleEndian(v, n) == [i \in 1 .. n |-> HighPart(v, i) % 256]

(* The byte v | (1 << bit).                                                *)
SetBit(v, bit) == IF (v \div 2 ^ bit) % 2 = 1 THEN v ELSE v + 2 ^ bit

----------------------------------------------------------------------------
(* Writing single bytes, one pushRaw for each, and the bytes of an integer *)
(* with one pushRaw for all of them.                                       *)

PushByte(b, v) == PushRaw(b, <<v>>)
PushBytes(b, s) == FoldLeft(PushByte, b, s)
PushInt(b, v, n) == PushRaw(b, LittleEndian(v, n))

Prefix16 == \h66
PrefixExtended == \h0F
PrefixLock == \hF0

(* MOD_REG_RM::generate and SIB::buildSIB. *)
ModRegRm(mod, reg, rm) == mod * 64 + reg * 8 + rm
BuildSIB(scale, index, base) == scale * 64 + index * 8 + base

RegInd == 0     \* REG_IND_ADDR, SIB_NO_DISP and DISP_ADDR_ONLY
Disp1 == 1      \* DISP_ADDR_1BYTE
Disp4 == 2      \* DISP_ADDR_4BYTE
RegAddr == 3    \* REG_ADDR

WriteModRegRm(b, mod, reg, rm) == PushByte(b, ModRegRm(mod, reg, rm))

\* Mutant: -128 is left out.
IsByteMagnitude(offset) == -127 <= offset /\ offset <= 127
IsByteOffset(offset) == -128 <= offset /\ offset <= 127

----------------------------------------------------------------------------
(* Mem32<MODE>.  A memory operand holds the constructor's arguments; seg   *)
(* is None for the constructors without a segment register.                *)

Mem32(mode, seg, base, index, scale, offset) ==
  [mode |-> mode, seg |-> seg, base |-> base, index |-> index,
   scale |-> scale, offset |-> offset]

OFFSET(seg, offset)            == Mem32("OFFSET", seg, None, None, 0, offset)
BASE(seg, base)                == Mem32("BASE", seg, base, None, 0, 0)
BASE_OFFSET(seg, base, offset) == Mem32("BASE_OFFSET", seg, base, None, 0, offset)
INDEX_OFFSET(seg, index, scale, offset) ==
  Mem32("INDEX_OFFSET", seg, None, index, scale, offset)
BASE_INDEX(seg, base, index, scale) ==
  Mem32("BASE_INDEX", seg, base, index, scale, 0)
BASE_INDEX_OFFSET(seg, base, index, scale, offset) ==
  Mem32("BASE_INDEX_OFFSET", seg, base, index, scale, offset)

(* The operands that the constructors build, from a set of registers. *)
WithBase == {"BASE", "BASE_OFFSET", "BASE_INDEX", "BASE_INDEX_OFFSET"}
WithIndexReg == {"INDEX_OFFSET", "BASE_INDEX", "BASE_INDEX_OFFSET"}

IsMem(m, registers) ==
  /\ m.mode \in WithBase \cup WithIndexReg \cup {"OFFSET"}
  /\ m.seg \in RegSeg \cup {None}
  /\ IF m.mode \in WithBase THEN m.base \in registers ELSE m.base = None
  /\ IF m.mode \in WithIndexReg THEN m.index \in registers ELSE m.index = None
  /\ m.scale \in 0 .. 3 /\ m.offset \in Int

(* Mem32_Seg. *)
\* Mutant: ESP does not imply the stack segment.
SegRegFromFrame(base) == IF base = EBP THEN SS ELSE DS
SegRegFromBase(base) == IF base \in {EBP, ESP} THEN SS ELSE DS

SegReg(m) == IF m.seg = None THEN DS ELSE m.seg
CustomSegReg(m) ==
  /\ m.seg # None
  /\ m.seg # IF m.base = None THEN DS ELSE SegRegFromBase(m.base)

WriteSegmPrefix(b, m) ==
  SkipBytes(WriteRaw(b, <<SegReg(m)>>), IF CustomSegReg(m) THEN 1 ELSE 0)

(* Mem32_Base: the SIB byte that a base of ESP needs. *)
EspBase(m) == m.base = ESP
\* Mutant: the SIB byte is written and never skipped over.
WriteEspPostfixUnskipped(b, m) == WriteRaw(b, <<\h24>>)
WriteEspPostfix(b, m) ==
  SkipBytes(WriteRaw(b, <<\h24>>), IF EspBase(m) THEN 1 ELSE 0)

(* Mem32_Offset: four bytes are always written, and either one or all four *)
(* of them skipped over.                                                   *)
ByteOffset(m) == IsByteOffset(m.offset)
OptimalBytes(m) == IF ByteOffset(m) THEN 1 ELSE 4
DispMod(m) == IF ByteOffset(m) THEN Disp1 ELSE Disp4
\* Mutant: the displacement is stored with eight bytes.
WriteWideOffset(b, m) ==
  SkipBytes(WriteRaw(b, LittleEndian(m.offset, 4) \o <<0, 0, 0, 0>>), OptimalBytes(m))
WriteSmallestOffset(b, m) ==
  SkipBytes(WriteRaw(b, LittleEndian(m.offset, 4)), OptimalBytes(m))
WriteOffset(b, m) == PushInt(b, m.offset, 4)

(* Mem32_SIB: without a base, 101 stands for "disp32, no base". *)
WriteSIB(b, m) ==
  PushByte(b, BuildSIB(m.scale, m.index, IF m.base = None THEN 5 ELSE m.base))

(* Mem32<MODE>::write, with reg in the middle bits of ModRM. *)
WriteMem(b, m, reg) ==
  CASE m.mode = "OFFSET" ->
         WriteOffset(WriteModRegRm(b, RegInd, reg, 5), m)
    [] m.mode = "BASE" ->
         WriteEspPostfix(WriteModRegRm(b, RegInd, reg, m.base), m)
    [] m.mode = "BASE_OFFSET" ->
         WriteSmallestOffset(
           WriteEspPostfix(WriteModRegRm(b, DispMod(m), reg, m.base), m), m)
    [] m.mode = "INDEX_OFFSET" ->
         WriteOffset(WriteSIB(WriteModRegRm(b, RegInd, reg, 4), m), m)
    [] m.mode = "BASE_INDEX" ->
         WriteSIB(WriteModRegRm(b, RegInd, reg, 4), m)
    [] m.mode = "BASE_INDEX_OFFSET" ->
         WriteSmallestOffset(
           WriteSIB(WriteModRegRm(b, DispMod(m), reg, 4), m), m)

----------------------------------------------------------------------------
(* Handles.  ReplaceableBits names a bit field of one byte of the block,   *)
(* ReplaceableValue a run of bytes.                                        *)

Bits(at, shift, mask) == [kind |-> "bits", at |-> at, shift |-> shift, mask |-> mask]
RegBits(at, shift) == Bits(at, shift, 7)
Bytes(at, n) == [kind |-> "bytes", at |-> at, size |-> n]

(* ReplaceableBits::replace: a byte is read, changed and written back. *)
\* Mutant: the old bits are not cleared.
ReplaceBitsUncleared(b, h, value) ==
  LET byte == BytesAt(ReadRawAt(b, h.at, 1), h.at, 1)[1]
  IN WriteRawAt(b, h.at, <<(byte + value * 2 ^ h.shift) % 256>>)
ReplaceBits(b, h, value) ==
  LET read == ReadRawAt(b, h.at, 1)
      byte == BytesAt(b, h.at, 1)[1]
      old == (byte \div 2 ^ h.shift) % (h.mask + 1)
  IN WriteRawAt(read, h.at, <<byte + (value - old) * 2 ^ h.shift>>)

\* Mutant: all four bytes are written, whatever the size of the field.
ReplaceFourBytes(b, h, value) == WriteRawAt(b, h.at, LittleEndian(value, 4))
ReplaceBytes(b, h, value) == WriteRawAt(b, h.at, LittleEndian(value, h.size))

Replace(b, h, value) ==
  IF h.kind = "bits" THEN ReplaceBits(b, h, value) ELSE ReplaceBytes(b, h, value)

(* ReplaceableMem32<MODE>: the parts of a memory operand that can be       *)
(* replaced, and the handles for them when its ModRM byte is at offset at. *)
(* The base and index handles of BASE_INDEX are missing: they name         *)
(* common::Mem32_SIB, which does not exist, and do not compile.            *)
ReplaceableParts(m) ==
  LET base == IF EspBase(m) THEN {} ELSE {"base"}
  IN CASE m.mode = "OFFSET" -> {"offset"}
       [] m.mode = "BASE" -> base
       [] m.mode = "BASE_OFFSET" -> base \cup {"offset"}
       [] m.mode = "INDEX_OFFSET" -> {"index", "scale", "offset"}
       [] m.mode = "BASE_INDEX" -> {"scale"}
       [] m.mode = "BASE_INDEX_OFFSET" -> {"base", "index", "scale", "offset"}

HasSIB(m) == m.mode \in WithIndexReg
OffsetBytes(m) == IF m.mode \in {"OFFSET", "INDEX_OFFSET"} THEN 4 ELSE OptimalBytes(m)

MemHandles(m, at) ==
  LET sib == at + 1
      offset == at + 1 + (IF HasSIB(m) \/ EspBase(m) THEN 1 ELSE 0)
  IN [part \in ReplaceableParts(m) |->
        CASE part = "base" -> RegBits(IF HasSIB(m) THEN sib ELSE at, 0)
          [] part = "index" -> RegBits(sib, 3)
          [] part = "scale" -> Bits(sib, 6, 3)
          [] part = "offset" -> Bytes(offset, OffsetBytes(m))]

----------------------------------------------------------------------------
(* FwdLabel<SIZE>: the offset of a jump's operand.  offset_type of a LONG  *)
(* label is Addr.                                                          *)

OffsetSize(size) == IF size = "SHORT" THEN 1 ELSE AddrBytes

(* calc_Jump_Offset: a pointer difference, and so a signed value.          *)
\* Mutant: relative to the operand instead of its end.
CalcOperandOffset(addr, jumpAddr, n) ==
  LET d == Minus(jumpAddr, addr)
  IN IF 2 * d >= AddrSpace THEN d - AddrSpace ELSE d
CalcJumpOffset(addr, jumpAddr, n) ==
  LET d == Minus(jumpAddr, Plus(addr, n))
  IN IF 2 * d >= AddrSpace THEN d - AddrSpace ELSE d

(* What bind returns, and the block after it. *)
\* Mutant: the label's offset in the block is used as its address.
BindAcceptsOffset(b, size, at, newAddr) ==
  \/ size = "LONG"
  \/ IsByteOffset(CalcJumpOffset(at, newAddr, OffsetSize(size)))
BindAccepts(b, size, at, newAddr) ==
  \/ size = "LONG"
  \/ IsByteOffset(CalcJumpOffset(Plus(b.start, at), newAddr, OffsetSize(size)))

\* Mutant: the offset is stored with four bytes, whatever the size of the label.
BindFourBytes(b, size, at, newAddr) ==
  LET jump == CalcJumpOffset(Plus(b.start, at), newAddr, OffsetSize(size))
  IN IF BindAccepts(b, size, at, newAddr) THEN WriteRawAt(b, at, LittleEndian(jump, 4)) ELSE b
Bind(b, size, at, newAddr) ==
  LET jump == CalcJumpOffset(Plus(b.start, at), newAddr, OffsetSize(size))
  IN IF BindAccepts(b, size, at, newAddr)
     THEN WriteRawAt(b, at, LittleEndian(jump, OffsetSize(size)))
     ELSE b
=============================================================================
