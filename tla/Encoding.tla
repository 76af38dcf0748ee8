------------------------------ MODULE Encoding ------------------------------
(***************************************************************************)
(* The bytes of an instruction of the 32-bit classes, in the order of the  *)
(* manuals: segment prefix, the prefixes and opcode that its function      *)
(* chooses, ModRM, SIB, displacement, immediates.  Where the emitters of   *)
(* X86Templates say how the bytes are written, over one another and one    *)
(* after another, this module says what is there in the end.               *)
(*                                                                         *)
(* Two things of an encoding are chosen when it is written and stay as     *)
(* they are when an operand is replaced: whether it has a segment prefix,  *)
(* and how long the displacement is.  They are its layout.                 *)
(***************************************************************************)
EXTENDS X86Templates

Hole == -1      \* a byte that is left as it was: of a label that is not bound

Layouts == [seg : BOOLEAN, disp : {1, 4}]

(* The layout in which f is written.                                       *)
LayoutOf(f) ==
  [seg |-> f.rm.k = "mem" /\ CustomSegReg(f.rm.mem),
   disp |-> IF f.rm.k = "mem" THEN OptimalBytes(f.rm.mem) ELSE 4]

(* n is the length of a displacement that is optional in its length.       *)
DispLength(m, n) ==
  CASE m.mode \in {"OFFSET", "INDEX_OFFSET"} -> 4
    [] m.mode \in {"BASE_OFFSET", "BASE_INDEX_OFFSET"} -> n
    [] OTHER -> 0

(* The layouts that f can be in: what names another segment than the       *)
(* default has a prefix, and the displacement has room.                    *)
Suits(layout, f) ==
  f.rm.k = "mem" =>
    /\ IF layout.seg THEN f.rm.mem.seg # None ELSE ~CustomSegReg(f.rm.mem)
    /\ DispLength(f.rm.mem, layout.disp) = 1 => ByteOffset(f.rm.mem)

----------------------------------------------------------------------------
(* ModRM, SIB and a displacement; n is the length of one that is optional  *)
(* in its length.                                                          *)
ModOf(m, n) ==
  IF m.mode \in {"BASE_OFFSET", "BASE_INDEX_OFFSET"}
  THEN IF n = 1 THEN Disp1 ELSE Disp4
  ELSE RegInd

RmOf(m) == IF m.mode = "OFFSET" THEN 5 ELSE IF HasSIB(m) THEN 4 ELSE m.base

SIBBytes(m) ==
  IF HasSIB(m) THEN <<BuildSIB(m.scale, m.index, IF m.base = None THEN 5 ELSE m.base)>>
  ELSE IF EspBase(m) THEN <<\h24>>
  ELSE <<>>

MemBytes(m, reg, n) ==
  <<ModRegRm(ModOf(m, n), reg, RmOf(m))>>
    \o (SIBBytes(m) \o LittleEndian(m.offset, DispLength(m, n)))

----------------------------------------------------------------------------
(* What precedes ModRM, what follows it up to the immediates, and these.   *)
HeadBytes(f, layout) ==
  (IF f.rm.k = "mem" /\ layout.seg THEN <<SegReg(f.rm.mem)>> ELSE <<>>) \o f.bytes

RmBytes(f, layout) ==
  CASE f.rm.k = "mem" -> MemBytes(f.rm.mem, f.reg, layout.disp)
    [] f.rm.k = "reg" -> <<ModRegRm(RegAddr, f.reg, f.rm.reg)>>
    [] OTHER -> <<>>

(* What follows, at address p; the label is bound to address to, or to     *)
(* None.                                                                   *)
PartBytes(part, p, to) ==
  CASE part.k = "imm" -> LittleEndian(part.value, part.size)
    [] part.k = "label" ->
         IF to = None THEN [i \in 1 .. part.size |-> Hole]
         ELSE LittleEndian(CalcJumpOffset(p, to, part.size), part.size)
    [] part.k = "addr" -> LittleEndian(CalcJumpOffset(p, part.to, part.size), part.size)

TailBytes(f, p, to) ==
  (IF 1 \in DOMAIN f.tail THEN PartBytes(f.tail[1], p, to) ELSE <<>>)
  \o (IF 2 \in DOMAIN f.tail THEN PartBytes(f.tail[2], p, to) ELSE <<>>)

FrontBytes(f, layout) == HeadBytes(f, layout) \o RmBytes(f, layout)

(* Instruction f at address p.                                             *)
FormBytes(f, layout, p, to) ==
  FrontBytes(f, layout) \o TailBytes(f, Plus(p, Len(FrontBytes(f, layout))), to)

(* The bytes of mem from address p on are these.                           *)
Holds(mem, p, bytes) ==
  \A k \in 1 .. Len(bytes) : bytes[k] # Hole => mem[Plus(p, k - 1)] = bytes[k]

----------------------------------------------------------------------------
(* Where the parts of an instruction are that can be replaced: the handles *)
(* of module X86Templates, by the layout.                                  *)
MemFields(m, at, n) ==
  LET sib == at + 1
  IN [part \in ReplaceableParts(m) |->
        CASE part = "base" -> RegBits(IF HasSIB(m) THEN sib ELSE at, 0)
          [] part = "index" -> RegBits(sib, 3)
          [] part = "scale" -> Bits(sib, 6, 3)
          [] part = "offset" -> Bytes(sib + Len(SIBBytes(m)), DispLength(m, n))]

Fields(f, part, layout, at) ==
  IF part = "rm" /\ f.rm.k = "mem"
  THEN MemFields(f.rm.mem, at + Len(HeadBytes(f, layout)), layout.disp)
  ELSE Handles(f, part, at + Len(HeadBytes(f, layout)), at + Len(FrontBytes(f, layout)))
=============================================================================
