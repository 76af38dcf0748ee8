---------------------------- MODULE X86Execute ----------------------------
(***************************************************************************)
(* A processor that runs what the assembler wrote.  It reads memory with   *)
(* module X86Decode and executes the instructions of which the generated   *)
(* functions of unittest1.cpp are made; any other instruction, and any     *)
(* access outside the memory there is, is a fault.                         *)
(*                                                                         *)
(* Registers, sums and addresses are modulo AddrSpace, which stands for    *)
(* 2^32; of the flags there is ZF; segments are flat.  A machine is        *)
(*   regs   the eight registers        eip    the next instruction         *)
(*   zf     the zero flag              mem    the memory that is mapped    *)
(***************************************************************************)
EXTENDS X86Decode, Bitwise

EAX == 0
ECX == 1
EDX == 2
EBX == 3
ESI == 6
EDI == 7

Modulus(size) == IF size = BYTE THEN 256 ELSE AddrSpace

(* Of eight-bit registers four are the second byte of a wider one. *)
ReadReg(regs, size, n) ==
  CASE size # BYTE -> regs[n]
    [] size = BYTE /\ n < 4 -> regs[n] % 256
    [] size = BYTE /\ n >= 4 -> (regs[n - 4] \div 256) % 256

WriteReg(regs, size, n, v) ==
  CASE size # BYTE -> [regs EXCEPT ![n] = v]
    [] size = BYTE /\ n < 4 -> [regs EXCEPT ![n] = @ - (@ % 256) + v]
    [] size = BYTE /\ n >= 4 ->
         [regs EXCEPT ![n - 4] = @ + 256 * (v - ((@ \div 256) % 256))]

ValueOf(bytes) == SignedAt(bytes, 1, Len(bytes)) % Modulus(Len(bytes))
ReadMem(m, p, n) == ValueOf(Fetch(m.mem, p, n))
WriteMemory(m, p, n, v) == [m EXCEPT !.mem = Store(@, p, LittleEndian(v, n))]

----------------------------------------------------------------------------
(* Operands, as X86Decode reads them. *)
RegOr0(m, n) == IF n = None THEN 0 ELSE m.regs[n]

EffectiveAddress(m, op) ==
  (RegOr0(m, op[3]) + RegOr0(m, op[4]) * 2 ^ op[5] + op[6]) % AddrSpace

Get(m, op, size) ==
  CASE op[1] = "reg" -> ReadReg(m.regs, size, op[3])
    [] op[1] = "mem" -> ReadMem(m, EffectiveAddress(m, op), size)
    [] op[1] = "imm" -> op[2] % Modulus(size)

Put(m, op, size, v) ==
  IF op[1] = "reg" THEN [m EXCEPT !.regs = WriteReg(@, size, op[3], v)]
  ELSE WriteMemory(m, EffectiveAddress(m, op), size, v)

PushValue(m, v) ==
  WriteMemory([m EXCEPT !.regs[ESP] = Minus(@, 4)], Minus(m.regs[ESP], 4), 4, v)
Popped(m) == ReadMem(m, m.regs[ESP], 4)
Drop(m, n) == [m EXCEPT !.regs[ESP] = (@ + n) % AddrSpace]

----------------------------------------------------------------------------
(* Arithmetic: the result of an instruction, and the flag set by it. *)
Writing == {"Add", "Xor", "Inc", "Dec", "Shl"}

Result(mn, a, b) ==
  CASE mn = "Add" -> a + b   [] mn = "Xor" -> a ^^ b [] mn = "Test" -> a & b
    [] mn = "Shl" -> a * 2 ^ b [] mn = "Inc" -> a + 1 [] mn = "Dec" -> a - 1

Second(m, d) == IF Len(d.ops) = 2 THEN Get(m, d.ops[2], d.size) ELSE 0

SetResult(m, d, v) ==
  [(IF d.mn \in Writing THEN Put(m, d.ops[1], d.size, v) ELSE m) EXCEPT !.zf = (v = 0)]

Arithmetic(m, d) ==
  SetResult(m, d, Result(d.mn, Get(m, d.ops[1], d.size), Second(m, d)) % Modulus(d.size))

(* The stack.  ESP is pushed as it was before, and popped last. *)
PushAll(m) == FoldLeft(LAMBDA x, r : PushValue(x, m.regs[r]), m, <<0, 1, 2, 3, 4, 5, 6, 7>>)
PopAll(m) ==
  Drop([m EXCEPT !.regs = [r \in Reg |-> IF r = ESP THEN @[ESP]
                                         ELSE ReadMem(m, @[ESP] + 4 * (7 - r), 4)]], 32)

Sets(m, d) ==   \* conditions 4 and 5: zero and not zero
  (d.ops[1][2] = 4) = m.zf

Flags(m) == 2 + (IF m.zf THEN 64 ELSE 0)
AH == 4

(* The machine after d, with eip already behind it. *)
Effect(m, d) ==
  CASE d.mn \in Writing \cup {"Test"} -> Arithmetic(m, d)
    [] d.mn = "Mov" -> Put(m, d.ops[1], d.size, Get(m, d.ops[2], d.size))
    [] d.mn = "Lea" -> Put(m, d.ops[1], d.size, EffectiveAddress(m, d.ops[2]))
    [] d.mn = "Push" -> PushValue(m, Get(m, d.ops[1], DWORD))
    [] d.mn = "Pop" -> Put(Drop(m, 4), d.ops[1], DWORD, Popped(m))
    [] d.mn = "Pushad" -> PushAll(m)
    [] d.mn = "Popad" -> PopAll(m)
    [] d.mn = "Lahf" -> [m EXCEPT !.regs = WriteReg(@, BYTE, AH, Flags(m))]
    [] d.mn = "Sahf" -> [m EXCEPT !.zf = (ReadReg(m.regs, BYTE, AH) \div 64) % 2 = 1]
    [] d.mn = "Jcc" -> IF Sets(m, d) THEN [m EXCEPT !.eip = d.ops[2][2]] ELSE m
    [] d.mn = "Ret" -> [Drop(m, 4 + (IF d.ops = <<>> THEN 0 ELSE d.ops[1][2]))
                          EXCEPT !.eip = Popped(m)]

----------------------------------------------------------------------------
(* Faults. *)
Understood ==
  Writing \cup {"Test", "Mov", "Lea", "Push", "Pop", "Pushad", "Popad", "Lahf", "Sahf",
                "Jcc", "Ret"}

Supported(d) ==
  /\ d.mn \in Understood
  /\ d.size \in {BYTE, DWORD} /\ ~d.lock /\ d.rep = 0
  /\ d.mn = "Jcc" => d.ops[1][2] \in {4, 5}
  /\ \A k \in DOMAIN d.ops : d.ops[k][1] \in {"reg", "mem", "imm", "cc", "rel"}

Extent(p, n) == {Plus(p, i) : i \in 0 .. n - 1}

StackAccess(m, d) ==
  CASE d.mn = "Push" -> Extent(Minus(m.regs[ESP], 4), 4)
    [] d.mn = "Pushad" -> Extent(Minus(m.regs[ESP], 32), 32)
    [] d.mn = "Popad" -> Extent(m.regs[ESP], 32)
    [] d.mn \in {"Pop", "Ret"} -> Extent(m.regs[ESP], 4)
    [] OTHER -> {}

Accesses(m, d) ==
  StackAccess(m, d) \cup
  UNION {Extent(EffectiveAddress(m, d.ops[k]), d.size) :
           k \in {i \in DOMAIN d.ops : d.ops[i][1] = "mem" /\ d.mn # "Lea"}}

Faults(m, d) == ~Supported(d) \/ ~(Accesses(m, d) \subseteq DOMAIN m.mem)

Fetchable(m) == Extent(m.eip, Window) \subseteq DOMAIN m.mem
Executed(m, d) == Effect([m EXCEPT !.eip = Plus(@, d.len)], d)
=============================================================================
