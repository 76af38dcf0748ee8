----------------------------- MODULE X64Decode -----------------------------
(***************************************************************************)
(* What the bytes in memory mean to a processor in 64-bit mode, for the    *)
(* instructions of module X64I386, and what a call of its functions        *)
(* promises.  As in X86Decode the two are written independently.  Memory   *)
(* operands are <<"mem", address size, seg, base, index, scale, disp>>,    *)
(* with seg FS, GS or None: the other segments are flat.  A byte register  *)
(* from 4 to 7 is AH to BH, and with a REX prefix one of SPL to DIL, which *)
(* are <<"low", n>>.                                                       *)
(***************************************************************************)
EXTENDS X86Decode, X64I386

RIP == 16       \* as a base: the address of the next instruction

FlatSeg(seg) == IF seg \in {FS, GS} THEN seg ELSE None

----------------------------------------------------------------------------
(* Of an instruction x: s its bytes, prefixes, rex its REX prefix or 0,    *)
(* and k the index of its ModRM byte.                                      *)

Rex(x, n, bit) == n + 8 * ((x.rex \div 2 ^ bit) % 2)

IndexOf(n) == IF n = 4 THEN None ELSE n

Mem64Behind(x, base, index, scale, at) ==
  LET n == DispSize(Mod(x.s[x.k]), IF base = RIP THEN None ELSE base)
  IN [op |-> <<"mem", IF \h67 \in x.prefixes THEN 4 ELSE 8,
               FlatSeg(OneOf(x.prefixes, {FS, GS}, None)), base, index,
               IF index = None THEN 0 ELSE scale, Displacement(x.s, at, n)>>,
      end |-> at + n]

(* The low bits alone say that a SIB byte follows or that there is no      *)
(* base; that there is no index the whole number says.                     *)
NoBase(x, low) == low = 5 /\ Mod(x.s[x.k]) = 0

MemOf(x) ==
  LET low == Low(x.s[x.k])
      sib == x.s[x.k + 1]
  IN IF low = 4
     THEN Mem64Behind(x, IF NoBase(x, Low(sib)) THEN None ELSE Rex(x, Low(sib), 0),
                      IndexOf(Rex(x, Middle(sib), 1)), Mod(sib), x.k + 2)
     ELSE Mem64Behind(x, IF NoBase(x, low) THEN RIP ELSE Rex(x, low, 0), None, 0, x.k + 1)

RegOf(x, size, n) ==
  IF size = BYTE /\ x.rex # 0 /\ n \in 4 .. 7 THEN <<"low", n>> ELSE <<"reg", size, n>>

SourceOf(x, size) ==
  IF Mod(x.s[x.k]) = 3
  THEN [op |-> RegOf(x, size, Rex(x, Low(x.s[x.k]), 0)), end |-> x.k + 1]
  ELSE MemOf(x)

Read64(mn, size, ops, len) ==
  [mn |-> mn, size |-> size, lock |-> FALSE, rep |-> 0, ops |-> ops, len |-> len]

ReadExtend(x, op) ==
  LET size == IF op % 2 = 0 THEN BYTE ELSE WORD
      wide == IF x.rex % 16 >= 8 THEN 8 ELSE OperandSize(x.prefixes)
      source == SourceOf(x, size)
  IN Read64(IF op < \hB8 THEN "Movzx" ELSE "Movsx", size,
            <<RegOf(x, wide, Rex(x, Middle(x.s[x.k]), 2)), source.op>>, source.end - 1)

(* Behind the prefixes, with the opcode at index k. *)
ReadOpcode64(s, prefixes, rex, k) ==
  CASE s[k] = PrefixExtended /\ s[k + 1] \in {\hB6, \hB7, \hBE, \hBF} ->
         ReadExtend([s |-> s, prefixes |-> prefixes, rex |-> rex, k |-> k + 2], s[k + 1])
    [] s[k] \in {\h98, \h99} ->
         Read64(Plain(s[k], OperandSize(prefixes)).mn, OperandSize(prefixes), <<>>, k)
    [] OTHER -> Read64("?", DWORD, <<>>, k)

ReadPrefixes64(s, n) ==
  LET prefixes == {s[i] : i \in 1 .. n}
  IN IF s[n + 1] \in \h40 .. \h4F THEN ReadOpcode64(s, prefixes, s[n + 1], n + 2)
     ELSE ReadOpcode64(s, prefixes, 0, n + 1)

ReadBytes64(s) == ReadPrefixes64(s, PrefixLength(s))

Decode64(mem, p) == ReadBytes64(Fetch(mem, p, Window))

----------------------------------------------------------------------------
(* What a call promises. *)
Operand64(op) ==
  IF op.k = "reg" THEN <<"reg", op.size, op.reg>>
  ELSE <<"mem", op.addr, FlatSeg(op.mem.seg), op.mem.base, op.mem.index,
         IF op.mem.index = None THEN 0 ELSE op.mem.scale, op.mem.offset>>

Reads64(c, d) ==
  /\ d.mn = c.mn /\ d.size = c.size
  /\ d.ops = [i \in DOMAIN c.ops |-> Operand64(c.ops[i])]

(* For the class that a call is of. *)
DecodeOf(c, mem, p) == IF c.class = "X64" THEN Decode64(mem, p) ELSE Decode(mem, p)
ReadsOf(c, d) == IF c.class = "X64" THEN Reads64(c, d) ELSE Reads(c, d)
=============================================================================
