----------------------------- MODULE X86Decode -----------------------------
(***************************************************************************)
(* What the bytes in memory mean to the processor, and what a call of the  *)
(* assembler promises.  The two are written independently of each other:   *)
(* Decode follows the opcode maps of the IA-32 manuals (32-bit code), and  *)
(* Operands reads a call by the name and the comment of its function.  The  *)
(* assembler is right when the one equals the other.                       *)
(*                                                                         *)
(* An instruction is [mn, size, lock, rep, ops, len], with operands        *)
(*   <<"reg", size, n>>   <<"mem", seg, base, index, scale, disp>>         *)
(*   <<"imm", v>>         <<"rel", address>>                               *)
(*   <<"sreg", prefix>>   <<"creg", n>>   <<"dreg", n>>   <<"cc", n>>      *)
(*   <<"far", selector, offset>>   <<"st", n>>                             *)
(* Numbers are signed, at the size at which the instruction uses them.     *)
(***************************************************************************)
EXTENDS X86I686

Signed(v, n) ==
  IF n = 4 THEN v
  ELSE LET half == 256 ^ n \div 2 IN ((v + half) % (2 * half)) - half

(* The n bytes from index at of s as a signed number. *)
SignedAt(s, at, n) ==
  FoldLeft(LAMBDA acc, byte : acc * 256 + byte, Signed(s[at + n - 1], 1),
           Reverse(SubSeq(s, at, at + n - 2)))

DefaultSeg(base) == IF base \in {ESP, EBP} THEN SS ELSE DS

----------------------------------------------------------------------------
(* Operand encodings, after the manuals: E is r/m, G the middle field, Z   *)
(* the low bits of the opcode, A the accumulator; I an immediate of the    *)
(* operand's size, Ib and Iw of one and two bytes, Is one byte that is     *)
(* sign-extended; J1 and J4 a jump displacement.                           *)

F(mn, size, args) == [mn |-> mn, size |-> size, args |-> args]

AluNames == <<"Add", "Or", "Adc", "Sbb", "And", "Sub", "Xor", "Cmp">>
ShiftNames == <<"Rol", "Ror", "Rcl", "Rcr", "Shl", "Shr", "Sal", "Sar">>
Group3Names == <<"Test", "?", "Not", "Neg", "Mul", "Imul", "Div", "Idiv">>
Group5Names == <<"Inc", "Dec", "Call", "Call", "Jmp", "Jmp", "Push", "?">>
Group6Names == <<"Sldt", "Str", "Lldt", "Ltr", "Verr", "Verw", "?", "?">>
Group7Names == <<"Sgdt", "Sidt", "Lgdt", "Lidt", "Smsw", "?", "Lmsw", "Invlpg">>
Group8Names == <<"?", "?", "?", "?", "Bt", "Bts", "Btr", "Btc">>

(* Opcodes that come in pairs, for bytes and for wider operands. *)
Paired(op, n, ext) ==
  CASE op \in {\h80, \h82} -> F(AluNames[ext + 1], n, <<"E", "I">>)
    [] op = \h84 -> F("Test", n, <<"E", "G">>)
    [] op = \h86 -> F("Xchg", n, <<"E", "G">>)
    [] op = \h88 -> F("Mov", n, <<"E", "G">>)
    [] op = \h8A -> F("Mov", n, <<"G", "E">>)
    [] op = \hA8 -> F("Test", n, <<"A", "I">>)
    [] op = \hC0 -> F(ShiftNames[ext + 1], n, <<"E", "Ib">>)
    [] op = \hD0 -> F(ShiftNames[ext + 1], n, <<"E", "1">>)
    [] op = \hD2 -> F(ShiftNames[ext + 1], n, <<"E", "CL">>)
    [] op = \hC6 -> F(IF ext = 0 THEN "Mov" ELSE "?", n, <<"E", "I">>)
    [] op = \hE4 -> F("In", n, <<"A", "Ib">>)
    [] op = \hE6 -> F("Out", n, <<"Ib", "A">>)
    [] op = \hEC -> F("In", n, <<"A", "DX">>)
    [] op = \hEE -> F("Out", n, <<"DX", "A">>)
    [] op = \hF6 -> F(Group3Names[ext + 1], n, IF ext = 0 THEN <<"E", "I">> ELSE <<"E">>)
    [] op = \hFE /\ (n # BYTE \/ ext < 2) ->
         F(Group5Names[ext + 1], IF ext \in {3, 5} THEN 6 ELSE n, <<"E">>)
    [] op \in {\h6C, \h6E, \hA4, \hA6, \hAA, \hAC, \hAE} ->
         F(CASE op = \h6C -> "Ins" [] op = \h6E -> "Outs" [] op = \hA4 -> "Movs"
             [] op = \hA6 -> "Cmps" [] op = \hAA -> "Stos" [] op = \hAC -> "Lods"
             [] op = \hAE -> "Scas", n, <<>>)
    [] OTHER -> F("?", n, <<>>)

(* Opcodes without operands, whose names may depend on the size. *)
Plain(op, n) ==
  LET sized(name16, name32) == F(IF n = WORD THEN name16 ELSE name32, n, <<>>)
      one(name) == F(name, n, <<>>)
  IN CASE op = \h98 -> sized("Cbw", "Cwde")  [] op = \h99 -> sized("Cwd", "Cdq")
       [] op = \h60 -> sized("Pusha", "Pushad") [] op = \h61 -> sized("Popa", "Popad")
       [] op = \h9C -> sized("Pushf", "Pushfd") [] op = \h9D -> sized("Popf", "Popfd")
       [] op = \hD7 -> one("Xlat") [] op = \h37 -> one("Aaa")  [] op = \h3F -> one("Aas")
       [] op = \h27 -> one("Daa")  [] op = \h2F -> one("Das")  [] op = \hCC -> one("Int3")
       [] op = \hCE -> one("IntO") [] op = \hCF -> one("Iret") [] op = \hC9 -> one("Leave")
       [] op = \hF8 -> one("Clc")  [] op = \hFC -> one("Cld")  [] op = \hFA -> one("Cli")
       [] op = \hF5 -> one("Cmc")  [] op = \h9F -> one("Lahf") [] op = \h9E -> one("Sahf")
       [] op = \hD6 -> one("Salc") [] op = \hF9 -> one("Stc")  [] op = \hFD -> one("Std")
       [] op = \hFB -> one("Sti")  [] op = \h9B -> one("Wait") [] op = \hF4 -> one("Hlt")
       [] op = \hC3 -> one("Ret")  [] op = \hCB -> one("Retf")
       [] OTHER -> one("?")

Known(form, otherwise) == IF form.mn # "?" THEN form ELSE otherwise

OneByte(op, v, ext, mod) ==
  CASE op < \h40 /\ op % 8 < 6 ->
         F(AluNames[op \div 8 + 1], IF op % 2 = 0 THEN BYTE ELSE v,
           CASE op % 8 < 2 -> <<"E", "G">> [] op % 8 < 4 -> <<"G", "E">>
             [] OTHER -> <<"A", "I">>)
    [] op < \h20 /\ op % 8 = 6 -> F("Push", v, <<"Seg">>)
    [] op < \h20 /\ op % 8 = 7 -> F("Pop", v, <<"Seg">>)
    [] op \in \h40 .. \h47 -> F("Inc", v, <<"Z">>)
    [] op \in \h48 .. \h4F -> F("Dec", v, <<"Z">>)
    [] op \in \h50 .. \h57 -> F("Push", v, <<"Z">>)
    [] op \in \h58 .. \h5F -> F("Pop", v, <<"Z">>)
    [] op \in \h90 .. \h97 -> F("Xchg", v, <<"A", "Z">>)
    [] op \in \h70 .. \h7F -> F("Jcc", v, <<"cc", "J1">>)
    [] op = \h62 -> F("Bound", v, <<"G", "E">>)
    [] op = \h63 -> F("Arpl", WORD, <<"E", "G">>)
    [] op = \h68 -> F("Push", v, <<"I">>)
    [] op = \h6A -> F("Push", v, <<"Is">>)
    [] op = \h69 -> F("Imul", v, <<"G", "E", "I">>)
    [] op = \h6B -> F("Imul", v, <<"G", "E", "Is">>)
    [] op = \h83 -> F(AluNames[ext + 1], v, <<"E", "Is">>)
    [] op = \h8C -> F("Mov", IF mod = 3 THEN v ELSE WORD, <<"E", "S">>)
    [] op = \h8D -> F("Lea", v, <<"G", "E">>)
    [] op = \h8E -> F("Mov", WORD, <<"S", "E">>)
    [] op = \h8F /\ ext = 0 -> F("Pop", v, <<"E">>)
    [] op = \h9A -> F("Call", v, <<"far">>)
    [] op = \hEA -> F("Jmp", v, <<"far">>)
    [] op = \hC2 -> F("Ret", v, <<"Iw">>)
    [] op = \hCA -> F("Retf", v, <<"Iw">>)
    [] op = \hC4 -> F("Les", v, <<"G", "E">>)
    [] op = \hC5 -> F("Lds", v, <<"G", "E">>)
    [] op = \hC8 -> F("Enter", v, <<"Iw", "Ib">>)
    [] op = \hCD -> F("Int", v, <<"Ib">>)
    [] op = \hD4 -> F("Aam", v, <<"Ib">>)
    [] op = \hD5 -> F("Aad", v, <<"Ib">>)
    [] op = \hE0 -> F("Loopne", v, <<"J1">>)
    [] op = \hE1 -> F("Loope", v, <<"J1">>)
    [] op = \hE2 -> F("Loop", v, <<"J1">>)
    [] op = \hE3 -> F("Jecxz", v, <<"J1">>)
    [] op = \hE8 -> F("Call", v, <<"J4">>)
    [] op = \hE9 -> F("Jmp", v, <<"J4">>)
    [] op = \hEB -> F("Jmp", v, <<"J1">>)
    [] OTHER -> Known(Paired(2 * (op \div 2), IF op % 2 = 0 THEN BYTE ELSE v, ext),
                      Plain(op, v))

TwoByte(op, v, ext) ==
  CASE op = \h00 -> F(Group6Names[ext + 1], WORD, <<"E">>)
    [] op = \h01 -> F(Group7Names[ext + 1], v, <<"E">>)
    [] op = \h02 -> F("Lar", v, <<"G", "E">>)
    [] op = \h03 -> F("Lsl", v, <<"G", "E">>)
    [] op = \h06 -> F("Clts", v, <<>>)
    [] op = \h08 -> F("Invd", v, <<>>)
    [] op = \h09 -> F("Wbinvd", v, <<>>)
    [] op = \h0B -> F("Ud2", v, <<>>)
    [] op = \h1C /\ ext = 0 -> F("Cldemote", v, <<"E">>)
    [] op = \h20 -> F("Mov", DWORD, <<"E", "creg">>)
    [] op = \h21 -> F("Mov", DWORD, <<"E", "dreg">>)
    [] op = \h22 -> F("Mov", DWORD, <<"creg", "E">>)
    [] op = \h23 -> F("Mov", DWORD, <<"dreg", "E">>)
    [] op \in \h30 .. \h35 ->
         F(<<"Wrmsr", "Rdtsc", "Rdmsr", "Rdpmc", "Sysenter", "Sysexit">>[op - \h30 + 1], v, <<>>)
    [] op \in \h80 .. \h8F -> F("Jcc", v, <<"cc", "J4">>)
    [] op \in \h90 .. \h9F -> F("Setcc", BYTE, <<"cc", "E">>)
    [] op \in {\hA0, \hA8} -> F("Push", v, <<"Seg">>)
    [] op \in {\hA1, \hA9} -> F("Pop", v, <<"Seg">>)
    [] op = \hA2 -> F("Cpuid", v, <<>>)
    [] op = \hAA -> F("Rsm", v, <<>>)
    [] op = \hAE /\ ext = 7 -> F(IF v = WORD THEN "Clflushopt" ELSE "Clflush", v, <<"E">>)
    [] op \in {\hB0, \hB1} -> F("CmpXchg", IF op = \hB0 THEN BYTE ELSE v, <<"E", "G">>)
    [] op \in {\hC0, \hC1} -> F("Xadd", IF op = \hC0 THEN BYTE ELSE v, <<"E", "G">>)
    [] op = \hC7 /\ ext = 1 -> F("CmpXchg8b", 8, <<"E">>)
    [] op \in \hC8 .. \hCF -> F("Bswap", v, <<"Z">>)
    [] op = \hA3 -> F("Bt", v, <<"E", "G">>)
    [] op = \hAB -> F("Bts", v, <<"E", "G">>)
    [] op = \hB3 -> F("Btr", v, <<"E", "G">>)
    [] op = \hBB -> F("Btc", v, <<"E", "G">>)
    [] op = \hBA -> F(Group8Names[ext + 1], v, <<"E", "Ib">>)
    [] op = \hA4 -> F("Shld", v, <<"E", "G", "Ib">>)
    [] op = \hA5 -> F("Shld", v, <<"E", "G", "CL">>)
    [] op = \hAC -> F("Shrd", v, <<"E", "G", "Ib">>)
    [] op = \hAD -> F("Shrd", v, <<"E", "G", "CL">>)
    [] op = \hAF -> F("Imul", v, <<"G", "E">>)
    [] op = \hB2 -> F("Lss", v, <<"G", "E">>)
    [] op = \hB4 -> F("Lfs", v, <<"G", "E">>)
    [] op = \hB5 -> F("Lgs", v, <<"G", "E">>)
    [] op = \hB6 -> F("Movzx", BYTE, <<"Gv", "E">>)
    [] op = \hB7 -> F("Movzx", WORD, <<"Gv", "E">>)
    [] op = \hBC -> F("Bsf", v, <<"G", "E">>)
    [] op = \hBD -> F("Bsr", v, <<"G", "E">>)
    [] op = \hBE -> F("Movsx", BYTE, <<"Gv", "E">>)
    [] op = \hBF -> F("Movsx", WORD, <<"Gv", "E">>)
    [] OTHER -> F("?", v, <<>>)

----------------------------------------------------------------------------
(* The escape opcodes D8 to DF: the floating point instructions, whose     *)
(* second byte is a ModRM byte, by memory operand and by register.         *)

EscapeBytes == \hD8 .. \hDF

ArithNames == <<"Fadd", "Fmul", "Fcom", "Fcomp", "Fsub", "Fsubr", "Fdiv", "Fdivr">>
IntArithNames == <<"Fiadd", "Fimul", "Ficom", "Ficomp", "Fisub", "Fisubr", "Fidiv", "Fidivr">>
PopNames == <<"Faddp", "Fmulp", "?", "?", "Fsubrp", "Fsubp", "Fdivrp", "Fdivp">>
ReversedNames == <<"Fadd", "Fmul", "?", "?", "Fsubr", "Fsub", "Fdivr", "Fdiv">>
LoadNames ==   \* the names and sizes in D9, DB, DD and DF
  <<(<<"Fld", 4>>), <<"?", 4>>, <<"Fst", 4>>, <<"Fstp", 4>>,
    <<"Fldenv", 4>>, <<"Fldcw", 2>>, <<"Fnstenv", 4>>, <<"Fnstcw", 2>>,
    <<"Fild", 4>>, <<"Fisttp", 4>>, <<"Fist", 4>>, <<"Fistp", 4>>,
    <<"?", 4>>, <<"Fld", 10>>, <<"?", 4>>, <<"Fstp", 10>>,
    <<"Fld", 8>>, <<"Fisttp", 8>>, <<"Fst", 8>>, <<"Fstp", 8>>,
    <<"Frstor", 4>>, <<"?", 4>>, <<"Fnsave", 4>>, <<"Fnstsw", 2>>,
    <<"Fild", 2>>, <<"Fisttp", 2>>, <<"Fist", 2>>, <<"Fistp", 2>>,
    <<"Fbld", 10>>, <<"Fild", 8>>, <<"Fbstp", 10>>, <<"Fistp", 8>>>>
TopNames ==    \* D9 E0 to D9 FF
  <<"Fchs", "Fabs", "?", "?", "Ftst", "Fxam", "?", "?",
    "Fld1", "FldL2T", "FldL2E", "FldPI", "FldLG2", "FldLN2", "FldZ", "?",
    "F2xm1", "FyL2X", "Fptan", "Fpatan", "Fxtract", "Fprem1", "Fdecstp", "Fincstp",
    "Fprem", "FyL2XP1", "Fsqrt", "Fsincos", "Frndint", "Fscale", "Fsin", "Fcos">>

EscapeMemory(op, ext) ==
  CASE op = \hD8 -> F(ArithNames[ext + 1], 4, <<"E">>)
    [] op = \hDC -> F(ArithNames[ext + 1], 8, <<"E">>)
    [] op = \hDA -> F(IntArithNames[ext + 1], 4, <<"E">>)
    [] op = \hDE -> F(IntArithNames[ext + 1], 2, <<"E">>)
    [] OTHER -> F(LoadNames[4 * (op - \hD9) + ext + 1][1],
                  LoadNames[4 * (op - \hD9) + ext + 1][2], <<"E">>)

EscapeRegister(op, ext, modRm) ==
  LET f(name, args) == F(name, DWORD, args)
      to == <<"ST", "STi">>
      from == <<"STi", "ST">>
  IN CASE op = \hD8 -> f(ArithNames[ext + 1], IF ext \in {2, 3} THEN <<"STi">> ELSE to)
       [] op = \hD9 /\ ext < 2 -> f(<<"Fld", "Fxch">>[ext + 1], <<"STi">>)
       [] op = \hD9 /\ modRm = \hD0 -> f("Fnop", <<>>)
       [] op = \hD9 /\ ext > 3 -> f(TopNames[modRm - \hE0 + 1], <<>>)
       [] op = \hDA /\ ext < 4 -> f(<<"Fcmovb", "Fcmove", "Fcmovbe", "Fcmovu">>[ext + 1], to)
       [] op = \hDA /\ modRm = \hE9 -> f("Fucompp", <<>>)
       [] op = \hDB /\ ext < 4 -> f(<<"Fcmovnb", "Fcmovne", "Fcmovnbe", "Fcmovnu">>[ext + 1], to)
       [] op = \hDB /\ modRm \in {\hE2, \hE3} -> f(<<"Fnclex", "Fninit">>[modRm - \hE1], <<>>)
       [] op = \hDB /\ ext \in {5, 6} -> f(<<"Fucomi", "Fcomi">>[ext - 4], to)
       [] op = \hDC -> f(ReversedNames[ext + 1], from)
       [] op = \hDD -> f(<<"Ffree", "?", "Fst", "Fstp", "Fucom", "Fucomp", "?", "?">>[ext + 1],
                         <<"STi">>)
       [] op = \hDE /\ modRm = \hD9 -> f("Fcompp", <<>>)
       [] op = \hDE -> f(PopNames[ext + 1], from)
       [] op = \hDF /\ modRm = \hE0 -> F("Fnstsw", WORD, <<"A">>)
       [] op = \hDF /\ ext \in {5, 6} -> f(<<"Fucomip", "Fcomip">>[ext - 4], to)
       [] OTHER -> f("?", <<>>)

EscapeForm(op, modRm) ==
  IF modRm < 192 THEN EscapeMemory(op, (modRm \div 8) % 8)
  ELSE EscapeRegister(op, (modRm \div 8) % 8, modRm)

----------------------------------------------------------------------------
(* ModRM, SIB and displacement. *)
Mod(byte) == byte \div 64
Middle(byte) == (byte \div 8) % 8
Low(byte) == byte % 8

NoSib(rm) == [base |-> rm, index |-> None, scale |-> 0]
Sib(byte) ==
  IF Middle(byte) = 4 THEN NoSib(Low(byte))
  ELSE [base |-> Low(byte), index |-> Middle(byte), scale |-> Mod(byte)]

DispSize(mod, base) ==
  CASE mod = 1 -> 1 [] mod = 2 \/ (mod = 0 /\ base = None) -> 4 [] OTHER -> 0

Displacement(s, at, n) == IF n = 0 THEN 0 ELSE SignedAt(s, at, n)

(* The memory operand with base, and sib for its index, whose displacement *)
(* starts at index at of s, and the index behind it.                       *)
MemBehind(s, at, seg, mod, base, sib) ==
  [mem |-> <<"mem", IF seg = None THEN DefaultSeg(base) ELSE seg, base, sib.index,
             sib.scale, Displacement(s, at, DispSize(mod, base))>>,
   end |-> at + DispSize(mod, base)]

MemWith(s, at, seg, mod, sib) ==
  MemBehind(s, at, seg, mod, IF sib.base = 5 /\ mod = 0 THEN None ELSE sib.base, sib)

(* With the ModRM byte at index k of s. *)
ModRmAt(s, k, seg) ==
  IF Mod(s[k]) # 3 /\ Low(s[k]) = 4
  THEN MemWith(s, k + 2, seg, Mod(s[k]), Sib(s[k + 1]))
  ELSE MemWith(s, k + 1, seg, Mod(s[k]), NoSib(Low(s[k])))

----------------------------------------------------------------------------
(* Reading an instruction, from its prefixes to its operands. *)

ImmBytes(arg, size) ==
  CASE arg = "I" -> size [] arg \in {"Ib", "Is", "J1"} -> 1 [] arg = "Iw" -> 2
    [] arg = "J4" -> 4 [] arg = "far" -> 6 [] OTHER -> 0

HasModRm(form) == \E i \in DOMAIN form.args : form.args[i] \in {"E", "G", "Gv"}

SegIndex == <<ES, CS, SS, DS, FS, GS, None, None>>

PrefixBytes == RegSeg \cup {Prefix16, \h67, PrefixLock, \hF2, \hF3}

PrefixLength(s) ==
  Cardinality({n \in 1 .. 5 : \A i \in 1 .. n : s[i] \in PrefixBytes})

OneOf(prefixes, set, none) ==
  IF prefixes \cap set = {} THEN none ELSE CHOOSE byte \in prefixes \cap set : TRUE

OperandSize(prefixes) == IF Prefix16 \in prefixes THEN WORD ELSE DWORD

(* Of an instruction x whose operands are still to be read: s the bytes    *)
(* from its address p on, op and modRm two of them, form the row of the    *)
(* opcode map, mem the memory operand, imms where the immediates start.    *)
(* They lie in the order of the operands.                                  *)
ImmAt(x, k) ==
  x.imms + FoldLeft(LAMBDA acc, arg : acc + ImmBytes(arg, x.form.size), 0,
                    SubSeq(x.form.args, 1, k - 1))

Length(x) == ImmAt(x, Len(x.form.args) + 1) - 1

ReadOperand(x, arg, at) ==
  CASE arg = "E" -> IF Mod(x.modRm) = 3 THEN <<"reg", x.form.size, Low(x.modRm)>> ELSE x.mem
    [] arg = "G" -> <<"reg", x.form.size, Middle(x.modRm)>>
    [] arg = "Gv" -> <<"reg", OperandSize(x.prefixes), Middle(x.modRm)>>
    [] arg = "Z" -> <<"reg", x.form.size, Low(x.op)>>
    [] arg = "A" -> <<"reg", x.form.size, 0>>
    [] arg = "CL" -> <<"reg", BYTE, 1>>
    [] arg = "DX" -> <<"reg", WORD, 2>>
    [] arg = "ST" -> <<"st", 0>>
    [] arg = "STi" -> <<"st", Low(x.modRm)>>
    [] arg = "S" -> <<"sreg", SegIndex[Middle(x.modRm) + 1]>>
    [] arg = "Seg" -> <<"sreg", SegIndex[Middle(x.op) + 1]>>
    [] arg \in {"creg", "dreg"} -> <<arg, Middle(x.modRm)>>
    [] arg = "cc" -> <<"cc", x.op % 16>>
    [] arg = "1" -> <<"imm", 1>>
    [] arg \in {"J1", "J4"} ->
         <<"rel", (x.p + Length(x) + SignedAt(x.s, at, ImmBytes(arg, 0))) % AddrSpace>>
    [] arg = "far" -> <<"far", SignedAt(x.s, at + 4, 2), SignedAt(x.s, at, 4)>>
    [] OTHER -> <<"imm", SignedAt(x.s, at, ImmBytes(arg, x.form.size))>>

ReadOperands(x) ==
  [mn |-> IF \h67 \notin x.prefixes THEN x.form.mn
          ELSE IF x.form.mn = "Jecxz" THEN "Jcxz" ELSE "?",
   size |-> x.form.size, lock |-> PrefixLock \in x.prefixes,
   rep |-> OneOf(x.prefixes, {\hF2, \hF3}, 0),
   ops |-> [k \in DOMAIN x.form.args |-> ReadOperand(x, x.form.args[k], ImmAt(x, k))],
   len |-> Length(x)]

(* With the opcode at index k, the mode and memory operand behind it in rm. *)
ReadForm(s, p, prefixes, k, form, rm) ==
  ReadOperands([s |-> s, p |-> p, prefixes |-> prefixes, op |-> s[k], modRm |-> s[k + 1],
                form |-> form, mem |-> rm.mem,
                imms |-> IF HasModRm(form) \/ s[k] \in EscapeBytes THEN rm.end ELSE k + 1])

ReadAt(s, p, prefixes, two, k) ==
  ReadForm(s, p, prefixes, k,
           IF two THEN TwoByte(s[k], OperandSize(prefixes), Middle(s[k + 1]))
           ELSE IF s[k] \in EscapeBytes THEN EscapeForm(s[k], s[k + 1])
           ELSE OneByte(s[k], OperandSize(prefixes), Middle(s[k + 1]), Mod(s[k + 1])),
           ModRmAt(s, k + 1, OneOf(prefixes, RegSeg, None)))

ReadOpcode(s, p, prefixes, k) ==
  ReadAt(s, p, prefixes, s[k] = PrefixExtended, IF s[k] = PrefixExtended THEN k + 1 ELSE k)

ReadPrefixes(s, p, n) == ReadOpcode(s, p, {s[i] : i \in 1 .. n}, n + 1)

ReadBytes(s, p) == ReadPrefixes(s, p, PrefixLength(s))

Window == 24    \* BOUND: no instruction is longer

(* The instruction at address p of mem. *)
Decode(mem, p) == ReadBytes(Fetch(mem, p, Window), p)

----------------------------------------------------------------------------
(* What a call promises. *)

EffectiveSeg(m) == IF m.seg = None THEN DefaultSeg(m.base) ELSE m.seg

ImmWidth(c, i) ==
  CASE c.mn \in DOMAIN ShiftLarge \cup DOMAIN BitSet
                \cup {"Shld", "Shrd", "In", "Out", "Int", "Aad", "Aam"} -> 1
    [] c.mn = "Enter" -> IF i = 1 THEN 2 ELSE 1
    [] c.mn \in {"Ret", "Retf"} -> 2
    [] OTHER -> c.size

Operand(c, i) ==
  LET op == c.ops[i]
  IN CASE op.k = "reg" -> <<"reg", op.size, op.reg>>
       [] op.k = "mem" -> <<"mem", EffectiveSeg(op.mem), op.mem.base, op.mem.index,
                            IF op.mem.index = None THEN 0 ELSE op.mem.scale, op.mem.offset>>
       [] op.k = "imm" -> <<"imm", Signed(op.value, ImmWidth(c, i))>>
       [] op.k = "sreg" -> <<"sreg", op.sreg>>
       [] op.k \in {"creg", "dreg"} -> <<op.k, op.n>>
       [] op.k = "cc" -> <<"cc", op.cc>>
       [] op.k = "CL" -> <<"reg", BYTE, 1>>
       [] op.k = "st" -> <<"st", op.n>>
       [] op.k = "top" -> <<"st", 0>>
       [] op.k \in {"label", "addr"} -> <<"rel", op.to>>

(* The operands, with those that the function implies. *)
Operands(c) ==
  LET given == [i \in DOMAIN c.ops |-> Operand(c, i)]
      acc == <<"reg", c.size, 0>>
      port == IF given = <<>> THEN <<"reg", WORD, 2>> ELSE given[1]
  IN CASE c.mn \in DOMAIN AluSet \cup {"Test", "Xchg"} /\ Len(given) = 1 -> <<acc, given[1]>>
       [] c.mn = "Cmp" /\ Kinds(c) = <<"imm", "mem">> -> Reverse(given)
       [] c.mn = "Imul" /\ Kinds(c) = <<"reg", "imm">> -> <<given[1]>> \o given
       [] c.mn \in DOMAIN ShiftLarge /\ Len(given) = 1 -> Append(given, <<"imm", 1>>)
       [] c.mn = "In" -> <<acc, port>>
       [] c.mn = "Out" -> <<port, acc>>
       [] c.mn \in Range(PopNames) /\ given = <<>> -> <<(<<"st", 1>>), <<"st", 0>>>>
       [] c.mn \in {"Fcom", "Fcomp", "Fucom", "Fucomp", "Fxch"} /\ given = <<>> ->
            <<(<<"st", 1>>)>>
       [] c.mn = "Fnstsw" /\ given = <<>> -> <<acc>>
       [] c.mn \in {"Call", "Jmp"} /\ Len(given) = 2 ->
            <<(<<"far", Signed(c.ops[1].value, 2), c.ops[2].value>>)>>
       [] OTHER -> given

(* The order of the operands of Xchg and Test does not matter, and a label *)
(* that is not bound yet may lead anywhere.                                *)
Fits(promised, read) ==
  /\ Len(promised) = Len(read)
  /\ \A i \in DOMAIN promised :
       promised[i] = read[i] \/ (promised[i] = <<"rel", None>> /\ read[i][1] = "rel")

(* Of these functions the instruction is a wait and the one named here.    *)
WithoutWait ==
  [Fclex |-> "Fnclex", Finit |-> "Fninit", Fsave |-> "Fnsave", Fstcw |-> "Fnstcw",
   Fstenv |-> "Fnstenv", Fstsw |-> "Fnstsw"]

Reads(c, d) ==
  /\ d.mn = c.mn /\ d.size = c.size /\ d.lock = c.lock /\ d.rep = c.rep
  /\ \/ Fits(Operands(c), d.ops)
     \/ c.mn \in {"Xchg", "Test"} /\ Fits(Reverse(Operands(c)), d.ops)
=============================================================================
