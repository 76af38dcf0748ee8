------------------------------ MODULE X86I686 ------------------------------
(***************************************************************************)
(* The classes derived from i386: i486, i586, i686 and the small ones for  *)
(* one processor feature each (CMOV, CX8, MSR, SEP, TSC, PMC, CLFSH,       *)
(* CLFLUSHOPT, CLDEMOTE).  With modules X86I386 and X86I387 this is every  *)
(* 32-bit instruction that the library knows, and Emit dispatches among    *)
(* all of them.                                                            *)
(***************************************************************************)
EXTENDS X86I386, X86I387

(* write_Opcode_Extended. *)
OpcodeExtended(size, lock, opcode) ==
  OnlyExtendedPrefixs(size, lock, Sized(opcode, size))

(* Xadd and CmpXchg: the second operand is in the middle field. *)
ExchangeOpcode == [Xadd |-> \hC0, CmpXchg |-> \hB0]
Exchange(c) ==
  Void(RmReg(OpcodeExtended(c.size, LockOf(c), ExchangeOpcode[c.mn]), c.ops[1],
             c.ops[2].reg), c)

(* Bswap's handle is for the low bits of the opcode's second byte. *)
Bswap(c) == Opcode(<<PrefixExtended, \hC8 + c.ops[1].reg>>, <<>>, <<"opcode">>)

(* A memory operand of no particular size. *)
CacheOpcode ==
  [Invlpg |-> <<PrefixExtended, \h01>>, CmpXchg8b |-> <<PrefixExtended, \hC7>>,
   Clflush |-> <<PrefixExtended, \hAE>>, Cldemote |-> <<PrefixExtended, \h1C>>,
   Clflushopt |-> <<Prefix16, PrefixExtended, \hAE>>]
CacheMode ==
  [Invlpg |-> 7, CmpXchg8b |-> 1, Clflush |-> 7, Cldemote |-> 0, Clflushopt |-> 7]
Cache(c) == Form(CacheOpcode[c.mn], c.ops[1], CacheMode[c.mn], <<"none">>)

(* Invd writes the operand size prefix where the others have the escape. *)
LaterBytes ==
  [Cpuid |-> <<PrefixExtended, \hA2>>, Invd |-> <<Prefix16, \h08>>,
   Wbinvd |-> <<PrefixExtended, \h09>>, Rsm |-> <<PrefixExtended, \hAA>>,
   Ud2 |-> <<PrefixExtended, \h0B>>, Rdmsr |-> <<PrefixExtended, \h32>>,
   Wrmsr |-> <<PrefixExtended, \h30>>, Rdtsc |-> <<PrefixExtended, \h31>>,
   Rdpmc |-> <<PrefixExtended, \h33>>, Sysenter |-> <<PrefixExtended, \h34>>,
   Sysexit |-> <<PrefixExtended, \h35>>]

(* The floating point functions of CMOV and of i686. *)
FcmovOpcode ==
  [Fcmovb |-> OpcodeLarge(\hDA, 0), Fcmove |-> OpcodeLarge(\hDA, 1), Fcmovbe |-> OpcodeLarge(\hDA, 2),
   Fcmovu |-> OpcodeLarge(\hDA, 3), Fcmovnb |-> OpcodeLarge(\hDB, 0), Fcmovne |-> OpcodeLarge(\hDB, 1),
   Fcmovnbe |-> OpcodeLarge(\hDB, 2), Fcmovnu |-> OpcodeLarge(\hDB, 3)]
FcomiOpcode ==
  [Fcomi |-> OpcodeLarge(\hDB, 6), Fcomip |-> OpcodeLarge(\hDF, 6), Fucomi |-> OpcodeLarge(\hDB, 5),
   Fucomip |-> OpcodeLarge(\hDF, 5)]

----------------------------------------------------------------------------
(* The instruction of a call, and what the call does to a block. *)
AnyInstruction(c) ==
  CASE c.mn \in FloatNames -> Float(c)
    [] c.mn \in DOMAIN FcmovOpcode -> EscapeReg(c, FcmovOpcode[c.mn], c.ops[2].n)
    [] c.mn \in DOMAIN FcomiOpcode -> EscapeReg(c, FcomiOpcode[c.mn], c.ops[2].n)
    [] c.mn \in DOMAIN ExchangeOpcode -> Exchange(c)
    [] c.mn = "Bswap" -> Bswap(c)
    [] c.mn \in DOMAIN CacheOpcode -> Cache(c)
    [] c.mn \in DOMAIN LaterBytes -> Opcode(LaterBytes[c.mn], <<>>, <<>>)
    [] OTHER -> Instruction(c)

Emit(b, c) ==
  CASE c.mn = "Nop" -> Nop(b, c.ops[1].n)
    [] c.mn \in DOMAIN Waiting ->
         Write(WriteUnmaskExceptionPrefix(b), AnyInstruction([c EXCEPT !.mn = Waiting[c.mn]]))
    [] OTHER -> Write(b, AnyInstruction(c))
=============================================================================
