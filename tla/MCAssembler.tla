---------------------------- MODULE MCAssembler ----------------------------
(***************************************************************************)
(* The calls that module Assembler makes, for TLC.  EncodingCalls has      *)
(* every function of the modelled classes with every kind of operand it    *)
(* takes; the small sets are for programs of several instructions.         *)
(* SuspectCalls are the families that have a member which is wrongly       *)
(* encoded.                                                                *)
(***************************************************************************)
EXTENDS Assembler

EAX == 0
EBX == 3
ESI == 6
EDI == 7

CallOf(class, mn, size, ops) ==
  [class |-> class, mn |-> mn, size |-> size, lock |-> FALSE, rep |-> 0, ops |-> ops]
Call(mn, size, ops) == CallOf("X86", mn, size, ops)
Lock(calls) == {[c EXCEPT !.lock = TRUE] : c \in calls}
Sizes == {BYTE, WORD, DWORD}
Wide == {WORD, DWORD}

----------------------------------------------------------------------------
(* Operands. *)

Displacements == {-129, -128, 0, 127, 128}

\* Every mode with every segment, base, index and scale that matters.
EveryMem ==
  {OFFSET(s, o) : s \in {None, DS, FS}, o \in {0, -70000, 70000}}
  \cup {BASE(s, r) : s \in {None, SS, DS, ES}, r \in Reg \ {EBP}}
  \cup {BASE_OFFSET(s, r, o) : s \in {None, SS, GS}, r \in {EAX, ESP, EBP}, o \in Displacements}
  \cup {INDEX_OFFSET(s, r, n, 70000) : s \in {None, SS}, r \in {EAX, EBP}, n \in 0 .. 3}
  \cup {BASE_INDEX(s, r, i, n) : s \in {None, SS}, r \in {EBX, ESP}, i \in {EAX, EBP}, n \in 0 .. 3}
  \cup {BASE_INDEX_OFFSET(s, r, i, 3, o) :
          s \in {None, DS}, r \in {EAX, ESP, EBP}, i \in {EBP, EDI}, o \in Displacements}

\* One of each mode, one with a prefix.
SomeMem ==
  {OFFSET(None, 70000), BASE(ES, EBX), BASE(None, ESP), BASE_OFFSET(None, EBP, -4),
   INDEX_OFFSET(None, ESI, 2, 300), BASE_INDEX(None, EBX, ESI, 1),
   BASE_INDEX_OFFSET(None, ESP, EDI, 3, 200)}
FewMem == {BASE_OFFSET(None, ESP, 4), OFFSET(FS, 70000)}

Mems(set) == {MemOp(m) : m \in set}
RegsOf(size) == {RegOp(size, EAX), RegOp(size, EDI)}
RM(size) == Mems(FewMem) \cup RegsOf(size)

ImmsOf(size) ==
  CASE size = BYTE -> {ImmOp("S8", -2), ImmOp("U8", 200)}
    [] size = WORD -> {ImmOp("S8", -2), ImmOp("U8", 100), ImmOp("S16", -300), ImmOp("U16", 60000)}
    [] size = DWORD -> {ImmOp("S8", -2), ImmOp("U8", 100), ImmOp("S16", -300),
                        ImmOp("U16", 60000), ImmOp("S32", -70000)}
Byte1 == ImmOp("U8", 17)
Word1 == ImmOp("U16", 513)

----------------------------------------------------------------------------
(* The functions, by the kinds of operands they take. *)

\* r/m and a register in either order, and two registers
TwoWay(mn, size, mems) ==
  {Call(mn, size, <<a, b>>) : a \in RegsOf(size), b \in Mems(mems) \cup RegsOf(size)}
  \cup {Call(mn, size, <<a, b>>) : a \in Mems(mems), b \in RegsOf(size)}
ToRM(mn, size, from) == {Call(mn, size, <<a, b>>) : a \in RM(size), b \in from}
FromRM(mn, size, dst) == {Call(mn, size, <<a, b>>) : a \in dst, b \in RM(size)}
OneRM(mn, size) == {Call(mn, size, <<a>>) : a \in RM(size)}
FromMem(mn, size) == {Call(mn, size, <<a, b>>) : a \in RegsOf(size), b \in Mems(FewMem)}

MemoryCalls == {Call("Mov", DWORD, <<RegOp(DWORD, EBX), MemOp(m)>>) : m \in EveryMem}

AluCalls ==
  UNION {   TwoWay(mn, size, FewMem) \cup ToRM(mn, size, ImmsOf(size))
         \cup {Call(mn, size, <<i>>) : i \in {x \in ImmsOf(size) : ImmSize(x) = size}} :
         mn \in DOMAIN AluSet, size \in Sizes}
  \cup UNION {{Call("Cmp", size, <<i, m>>) : i \in ImmsOf(size), m \in Mems(FewMem)} :
              size \in Sizes}
  \cup UNION {Lock({Call(mn, size, <<MemOp(BASE(ES, EBX)), x>>) :
                      x \in RegsOf(size) \cup ImmsOf(size)}) :
              mn \in {"Add", "Xor"}, size \in Sizes}

UnaryCalls ==
  UNION {OneRM(mn, size) : mn \in DOMAIN UnaryLarge, size \in Sizes}
  \cup UNION {FromRM("Imul", size, RegsOf(size))
         \cup {Call("Imul", size, <<r, x, i>>) :
                 r \in RegsOf(size), x \in RM(size),
                 i \in {y \in ImmsOf(size) : ImmSize(y) \in {BYTE, size}}}
         \cup {Call("Imul", size, <<RegOp(size, EAX), i>>) :
                 i \in {y \in ImmsOf(size) : ImmSize(y) \in {BYTE, size} /\ y.type \in {"S8", "S16", "S32"}}} :
         size \in Wide}
  \cup Lock({Call(mn, size, <<MemOp(BASE(ES, EBX))>>) :
               mn \in {"Inc", "Dec", "Not", "Neg"}, size \in Sizes})

MoveCalls ==
  UNION {   TwoWay(mn, size, SomeMem) : mn \in {"Mov", "Xchg", "Test"}, size \in Sizes}
  \cup UNION {ToRM(mn, size, ImmsOf(size)) : mn \in {"Mov", "Test"}, size \in Sizes}
  \cup {Call("Test", size, <<ImmOp("U8", 100)>>) : size \in Sizes}
  \cup {Call("Xchg", size, <<RegOp(size, EDI)>>) : size \in Wide}
  \cup UNION {FromMem("Lea", size) : size \in Wide}
  \cup {Call(mn, size, <<RegOp(wide, EBX), x>>) :
          mn \in {"Movsx", "Movzx"}, size \in {BYTE}, wide \in Wide, x \in RM(BYTE)}
  \cup {Call(mn, WORD, <<RegOp(DWORD, EBX), x>>) : mn \in {"Movsx", "Movzx"}, x \in RM(WORD)}
  \cup {Call("Mov", WORD, <<a, b>>) : a \in RM(WORD), b \in {SegOp(s) : s \in RegSeg}}
  \cup {Call("Mov", WORD, <<b, a>>) : a \in RM(WORD), b \in {SegOp(s) : s \in RegSeg}}
  \cup {Call("Mov", DWORD, <<RegOp(DWORD, EDI), SpecOp(f, n)>>) : f \in {"creg", "dreg"}, n \in {0, 3, 7}}
  \cup {Call("Mov", DWORD, <<SpecOp(f, n), RegOp(DWORD, EDI)>>) : f \in {"creg", "dreg"}, n \in {0, 3, 7}}

StackCalls ==
  UNION {OneRM(mn, size) : mn \in {"Push", "Pop"}, size \in Wide}
  \cup {Call("Push", DWORD, <<SegOp(s)>>) : s \in RegSeg}
  \cup {Call("Pop", DWORD, <<SegOp(s)>>) : s \in RegSeg \ {CS}}
  \cup {Call("Push", DWORD, <<ImmOp("S8", -2)>>), Call("Push", DWORD, <<ImmOp("S32", -70000)>>),
        Call("Push", WORD, <<ImmOp("S16", -300)>>)}
  \cup {Call(mn, size, ops) : mn \in {"In", "Out"}, size \in Sizes, ops \in {<<>>, <<Byte1>>}}

BitCalls ==
  UNION {OneRM(mn, size) \cup ToRM(mn, size, {CLOp, Byte1}) :
         mn \in DOMAIN ShiftLarge, size \in Sizes}
  \cup UNION {ToRM(mn, size, RegsOf(size))
              \cup {Call(mn, size, <<x, Byte1>>) :
                      x \in RegsOf(size) \cup Mems({BASE_OFFSET(None, ESP, 4)})} :
              mn \in DOMAIN BitSet, size \in Wide}
  \cup Lock({Call("Bts", DWORD, <<MemOp(BASE(None, EBX)), x>>) : x \in {Byte1, RegOp(DWORD, EDI)}})
  \cup {Call(mn, size, <<x, RegOp(size, EBX), n>>) :
          mn \in {"Shld", "Shrd"}, size \in {DWORD}, x \in RM(DWORD), n \in {CLOp, Byte1}}
  \cup {Call(mn, WORD, <<x, RegOp(WORD, EBX), n>>) :
          mn \in {"Shld", "Shrd"}, x \in RM(WORD), n \in {CLOp, Byte1}}
  \cup UNION {FromRM(mn, size, RegsOf(size)) : mn \in {"Bsf", "Bsr", "Lar", "Lsl"}, size \in Wide}
  \cup {Call("Setcc", BYTE, <<CondOp(cc), x>>) : cc \in 0 .. 15, x \in RM(BYTE)}

FlowCalls ==
  UNION {OneRM(mn, DWORD) : mn \in {"Jmp", "Call"}}
  \cup {Call(mn, 6, <<x>>) : mn \in {"Jmp", "Call"}, x \in Mems(FewMem)}
  \cup {Call(mn, DWORD, <<ImmOp("S16", 27), ImmOp("S32", 70000)>>) : mn \in {"Jmp", "Call"}}
  \cup {Call("Call", DWORD, <<AddrOp(a)>>) : a \in {0, Start, 4000}}
  \cup {Call("Call", DWORD, <<LabelOp("LONG", None)>>)}
  \cup {Call("Jmp", DWORD, <<LabelOp(j, None)>>) : j \in {"SHORT", "LONG"}}
  \cup {Call("Jcc", DWORD, <<CondOp(cc), LabelOp(j, None)>>) : cc \in 0 .. 15, j \in {"SHORT", "LONG"}}
  \cup {Call(mn, DWORD, <<LabelOp("SHORT", None)>>) : mn \in DOMAIN LoopOpcode \cup {"Jcxz"}}
  \cup {Call(mn, DWORD, <<Byte1>>) : mn \in {"Int", "Aad", "Aam"}}
  \cup {Call(mn, DWORD, ops) : mn \in {"Ret", "Retf"}, ops \in {<<>>, <<Word1>>}}
  \cup {Call("Enter", DWORD, <<Word1, Byte1>>)}

OtherCalls ==
  {Call(mn, IF mn \in {"Cbw", "Cwd", "Pusha", "Popa", "Pushf", "Popf"} THEN WORD ELSE DWORD, <<>>) :
     mn \in DOMAIN FixedBytes \ {"Clts", "Lock"}}
  \cup {[Call(mn, size, <<>>) EXCEPT !.rep = r] :
          mn \in DOMAIN StringOpcode, size \in Sizes \ {WORD}, r \in {0, \hF2, \hF3}}
  \cup {[Call(mn, WORD, <<>>) EXCEPT !.rep = r] :
          mn \in DOMAIN StringOpcode \ {"Movs"}, r \in {0, \hF2, \hF3}}
  \cup {Call("Movs", WORD, <<>>)}
  \cup UNION {FromMem(mn, size) : mn \in DOMAIN LoadSegOpcode, size \in Wide}
  \cup {Call("Nop", DWORD, <<[k |-> "count", n |-> n]>>) : n \in 0 .. 3}
  \cup ToRM("Arpl", WORD, RegsOf(WORD))
  \cup UNION {OneRM(mn, WORD) : mn \in {"Sldt", "Str", "Lldt", "Ltr", "Verr", "Verw"}}
  \cup {Call(mn, DWORD, <<x>>) : mn \in {"Sgdt", "Sidt", "Lgdt", "Lidt", "Smsw", "Lmsw"},
                                 x \in Mems(FewMem)}
  \cup {Call("Smsw", size, <<x>>) : size \in {DWORD}, x \in RegsOf(DWORD)}
  \cup {Call("Smsw", WORD, <<x>>) : x \in RegsOf(WORD)}
  \cup {Call("Lmsw", DWORD, <<x>>) : x \in RegsOf(DWORD)}

\* After the i386.
LaterCalls ==
  UNION {ToRM(mn, size, RegsOf(size)) : mn \in {"Xadd", "CmpXchg"}, size \in Sizes}
  \cup Lock({Call(mn, size, <<MemOp(BASE(ES, EBX)), RegOp(size, EDI)>>) :
              mn \in {"Xadd", "CmpXchg"}, size \in Sizes})
  \cup {Call("Bswap", DWORD, <<r>>) : r \in RegsOf(DWORD)}
  \cup {Call(mn, CASE mn = "CmpXchg8b" -> QWORD [] mn = "Clflushopt" -> WORD [] OTHER -> DWORD,
             <<x>>) : mn \in DOMAIN CacheOpcode, x \in Mems(FewMem)}
  \cup {Call(mn, DWORD, <<>>) : mn \in DOMAIN LaterBytes \ {"Invd"}}

\* A size with which the functions of a set are instantiated, and their operands.
Float1(names, size) == {Call(mn, size, <<x>>) : mn \in names, x \in Mems(FewMem)}
Stack == {StOp(0), StOp(1), StOp(6)}

FloatCalls ==
  Float1(DOMAIN FloatOpcode \cup DOMAIN IntOpcode, DWORD)
  \cup Float1(DOMAIN FloatOpcode \cup DOMAIN Int64Opcode, QWORD)
  \cup Float1(DOMAIN IntOpcode \cup {"Fldcw", "Fnstcw", "Fnstsw", "Fstcw", "Fstsw"}, WORD)
  \cup Float1(DOMAIN Float80Opcode \cup {"Fbld", "Fbstp"}, TBYTE)
  \cup Float1({"Fldenv", "Fnstenv", "Frstor", "Fnsave", "Fsave", "Fstenv"}, DWORD)
  \cup {Call(mn, DWORD, <<TopOp, x>>) :
          mn \in DOMAIN ToTopOpcode \cup DOMAIN FcmovOpcode \cup DOMAIN FcomiOpcode, x \in Stack}
  \cup {Call(mn, DWORD, <<x, TopOp>>) : mn \in DOMAIN FromTopOpcode, x \in Stack}
  \cup {Call(mn, DWORD, <<x>>) : mn \in DOMAIN StackOpcode, x \in Stack}
  \cup {Call(mn, DWORD, <<>>) :
          mn \in (DOMAIN FromTopOpcode \ DOMAIN ToTopOpcode) \cup (DOMAIN ExtendedByte \ {"Fxtract"})
                 \cup {"Fcom", "Fcomp", "Fucom", "Fucomp", "Fxch", "Fcompp", "Fucompp",
                       "Fnclex", "Fninit", "Fclex", "Finit"}}
  \cup {Call(mn, WORD, <<>>) : mn \in {"Fnstsw", "Fstsw"}}

\* In 64-bit code: of every mode with every register that is special, and of
\* two registers those of the same number.
Extend64(dst, size, src) ==
  {CallOf("X64", mn, size, <<dst, src>>) : mn \in DOMAIN ExtendOpcode64}
Extend64From(mems) ==
  UNION {Extend64(RegOp(wide, r), size, op) :
           wide \in Wide, r \in {EBX, EDI}, size \in {BYTE, WORD}, op \in mems}
  \cup UNION {Extend64(RegOp(DWORD, 9), BYTE, op) : op \in mems}
BothWidths(set) == {Mem64Op(m) : m \in set} \cup {Mem32Op(m) : m \in set}
LongCalls ==
  {CallOf("X64", mn, IF mn \in {"Cbw", "Cwd"} THEN WORD ELSE DWORD, <<>>) :
     mn \in DOMAIN Conversion64Bytes}
  \cup UNION {Extend64(RegOp(wide, r), size, RegOp(size, r)) :
                wide \in Wide, r \in Reg, size \in {BYTE, WORD}}
  \cup Extend64From({Mem64Op(OFFSET(s, -70000)) : s \in {None, SS}})
  \cup Extend64From(BothWidths(
         {BASE(s, r) : s \in {None, ES}, r \in {0, ESP, 10}}
         \cup {BASE_OFFSET(DS, r, o) : r \in {ESP, EBP, 13}, o \in {-128, 128}}
         \cup {INDEX_OFFSET(None, i, 3, 300) : i \in {EBP, 12}}
         \cup {BASE_INDEX(None, r, i, 1) : r \in {ESP, 12}, i \in {EBP, 12, 13}}
         \cup {BASE_INDEX_OFFSET(None, r, i, 2, o) :
                  r \in {EBP, 13}, i \in {0, 12}, o \in {127, -129}}))

EncodingCalls ==
  MemoryCalls \cup AluCalls \cup UnaryCalls \cup MoveCalls \cup StackCalls \cup BitCalls
  \cup FlowCalls \cup OtherCalls \cup LaterCalls \cup FloatCalls \cup LongCalls

----------------------------------------------------------------------------
(* Programs: instructions of two, three and six bytes that can stand in    *)
(* for each other, with and without a spill behind their end, with         *)
(* handles of every kind, and jumps.                                       *)
ProgramCalls ==
  {Call("Add", DWORD, <<MemOp(BASE(None, EBX)), RegOp(DWORD, EDI)>>),
   Call("Mov", DWORD, <<RegOp(DWORD, ESI), MemOp(BASE_OFFSET(None, ESP, 4))>>),
   Call("Cmp", DWORD, <<RegOp(DWORD, ESI), ImmOp("S32", -70000)>>),
   Call("Not", DWORD, <<MemOp(BASE_INDEX(None, EBX, ESI, 1))>>),
   Call("Jmp", DWORD, <<LabelOp("SHORT", None)>>),
   Call("Jcc", DWORD, <<CondOp(4), LabelOp("LONG", None)>>)}
FewRegs == {EBX, ESI}
FewOffsets == {-1}
FewImms == {99}

----------------------------------------------------------------------------
(* Jumps of every length around a gap that a byte just spans. *)
LabelCalls ==
  {Call("Jmp", DWORD, <<LabelOp(j, None)>>) : j \in {"SHORT", "LONG"}}
  \cup {Call("Jcc", DWORD, <<CondOp(5), LabelOp("SHORT", None)>>),
        Call("Jcxz", DWORD, <<LabelOp("SHORT", None)>>)}
  \cup {Call("Nop", DWORD, <<[k |-> "count", n |-> n]>>) : n \in 125 .. 128}

----------------------------------------------------------------------------
(* Calls like those that are wrongly encoded: of every family some that    *)
(* are and some that are not.                                              *)
LoadFrom(m) == Call("Mov", DWORD, <<RegOp(DWORD, EAX), MemOp(m)>>)
FrameCalls ==
  {LoadFrom(BASE(s, r)) : s \in {None, SS}, r \in Reg}
  \cup {LoadFrom(BASE_OFFSET(None, r, 0)) : r \in Reg}
  \cup {LoadFrom(INDEX_OFFSET(None, r, 2, -1)) : r \in Reg}
  \cup {LoadFrom(BASE_INDEX(None, r, i, 1)) : r \in Reg, i \in Reg}
  \cup {LoadFrom(BASE_INDEX_OFFSET(None, r, i, 1, -1)) : r \in Reg, i \in Reg}

ImmTypes == {"S8", "U8", "S16", "U16", "S32", "U32"}
ImmsUpTo(size) ==
  {i \in {ImmOp(t, v) : t \in ImmTypes, v \in {100, 200}} :
     ImmSize(i) <= size /\ FitsImm(i.type, i.value)}
ImmediateCalls ==
  {Call("Imul", DWORD, <<RegOp(DWORD, r), ImmOp(t, 50)>>) : r \in Reg, t \in {"S8", "S32"}}
  \cup {Call("Imul", WORD, <<RegOp(WORD, r), ImmOp(t, 50)>>) : r \in Reg, t \in {"S8", "S16"}}
  \cup UNION {{Call("Imul", size, <<RegOp(size, EDI), x, i>>) : x \in RM(size), i \in ImmsUpTo(size)} :
              size \in Wide}
  \cup UNION {{Call(mn, size, <<x, i>>) :
               mn \in {"Mov", "Test"}, x \in RM(size), i \in ImmsUpTo(DWORD)} :
              size \in Sizes}
  \cup UNION {{Call("Adc", size, <<x, ImmOp("U8", v)>>) : x \in RM(size), v \in {127, 128}} :
              size \in Sizes}

SegmentCalls ==
  {Call(mn, size, <<MemOp(BASE_OFFSET(s, r, 4)), x>>) :
     mn \in DOMAIN BitSet, size \in {DWORD}, s \in {None, SS, DS, FS}, r \in {EBX, EBP},
     x \in {Byte1, RegOp(DWORD, EDI)}}
  \cup {Call("Pop", DWORD, <<SegOp(s)>>) : s \in RegSeg}

PrefixCalls ==
  {[Call(mn, size, <<>>) EXCEPT !.rep = r] :
     mn \in {"Movs", "Stos"}, size \in Sizes, r \in {0, \hF3}}
  \cup Lock(UNION {TwoWay("Sbb", size, FewMem)
                   \cup ToRM("Sbb", size, {ImmOp("S8", -2)}) : size \in Sizes})
  \cup Lock(ToRM("Btc", DWORD, {RegOp(DWORD, EDI)}) \cup ToRM("Btc", WORD, {RegOp(WORD, EDI)}))
  \cup Lock({Call("Btr", DWORD, <<x, Byte1>>) :
               x \in RegsOf(DWORD) \cup {MemOp(BASE(None, EBX))}})
  \cup {Call(mn, DWORD, <<>>) :
          mn \in {"Clts", "Invd", "Wbinvd", "Fxtract", "Ftst", "Cpuid"}}

MovzxFrom(m) == CallOf("X64", "Movzx", WORD, <<RegOp(DWORD, EDI), Mem64Op(m)>>)
LongSuspects ==
  {CallOf("X64", "Movsx", size, <<RegOp(wide, d), RegOp(size, r)>>) :
     size \in {BYTE, WORD}, wide \in Wide, d \in Reg, r \in Reg}
  \cup {CallOf("X64", "Movzx", BYTE, <<RegOp(DWORD, d), RegOp(BYTE, r)>>) :
           d \in 8 .. 15, r \in Reg}
  \cup {MovzxFrom(BASE(s, r)) : s \in RegSeg \cup {None}, r \in Reg64}
  \cup {MovzxFrom(BASE_OFFSET(None, r, o)) : r \in Reg64, o \in {36, 1000}}
  \cup {MovzxFrom(INDEX_OFFSET(FS, i, 2, 4)) : i \in Reg64}
  \cup {MovzxFrom(BASE_INDEX(None, r, i, 3)) : r \in Reg64, i \in Reg64}
  \cup {MovzxFrom(BASE_INDEX_OFFSET(GS, r, 1, 3, -1)) : r \in Reg64}

JumpCalls ==
  {Call(mn, DWORD, <<LabelOp("LONG", None)>>) : mn \in {"Jmp", "Call"}}
  \cup {Call("Jcc", DWORD, <<CondOp(cc), LabelOp(j, None)>>) : cc \in {0, 15}, j \in {"SHORT", "LONG"}}
  \cup {Call(mn, DWORD, <<LabelOp("SHORT", None)>>) : mn \in {"Jmp", "Loop", "Jecxz", "Jcxz"}}
  \cup {Call("Call", DWORD, <<AddrOp(a)>>) : a \in {0, 4000}}

SuspectCalls ==
  JumpCalls \cup FrameCalls \cup ImmediateCalls \cup SegmentCalls \cup PrefixCalls \cup LongSuspects

\* Of the suspects, calls that a comment or a test of the repository has.
MisencodedCalls ==
  {Call("Clts", DWORD, <<>>), Call("Invd", DWORD, <<>>), LoadFrom(BASE(None, EBP)),
   Call("Imul", DWORD, <<RegOp(DWORD, EDI), ImmOp("S8", 50)>>),
   Call("Bts", DWORD, <<MemOp(BASE(FS, EBX)), Byte1>>),
   [Call("Movs", WORD, <<>>) EXCEPT !.rep = \hF3],
   CallOf("X64", "Movsx", BYTE, <<RegOp(DWORD, EBX), RegOp(BYTE, EAX)>>),
   Call("Jmp", DWORD, <<LabelOp("LONG", None)>>), MovzxFrom(BASE(None, 12)), MovzxFrom(BASE(FS, EAX))}

----------------------------------------------------------------------------
(* What replaces an operand. *)
NewRegs == {EBX, ESP, EBP, ESI}
NewScales == {0, 2}
NewOffsets == {-1, 1000}
NewImms == {-128, 99, 1000000}
=============================================================================
