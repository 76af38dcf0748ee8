------------------------------ MODULE X86I387 ------------------------------
(***************************************************************************)
(* Class i387 of x86_i387.h: the floating point instructions.  They return *)
(* no handles.  An instruction is one of                                   *)
(*   - an escape opcode and a memory operand, with a bit or an opcode of   *)
(*     its own for each size;                                              *)
(*   - an escape opcode and a register of the stack in r/m;                *)
(*   - two fixed bytes;                                                    *)
(* and some are preceded by 9B, which waits for pending exceptions.        *)
(*                                                                         *)
(* Operands: SpecOp("st", n) is RegFPU, TopOp is TopRegFPU.  QWORD and     *)
(* TBYTE are sizes that only this class and CX8 have.                      *)
(***************************************************************************)
EXTENDS X86Templates

QWORD == 8
TBYTE == 10

TopOp == [k |-> "top"]
StOp(n) == SpecOp("st", n)

----------------------------------------------------------------------------
(* Memory operands. *)

FloatOpcode ==
  [Fadd |-> OpcodeLarge(\hD8, 0), Fmul  |-> OpcodeLarge(\hD8, 1), Fcom |-> OpcodeLarge(\hD8, 2),
   Fcomp |-> OpcodeLarge(\hD8, 3), Fsub |-> OpcodeLarge(\hD8, 4), Fsubr |-> OpcodeLarge(\hD8, 5),
   Fdiv |-> OpcodeLarge(\hD8, 6), Fdivr |-> OpcodeLarge(\hD8, 7), Fst |-> OpcodeLarge(\hD9, 2),
   Fld |-> OpcodeLarge(\hD9, 0), Fstp |-> OpcodeLarge(\hD9, 3)]
Float80Opcode == [Fld |-> OpcodeLarge(\hDB, 5), Fstp |-> OpcodeLarge(\hDB, 7)]

IntOpcode ==
  [Fiadd |-> OpcodeLarge(\hDA, 0), Fimul |-> OpcodeLarge(\hDA, 1), Ficom |-> OpcodeLarge(\hDA, 2),
   Ficomp |-> OpcodeLarge(\hDA, 3), Fisub |-> OpcodeLarge(\hDA, 4), Fisubr |-> OpcodeLarge(\hDA, 5),
   Fidiv |-> OpcodeLarge(\hDA, 6), Fidivr |-> OpcodeLarge(\hDA, 7), Fist |-> OpcodeLarge(\hDB, 2),
   Fild |-> OpcodeLarge(\hDB, 0), Fistp |-> OpcodeLarge(\hDB, 3), Fisttp |-> OpcodeLarge(\hDB, 1)]
Int64Opcode ==
  [Fild |-> OpcodeLarge(\hDF, 5), Fistp |-> OpcodeLarge(\hDF, 7), Fisttp |-> OpcodeLarge(\hDD, 1)]

(* Of one size, which is not encoded. *)
UncheckedOpcode ==
  [Fldcw |-> OpcodeLarge(\hD9, 5), Fldenv |-> OpcodeLarge(\hD9, 4), Fnstcw |-> OpcodeLarge(\hD9, 7),
   Fnstenv |-> OpcodeLarge(\hD9, 6), Frstor |-> OpcodeLarge(\hDD, 4), Fnsave |-> OpcodeLarge(\hDD, 6),
   Fnstsw |-> OpcodeLarge(\hDD, 7), Fbld |-> OpcodeLarge(\hDF, 4), Fbstp |-> OpcodeLarge(\hDF, 6)]

Escape(opcode, mode, op) == Form(<<opcode>>, op, mode, <<"none">>)

Template1OperandMemUncheck(c, large) == Escape(large.opcode, large.mode, c.ops[1])

(* template_1operand_float and template_1operand_float80. *)
Template1OperandFloat(c, large) ==
  IF c.size = TBYTE
  THEN Escape(Float80Opcode[c.mn].opcode, Float80Opcode[c.mn].mode, c.ops[1])
  ELSE Escape(IF c.size = DWORD THEN large.opcode ELSE SetBit(large.opcode, 2),
              large.mode, c.ops[1])

(* template_1operand_int and template_1operand_int64. *)
Template1OperandInt(c, large) ==
  IF c.size = QWORD
  THEN Escape(Int64Opcode[c.mn].opcode, Int64Opcode[c.mn].mode, c.ops[1])
  ELSE Escape(IF c.size = DWORD THEN large.opcode ELSE SetBit(large.opcode, 2),
              large.mode, c.ops[1])

FloatMemory(c) ==
  CASE c.mn \in DOMAIN FloatOpcode -> Template1OperandFloat(c, FloatOpcode[c.mn])
    [] c.mn \in DOMAIN IntOpcode -> Template1OperandInt(c, IntOpcode[c.mn])
    [] c.mn \in DOMAIN UncheckedOpcode ->
         Template1OperandMemUncheck(c, UncheckedOpcode[c.mn])

----------------------------------------------------------------------------
(* Registers. *)

(* (ST, reg): the memory form's opcode and mode. *)
ToTopOpcode == [n \in {"Fadd", "Fmul", "Fsub", "Fsubr", "Fdiv", "Fdivr"} |-> FloatOpcode[n]]

(* (reg, ST): Sub and Subr, Div and Divr have each other's modes. *)
FromTopOpcode ==
  [Fadd |-> OpcodeLarge(\hDC, 0), Fmul |-> OpcodeLarge(\hDC, 1), Fsub |-> OpcodeLarge(\hDC, 5),
   Fsubr |-> OpcodeLarge(\hDC, 4), Fdiv |-> OpcodeLarge(\hDC, 7), Fdivr |-> OpcodeLarge(\hDC, 6),
   Faddp |-> OpcodeLarge(\hDE, 0), Fmulp |-> OpcodeLarge(\hDE, 1), Fsubp |-> OpcodeLarge(\hDE, 5),
   Fsubrp |-> OpcodeLarge(\hDE, 4), Fdivp |-> OpcodeLarge(\hDE, 7), Fdivrp |-> OpcodeLarge(\hDE, 6)]

(* One register, which for some functions may be left out. *)
StackOpcode ==
  [Fcom |-> OpcodeLarge(\hD8, 2), Fcomp |-> OpcodeLarge(\hD8, 3), Ffree |-> OpcodeLarge(\hDD, 0),
   Fld |-> OpcodeLarge(\hD9, 0), Fst |-> OpcodeLarge(\hDD, 2), Fstp |-> OpcodeLarge(\hDD, 3),
   Fucom |-> OpcodeLarge(\hDD, 4), Fucomp |-> OpcodeLarge(\hDD, 5), Fxch |-> OpcodeLarge(\hD9, 1)]

ST1 == 1

(* template_1operand_float of a register, template_FCMOVcc. *)
EscapeReg(c, large, n) ==
  Void(Form(<<large.opcode>>, RegOp(DWORD, n), large.mode, <<>>), c)

FloatRegister(c) ==
  CASE Kinds(c) = <<"top", "st">> -> EscapeReg(c, ToTopOpcode[c.mn], c.ops[2].n)
    [] Kinds(c) = <<"st", "top">> -> EscapeReg(c, FromTopOpcode[c.mn], c.ops[1].n)
    [] Kinds(c) = <<"st">> -> EscapeReg(c, StackOpcode[c.mn], c.ops[1].n)
    [] c.mn \in DOMAIN FromTopOpcode -> EscapeReg(c, FromTopOpcode[c.mn], ST1)
    [] OTHER -> EscapeReg(c, StackOpcode[c.mn], ST1)

----------------------------------------------------------------------------
(* Two bytes.  Fxtract and Ftst write the same ones. *)
ExtendedByte ==
  [F2xm1 |-> \hF0, Fabs |-> \hE1, Fchs |-> \hE0, Fcos |-> \hFF, Fdecstp |-> \hF6,
   Fincstp |-> \hF7, Fld1 |-> \hE8, FldL2T |-> \hE9, FldL2E |-> \hEA, FldPI |-> \hEB,
   FldLG2 |-> \hEC, FldLN2 |-> \hED, FldZ |-> \hEE, Fnop |-> \hD0, Fpatan |-> \hF3,
   Fprem |-> \hF8, Fprem1 |-> \hF5, Fptan |-> \hF2, Frndint |-> \hFC, Fscale |-> \hFD,
   Fsin |-> \hFE, Fsincos |-> \hFB, Fsqrt |-> \hFA, Ftst |-> \hE4, Fxam |-> \hE5,
   Fxtract |-> \hE4, FyL2X |-> \hF1, FyL2XP1 |-> \hF9]
TwoByteOpcode ==
  [Fnclex |-> <<\hDB, \hE2>>, Fcompp |-> <<\hDE, \hD9>>, Fninit |-> <<\hDB, \hE3>>,
   Fucompp |-> <<\hDA, \hE9>>, Fnstsw |-> <<\hDF, \hE0>>]

Float(c) ==
  CASE Kinds(c) = <<"mem">> -> FloatMemory(c)
    [] c.mn \in DOMAIN ExtendedByte -> Opcode(<<\hD9, ExtendedByte[c.mn]>>, <<>>, <<>>)
    [] c.mn \in DOMAIN TwoByteOpcode -> Opcode(TwoByteOpcode[c.mn], <<>>, <<>>)
    [] OTHER -> FloatRegister(c)

FloatNames ==
  DOMAIN FloatOpcode \cup DOMAIN IntOpcode \cup DOMAIN UncheckedOpcode
  \cup DOMAIN FromTopOpcode \cup DOMAIN StackOpcode
  \cup DOMAIN ExtendedByte \cup DOMAIN TwoByteOpcode

(* write_Unmask_Exception_Prefix, in front of everything: the functions    *)
(* that wait, and the ones they call.                                      *)
Waiting ==
  [Fclex |-> "Fnclex", Finit |-> "Fninit", Fsave |-> "Fnsave", Fstcw |-> "Fnstcw",
   Fstenv |-> "Fnstenv", Fstsw |-> "Fnstsw"]

WriteUnmaskExceptionPrefix(b) == PushByte(b, \h9B)
=============================================================================
