--------------------------- MODULE Win32Function ---------------------------
(***************************************************************************)
(* Win32::FunctionGen of win32.h: an object that writes the first          *)
(* instructions of a function when it is constructed and the last ones     *)
(* when it is destroyed; its owner emits the body in between.              *)
(*                                                                         *)
(* A generator is a record with its template arguments and its members:    *)
(*   conv     the calling convention      base     BASE_REG                *)
(*   params   mParamsSize                 locals   mLocalVarsSize          *)
(* and its operations are the calls of the assembler that they make.       *)
(***************************************************************************)
EXTENDS X86Execute

CallConv == {"CDECL", "STDCALL", "FASTCALL", "PASCAL"}

(* CallConvProps<C>::clearParams: whether the function removes its         *)
(* arguments from the stack, and, after the compiler's documentation of    *)
(* the four conventions, how many arguments are passed in registers.       *)
ClearParams(conv) == conv # "CDECL"
RegisterArgs(conv) == IF conv = "FASTCALL" THEN 2 ELSE 0

Instr(mn, size, ops) ==
  [mn |-> mn, size |-> size, lock |-> FALSE, rep |-> 0, ops |-> ops]
R32(n) == RegOp(DWORD, n)
R8(n) == RegOp(BYTE, n)
Mov32(dst, src) == Instr("Mov", DWORD, <<dst, src>>)

(* The calls that beginFunction and endFunction make. *)
BeginFunction(g) ==
  <<Instr("Push", DWORD, <<R32(g.base)>>), Mov32(R32(g.base), R32(ESP))>>
  \o IF g.locals # 0 THEN <<Instr("Add", DWORD, <<R32(ESP), ImmOp("U32", g.locals)>>)>>
     ELSE <<>>

\* Mutant: the arguments are left for the caller in every convention.
EndFunctionUncleared(g) ==
  <<Instr("Pop", DWORD, <<R32(g.base)>>), Instr("Ret", DWORD, <<>>)>>
EndFunction(g) ==
  <<Instr("Pop", DWORD, <<R32(g.base)>>),
    Instr("Ret", DWORD,
          IF ClearParams(g.conv) /\ g.params # 0 THEN <<ImmOp("U16", g.params)>> ELSE <<>>)>>

(* getAddress, getParameter and getVariable; the last two with asserts. *)
GetAddress(b) == b.start

\* Mutant: the return address is not counted.
GetParameterBelow(g, offset) == MemOp(BASE_OFFSET(None, g.base, 4 + offset))
GetParameter(g, offset) == MemOp(BASE_OFFSET(None, g.base, 8 + offset))
ParameterAsserted(g, offset) == offset < g.params

GetVariable(g, offset) == MemOp(BASE_OFFSET(None, g.base, -4 - offset))
VariableAsserted(g, offset) == offset < g.locals
=============================================================================
