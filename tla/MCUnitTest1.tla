---------------------------- MODULE MCUnitTest1 ----------------------------
(***************************************************************************)
(* The functions of unittest1.cpp for TLC, with the template arguments     *)
(* they have there and with others, alone and two in a block.              *)
(***************************************************************************)
EXTENDS UnitTest1

Fun(body, conv, base, params) ==
  [body |-> body, conv |-> conv, base |-> base, params |-> params, locals |-> 0]
AsTested(body) == Fun(body, "CDECL", EBP, IF body \in {"SumOfParams", "SumOfBytes"} THEN 8 ELSE 16)

Sums == {Fun("SumOfParams", conv, base, 8) : conv \in CallConv, base \in {EBX, ESP, EBP}}
Tests == {AsTested(body) : body \in DOMAIN Body}

MCPrograms ==
  {<<f>> : f \in Sums \cup Tests}
  \cup {<<f, g>> : f \in {AsTested("SumOfBytes"), AsTested("MovMR32")}, g \in Tests}

MCArguments(f) ==
  CASE f.body = "SumOfParams" ->
         {[i \in 1 .. RegisterArgs(f.conv) |-> 77] \o args : args \in {<<1, 6>>, <<3, 40000>>}}
    [] f.body = "SumOfBytes" -> {<<InputMemory, n>> : n \in {0, 1, 4}}
    [] OTHER -> {<<InputRegs, InputMemory, OutputRegs, OutputMemory>>}

(* The bytes of input_regs, input_memory and the two outputs. *)
Bytes32(v) == <<v % 256, v \div 256, 0, 0>>
MCInputs ==
  {[p \in Data |->
      IF p \in InputRegs .. InputRegs + 23
      THEN FoldLeft(LAMBDA s, v : s \o Bytes32(v), <<>>,
                    <<41, 18467, 6334, edx, 19169, 15724>>)[p - InputRegs + 1]
      ELSE IF p = InputRegs + FlagsOffset THEN 2
      ELSE IF p - InputMemory \in 0 .. MemorySize - 1 THEN <<45, 200, 6, 8>>[p - InputMemory + 1]
      ELSE 0] : edx \in {26500, 40000}}

(* A function with one local variable. *)
LocalsPrograms == {<<[AsTested("SumOfParams") EXCEPT !.locals = 4]>>}
=============================================================================
