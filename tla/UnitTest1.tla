----------------------------- MODULE UnitTest1 -----------------------------
(***************************************************************************)
(* The program of unittest1.cpp: it allocates a Win32::CodeBlock,          *)
(* generates functions into it, calls them, and frees the block.  Four     *)
(* parties share the memory: the client's statements, the constructors and *)
(* destructors of the generators, the compiler's code that calls a         *)
(* function, and the processor that runs it, one instruction at a time.    *)
(*                                                                         *)
(* The question is whether a caller can treat what was generated as a      *)
(* function (module Subroutine).                                           *)
(***************************************************************************)
EXTENDS Win32Function

CONSTANTS
  CodeStart, CodeSize,      \* what VirtualAlloc returns when it succeeds
  InputRegs, OutputRegs,    \* two objects common_regs_t of the client
  InputMemory, OutputMemory, MemorySize,   \* and two memory_state_t
  StackStart, StackSize,
  ReturnAddress,            \* the instruction behind the caller's call
  Inputs,                   \* what the client's data may hold
  Programs,                 \* the sequences of functions that it generates
  Arguments(_),             \* the arguments with which it calls one
  MaxInvocations            \* BOUND on how often it calls functions

VARIABLES
  phase,     \* of the block: "open", "freed", or "crashed" with the process
  code,      \* the block, with the memory of the whole process
  gen,       \* the generator that is alive and its client's local variables
  made,      \* the functions that are finished
  listing,   \* auxiliary: what was emitted at each address
  cpu,       \* the processor's registers
  pending,   \* the call that is running
  before,    \* auxiliary: what the caller could observe when it called
  result,    \* what the last call returned
  invoked

clientVars == <<phase, gen, made, listing>>
callVars == <<cpu, pending, before, result, invoked>>
vars == <<phase, code, gen, made, listing, cpu, pending, before, result, invoked>>

NoGen == <<>>
NoCall == <<>>

RegsSize == 28     \* sizeof(common_regs_t)
FlagsOffset == 24
Data == InputRegs .. InputRegs + RegsSize - 1 \cup OutputRegs .. OutputRegs + RegsSize - 1
          \cup InputMemory .. InputMemory + MemorySize - 1
          \cup OutputMemory .. OutputMemory + MemorySize - 1
StackEnd == StackStart + StackSize
Stack == StackStart .. StackEnd - 1
CodeEnd == CodeStart + CodeSize + Window
CodePages == CodeStart .. CodeEnd - 1

(* The block, the data and the stack lie behind each other. *)
ASSUME UnitTest1Assumption ==
  /\ CodeStart \in Ptr \ {0} /\ StackEnd \in Ptr
  /\ CodeEnd .. StackEnd - 1 = Data \cup Stack /\ Data \cap Stack = {}
  /\ ReturnAddress \in Ptr \ (CodeStart .. StackEnd)
  /\ Inputs \subseteq [Data -> ByteValue]
  /\ MaxInvocations \in Nat

----------------------------------------------------------------------------
(* The bodies of the tests, statement by statement. *)
Param(offset) == [k |-> "param", offset |-> offset]
At(base) == MemOp(BASE(None, base))
Behind(base, n) == MemOp(BASE_OFFSET(None, base, n))
Alu32(mn, dst, src) == Instr(mn, DWORD, <<dst, src>>)
Branch(cc, jump) == Instr("Jcc", DWORD, <<CondOp(cc), LabelOp(jump, None)>>)

Do(call) == [do |-> "emit", call |-> call]
MarkLoop == [do |-> "mark"]                        \* loopAddr = getCurrentPtr()
BackToLoop(jump) == [do |-> "back", call |-> Branch(5, jump)]
Skip(jump) == [do |-> "skip", call |-> Branch(4, jump)]     \* keep the label
BindSkip == [do |-> "bind"]                        \* bind it to getCurrentPtr()

TestSumOfParams ==
  <<Do(Alu32("Xor", R32(EAX), R32(EAX))),
    Do(Mov32(R32(ECX), Param(0))),
    Do(Mov32(R32(EDX), Param(4))),
    Do(Instr("Lea", DWORD, <<R32(EAX), MemOp(BASE_INDEX(None, ECX, EDX, 1))>>)),
    MarkLoop,
    Do(Alu32("Add", R32(EAX), R32(EDX))),
    Do(Instr("Dec", DWORD, <<R32(ECX)>>)),
    BackToLoop("SHORT")>>

TestSumOfBytes ==
  <<Do(Alu32("Xor", R32(ECX), R32(ECX))),
    Do(Mov32(R32(EDX), Param(4))),
    Do(Alu32("Test", R32(EDX), Param(4))),
    Skip("SHORT"),
    Do(Mov32(R32(EAX), Param(0))),
    MarkLoop,
    Do(Instr("Add", BYTE, <<R8(1), At(EAX)>>)),
    Do(Instr("Inc", DWORD, <<R32(EAX)>>)),
    Do(Instr("Dec", DWORD, <<R32(EDX)>>)),
    BackToLoop("LONG"),
    BindSkip,
    Do(Mov32(R32(EAX), R32(ECX)))>>

\* getInputMemory() is parameter 4 and getOutputMemory() parameter 12.
TestMovRM32 ==
  <<Do(Alu32("Xor", R32(EDX), R32(EDX))),
    Do(Mov32(R32(EAX), Param(4))),
    Do(Instr("Mov", BYTE, <<R8(2), At(EAX)>>))>>

TestMovMR32 ==
  <<Do(Mov32(R32(EAX), Param(4))),
    Do(Instr("Mov", BYTE, <<R8(0), At(EAX)>>)),
    Do(Mov32(R32(EDX), Param(12))),
    Do(Instr("Mov", BYTE, <<At(EDX), R8(0)>>))>>

Body ==
  [SumOfParams |-> TestSumOfParams, SumOfBytes |-> TestSumOfBytes,
   MovRR32 |-> <<Do(Mov32(R32(EDX), R32(EAX)))>>,
   MovRM32 |-> TestMovRM32, MovMR32 |-> TestMovMR32,
   Shl |-> <<Do(Instr("Shl", DWORD, <<R32(EDX), ImmOp("U8", 1)>>))>>]

(* TestInstructionFunctionGen: what its constructor emits behind that of   *)
(* FunctionGen, and its destructor before that of FunctionGen.             *)
Instructed(f) == f.body \in {"MovRR32", "MovRM32", "MovMR32", "Shl"}

LoadRegs ==
  <<Instr("Pushad", DWORD, <<>>), Mov32(R32(EAX), Param(0)),
    Mov32(R32(EBX), Behind(EAX, 4)), Mov32(R32(ECX), Behind(EAX, 8)),
    Mov32(R32(EDX), Behind(EAX, 12)), Mov32(R32(ESI), Behind(EAX, 16)),
    Mov32(R32(EDI), Behind(EAX, 20)),
    Instr("Mov", BYTE, <<R8(AH), Behind(EAX, FlagsOffset)>>), Instr("Sahf", DWORD, <<>>),
    Mov32(R32(EAX), Param(0)), Mov32(R32(EAX), At(EAX))>>

StoreRegsTo(out) ==
  <<Instr("Push", DWORD, <<R32(ECX)>>), Mov32(R32(ECX), Param(out)),
    Mov32(At(ECX), R32(EAX)), Instr("Lahf", DWORD, <<>>),
    Instr("Mov", BYTE, <<Behind(ECX, FlagsOffset), R8(AH)>>),
    Instr("Pop", DWORD, <<R32(ECX)>>), Mov32(R32(EAX), Param(out)),
    Mov32(R32(EAX), Param(out)), Mov32(Behind(EAX, 4), R32(EBX)),
    Mov32(Behind(EAX, 8), R32(ECX)), Mov32(Behind(EAX, 12), R32(EDX)),
    Mov32(Behind(EAX, 16), R32(ESI)), Mov32(Behind(EAX, 20), R32(EDI)),
    Instr("Popad", DWORD, <<>>)>>
\* Mutant: the registers are stored where they came from.
StoreRegsBack == StoreRegsTo(0)
StoreRegs == StoreRegsTo(8)

Constructor(f) == BeginFunction(f) \o IF Instructed(f) THEN LoadRegs ELSE <<>>
Destructor(f) == (IF Instructed(f) THEN StoreRegs ELSE <<>>) \o EndFunction(f)

----------------------------------------------------------------------------
(* Emitting: the block, and the auxiliary listing of what was emitted. *)
Resolved(g, c) ==
  [c EXCEPT !.ops = [k \in DOMAIN @ |-> IF @[k].k = "param" THEN GetParameter(g, @[k].offset)
                                        ELSE @[k]]]
AssertParameters(b, g, c) ==
  Asserting(b, \A k \in DOMAIN c.ops : c.ops[k].k = "param" =>
                                         ParameterAsserted(g, c.ops[k].offset))

Listed(b, c, old) == (b.curr :> c) @@ old

EmitInto(x, g, c) ==
  IF x.b.aborted THEN x
  ELSE [b |-> Emit(AssertParameters(x.b, g, c), Resolved(g, c)).b,
        listing |-> Listed(x.b, Resolved(g, c), x.listing)]
EmitAll(x, g, calls) == FoldLeft(LAMBDA y, c : EmitInto(y, g, c), x, calls)

Emitting(g, calls) ==
  \E x \in {EmitAll([b |-> code, listing |-> listing], g, calls)} :
    code' = x.b /\ listing' = x.listing

(* bind of the label of jump c, at address p, whose handle is at offset at. *)
BoundTo(b, c, p, at, target) ==
  /\ code' = Bind(b, c.ops[2].jump, at, target)
  /\ listing' = IF BindAccepts(b, c.ops[2].jump, at, target)
                THEN (p :> [c EXCEPT !.ops[2].to = target]) @@ listing
                ELSE (p :> c) @@ listing

----------------------------------------------------------------------------
(* Generating a function.  The client runs on one thread: while a function *)
(* runs it does nothing else.                                              *)
CanGenerate == phase = "open" /\ pending = NoCall /\ ~code.aborted

Wanted ==
  {p[Len(made) + 1] : p \in {q \in Programs : /\ Len(q) > Len(made)
                                              /\ \A i \in DOMAIN made : made[i].f = q[i]}}

(* The address at which the client will call the function: getAddress(),   *)
(* or, since that is the start of the block, getCurrentPtr() before the    *)
(* generator is constructed when the function is not the first.            *)
\* Mutant: getAddress() for every function.
FunctionAddrOfBlock(b) == GetAddress(b)
FunctionAddr(b) == IF made = <<>> THEN GetAddress(b) ELSE b.curr

Construct(f) ==
  /\ CanGenerate /\ gen = NoGen /\ f \in Wanted
  /\ IF code.curr \in DOMAIN code.mem
     THEN Emitting(f, Constructor(f)) /\ UNCHANGED phase
     ELSE phase' = "crashed" /\ UNCHANGED <<code, listing>>
  /\ gen' = [f |-> f, addr |-> FunctionAddr(code), entry |-> code.curr, body |-> code'.curr,
             pc |-> 1, loop |-> 0, label |-> <<>>]
  /\ UNCHANGED <<made, callVars>>

AtStatement(do) ==
  /\ CanGenerate /\ gen # NoGen
  /\ gen.pc <= Len(Body[gen.f.body])
  /\ Body[gen.f.body][gen.pc].do = do
Statement == Body[gen.f.body][gen.pc]

EmitStatement ==
  /\ AtStatement("emit")
  /\ Emitting(gen.f, <<Statement.call>>)
  /\ gen' = [gen EXCEPT !.pc = @ + 1]
  /\ UNCHANGED <<phase, made, callVars>>

Mark ==
  /\ AtStatement("mark")
  /\ gen' = [gen EXCEPT !.pc = @ + 1, !.loop = code.curr]
  /\ UNCHANGED <<phase, code, made, listing, callVars>>

JumpBack ==
  /\ AtStatement("back")
  /\ \E w \in {Emit(code, Statement.call)} :
       BoundTo(w.b, Statement.call, code.curr, w.h[2].label, gen.loop)
  /\ gen' = [gen EXCEPT !.pc = @ + 1]
  /\ UNCHANGED <<phase, made, callVars>>

JumpForward ==
  /\ AtStatement("skip")
  /\ \E w \in {Emit(code, Statement.call)} :
       /\ code' = w.b
       /\ gen' = [gen EXCEPT !.pc = @ + 1, !.label = <<code.curr, w.h[2].label>>]
  /\ listing' = Listed(code, Statement.call, listing)
  /\ UNCHANGED <<phase, made, callVars>>

BindLabel ==
  /\ AtStatement("bind")
  /\ BoundTo(code, listing[gen.label[1]], gen.label[1], gen.label[2], code.curr)
  /\ gen' = [gen EXCEPT !.pc = @ + 1]
  /\ UNCHANGED <<phase, made, callVars>>

Destruct ==
  /\ CanGenerate /\ gen # NoGen /\ gen.pc > Len(Body[gen.f.body])
  /\ Emitting(gen.f, Destructor(gen.f))
  /\ made' = Append(made, [f |-> gen.f, addr |-> gen.addr, entry |-> gen.entry,
                           body |-> gen.body, tail |-> code.curr, end |-> code'.curr])
  /\ gen' = NoGen
  /\ UNCHANGED <<phase, callVars>>

(* ~CodeBlock: nothing to free when nothing was allocated. *)
FreeBlock ==
  /\ phase = "open" /\ pending = NoCall /\ gen = NoGen
  /\ phase' = "freed"
  /\ code' = IF GetAddress(code) = 0 THEN code
             ELSE [code EXCEPT !.mem = [p \in CodeEnd .. StackEnd - 1 |-> @[p]]]
  /\ made' = <<>>
  /\ UNCHANGED <<gen, listing, callVars>>

----------------------------------------------------------------------------
(* Calling a function.  What the caller does before and after is the       *)
(* compiler's code, by the convention in the type of the function pointer. *)
Kept == {EBX, ESP, EBP, ESI, EDI}
Outputs == OutputRegs .. OutputRegs + RegsSize - 1 \cup {OutputMemory}
\* Of the flags byte that is stored, the model knows one bit.
Observed == Data \ {OutputRegs + FlagsOffset}
Observe ==
  [data |-> [p \in Observed |-> code.mem[p]], regs |-> [r \in Kept |-> cpu.regs[r]],
   result |-> result]

StackArgs(call) == SubSeq(call.args, RegisterArgs(call.f.conv) + 1, Len(call.args))
Frame(esp, call) == Minus(esp, 4 * Len(StackArgs(call)) + 4)
Arg(call, k, otherwise) ==
  IF RegisterArgs(call.f.conv) >= k THEN call.args[k] ELSE otherwise

Invoke(i, args) ==
  LET call == [f |-> made[i].f, args |-> args]
      top == Frame(cpu.regs[ESP], call)
  IN /\ phase = "open" /\ pending = NoCall /\ invoked < MaxInvocations
     /\ code' = [code EXCEPT !.mem = Store(@, top,
                   FoldLeft(LAMBDA s, v : s \o LittleEndian(v, 4),
                            LittleEndian(ReturnAddress, 4), StackArgs(call)))]
     /\ cpu' = [cpu EXCEPT !.eip = made[i].addr, !.regs[ESP] = top,
                           !.regs[ECX] = Arg(call, 1, @), !.regs[EDX] = Arg(call, 2, @)]
     /\ pending' = [f |-> call.f, args |-> args, at |-> i, top |-> top]
     /\ before' = Observe
     /\ invoked' = invoked + 1
     /\ UNCHANGED <<clientVars, result>>

Running == phase = "open" /\ pending # NoCall
Executing == Running /\ cpu.eip # ReturnAddress

Machine == [regs |-> cpu.regs, eip |-> cpu.eip, zf |-> cpu.zf, mem |-> code.mem]

Run(m, d) ==
  IF Faults(m, d)
  THEN phase' = "crashed" /\ UNCHANGED <<code, cpu>>
  ELSE \E n \in {Executed(m, d)} :
         /\ cpu' = [regs |-> n.regs, eip |-> n.eip, zf |-> n.zf]
         /\ code' = [code EXCEPT !.mem = n.mem]
         /\ UNCHANGED phase

Step ==
  /\ Executing
  /\ IF Fetchable(Machine)
     THEN \E d \in {Decode(code.mem, cpu.eip)} : Run(Machine, d)
     ELSE phase' = "crashed" /\ UNCHANGED <<code, cpu>>
  /\ UNCHANGED <<gen, made, listing, pending, before, result, invoked>>

Returns(f) == f.body \in {"SumOfParams", "SumOfBytes"}

Return ==
  /\ Running /\ cpu.eip = ReturnAddress
  /\ cpu' = IF ClearParams(pending.f.conv) THEN cpu
            ELSE [cpu EXCEPT !.regs[ESP] = Plus(@, 4 * Len(StackArgs(pending)))]
  /\ result' = IF Returns(pending.f) THEN cpu.regs[EAX] ELSE 0
  /\ pending' = NoCall
  /\ before' = <<>>
  /\ UNCHANGED <<clientVars, code, invoked>>

----------------------------------------------------------------------------
Memory(data, from) ==
  [p \in from .. StackEnd - 1 |-> IF p \in Data THEN data[p] ELSE 0]

(* VirtualAlloc may fail; its result is not looked at. *)
Init ==
  /\ phase = "open" /\ gen = NoGen /\ made = <<>> /\ listing = <<>>
  /\ \E data \in Inputs :
       \/ code = NewBlock(Memory(data, CodeStart), CodeStart, CodeSize, FALSE)
       \/ code = NewBlock(Memory(data, CodeEnd), 0, CodeSize, FALSE)
  /\ cpu = [regs |-> [r \in Reg |-> IF r = ESP THEN StackEnd - 8
                                    ELSE 256 * r + 255],
            eip |-> ReturnAddress, zf |-> FALSE]
  /\ pending = NoCall /\ before = <<>> /\ result = 0 /\ invoked = 0

Generate ==
  \/ \E f \in Wanted : Construct(f)
  \/ EmitStatement \/ Mark \/ JumpBack \/ JumpForward \/ BindLabel
  \/ Destruct \/ FreeBlock

Next ==
  \/ Generate
  \/ \E i \in DOMAIN made : \E args \in Arguments(made[i].f) : Invoke(i, args)
  \/ Step
  \/ Return

(* The client may stop anywhere, but the processor does not: it goes on    *)
(* executing and returning.  The first conjunct is WF_vars(Step) with its  *)
(* ENABLED written out, which is the guard of Step.                        *)
Fairness == ([]<>~Executing \/ []<><<Step>>_vars) /\ WF_vars(Return)

Spec == Init /\ [][Next]_vars /\ Fairness
----------------------------------------------------------------------------
(* Every variable has its type. *)
TypeOK ==
  /\ phase \in {"open", "freed", "crashed"}
  /\ code.curr \in Ptr /\ code.start \in {0, CodeStart}
  /\ \A p \in DOMAIN code.mem : code.mem[p] \in ByteValue
  /\ DOMAIN listing \subseteq CodePages
  /\ cpu \in [regs : [Reg -> Ptr], eip : Ptr, zf : BOOLEAN]
  /\ result \in Ptr /\ invoked \in 0 .. MaxInvocations

(* The return address stays on the stack where the caller put it, whatever *)
(* the function pushes, pops and stores; and when the function is left,    *)
(* the stack is as its convention says and the caller's registers are back. *)
Cleared(call) == IF ClearParams(call.f.conv) THEN 4 * Len(StackArgs(call)) ELSE 0

ConventionKept ==
  Running =>
    /\ ReadMem(Machine, pending.top, 4) = ReturnAddress
    /\ cpu.eip = ReturnAddress =>
         /\ cpu.regs[ESP] = pending.top + 4 + Cleared(pending)
         /\ \A r \in Kept \ {ESP} : cpu.regs[r] = before.regs[r]

(* The process crashes only when it was refused the memory for its block:  *)
(* nothing looks at the result of VirtualAlloc before it is written to.    *)
NoAccessViolation == phase = "crashed" => GetAddress(code) = 0

(* The processor stays inside the function that was called, and executes   *)
(* there the instructions that were emitted, as they were emitted: no      *)
(* constructor, destructor, bind or later function has changed them, and   *)
(* no jump leads between two of them.                                      *)
ExecutesAsEmitted ==
  Executing =>
    /\ cpu.eip \in made[pending.at].entry .. made[pending.at].end - 1
    /\ cpu.eip \in DOMAIN listing
    /\ Reads(listing[cpu.eip], Decode(code.mem, cpu.eip))

(* A running function writes below the return address, and the objects it  *)
(* was given to write to: not the arguments, its caller's frame, its       *)
(* inputs, or code.                                                        *)
MayWrite == StackStart .. pending.top - 1
            \cup (IF Instructed(pending.f) THEN Outputs ELSE {})
WritesOwnFrame ==
  [][Running /\ pending' = pending =>
       \A p \in DOMAIN code.mem : code'.mem[p] # code.mem[p] => p \in MayWrite]_vars

(* Between the constructor and the destructor, every variable for which    *)
(* the assert of getVariable holds is on the part of the stack that the    *)
(* function has taken: nothing that is pushed can change it.               *)
InBody == cpu.eip \in made[pending.at].body .. made[pending.at].tail - 1
VariablesReserved ==
  Running /\ InBody =>
    \A offset \in {4 * k : k \in 0 .. pending.f.locals \div 4} :
      VariableAsserted(pending.f, offset) =>
        EffectiveAddress(Machine, Operand([ops |-> <<GetVariable(pending.f, offset)>>], 1))
          >= cpu.regs[ESP]

----------------------------------------------------------------------------
(* What the tests assert of their functions: the world after a call. *)
InputRegister(data, k) == ValueOf([i \in 1 .. 4 |-> data[InputRegs + 4 * k + i - 1]])

\* The members of common_regs_t in their order.
RegOrder == <<EAX, EBX, ECX, EDX, ESI, EDI>>
GivenRegs(data) ==
  [r \in Range(RegOrder) |-> InputRegister(data, CHOOSE k \in 0 .. 5 : RegOrder[k + 1] = r)]

ExpectedRegs(call, data, in) ==
  CASE call.f.body = "MovRR32" -> [in EXCEPT ![EDX] = in[EAX]]
    [] call.f.body = "MovRM32" -> [in EXCEPT ![EAX] = InputMemory, ![EDX] = data[InputMemory]]
    [] call.f.body = "MovMR32" ->
         [in EXCEPT ![EAX] = InputMemory - (InputMemory % 256) + data[InputMemory],
                    ![EDX] = OutputMemory]
    [] call.f.body = "Shl" -> [in EXCEPT ![EDX] = (2 * @) % AddrSpace]

StoredRegs(regs) ==
  FoldLeft(LAMBDA s, r : s \o LittleEndian(regs[r], 4), <<>>, RegOrder)

ExpectedData(call, data, regs) ==
  LET out == StoredRegs(regs)
  IN [p \in Observed |->
        IF p - OutputRegs \in 0 .. FlagsOffset - 1 THEN out[p - OutputRegs + 1]
        ELSE IF p = OutputMemory /\ call.f.body = "MovMR32" THEN data[InputMemory]
        ELSE data[p]]

SumOf(data, p, n) == FoldLeft(LAMBDA sum, i : sum + data[p + i - 1], 0, [i \in 1 .. n |-> i])

ExpectedResult(call, args, data) ==
  IF call.f.body = "SumOfParams"
  THEN (args[1] + 2 * args[2] + args[1] * args[2]) % AddrSpace
  ELSE SumOf(data, args[1], args[2]) % 256

Expected(world, call) ==
  IF Returns(call.f)
  THEN [world EXCEPT !.result = ExpectedResult(call, StackArgs(call), world.data)]
  ELSE [world EXCEPT !.result = 0,
                     !.data = ExpectedData(call, @, ExpectedRegs(call, @, GivenRegs(@)))]

Callable(call) ==
  /\ \E p \in Programs : call.f \in Range(p)
  /\ call.args \in Arguments(call.f)

Function ==
  INSTANCE Subroutine
    WITH IsCall <- Callable, Promised <- Expected,
         world <- IF pending = NoCall THEN Observe ELSE before,
         pending <- IF pending = NoCall THEN NoCall
                    ELSE [f |-> pending.f, args |-> pending.args]

(* Every function that was generated is a subroutine for its caller: the   *)
(* call returns, with the result that the test expects, and nothing else   *)
(* that the caller can observe has changed.                                *)
ImplementsCall == Function!Spec
=============================================================================
