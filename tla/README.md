# CppAssembler: a verification project in TLA+

CppAssembler generates x86 machine code at run time. A client calls one
function per instruction; each function writes the bytes of that instruction
into a block of memory and returns handles through which its operands can be
replaced later. The same calls on another class of block only measure.

The library is sequential: no threads, no messages, nothing persisted, no
retries. What is hard in it is of four kinds.

* **Memory.** Blocks do not own the memory they write, share it with their
  sub-blocks, and check it with two asserts. Cursors move without a check.
* **Order.** Emitters write bytes that they then do not skip over, handles are
  bare offsets, and resets, replacements and binds may come in any order. A
  step can damage what an earlier one wrote, or leave a later one wrong.
* **Encoding.** Hundreds of overloads over a few dozen templates, six addressing
  modes and three sizes, where a wrong byte is still valid machine code.
* **Running.** The program calls what it has written. Objects whose constructor
  and destructor write the ends of a function, the compiler's code at the call
  and a processor that knows nothing of either have to agree on one stack.

## 1. Inventory

| Component | State | Operations | Depends on |
|---|---|---|---|
| Memory blocks (`os.h`, `os.cpp`) | `mDataStart`, `mSize`, `mDataCurr`, and the memory itself, shared between a block and its sub-blocks | write, read and push at the cursor or at an offset, skip, two resets, two `subBlock`s, accessors | memcpy, assert |
| Operands, handles, labels (`x86_64_base.h`, `x86_base.h`, `replaceable.h`) | members of operand values; a handle is an offset and a bit position | write of ModRM, SIB, displacement, segment prefix; `replace`, `read`, `bind` | blocks |
| The i386 instructions (`x86_i386.h`) | none: static functions | one per instruction and kind of operands | operands |
| Two-pass client (as `main.cpp` begins; the unit tests bind) | blocks, handles | measure, emit, replace, bind, rewind | all above |
| Later instruction sets (`x86_i486.h` to `x86_CLDEMOTE.h`, `MMX.h`) | none | as i386 | templates of i386 |
| i387 (`x86_i387.h`) | none | floating point instructions; seven write a wait in front of theirs | operands, i386's templates |
| x64 (`x64_base.h`, `x64_i386.h`) | none | 64-bit operands, REX prefixes; unfinished: only Cbw, Cwde, Cwd, Cdq, Movsx and Movzx can be instantiated | blocks |
| Windows blocks and functions (`win32.h`) | a block from VirtualAlloc; sizes of locals and parameters | allocate, free, invoke; prologue, epilogue, parameter and variable operands | blocks, i386 |
| `CustomArch` (`arch.h`) | none | none (multiple inheritance) | |
| Unit tests (`unittest1.cpp`, `X86CompileTest.cpp`) | a block, a generator, two objects with registers, two with memory | generate functions, call them, compare; the second file only calls every function of the assembler | all above |

The components interact by direct calls on one thread. They share the bytes
under a block and its sub-blocks, offsets into those bytes held by handles and
labels, and, when a generated function is called, the processor's registers and
the stack.

What makes each correct:

* *Blocks*: a call on a block changes no byte outside it; measured and written
  lengths agree; sizes and cursors survive unsigned wrap-around.
* *Operands, handles, labels*: a processor finds the operand that was asked
  for; a replacement changes that operand and nothing else; a label leads to
  its target or is refused, in both passes alike.
* *Instructions*: the bytes of a call decode to that call, and its length is
  what the block was advanced by.
* *Client*: all of this in every order of the calls it is allowed to make.
* *Functions*: a caller can treat what was generated as a function. The call
  returns, by its convention, with the result that the test expects, and
  nothing else that the caller can observe has changed.

The hazards are listed in `PROJECT.json`, each at its line, with the property
that covers it or the reason why none does.

## 2. Modules

| Module | What it is | Code |
|---|---|---|
| `Block` | One block as a value; every method an operator from the block before to the block after. A failed assert sets `aborted` and everything later is a no-op. | `os.h`, `os.cpp` |
| `CodeBlocks` | A state machine: a root block, blocks carved from it, all methods in any order. | the same, used by an arbitrary client |
| `CodeBlocks_proofs` | Theorems about `CodeBlocks`. | |
| `X86Base` | ModRM, SIB, the six modes of `Mem32`, optional bytes, handles, `FwdLabel`. | `x86_64_base.h`, `x86_base.h`, `replaceable.h` |
| `X86Templates` | The private templates of class `i386`. Each says of a call what it writes, an instruction: opcode, ModRM operand and middle field, tail, and which part each returned handle names. `Write` writes that to a block in the order all templates share. | `x86_i386.h:20-924` |
| `X86I386` | The public functions of `i386`. `Instruction(call)` dispatches to a template. | the rest of `x86_i386.h` |
| `X86I387` | Class `i387`: the templates for memory, for the register stack and for the escape opcodes; the wait that some functions write in front. | `x86_i387.h` |
| `X86I686` | The classes from `i486` to `i686` with their optional sets; `Emit(b, call)` is the block after a call of any of these functions, and its handles. | `x86_i486.h` ... `x86_CLDEMOTE.h` |
| `X64I386` | The 64-bit operands, extended register numbers, and the functions of `X64::i386` that exist. `EmitOf` is `Emit` for a call of either class. | `x64_base.h`, `x64_i386.h` |
| `X86Decode` | A processor's decoder for 32-bit code, and what a call promises. Written from the architecture, not from this code; external in the map. | |
| `X64Decode` | The same for 64-bit code, as far as `X64I386` needs it. | |
| `Encoding` | The bytes of an instruction, as a function of the instruction, its address and a layout (with or without a segment prefix; one or four bytes of displacement). No block occurs in it: it is the reference against which `Encoded` holds what the emitters, the handles and `bind` do to a block. | |
| `Assembler` | A state machine: a client that makes every call on a `MeasureBlock` and on a `CodeBlock`, aligns, replaces, binds, rewinds, overwrites. | the interface that the two classes of `os.h` share, used for what `README.md:15` offers; `main.cpp:31` measures so, but then emits a `Nop` of the size |
| `Emitters_proofs` | Lemmas about what every emitter of `X86Templates` and `X64I386` does to a block. | |
| `Assembler_proofs` | Theorems about `Assembler`. | |
| `Encoding_proofs` | Lemmas: every emitter leaves the bytes of `Encoding`. | |
| `Operands_proofs` | Lemmas: replacing an operand of a call replaces one part of its instruction. | |
| `Patching_proofs` | Lemmas: replacing a field of an instruction through its handle, or binding its label, gives the bytes of the instruction with that part replaced. | |
| `AssemblerBytes_proofs` | The theorem that rests on these three: `Encoded`. | |
| `InstrStream` | The abstract specification: a code block is a stream of instructions that can be extended, amended in one operand, exchanged in one place, or cut. | |
| `AssemblerStream` | `Assembler` with an auxiliary variable that holds the disassembly, and the refinement of `InstrStream`. | |
| `ByteStream` | The abstract specification below that: a code block is a row of byte strings, one for each instruction. A step adds one at the end, changes the bytes of one, or cuts the row short. | |
| `X86Execute` | A processor that executes the instructions of which generated functions are made, over the decoder; everything else is a fault. External in the map. | |
| `Win32Function` | `FunctionGen`: what its constructor and destructor emit, `getAddress`, `getParameter`, `getVariable`, their asserts. | `win32.h` |
| `UnitTest1` | A state machine: a client generates functions statement by statement, calls them and frees the block; a processor runs them, one instruction a step. | `unittest1.cpp`, `win32.h` |
| `Subroutine` | The abstract specification: a call begins, and then returns with what was promised. | |
| `MCCodeBlocks`, `MCAssembler`, `MCStream`, `MCUnitTest1` | Values for TLC. | |

Layers: `Block` is extended by `CodeBlocks` and by `X86Base`; from there
`X86Base`, `X86Templates`, `X86I386`, `X86I387`, `X86I686` in a line.
`X86Decode` extends that. Above it, one branch is `X64I386` and `X64Decode`,
`Assembler`, `AssemblerStream`; the other is `X86Execute`, `Win32Function`,
`UnitTest1`, where instructions are emitted by `X86I686` into the memory from
which `X86Execute` fetches them. `Encoding` extends `X86Templates` and is
extended by `Assembler`. Among the proofs, `Emitters_proofs` extends `X64I386`;
`Assembler_proofs` both `Assembler` and `Emitters_proofs`, `Encoding_proofs` both
`Encoding` and `Emitters_proofs`; then `Operands_proofs` (on `Assembler_proofs`),
`Patching_proofs` (on `Operands_proofs` and `Encoding_proofs`) and
`AssemblerBytes_proofs` in a line.

### Correspondence and abstractions

* **Blocks are values.** `mDataCurr`, `mDataStart`, `mSize` are `curr`,
  `start`, `size`; the two classes are the flag `measure`. In `CodeBlocks`
  memory is one variable that all blocks see, and `View(b)` puts the value
  together.
* **Arithmetic** on pointers and sizes is modulo `AddrSpace`, which stands for
  2^32: this is how `getRemainingSize` wraps around. It is 10 in the runs of
  `CodeBlocks`, 4096 in those of `Assembler`, 65536 in those of `UnitTest1`,
  and any positive number in the proofs. `CursorLimit` keeps the model's cursors away from the top of the
  address space, where the code's own sums would wrap.
* **A C++ overload is a record.** `[mn, size, lock, rep, ops]` is the function's
  name, the size in its template arguments or register types, its prefixes and
  arguments; in `Assembler` there is also its `class`, X86 or X64. Functions
  that differ only in a condition code (Jo ... Jnle, Seto ... Setnle) are one
  mnemonic with a condition operand. Aliases (Jz and Je) are one name.
* **Registers** of all sizes are 0..7, and 0..15 in 64-bit code. Immediates and
  displacements are mathematical integers; writing them cuts out their bytes.
* **`Nop(count)`** is one push of `count` bytes, for the loop that the code has.
* **The build** of the generator is `AddrBytes`, `sizeof(Addr)`: 4, and 8 in
  the runs Misreads and Misencoded. The solution has both platforms, and class
  X86 can be used on both.
* **Handles** are records named after the operand's field. The base and index
  handles of `BASE_INDEX` are left out: their type names `common::Mem32_SIB`,
  which does not exist, so they cannot be used.
* **What a call is.** The operands' constructors and the functions' signatures
  allow only certain calls. `IsMem` (in `X86Base`), `IsInstruction` (in
  `X86Templates`), `IsCall64` (in `X64I386`) and `IsCall` say which: the fields
  of an operand and their ranges, that a template gets at most one label and
  puts it last, that an argument's handle names a part that is written, and that
  the memory operand that is encoded is one of the call's. The proofs assume it of `Calls` in `AssemblerAssumption`, and TLC evaluates the
  assumption for every call of every run of `Assembler`, all of
  `EncodingCalls` among them.
* **The process** of `UnitTest1` has one interval of memory: the block, the
  client's data, the stack. An access outside it, or an instruction that the
  processor of the model does not have, is a fault; either ends the process.
  Registers are numbers modulo `AddrSpace`, of the flags there is ZF, and
  segments are flat. The mutable state of the C++ objects is `code` (the block
  and all the memory), `gen` (the generator that is alive with its client's
  local variables) and `made` (the addresses that the client knows).
* **A call** is what the compiler emits for a function pointer of the convention
  in its type: arguments pushed or in ECX and EDX, the return address, and, in
  CDECL, the stack cleared afterwards.
* **The bodies** of the six tests that generate code are lists of statements,
  with every call as it stands there. What a test asserts about registers or
  memory is asserted here about everything that the caller can observe. A
  `memory_state_t` has `MemorySize` bytes, of which the tests use the first.

### The client's discipline

README.md of the repository leaves range checks to "more high level code". What
that code has to do is explicit here; each rule is a named guard, and where a
constant switches it off, a run shows what goes wrong without it.

| Rule | In | Without it |
|---|---|---|
| A sub-block with an explicit size fits in what is left of its parent. | `RoomFor` in `CarveSize` | the sub-block ends where the client says |
| No `CodeBlock` is carved from a `MeasureBlock`. | `CanCarve` | a measured block of any size would write |
| Only operands that were emitted are patched. | `patchable`, and the handles in `prog` | an offset is not checked against anything |
| The operand of a forward jump fits before the jump is emitted. | `ChecksPlaceholder` | run CodeBlocks_placeholder |
| The MeasureBlock is aligned as the CodeBlock is. | `AssemblerAssumption` | padding is measured with another length |
| A few bytes are kept free behind what was measured. | `Slack` | run Exact |
| Operands have an encoding: no EBP as the base of BASE or BASE_INDEX, no ESP as an index; a replaced base stays in the class it was emitted for. | `ChecksOperands` | run Misencoded, and Misreads for which operands these are |
| An instruction emitted over another one has no optional bytes behind its end. | `ChecksSpill` | the next instruction loses up to three bytes |

## 3. Runs

Every run is finite without state constraints: the bounds are in guards
(`WithinLimit`, `MaxInstructions`, `MaxMoves`) or in the size of the block.
Deadlock is not checked: a client may stop calling, a process whose assert has
failed is gone, and the bounds end every behaviour.

### Passing

* **CodeBlocks_debug**: `TypeOK`, `RootContained`, `Nested`, `OwnExtentOnly`.
  A region of three bytes at address 2 in a space of 10, two blocks, data of
  one and two bytes, placeholders and skips of one. Three bytes let a datum fit,
  fit exactly and not fit; cursors go two bytes past the end, enough for the
  remaining size to wrap and for a sub-block to start behind the region; there
  are foreign bytes on both sides. Nothing distinguishes a third block from the
  second, since a sub-block relates only to its parent's cursor and end; the
  proofs cover any number.
* **Encodings**: `TypeOK`, `Faithful`, `Encoded`, `MeasureAgrees`,
  `SpillsThreeBytes`. One
  of about 3900 calls is made, and any sequence of replacements and binds
  through its handles follows. The calls contain every function of `i386`,
  `i387` and the later classes with every kind of operands it takes, every mode
  of `Mem32` with every base, default and foreign segments, scales, and
  displacements on both sides of the byte boundary; and of the x64 class the
  functions that exist, with every mode of `Mem64` and `Mem32` and the registers
  whose low bits are special. An emitter knows nothing of earlier instructions, so
  one instruction is enough for encodings.
* **Programs**: `Faithful`, `Encoded`, `MeasuredSizeSuffices`,
  `ImplementsStream`, `ImplementsBytes`. Two
  instructions out of six that can stand in for each other (lengths 2, 3 and
  6; with and without bytes behind their end; with every kind of handle; a short
  and a long jump), and one move of the cursor in any place: overwrite the first
  while the second stands behind it, rewind over one or both, replace before and
  after. A block of 16 makes the size guard bite. Damage goes from an
  instruction to its neighbour, at most three bytes far, so two show it.
* **Labels**: `Faithful`, `MeasureAgrees`, `BindsAlike`, `ShortReach`. Jumps of
  one, two and three bytes of opcode around gaps of 125 to 128, bound forwards
  and backwards to every instruction: the distances -128, -129, 127 and 128 all
  occur. Padding to 16 bytes stands anywhere among them.
* **Release**: `Contained`, with the asserts compiled out. Blocks filled up to
  three bytes from the end, then patched and overwritten: nothing behind the
  block changes.
* **Misreads**: `MisreadsExactly`, in a 64-bit build of the generator and with
  no rule for operands. For about 1460 calls, the families around every wrong
  encoding (all bases and indexes, immediates of every type and size, segments,
  prefixes, pairs of 64-bit registers, labels), it is an equivalence: a call is
  misread if and only if `Encodable` or `Miswritten` says so. So the rule that
  the client of the other runs keeps is neither too strong nor too weak for them.
* **Functions**: `TypeOK`, `ConventionKept`, `NoAccessViolation`,
  `ExecutesAsEmitted`, `WritesOwnFrame`, `ImplementsCall`. The functions of the
  six tests; the first of them with all four conventions and three frame
  registers, ESP among them; two functions in a block; allocation that succeeds
  or fails; all orders of generating, calling and freeing, with two calls (`MaxInvocations`: a second
  call, of the same function or another, starts from what the first left in
  memory and registers). A stack of 80 bytes holds the deepest of these frames;
  a deeper one would be a fault, and `NoAccessViolation` says there is none. It
  exempts the crash of a process that was refused its block, which does occur.
  The inputs make sums overflow a byte and a shift overflow a word.

### Violations

Each shows one place where the code does other than a comment, a document or a
test says; details are under `findings` in `PROJECT.json`.

| Run | What TLC finds |
|---|---|
| CodeBlocks_full | `verifyOffset` looks at the cursor and not at the offset, so a full block refuses patches inside it. |
| CodeBlocks_placeholder | A jump at the end of the block, its operand skipped past the end without a check, a reset, a bind of that operand: `verifyOffset` looks at the cursor, which is at the start again, and the bind writes outside the region with every assert satisfied. |
| Exact | A block of exactly the measured size fails an assert: a byte displacement is written with four bytes. |
| Misencoded | Ten calls, each in a comment or test, that a processor reads as something else: `Mem32<BASE>(EBP)` has an absolute address and swallows four bytes; `Clts` and `Invd` write 66 for 0F; `Imul(reg, imm)` multiplies EAX; `Bts` of memory and an immediate ignores the segment; `Movsw` drops its repeat prefix; x64 `Movsx(reg, reg)` has its operands the wrong way round; x64 memory operands lack the SIB byte of R12, and FS and GS; a LONG jump has eight bytes of operand in a 64-bit build. TLC stops at the first; `Misreads` shows that all of them are. |
| Locals | `beginFunction` adds to ESP where it should subtract: a local variable is below the stack pointer, where the next push overwrites it. |

### The main properties

* `RootContained`, `OwnExtentOnly`: what blocks may change. The second is about
  each write alone, and the first about all writes ever, through every chain of
  sub-blocks and resets.
* `Nested`: a `CodeBlock` whose start is behind the region has a wrapped size,
  and its end, in the code's arithmetic, is still not behind the region's. This is why the missing
  check in `skipBytes` does no harm to a client that checks its placeholders.
* `Faithful`: a processor reading from the start to the cursor finds the calls
  that were made, with the operands they have been given since, and nothing
  else. It relates all the memory to all the history.
* `Encoded`: the same without a processor. The bytes of each instruction of
  the 32-bit classes are those that `Encoding` gives for its call with the
  operands as they are now, so they are the same for every history: emitted and
  patched, patched twice, emitted anew, bound before or after. Two things depend
  on the past, and a layout stands for them: whether there is a segment prefix,
  and how long the displacement is. `Encoded` does not say that an opcode is the
  right one, which is a matter of `Faithful`; in return it is proved for programs
  of any length, all operands and all addresses. A label that is not bound leaves
  holes, which match every byte.
* `SpillsThreeBytes`: an emitter writes nothing in front of it and at most three
  bytes behind it. This is the number that `Slack` needs, and `Contained` and
  `MeasuredSizeSuffices` are its two consequences, in the two builds. In the
  build with asserts one more byte is needed: a replacement of four bytes is
  checked against the cursor (see CodeBlocks_full), so four.
* `ImplementsStream`: in terms of instructions instead of bytes, each step does
  one of the four things of `InstrStream`, and not even changes the length of
  another instruction.
* `ImplementsBytes`: the same in terms of bytes, whatever a processor makes of
  them. The row is cut where the client recorded its instructions (`BytesOf`),
  and no step changes the bytes of two of them or the length of one. It is
  weaker than `ImplementsStream`, which also says how an instruction changes, but
  it does not depend on a decoder and is proved for programs of any length.
* `BindsAlike`, `ShortReach`: the first pass can be believed when it says that a
  SHORT jump reaches.
* `MisreadsExactly`: the list of what is wrongly encoded, as an equivalence.
* `ExecutesAsEmitted`: the processor is always at the start of an instruction
  that was emitted there, inside the function that was called, and reads it as
  it was emitted. It relates the calls made while generating, the binds that
  changed their operands since, and the program counter while running.
* `ConventionKept`: at every moment of a call the return address is intact; at
  its end, ESP, the frame register and the other registers that a function must
  preserve are what the convention says.
* `WritesOwnFrame`: a running function changes no byte but below its return
  address and in the objects it was given to write to; not its code either.
* `ImplementsCall`: `UnitTest1` implements `Subroutine`. Its world is what the
  caller can observe: the data, the registers that are kept, the result.
  While a function runs that world is the one of the moment of the call (the
  auxiliary variable `before`), and when it returns, it is the one promised.
  What is promised is computed from the tests' assertions, not from the code.

### Fairness

Only `UnitTest1` has liveness: every call returns (`EveryCallReturns`, a part of
`Subroutine!Spec`). It is the point of the loops in `TestSumOfParams` and
`TestSumOfBytes`, whose jumps are bound by the generator. The fairness is that of
a processor: it goes on executing (`[]<>~Executing \/ []<><<Step>>_vars`, which
is WF of `Step` with its ENABLED, the guard `Executing`, written out: TLC is slow
to find it) and returning (WF of `Return`). Nothing is assumed of the client,
who may stop anywhere. The client's arguments make the loops end: a count of
zero in `TestSumOfParams` would wrap around, and no test has it.

The library itself has no loop but that of `Nop(count)` and no waiting, so that
there is nothing else that must happen eventually.

## 4. Proofs

`CodeBlocks_proofs` proves, for every address space, region, number of blocks,
set of data and bound, assuming that asserts are compiled in (`~NDEBUG`) and
that jumps are emitted where they fit (`ChecksPlaceholder`):

| Theorem | States |
|---|---|
| `Inductive` | `Spec => []IInv` |
| `Containment` | `Spec => []RootContained` |
| `TypeCorrect` | `Spec => []TypeOK` |
| `Nesting` | `Spec => []Nested` |
| `OwnExtent` | `Spec => OwnExtentOnly` |

Both assumptions are needed: a build without asserts checks nothing, and the
run CodeBlocks_placeholder violates the second theorem when only the other is
dropped. The assumptions on the constants are `BlockAssumption` and
`CodeBlocksAssumption`: the region lies below `CursorLimit`, and the
longest datum written there still ends below the top of the address space.

`RootContained` is not inductive: it says nothing of blocks that have not been
written to yet. `IInv` adds, for every live block, `Sound(b)`: it starts in or
behind the region, its cursor is between its start and `CursorLimit`, and, if
it is a `CodeBlock`, its end in modular arithmetic is at most the region's end
and so is everything patchable in it. And blocks that do not exist yet have
nothing patchable. The argument then goes as follows.

1. `StoreEffect`: memcpy changes its own bytes and no others.
2. `WriteContained`: a write at the cursor that passes the assert ends before the
   block's end. `PatchStep`: a write at an offset is inside because of
   `patchable`, and *not* because of the assert, which tests another address.
3. `SubBlockEnd`: `curr + (size - (curr - start))` is `start + size` modulo the
   address space, wrapped around or not, so `subBlock()` hands down the end of
   its parent exactly. `CarveSizeStep` uses the client's check instead.
4. `CallPreserves` and `CarvePreserves` turn these facts into `IInv'`; one lemma
   per action; `NextStep` assembles them.
5. `OwnExtent` uses the same facts about one write, with the block in place of
   the region.

`Assembler_proofs` proves of the client, for every set of calls that the
overloads allow, every region, slack, set of replacements and bound:

| Theorem | States | If |
|---|---|---|
| `Inductive` | `Spec => []IInv` | |
| `TypeCorrect` | `Spec => []TypeOK` | |
| `MeasuresWhatItWrites` | `Spec => []MeasureAgrees` | |
| `MeasureBindsAlike` | `Spec => []BindsAlike` | |
| `SpillIsBounded` | `Spec => SpillsThreeBytes` | |
| `MeasuredSizeIsEnough` | `Spec => []MeasuredSizeSuffices` | `Slack >= AddrBytes` |
| `Containment` | `Spec => []Contained` | `Slack >= 3`, or asserts are compiled in |
| `Contiguous` | `Spec => []Layout` | `Slack >= 3` |
| `ShortJumpsReach` | `Spec => []ShortReach` | `Slack >= 3` and `BlockSize + 128 < AddrSpace` |
| `InstructionsAreKeptApart` | `Spec => ImplementsBytes` | `Slack >= 3` and `ChecksSpill` |

None of these needs `ChecksOperands`: a wrongly encoded instruction has the right
length. Only the last one needs `ChecksSpill`, and it cannot do without: an
instruction written over another one would change up to three bytes of the next.
The conditions are those of the code. With a slack below `AddrBytes`, a
displacement of one byte or a patch near the end fails an assert, which the run Exact shows for a slack of zero. Without asserts the last
instruction may write three bytes more than it has. In a block almost as
large as the address space a distance could wrap around into the range of a
SHORT jump.

The emitters choose by CASE among hundreds of forms, and their bytes are not
looked at in these theorems. What is proved about them is where they write:
`Emits(D, b, a, n, s)` says that block `a` is block `b` advanced by `n` bytes,
that nothing in front of the cursor of `b` has changed and, behind that of `a`,
nothing but the next `s` bytes, that an assert may have stopped it only where
there was no room for `n + 3` bytes, and that a MeasureBlock only advances. The
spill `s` is that of the memory operand (`MemSpill`): three bytes for a
displacement of one, one for a SIB byte that was not needed.

1. `EmitsThen`: emitters compose. Of two that are `Emits` with their own lengths,
   one after the other is `Emits` with the sum, and with the spill of the second
   if that covers what the first one spilled. Each emitter's lemma follows
   from those it calls, in the order of the source, up to `WriteEmits`
   (a template of class X86), `Emits64` and `NopEmits`.
2. `CallFits`: a call emits `LengthOf(c)` bytes, a number in which the block does
   not occur, and each of its handles points into those bytes.
3. `Pass`: so both passes advance by the same length, and because the first one
   was compared with `BlockSize`, the second one has room.
4. `ReplacePatches` and `BindPatches`: a patch changes bytes under its handle only.
   `BitField` bounds the replacement of a few bits in a byte.
5. `SamePadding`: two blocks whose starts are congruent pad by the same number.
   It is the one place where the MeasureBlock's address matters.
6. `NoSpill`: a call that may be written over another one (`SpillFree`) has a
   spill of zero. Its operand's mode is what is tested there, and `IsCall86`
   says that the operand is the one that is encoded.
7. One lemma per action (`TwoPassesKeeps`, `PadKeeps`, `ReplaceKeeps`,
   `BindKeeps`, `RewindKeeps`, `OverwriteKeeps`) and `NextKeeps`.
8. `Ordered`: by induction over the distance, instructions that lie back to back do
   not overlap. So what a step did to the memory (`Effect`) it did to one
   instruction or behind all, and `EffectOnContents` reads that as a step of
   `ByteStream`.

`MeasureAgrees` is not inductive: a client can go back to an instruction or
patch one, and this keeps the passes together only if the instructions are
at the same offsets in both and the handles point into the block. `IInv` adds
that: the blocks have their start and size (`InPlace`), the cursors agree unless
an assert has failed (`Together`), and each entry of `prog` lies in front of the
cursor with its handles in range (`Entries`). `Layout`, that the instructions
lie back to back, that a handle points into its own one and that a label's
displacement ends it, is what `ShortReach` and `ImplementsBytes` need in
addition. Without slack it would not be an invariant of a build with asserts: a failed assert leaves an instruction half written.

### What the bytes are

`AssemblerBytes_proofs` proves one theorem, for every set of calls of the
32-bit classes (those of the x64 class may stand among them), every region, set
of replacements and bound:

| Theorem | States | If |
|---|---|---|
| `CallsAreEncoded` | `Spec => []Encoded` | `Slack >= 3`, `ChecksOperands` and `ChecksSpill` |

The conditions are the discipline of section 2. Without `Slack`
an instruction may spill over the end of the block. Without `ChecksSpill` an instruction written over
another one changes the next; TLC shows it when that constant of the run Programs is
set to FALSE. Without `ChecksOperands` a client could replace
a base by one with another default segment, or by ESP, which no layout suits. It is the one
theorem that needs this condition: lengths do not depend on it, bytes do.

A call is whatever `IsCall` admits: operands made by their constructors, in a
combination of kinds for which there is an overload (`ReturnsHandles`, where
handles are returned). TLC evaluates that assumption on the calls of every run.

`Encoded` is not inductive. A later patch goes through handles that were
returned when the instruction was written, possibly long ago, and nothing in
`Encoded` says that they still name the fields they are for. `Rows` adds it: for each entry
there is one layout that the operands suit, in which the bytes are those of
`CallBytes`, and the handles are the `Fields` of that same layout (`Named`).
The argument, with `IInv` and `Layout` from above:

1. `Puts(D, b, a, data, s)` adds to `Emits` that the bytes of `data` stand where
   the cursor was. `PutsThen` composes them: what the first part spilled
   is overwritten by the second. `WritePuts` is the result for a template,
   and `CallPuts` for a call: it puts `CallBytes` in the layout `LayoutOf` chooses
   at that moment, and returns the fields of that layout.
2. `SwapOperand`: the instruction of a call with another operand is the same
   instruction with that one part exchanged. This goes through the templates
   one by one, and through all functions that return handles: each chooses
   opcode, prefixes and sizes by the kinds and types of its operands, never by
   their values.
3. `OperandPatched`: if `g` is instruction `f` with one part exchanged, its bytes
   are those of `f` after the new value is stored through the field
   (`PatchesAt`), in the same layout. `FieldRefilled` is the arithmetic
   of a bit field: the other fields of ModRM, SIB or opcode byte survive.
   `LabelPatched` is the same for `bind`: the displacement that it computes from
   offsets is the one from the address behind the operand to the target.
4. `PatchedRow` and `BoundRow` make of this a step of `Rows` for the instruction
   that is patched; `RowKept` says that the others keep their bytes, since they lie elsewhere
   (`Layout`).
5. One lemma for each action, and the theorem.

Padding, the mask of a handle and the lengths of byte strings go through the
folds of the community modules and through remainders; `Induction` derives from
well-foundedness what they need, since a theorem with an operator parameter
cannot be used.

Only model-checked: `Faithful`, `MisreadsExactly` and `ImplementsStream`, which
say what a processor reads and therefore rest on `Decode`, a case distinction
over all opcodes; they are checked over all forms and boundary values by
`Encodings`. With `CallsAreEncoded`, what is found there of an instruction alone
holds in every program and after every patch: its bytes are a function of the
call, the layout and the address, and a processor reads no others. That step,
from bytes to `Decode`, is not proved; the bytes of the x64 class are covered by
`Faithful` and by `InstructionsAreKeptApart` only. The properties of `UnitTest1` rest on `Executed`, which uses the bit
operations that a module with proofs cannot use. Liveness, in `Subroutine`, is
out of the prover's reach.

## 5. Limits

Calls that are not in `EncodingCalls` are wrongly encoded; the definitions
`Encodable` and `Miswritten` list them, and the run Misreads checks that list in
both directions:

* a base of EBP without a displacement, an index of ESP; in 64-bit code also R13
  and R12, FS and GS, and two different registers of Movsx or Movzx;
* `Clts`, `Invd`, `Fxtract` (which is FTST), `Movsw` with a repeat prefix,
  `Imul(reg, imm)` for a register other than EAX, bit operations on memory and
  an immediate with a segment that is not the default;
* `Imul` of three operands with a 32-bit register and a 16-bit immediate, a
  `U8` of 128 or more with a wider operand, immediates wider than the operand of
  Mov and Test: nothing in the repository promises these;
* LOCK with a register destination or a memory source: not lockable, and the
  argument is ignored. (`Lock` on its own is a prefix and not an instruction.)
* `Pop(CS)`, which writes nothing: there is no such instruction;
* LONG labels and immediate addresses in a 64-bit build.

Other abstractions: the decoder has address-size prefixes in 32-bit code only
for Jcxz. Assembling for real addresses is a matter of `AddrSpace`; absolute
displacements are kept as numbers, so they do not need it. Overwriting uses
instructions of equal length only. `ReadBack` and `ReadAhead` in `CodeBlocks` are
the effect of reading (a failed assert); that a read returns what was written is
part of `ReplaceBits`, through `BytesAt`.
The processor of `X86Execute` has the instructions of the tests and the
prologues; arithmetic is modulo 2^16 instead of 2^32, where the same carries and
wrap-arounds happen. Functions do not call each other, as in the tests.

Not modelled, and why:

* The x64 functions other than Cbw, Cwde, Cwd, Cdq, Movsx and Movzx. All of
  them reach `OpcodeWriter<MemSize, BLOCK>` (`x64_i386.h:88`, `93`), which
  names the enumeration type where one of its values has to stand: they cannot
  be instantiated, so there is no behaviour to model.
* `arch.h`: multiple inheritance, without state or behaviour.
* `X86CompileTest.cpp`: calls every function once and asserts nothing; the kinds
  of its calls are in `EncodingCalls`. `MMX.h`: an enumeration that no
  function takes.
* The instructions that `main.cpp` lists, one by one. It measures ten calls, emits
  a `Nop` of that size and some fifty calls behind it, and invokes the block
  (`main.cpp:168`), which does not get as far as its `Ret`: `Bound` and `Xchg`
  before it access address 5000. `X86Execute` runs only what the tests
  generate. The kinds of its calls are in `EncodingCalls`.
* A `MeasureBlock` that is aligned otherwise than the `CodeBlock`
  (`AssemblerAssumption` excludes it): it would measure other paddings, and
  nothing in the code notices that.
* What a process should do when VirtualAlloc fails: the code does not look. The
  model has the crash, and no property forbids it.

## 6. Plan

Done, in this order: `Block`, `CodeBlocks` and its proofs; `X86Base`,
`X86Templates`, `X86I386`, `X86Decode`; `Assembler`; `InstrStream` and its
refinement; `X86I387` and `X86I686`; `X86Execute`, `Win32Function`, `UnitTest1`
and the refinement of `Subroutine`; `X64I386` and `X64Decode`; the proofs about
the emitters and `Assembler`, and that it refines `ByteStream`; `Encoding` and the
proof of `Encoded`.

Next:

1. `Decode` reads `FormBytes` of every encodable instruction as that instruction.
   With `CallsAreEncoded` this gives `Faithful` for programs of any length. Then
   the same for the x64 class, for which `Encoding` has no REX prefix yet.
2. An abstract memory specification that `CodeBlocks` refines: a set of
   windows with ownership, where only the owner writes.
3. `FunctionGen`'s prologue and epilogue have the same frame, for all sizes.
4. The other x64 functions, when they can be instantiated.
