-------------------------- MODULE AssemblerStream --------------------------
(***************************************************************************)
(* Module Assembler with one more variable, that records what a processor  *)
(* would read from the block after each step, whatever was asked for; and  *)
(* the claim that these readings are a history of module InstrStream.      *)
(***************************************************************************)
EXTENDS Assembler

VARIABLE stream     \* the instructions between the start and the cursor

(* The instructions in the first size bytes from Start. *)
ReadNext(acc, d) == [at |-> acc.at + d.len, read |-> Append(acc.read, d)]

Disassemble(mem, size) ==
  FoldLeft(LAMBDA acc, i : IF acc.at >= size THEN acc
                           ELSE ReadNext(acc, Decode(mem, Start + acc.at)),
           [at |-> 0, read |-> <<>>], [i \in 1 .. size |-> i]).read

StreamInit == Init /\ stream = <<>>
StreamNext == Next /\ stream' = Disassemble(code'.mem, GetSize(code'))
StreamSpec == StreamInit /\ [][StreamNext]_<<vars, stream>>

AskedFor(d) == \E c \in Calls : Reads(c, d)

Promised == INSTANCE InstrStream WITH Asked <- AskedFor

(* Every call has one effect on the stream of instructions, the one its    *)
(* name promises: emitting adds one instruction, a handle or a label       *)
(* changes one operand of one instruction and not even the length of it,   *)
(* writing over an instruction leaves the others, rewinding cuts.          *)
ImplementsStream == Promised!Spec
=============================================================================
