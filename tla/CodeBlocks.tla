---------------------------- MODULE CodeBlocks ----------------------------
(***************************************************************************)
(* A client of os.h: one block over an allocated region (the root) and the *)
(* sub-blocks carved from it, all sharing memory and each with its own     *)
(* cursor.  The client may call every method of every block in any order.  *)
(*                                                                         *)
(* The question is containment: which calls can change memory that the     *)
(* block was not given.  The code's only defence is the two asserts of     *)
(* os.cpp; everything else is the client's discipline, named here:         *)
(*   RoomFor            a sub-block with an explicit size is not larger    *)
(*                      than what is left of its parent                    *)
(*   CanCarve           no CodeBlock is carved from a MeasureBlock         *)
(*   patchable          offset writes go only to operands that were        *)
(*                      emitted through the same block                     *)
(*   ChecksPlaceholder  the client makes sure that the operand of a        *)
(*                      forward jump fits before it emits the jump         *)
(***************************************************************************)
EXTENDS Block, FiniteSets

CONSTANTS
  Blocks,             \* the names of the blocks a client holds
  Root,               \* the block over the whole region
  RootStart,          \* where the region starts
  RootSize,           \* how long it is
  Byte,               \* what one byte can hold
  Data,               \* the byte strings written by one call
  SkipSizes,          \* the sizes given to skipBytes and to placeholders
  SubSizes,           \* the explicit sizes given to subBlock
  Fresh,              \* what the region holds before anything is written
  Foreign,            \* what the memory around the region holds
  CursorLimit,        \* BOUND: no cursor is moved beyond this address
  ChecksPlaceholder   \* TRUE: jumps are emitted only where they fit

RootEnd == RootStart + RootSize

ASSUME CodeBlocksAssumption ==
  /\ Root \in Blocks
  /\ RootStart \in Nat
  /\ RootSize \in Nat
  /\ Data \subseteq Seq(Byte)
  /\ \A d \in Data : Len(d) > 0 /\ CursorLimit + Len(d) < AddrSpace
  /\ SkipSizes \subseteq Nat
  /\ SubSizes \subseteq Ptr
  /\ CursorLimit \in Nat
  /\ RootEnd <= CursorLimit
  /\ CursorLimit < AddrSpace
  /\ ChecksPlaceholder \in BOOLEAN

VARIABLES
  mem,        \* the contents of every address
  blocks,     \* the three members of each block, and its class
  live,       \* the blocks constructed so far
  patchable,  \* per block, the offset up to which operands were emitted
  aborted     \* an assert has failed

vars == <<mem, blocks, live, patchable, aborted>>

(* Block b as the operators of module Block see it. *)
View(b) ==
  [mem |-> mem, curr |-> blocks[b].curr, start |-> blocks[b].start,
   size |-> blocks[b].size, measure |-> blocks[b].measure,
   aborted |-> aborted]

Members(v) ==
  [curr |-> v.curr, start |-> v.start, size |-> v.size, measure |-> v.measure]

(* The state after a call on block b has turned View(b) into after. *)
Becomes(b, after) ==
  /\ mem' = after.mem
  /\ blocks' = [blocks EXCEPT ![b] = Members(after)]
  /\ aborted' = after.aborted

Extent(b) ==
  {p \in Ptr : blocks[b].start <= p /\ p < Plus(blocks[b].start, blocks[b].size)}

(* What a careful client checks: n more bytes fit behind the cursor of b.  *)
RoomFor(b, n) == blocks[b].curr + n <= End(View(b))

(* The offsets an emitted operand can have.  *)
Offsets == 0 .. CursorLimit - RootStart

(* BOUND: n more bytes keep the cursor below CursorLimit. *)
WithinLimit(b, n) == blocks[b].curr + n <= CursorLimit

(* Operands emitted up to the cursor of after can be patched later. *)
Emitted(b, after) ==
  patchable' = IF after.aborted \/ GetOffset(after) <= patchable[b]
               THEN patchable
               ELSE [patchable EXCEPT ![b] = GetOffset(after)]
----------------------------------------------------------------------------
(* pushRaw. *)
Push(b, d) ==
  /\ WithinLimit(b, Len(d))
  /\ LET after == PushRaw(View(b), d)
     IN Becomes(b, after) /\ Emitted(b, after)
  /\ UNCHANGED live

(* JumpWriter::write: the opcode is pushed, its operand is skipped over    *)
(* without a check, and a label to it is handed out.                       *)
PushJump(b, d, n) ==
  /\ WithinLimit(b, Len(d) + n)
  /\ ChecksPlaceholder => RoomFor(b, Len(d) + n)
  /\ LET after == SkipBytes(PushRaw(View(b), d), n)
     IN Becomes(b, after) /\ Emitted(b, after)
  /\ UNCHANGED live

(* writeRaw followed by skipBytes of a prefix of what was written, the way *)
(* writeSegmPrefix, writeEspPostfix and writeSmallestOffset emit optional  *)
(* bytes.                                                                  *)
PushPrefix(b, d, n) ==
  /\ n <= Len(d)
  /\ WithinLimit(b, n)
  /\ LET after == SkipBytes(WriteRaw(View(b), d), n)
     IN Becomes(b, after) /\ Emitted(b, after)
  /\ UNCHANGED live

(* skipBytes called by the client. *)
Skip(b, n) ==
  /\ WithinLimit(b, n)
  /\ Becomes(b, SkipBytes(View(b), n))
  /\ UNCHANGED <<live, patchable>>

(* Replaceable::replace and FwdLabel::bind on an operand emitted earlier.  *)
Patch(b, offset, d) ==
  /\ offset + Len(d) <= patchable[b]
  /\ Becomes(b, WriteRawAt(View(b), offset, d))
  /\ UNCHANGED <<live, patchable>>

(* Replaceable::read of such an operand. *)
ReadBack(b, offset, n) ==
  /\ offset + n <= patchable[b]
  /\ Becomes(b, ReadRawAt(View(b), offset, n))
  /\ UNCHANGED <<live, patchable>>

(* readRaw(val): the client reads at the cursor. *)
ReadAhead(b, n) ==
  /\ Becomes(b, ReadRaw(View(b), n))
  /\ UNCHANGED <<live, patchable>>

Rewind(b) ==
  /\ Becomes(b, Reset(View(b)))
  /\ UNCHANGED <<live, patchable>>

RewindTo(b, p) ==
  /\ Becomes(b, ResetTo(View(b), p))
  /\ UNCHANGED <<live, patchable>>

Constructed(c, new) ==
  /\ blocks' = [blocks EXCEPT ![c] = Members(new)]
  /\ live' = live \cup {c}
  /\ UNCHANGED <<mem, patchable, aborted>>

CanCarve(b, measure) == measure \/ ~blocks[b].measure

(* subBlock(): from the cursor of b to the end of b, as getRemainingSize   *)
(* reports it.                                                             *)
Carve(b, c, measure) ==
  /\ CanCarve(b, measure)
  /\ Constructed(c, SubBlock(View(b), measure))

(* subBlock(n).  A MeasureBlock may have any size: it writes nothing.      *)
CarveSize(b, c, n, measure) ==
  /\ CanCarve(b, measure)
  /\ measure \/ RoomFor(b, n)
  /\ Constructed(c, SubBlockOfSize(View(b), n, measure))
----------------------------------------------------------------------------
Init ==
  /\ mem = [p \in Ptr |-> IF RootStart <= p /\ p < RootEnd THEN Fresh ELSE Foreign]
  /\ blocks = [b \in Blocks |-> [curr |-> RootStart, start |-> RootStart,
                                 size |-> RootSize, measure |-> FALSE]]
  /\ live = {Root}
  /\ patchable = [b \in Blocks |-> 0]
  /\ aborted = FALSE

(* A call on block b that may write through it. *)
WriteStep(b) ==
  \E d \in Data :
    \/ Push(b, d)
    \/ \E n \in SkipSizes : PushJump(b, d, n)
    \/ \E n \in 0 .. Len(d) : PushPrefix(b, d, n)
    \/ \E offset \in Offsets : Patch(b, offset, d)

CallOn(b) ==
  \/ WriteStep(b)
  \/ \E n \in SkipSizes : Skip(b, n)
  \/ \E offset \in Offsets, d \in Data : ReadBack(b, offset, Len(d))
  \/ \E d \in Data : ReadAhead(b, Len(d))
  \/ Rewind(b)
  \/ \E p \in 0 .. CursorLimit : RewindTo(b, p)
  \/ \E c \in Blocks \ live, measure \in BOOLEAN :
       \/ Carve(b, c, measure)
       \/ \E n \in SubSizes : CarveSize(b, c, n, measure)

Next == ~aborted /\ \E b \in live : CallOn(b)

Spec == Init /\ [][Next]_vars
----------------------------------------------------------------------------
(* Every variable has its type. *)
BlockType ==
  [curr : Ptr, start : Ptr, size : Ptr, measure : BOOLEAN]

TypeOK ==
  /\ mem \in [Ptr -> Byte \cup {Fresh, Foreign}]
  /\ blocks \in [Blocks -> BlockType]
  /\ live \subseteq Blocks
  /\ patchable \in [Blocks -> Nat]
  /\ aborted \in BOOLEAN

(* With its asserts compiled in, and for a client that keeps the           *)
(* discipline above, the library never changes a byte outside the region   *)
(* the root block was given: not through sub-blocks, not after the cursor  *)
(* has been skipped past the end (when getRemainingSize and the size of    *)
(* the next sub-block wrap around), not by patching after a reset.         *)
RootContained ==
  \A p \in Ptr : p \notin RootStart .. RootEnd - 1 => mem[p] = Foreign

(* A call on a block changes no byte outside that block's own window, so   *)
(* what was written through the parent before a sub-block was carved is    *)
(* safe from everything done through the sub-block.                        *)
OwnExtentOnly ==
  [][\A b \in live : mem' # mem /\ WriteStep(b) =>
       \A p \in Ptr : mem'[p] # mem[p] => p \in Extent(b)]_vars

(* Every CodeBlock lies inside the root's region or is dead: when the      *)
(* cursor of its parent had been skipped past the end it starts behind the *)
(* region and its size has wrapped around, so that its end is still the    *)
(* region's and no check ever lets it write.                               *)
Nested ==
  \A b \in live : blocks[b].measure \/ /\ RootStart <= blocks[b].start
                                        /\ End(View(b)) <= RootEnd

(* An operand that was emitted can be patched: verifyOffset, which is      *)
(* given the operand's offset and size, does not stop a write that lies    *)
(* inside the block.                                                       *)
EmittedIsPatchable ==
  [][\A b \in live, offset \in Offsets, d \in Data :
       aborted' /\ Patch(b, offset, d) => offset + Len(d) > blocks[b].size]_vars
=============================================================================
