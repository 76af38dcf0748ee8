------------------------- MODULE CodeBlocks_proofs -------------------------
(***************************************************************************)
(* The containment argument of CodeBlocks, for every address space, region *)
(* and set of blocks: the asserts of os.cpp are strong enough for a client *)
(* that keeps the discipline of CodeBlocks, in a build that keeps them.    *)
(***************************************************************************)
EXTENDS CodeBlocks, TLAPS

----------------------------------------------------------------------------
(* What the operators of Block do to a block, member by member. *)

(* A sum that stays in the address space is an ordinary sum. *)
LEMMA PlusNoWrap ==
  ASSUME NEW p \in Nat, NEW n \in Nat, p + n < AddrSpace
  PROVE  Plus(p, n) = p + n
BY BlockAssumption DEF Plus, Wrap

(* memcpy changes the bytes p .. p + Len(data) - 1 and no other, when they *)
(* do not run over the end of the address space.                           *)
LEMMA StoreEffect ==
  ASSUME NEW C, NEW m \in [Ptr -> C], NEW p \in Ptr, NEW data \in Seq(C),
         p + Len(data) < AddrSpace
  PROVE  /\ Store(m, p, data) \in [Ptr -> C]
         /\ \A q \in Ptr : q \notin p .. p + Len(data) - 1
                             => Store(m, p, data)[q] = m[q]
<1> DEFINE new(q) == IF Minus(q, p) < Len(data) THEN data[Minus(q, p) + 1]
                                                ELSE m[q]
<1>1. Store(m, p, data) = [q \in Ptr |-> new(q)]
  BY DEF Store
<1>2. ASSUME NEW q \in Ptr  PROVE new(q) \in C
  <2>1. Minus(q, p) \in Nat
    BY BlockAssumption DEF Minus, Wrap, Ptr
  <2>2. Minus(q, p) < Len(data) => Minus(q, p) + 1 \in 1 .. Len(data)
    BY <2>1
  <2>3. QED
    BY <2>2
<1>3. ASSUME NEW q \in Ptr, q \notin p .. p + Len(data) - 1
      PROVE  new(q) = m[q]
  <2>1. ~(Minus(q, p) < Len(data))
    BY <1>3, BlockAssumption DEF Minus, Wrap, Ptr
  <2>2. QED
    BY <2>1
<1>4. QED
  BY <1>1, <1>2, <1>3

(* The block value that View builds. *)
Value(m, c, s, z, ms, ab) ==
  [mem |-> m, curr |-> c, start |-> s, size |-> z, measure |-> ms,
   aborted |-> ab]

(* writeRaw: either nothing is written, or the assert held and the bytes   *)
(* at the cursor were.                                                     *)
LEMMA WriteRawEffect ==
  ASSUME NEW b, NEW d, aborted = FALSE, blocks[b].measure \in BOOLEAN
  PROVE  \/ WriteRaw(View(b), d) = Value(mem, blocks[b].curr, blocks[b].start,
                                blocks[b].size, blocks[b].measure, TRUE)
         \/ /\ blocks[b].measure = TRUE
            /\ WriteRaw(View(b), d) = Value(mem, blocks[b].curr, blocks[b].start,
                                 blocks[b].size, blocks[b].measure, FALSE)
         \/ /\ blocks[b].measure = FALSE
            /\ \/ NDEBUG
               \/ Plus(blocks[b].curr, Len(d))
                    <= Plus(blocks[b].start, blocks[b].size)
            /\ WriteRaw(View(b), d)
                 = Value(Store(mem, blocks[b].curr, d), blocks[b].curr,
                         blocks[b].start, blocks[b].size, blocks[b].measure, FALSE)
BY DEF WriteRaw, StoreUnlessAborted, Asserting, VerifyCurrent, End, Value, View

(* writeRaw at an offset, in the same way. *)
LEMMA WriteRawAtEffect ==
  ASSUME NEW b, NEW off, NEW d, aborted = FALSE, blocks[b].measure \in BOOLEAN
  PROVE  \/ WriteRawAt(View(b), off, d)
              = Value(mem, blocks[b].curr, blocks[b].start,
                      blocks[b].size, blocks[b].measure, TRUE)
         \/ /\ blocks[b].measure = TRUE
            /\ WriteRawAt(View(b), off, d)
                 = Value(mem, blocks[b].curr, blocks[b].start,
                         blocks[b].size, blocks[b].measure, FALSE)
         \/ /\ blocks[b].measure = FALSE
            /\ WriteRawAt(View(b), off, d)
                 = Value(Store(mem, Plus(blocks[b].start, off), d),
                         blocks[b].curr, blocks[b].start, blocks[b].size,
                         blocks[b].measure, FALSE)
BY DEF WriteRawAt, StoreUnlessAborted, Asserting, VerifyOffset, End, Value, View

(* skipBytes moves the cursor of a block that is not aborted. *)
LEMMA SkipBytesEffect ==
  ASSUME NEW m, NEW c, NEW s, NEW z, NEW ms, NEW ab \in BOOLEAN, NEW n
  PROVE  SkipBytes(Value(m, c, s, z, ms, ab), n)
           = Value(m, IF ab THEN c ELSE Plus(c, n), s, z, ms, ab)
<1>1. CASE ab = TRUE
  BY <1>1 DEF SkipBytes, Value
<1>2. CASE ab = FALSE
  BY <1>2 DEF SkipBytes, Value
<1>3. QED
  BY <1>1, <1>2

----------------------------------------------------------------------------
(***************************************************************************)
(* The inductive invariant.  RootContained alone is not inductive: it says *)
(* nothing of the blocks a step may write through.  What keeps every write *)
(* inside is that a CodeBlock's end, as verifyCurrent computes it, never   *)
(* passes the region's, that no cursor falls behind its block's start, and *)
(* that the operands a client may patch lie before the block's end.        *)
(***************************************************************************)
Cell == Byte \cup {Fresh, Foreign}

Sound(b) ==
  /\ RootStart <= blocks[b].start
  /\ blocks[b].start <= blocks[b].curr
  /\ blocks[b].curr <= CursorLimit
  /\ \/ blocks[b].measure
     \/ /\ Plus(blocks[b].start, blocks[b].size) <= RootEnd
        /\ \/ patchable[b] = 0
           \/ blocks[b].start + patchable[b]
                <= Plus(blocks[b].start, blocks[b].size)

IInv ==
  /\ TypeOK
  /\ RootContained
  /\ \A b \in live : Sound(b)
  /\ \A b \in Blocks \ live : patchable[b] = 0

(* A call on one block preserves the invariant when it leaves the bytes    *)
(* outside the region alone, moves the cursor within bounds, and makes     *)
(* patchable only what lies before the block's end.                        *)
LEMMA CallPreserves ==
  ASSUME IInv, NEW b \in live, NEW m \in [Ptr -> Cell], NEW c \in Nat,
         NEW ab \in BOOLEAN,
         Becomes(b, Value(m, c, blocks[b].start, blocks[b].size,
                          blocks[b].measure, ab)),
         live' = live,
         blocks[b].start <= c, c <= CursorLimit,
         \A p \in Ptr : p \notin RootStart .. RootEnd - 1 => m[p] = mem[p],
         \/ patchable' = patchable
         \/ /\ patchable' = [patchable EXCEPT ![b] = c - blocks[b].start]
            /\ blocks[b].measure \/ c <= Plus(blocks[b].start, blocks[b].size)
  PROVE  IInv'
<1>1. b \in Blocks /\ blocks[b] \in BlockType
  BY DEF IInv, TypeOK
<1>2. c \in Ptr
  BY CodeBlocksAssumption, BlockAssumption DEF Ptr
<1>3. /\ mem' = m
      /\ aborted' = ab
      /\ blocks' = [blocks EXCEPT ![b] = [curr |-> c, start |-> blocks[b].start,
                        size |-> blocks[b].size, measure |-> blocks[b].measure]]
  BY DEF Becomes, Members, Value
<1>4. TypeOK'
  <2>1. blocks' \in [Blocks -> BlockType]
    BY <1>1, <1>2, <1>3 DEF IInv, TypeOK, BlockType
  <2>2. patchable' \in [Blocks -> Nat]
    <3>1. c - blocks[b].start \in Nat
      BY <1>1 DEF BlockType, Ptr
    <3>2. QED
      BY <3>1 DEF IInv, TypeOK
  <2>3. QED
    BY <1>3, <2>1, <2>2 DEF IInv, TypeOK, Cell
<1>5. RootContained'
  BY <1>3 DEF IInv, RootContained
<1>6. ASSUME NEW x \in live  PROVE Sound(x)'
  <2>1. x \in Blocks /\ Sound(x) /\ patchable[x] \in Nat
    BY DEF IInv, TypeOK
  <2>2. CASE x = b
    <3>1. /\ blocks'[b].curr = c
          /\ blocks'[b].start = blocks[b].start
          /\ blocks'[b].size = blocks[b].size
          /\ blocks'[b].measure = blocks[b].measure
      BY <1>1, <1>3 DEF IInv, TypeOK
    <3>2. \/ patchable'[b] = patchable[b]
          \/ /\ patchable'[b] = c - blocks[b].start
             /\ \/ blocks[b].measure
                \/ c <= Plus(blocks[b].start, blocks[b].size)
      BY <1>1 DEF IInv, TypeOK
    <3>3. blocks[b].start \in Nat
      BY <1>1 DEF BlockType, Ptr
    <3>4. QED
      BY <2>1, <2>2, <3>1, <3>2, <3>3 DEF Sound
  <2>3. CASE x # b
    <3>1. blocks'[x] = blocks[x] /\ patchable'[x] = patchable[x]
      BY <1>1, <1>3, <2>1, <2>3 DEF IInv, TypeOK
    <3>2. QED
      BY <2>1, <3>1 DEF Sound
  <2>4. QED
    BY <2>2, <2>3
<1>7. ASSUME NEW x \in Blocks \ live  PROVE patchable'[x] = 0
  BY <1>1 DEF IInv, TypeOK
<1>8. QED
  BY <1>4, <1>5, <1>6, <1>7 DEF IInv

(* The members of a live block are small enough that sums with the length  *)
(* of a datum do not wrap.                                                 *)
LEMMA LiveBlock ==
  ASSUME IInv, NEW b \in live
  PROVE  /\ b \in Blocks
         /\ blocks[b].curr \in Ptr
         /\ blocks[b].start \in Ptr
         /\ blocks[b].size \in Ptr
         /\ blocks[b].measure \in BOOLEAN
         /\ patchable[b] \in Nat
         /\ Plus(blocks[b].start, blocks[b].size) \in Nat
         /\ Sound(b)
         /\ View(b) = Value(mem, blocks[b].curr, blocks[b].start,
                            blocks[b].size, blocks[b].measure, aborted)
         /\ mem \in [Ptr -> Cell]
<1>1. b \in Blocks /\ blocks[b] \in BlockType /\ Sound(b)
  BY DEF IInv, TypeOK
<1>2. Plus(blocks[b].start, blocks[b].size) \in Nat
  BY <1>1, BlockAssumption DEF BlockType, Ptr, Plus, Wrap
<1>3. View(b) = Value(mem, blocks[b].curr, blocks[b].start,
                      blocks[b].size, blocks[b].measure, aborted)
  BY DEF View, Value
<1>4. QED
  BY <1>1, <1>2, <1>3 DEF BlockType, IInv, TypeOK, Cell

LEMMA Datum ==
  ASSUME NEW d \in Data
  PROVE  /\ d \in Seq(Cell)
         /\ Len(d) \in Nat
         /\ Len(d) > 0
         /\ CursorLimit + Len(d) < AddrSpace
<1>1. d \in Seq(Byte)
  BY CodeBlocksAssumption
<1>2. Len(d) \in Nat
  BY <1>1
<1>3. d \in Seq(Cell)
  <2>1. \A i \in 1 .. Len(d) : d[i] \in Cell
    BY <1>1 DEF Cell
  <2>2. QED
    BY <1>1, <2>1
<1>4. QED
  BY <1>2, <1>3, CodeBlocksAssumption

(* A write at the cursor: with the asserts compiled in it stays in the     *)
(* region, and unless it aborts it ends before the end of its block.       *)
LEMMA WriteContained ==
  ASSUME ~NDEBUG, IInv, ~aborted, NEW b \in live, NEW d \in Data
  PROVE  \E m \in [Ptr -> Cell], ab \in BOOLEAN :
           /\ WriteRaw(View(b), d)
                = Value(m, blocks[b].curr, blocks[b].start, blocks[b].size,
                        blocks[b].measure, ab)
           /\ \A p \in Ptr : p \notin RootStart .. RootEnd - 1 => m[p] = mem[p]
           /\ \/ ab \/ blocks[b].measure
              \/ blocks[b].curr + Len(d)
                   <= Plus(blocks[b].start, blocks[b].size)
<1> DEFINE c == blocks[b].curr
           s == blocks[b].start
           z == blocks[b].size
           ms == blocks[b].measure
           w == WriteRaw(View(b), d)
<1>1. aborted = FALSE /\ ms \in BOOLEAN
  BY LiveBlock DEF IInv, TypeOK
<1>2. \/ w = Value(mem, c, s, z, ms, TRUE)
      \/ ms = TRUE /\ w = Value(mem, c, s, z, ms, FALSE)
      \/ /\ ms = FALSE
         /\ Plus(c, Len(d)) <= Plus(s, z)
         /\ w = Value(Store(mem, c, d), c, s, z, ms, FALSE)
  BY <1>1, WriteRawEffect
<1>3. mem \in [Ptr -> Cell]
  BY LiveBlock
<1>4. CASE ms = FALSE /\ Plus(c, Len(d)) <= Plus(s, z)
           /\ w = Value(Store(mem, c, d), c, s, z, ms, FALSE)
  <2>1. c \in Ptr /\ c \in Nat /\ Len(d) \in Nat /\ c + Len(d) < AddrSpace
    BY LiveBlock, Datum, BlockAssumption, CodeBlocksAssumption DEF Sound, Ptr
  <2>2. Plus(c, Len(d)) = c + Len(d)
    BY <2>1, PlusNoWrap
  <2>3. RootStart <= c /\ Plus(s, z) <= RootEnd
    BY <1>4, LiveBlock, CodeBlocksAssumption DEF Sound, Ptr
  <2>4. /\ Store(mem, c, d) \in [Ptr -> Cell]
        /\ \A q \in Ptr : q \notin c .. c + Len(d) - 1
                            => Store(mem, c, d)[q] = mem[q]
    BY <1>3, <2>1, Datum, StoreEffect
  <2>5. ASSUME NEW q \in Ptr, q \notin RootStart .. RootEnd - 1
        PROVE  q \notin c .. c + Len(d) - 1
    BY <1>4, <2>1, <2>2, <2>3, <2>5, LiveBlock, CodeBlocksAssumption,
       BlockAssumption DEF Ptr, RootEnd
  <2>6. QED
    BY <1>4, <2>2, <2>4, <2>5
<1>5. QED
  BY <1>2, <1>3, <1>4

----------------------------------------------------------------------------
(* One lemma for each call: it preserves the invariant. *)

(* pushRaw, and writeRaw followed by a skip over part of what was written. *)
LEMMA AdvanceStep ==
  ASSUME ~NDEBUG, IInv, ~aborted, NEW b \in live, NEW d \in Data,
         NEW n \in 0 .. Len(d), WithinLimit(b, n), live' = live,
         Becomes(b, SkipBytes(WriteRaw(View(b), d), n)),
         Emitted(b, SkipBytes(WriteRaw(View(b), d), n))
  PROVE  IInv'
<1>1. PICK m \in [Ptr -> Cell], ab \in BOOLEAN :
        /\ WriteRaw(View(b), d)
             = Value(m, blocks[b].curr, blocks[b].start, blocks[b].size,
                     blocks[b].measure, ab)
        /\ \A p \in Ptr : p \notin RootStart .. RootEnd - 1 => m[p] = mem[p]
        /\ \/ ab \/ blocks[b].measure
           \/ blocks[b].curr + Len(d) <= Plus(blocks[b].start, blocks[b].size)
  BY WriteContained
<1> DEFINE c == IF ab THEN blocks[b].curr ELSE blocks[b].curr + n
           after == SkipBytes(WriteRaw(View(b), d), n)
<1>2. after = Value(m, c, blocks[b].start, blocks[b].size, blocks[b].measure, ab)
  <2>1. Plus(blocks[b].curr, n) = blocks[b].curr + n
    BY PlusNoWrap, LiveBlock, Datum, CodeBlocksAssumption, BlockAssumption
       DEF Sound, Ptr
  <2>2. QED
    BY <1>1, <2>1, SkipBytesEffect
<1>3. c \in Nat /\ blocks[b].start <= c /\ c <= CursorLimit
  BY LiveBlock, Datum, CodeBlocksAssumption DEF Sound, Ptr, WithinLimit
<1>4. \/ patchable' = patchable
      \/ /\ patchable' = [patchable EXCEPT ![b] = c - blocks[b].start]
         /\ blocks[b].measure \/ c <= Plus(blocks[b].start, blocks[b].size)
  <2>1. GetOffset(after) = c - blocks[b].start
    <3>1. GetOffset(after) = Minus(c, blocks[b].start)
      BY <1>2 DEF GetOffset, Value
    <3>2. blocks[b].start \in Ptr /\ CursorLimit < AddrSpace
      BY LiveBlock, CodeBlocksAssumption
    <3> HIDE DEF c, after
    <3>3. Minus(c, blocks[b].start) = c - blocks[b].start
      BY <1>3, <3>2, BlockAssumption, CodeBlocksAssumption DEF Minus, Wrap, Ptr
    <3>4. QED
      BY <3>1, <3>3
  <2>2. after.aborted = ab
    BY <1>2 DEF Value
  <2>3. ab \/ blocks[b].measure \/ c <= Plus(blocks[b].start, blocks[b].size)
    BY <1>1, LiveBlock, Datum DEF Ptr
  <2>4. QED
    BY <2>1, <2>2, <2>3 DEF Emitted
<1>5. QED
  BY <1>1, <1>2, <1>3, <1>4, CallPreserves

LEMMA PushStep ==
  ASSUME ~NDEBUG, IInv, ~aborted, NEW b \in live, NEW d \in Data, Push(b, d)
  PROVE  IInv'
<1>1. Len(d) \in 0 .. Len(d)
  BY Datum
<1>2. QED
  BY <1>1, AdvanceStep DEF Push, PushRaw

LEMMA PushPrefixStep ==
  ASSUME ~NDEBUG, IInv, ~aborted, NEW b \in live, NEW d \in Data,
         NEW n \in 0 .. Len(d), PushPrefix(b, d, n)
  PROVE  IInv'
BY AdvanceStep DEF PushPrefix

(* A jump: the placeholder is not checked by the code, but by the client.  *)
LEMMA PushJumpStep ==
  ASSUME ~NDEBUG, ChecksPlaceholder, IInv, ~aborted, NEW b \in live,
         NEW d \in Data, NEW n \in SkipSizes, PushJump(b, d, n)
  PROVE  IInv'
<1>1. PICK m \in [Ptr -> Cell], ab \in BOOLEAN :
        /\ WriteRaw(View(b), d)
             = Value(m, blocks[b].curr, blocks[b].start, blocks[b].size,
                     blocks[b].measure, ab)
        /\ \A p \in Ptr : p \notin RootStart .. RootEnd - 1 => m[p] = mem[p]
        /\ \/ ab \/ blocks[b].measure
           \/ blocks[b].curr + Len(d) <= Plus(blocks[b].start, blocks[b].size)
  BY WriteContained
<1> DEFINE c1 == IF ab THEN blocks[b].curr ELSE blocks[b].curr + Len(d)
           c  == IF ab THEN blocks[b].curr ELSE blocks[b].curr + Len(d) + n
           after == SkipBytes(PushRaw(View(b), d), n)
<1>2. n \in Nat
  BY CodeBlocksAssumption
<1>3. blocks[b].curr + (Len(d) + n) <= CursorLimit
  BY DEF PushJump, WithinLimit
<1>4. after = Value(m, c, blocks[b].start, blocks[b].size, blocks[b].measure, ab)
  <2>1. /\ Plus(blocks[b].curr, Len(d)) = blocks[b].curr + Len(d)
        /\ Plus(blocks[b].curr + Len(d), n) = blocks[b].curr + Len(d) + n
    BY <1>2, <1>3, PlusNoWrap, LiveBlock, Datum, CodeBlocksAssumption,
       BlockAssumption DEF Ptr
  <2>2. PushRaw(View(b), d)
          = Value(m, c1, blocks[b].start, blocks[b].size, blocks[b].measure, ab)
    BY <1>1, <2>1, SkipBytesEffect DEF PushRaw
  <2>3. after = Value(m, IF ab THEN c1 ELSE Plus(c1, n), blocks[b].start,
                      blocks[b].size, blocks[b].measure, ab)
    BY <2>2, SkipBytesEffect
  <2>4. (IF ab THEN c1 ELSE Plus(c1, n)) = c
    BY <2>1
  <2>5. QED
    BY <2>3, <2>4
<1>5. c \in Nat /\ blocks[b].start <= c /\ c <= CursorLimit
  BY <1>2, <1>3, LiveBlock, Datum, CodeBlocksAssumption DEF Sound, Ptr
<1>6. \/ patchable' = patchable
      \/ /\ patchable' = [patchable EXCEPT ![b] = c - blocks[b].start]
         /\ blocks[b].measure \/ c <= Plus(blocks[b].start, blocks[b].size)
  <2>1. GetOffset(after) = c - blocks[b].start
    BY <1>4, <1>5, LiveBlock, CodeBlocksAssumption, BlockAssumption
       DEF GetOffset, Minus, Wrap, Value, Ptr
  <2>2. after.aborted = ab
    BY <1>4 DEF Value
  <2>3. ab \/ c <= Plus(blocks[b].start, blocks[b].size)
    <3>1. blocks[b].curr + (Len(d) + n) <= Plus(blocks[b].start, blocks[b].size)
      BY DEF PushJump, RoomFor, End, View
    <3>2. QED
      BY <1>2, <3>1, LiveBlock, Datum DEF Ptr
  <2>4. Emitted(b, after)
    BY DEF PushJump
  <2>5. QED
    BY <2>1, <2>2, <2>3, <2>4 DEF Emitted
<1>7. Becomes(b, after) /\ live' = live
  BY DEF PushJump
<1>8. QED
  BY <1>1, <1>4, <1>5, <1>6, <1>7, CallPreserves

LEMMA SkipStep ==
  ASSUME IInv, ~aborted, NEW b \in live, NEW n \in SkipSizes, Skip(b, n)
  PROVE  IInv'
<1>1. n \in Nat /\ aborted = FALSE /\ blocks[b].curr + n <= CursorLimit
  BY CodeBlocksAssumption DEF Skip, WithinLimit, IInv, TypeOK
<1>2. Plus(blocks[b].curr, n) = blocks[b].curr + n
  BY <1>1, PlusNoWrap, LiveBlock, CodeBlocksAssumption, BlockAssumption DEF Ptr
<1>3. SkipBytes(View(b), n)
        = Value(mem, blocks[b].curr + n, blocks[b].start, blocks[b].size,
                blocks[b].measure, FALSE)
  <2>1. View(b) = Value(mem, blocks[b].curr, blocks[b].start, blocks[b].size,
                        blocks[b].measure, FALSE)
    BY <1>1 DEF View, Value
  <2>2. SkipBytes(Value(mem, blocks[b].curr, blocks[b].start, blocks[b].size,
                        blocks[b].measure, FALSE), n)
          = Value(mem, Plus(blocks[b].curr, n), blocks[b].start, blocks[b].size,
                  blocks[b].measure, FALSE)
    BY DEF SkipBytes, Value
  <2>3. QED
    BY <1>2, <2>1, <2>2
<1>4. Becomes(b, Value(mem, blocks[b].curr + n, blocks[b].start,
                       blocks[b].size, blocks[b].measure, FALSE))
  BY <1>3 DEF Skip
<1>5. /\ blocks[b].curr + n \in Nat
      /\ blocks[b].start <= blocks[b].curr + n
  BY <1>1, LiveBlock, CodeBlocksAssumption DEF Sound, Ptr
<1>6. live' = live /\ patchable' = patchable
  BY DEF Skip
<1>7. mem \in [Ptr -> Cell] /\ FALSE \in BOOLEAN
  BY LiveBlock
<1>8. QED
  BY <1>1, <1>4, <1>5, <1>6, <1>7, CallPreserves

(* A call that leaves the cursor where it is and writes nothing.           *)
LEMMA StayStep ==
  ASSUME IInv, NEW b \in live, NEW ab \in BOOLEAN,
         Becomes(b, Value(mem, blocks[b].curr, blocks[b].start, blocks[b].size,
                          blocks[b].measure, ab)),
         live' = live, patchable' = patchable
  PROVE  IInv'
<1>1. /\ mem \in [Ptr -> Cell]
      /\ blocks[b].curr \in Nat
      /\ blocks[b].start <= blocks[b].curr
      /\ blocks[b].curr <= CursorLimit
  BY LiveBlock DEF Sound, Ptr
<1>2. QED
  BY <1>1, CallPreserves

(* verifyOffset lets a patch through for the wrong reason; that the patch  *)
(* is contained follows from the offset being that of an emitted operand.  *)
LEMMA PatchStep ==
  ASSUME IInv, ~aborted, NEW b \in live, NEW d \in Data,
         NEW off \in Offsets, Patch(b, off, d)
  PROVE  IInv'
<1> DEFINE c == blocks[b].curr
           s == blocks[b].start
           z == blocks[b].size
           ms == blocks[b].measure
           w == WriteRawAt(View(b), off, d)
<1>1. aborted = FALSE /\ ms \in BOOLEAN
  BY LiveBlock DEF IInv, TypeOK
<1>2. \/ w = Value(mem, c, s, z, ms, TRUE)
      \/ ms = TRUE /\ w = Value(mem, c, s, z, ms, FALSE)
      \/ /\ ms = FALSE
         /\ w = Value(Store(mem, Plus(s, off), d), c, s, z, ms, FALSE)
  BY <1>1, WriteRawAtEffect
<1>3. Becomes(b, w) /\ live' = live /\ patchable' = patchable
  BY DEF Patch
<1>4. CASE ms = FALSE
           /\ w = Value(Store(mem, Plus(s, off), d), c, s, z, ms, FALSE)
  <2>1. /\ off \in Nat /\ s \in Nat /\ c \in Nat /\ Len(d) \in Nat /\ Len(d) > 0
        /\ RootStart \in Nat /\ RootEnd \in Nat /\ Plus(s, z) \in Nat
        /\ patchable[b] \in Nat
    BY LiveBlock, Datum, CodeBlocksAssumption DEF Offsets, Ptr, RootEnd
  <2>2. off + Len(d) <= patchable[b]
    BY DEF Patch
  <2>3. s + patchable[b] <= Plus(s, z) /\ Plus(s, z) <= RootEnd /\ RootStart <= s
    BY <1>4, <2>1, <2>2, LiveBlock DEF Sound
  <2>4. s + off + Len(d) <= RootEnd /\ RootEnd < AddrSpace
    <3>1. /\ RootEnd <= CursorLimit /\ CursorLimit < AddrSpace
          /\ CursorLimit \in Nat /\ AddrSpace \in Nat
      BY CodeBlocksAssumption, BlockAssumption
    <3> HIDE DEF s, z
    <3>2. QED
      BY <2>1, <2>2, <2>3, <3>1
  <2>5. Plus(s, off) = s + off
    BY <2>1, <2>4, PlusNoWrap, BlockAssumption
  <2>6. s + off \in Ptr /\ (s + off) + Len(d) < AddrSpace
    BY <2>1, <2>4, BlockAssumption DEF Ptr
  <2>7. /\ Store(mem, s + off, d) \in [Ptr -> Cell]
        /\ \A q \in Ptr : q \notin s + off .. (s + off) + Len(d) - 1
                            => Store(mem, s + off, d)[q] = mem[q]
    BY <2>6, LiveBlock, Datum, StoreEffect
  <2>8. ASSUME NEW q \in Ptr, q \notin RootStart .. RootEnd - 1
        PROVE  q \notin s + off .. (s + off) + Len(d) - 1
    BY <2>1, <2>3, <2>4, <2>8, BlockAssumption DEF Ptr
  <2>9. /\ Becomes(b, Value(Store(mem, s + off, d), c, s, z, ms, FALSE))
        /\ s <= c /\ c <= CursorLimit
    BY <1>3, <1>4, <2>5, LiveBlock DEF Sound
  <2>10. QED
    BY <1>3, <2>1, <2>7, <2>8, <2>9, CallPreserves
<1>5. QED
  BY <1>2, <1>3, <1>4, StayStep

LEMMA ReadBackStep ==
  ASSUME IInv, ~aborted, NEW b \in live, NEW off, NEW n, ReadBack(b, off, n)
  PROVE  IInv'
<1>1. aborted = FALSE /\ blocks[b].measure \in BOOLEAN
  BY LiveBlock DEF IInv, TypeOK
<1>2. PICK ab \in BOOLEAN :
        ReadRawAt(View(b), off, n)
          = Value(mem, blocks[b].curr, blocks[b].start, blocks[b].size,
                  blocks[b].measure, ab)
  BY <1>1 DEF ReadRawAt, Asserting, View, Value
<1>3. QED
  BY <1>2, StayStep DEF ReadBack

LEMMA ReadAheadStep ==
  ASSUME IInv, ~aborted, NEW b \in live, NEW n, ReadAhead(b, n)
  PROVE  IInv'
<1>1. aborted = FALSE /\ blocks[b].measure \in BOOLEAN
  BY LiveBlock DEF IInv, TypeOK
<1>2. PICK ab \in BOOLEAN :
        ReadRaw(View(b), n)
          = Value(mem, blocks[b].curr, blocks[b].start, blocks[b].size,
                  blocks[b].measure, ab)
  BY <1>1 DEF ReadRaw, Asserting, View, Value
<1>3. QED
  BY <1>2, StayStep DEF ReadAhead

LEMMA RewindStep ==
  ASSUME IInv, ~aborted, NEW b \in live, Rewind(b)
  PROVE  IInv'
<1>1. aborted = FALSE
  BY DEF IInv, TypeOK
<1>2. Reset(View(b)) = Value(mem, blocks[b].start, blocks[b].start,
                             blocks[b].size, blocks[b].measure, FALSE)
  BY <1>1 DEF Reset, View, Value
<1>3. /\ blocks[b].start \in Nat /\ mem \in [Ptr -> Cell]
      /\ blocks[b].start <= blocks[b].start
      /\ blocks[b].start <= CursorLimit
  BY LiveBlock, CodeBlocksAssumption DEF Sound, Ptr
<1>4. QED
  BY <1>2, <1>3, CallPreserves DEF Rewind

(* reset(ptr) accepts only addresses inside the block's window.            *)
LEMMA RewindToStep ==
  ASSUME IInv, ~aborted, NEW b \in live, NEW p \in 0 .. CursorLimit, RewindTo(b, p)
  PROVE  IInv'
<1>1. aborted = FALSE
  BY DEF IInv, TypeOK
<1>2. CASE blocks[b].start <= p
           /\ ResetTo(View(b), p)
                = Value(mem, p, blocks[b].start, blocks[b].size,
                        blocks[b].measure, FALSE)
  <2>1. p \in Nat /\ p <= CursorLimit /\ mem \in [Ptr -> Cell]
    BY LiveBlock, CodeBlocksAssumption
  <2>2. Becomes(b, Value(mem, p, blocks[b].start, blocks[b].size,
                         blocks[b].measure, FALSE))
    BY <1>2 DEF RewindTo
  <2>3. live' = live /\ patchable' = patchable
    BY DEF RewindTo
  <2>4. QED
    BY <1>2, <2>1, <2>2, <2>3, CallPreserves
<1>3. CASE ResetTo(View(b), p)
             = Value(mem, blocks[b].curr, blocks[b].start, blocks[b].size,
                     blocks[b].measure, FALSE)
  BY <1>3, StayStep DEF RewindTo
<1>4. \/ /\ blocks[b].start <= p
         /\ ResetTo(View(b), p) = Value(mem, p, blocks[b].start, blocks[b].size,
                                        blocks[b].measure, FALSE)
      \/ ResetTo(View(b), p)
           = Value(mem, blocks[b].curr, blocks[b].start, blocks[b].size,
                   blocks[b].measure, FALSE)
  <2>1. CASE ResetAccepts(View(b), p)
    BY <1>1, <2>1, LiveBlock DEF ResetTo, ResetAccepts, View, Value, Ptr
  <2>2. CASE ~ResetAccepts(View(b), p)
    BY <1>1, <2>2 DEF ResetTo, View, Value
  <2>3. QED
    BY <2>1, <2>2
<1>5. QED
  BY <1>2, <1>3, <1>4

(* subBlock(): the new block ends, in verifyCurrent's arithmetic, exactly  *)
(* where its parent does, also when its size has wrapped around.           *)
LEMMA SubBlockEnd ==
  ASSUME NEW c \in Ptr, NEW s \in Ptr, NEW z \in Ptr, s <= c
  PROVE  /\ Minus(z, Minus(c, s)) \in Ptr
         /\ Plus(c, Minus(z, Minus(c, s))) = Plus(s, z)
BY BlockAssumption DEF Plus, Minus, Wrap, Ptr

(* Construction of a block whose start is the cursor of a live one.        *)
LEMMA CarvePreserves ==
  ASSUME IInv, NEW b \in live, NEW c \in Blocks \ live, NEW n \in Ptr,
         NEW ms \in BOOLEAN,
         Constructed(c, SubBlockOfSize(View(b), n, ms)),
         ms \/ Plus(blocks[b].curr, n) <= RootEnd
  PROVE  IInv'
<1> DEFINE p == blocks[b].curr
<1>1. /\ blocks' = [blocks EXCEPT ![c] =
                        [curr |-> p, start |-> p, size |-> n, measure |-> ms]]
      /\ live' = live \cup {c}
      /\ UNCHANGED <<mem, patchable, aborted>>
  BY DEF Constructed, SubBlockOfSize, NewBlock, Members, View
<1>2. p \in Ptr /\ p \in Nat /\ RootStart <= p /\ p <= CursorLimit
  BY LiveBlock, CodeBlocksAssumption DEF Sound, Ptr
<1>3. TypeOK'
  <2>1. blocks' \in [Blocks -> BlockType]
    BY <1>1, <1>2 DEF IInv, TypeOK, BlockType
  <2>2. live' \subseteq Blocks
    BY <1>1 DEF IInv, TypeOK
  <2>3. QED
    BY <1>1, <2>1, <2>2 DEF IInv, TypeOK
<1>4. RootContained'
  BY <1>1 DEF IInv, RootContained
<1>5. ASSUME NEW x \in live'  PROVE Sound(x)'
  <2>1. CASE x = c
    <3>1. blocks'[c] = [curr |-> p, start |-> p, size |-> n, measure |-> ms]
      BY <1>1 DEF IInv, TypeOK
    <3>2. patchable'[c] = 0
      BY <1>1 DEF IInv
    <3>3. QED
      BY <1>2, <2>1, <3>1, <3>2 DEF Sound
  <2>2. CASE x # c
    <3>1. x \in live /\ x \in Blocks
      BY <1>1, <2>2 DEF IInv, TypeOK
    <3>2. blocks'[x] = blocks[x] /\ patchable'[x] = patchable[x]
      BY <1>1, <2>2, <3>1 DEF IInv, TypeOK
    <3>3. Sound(x)
      BY <3>1 DEF IInv
    <3>4. QED
      BY <3>2, <3>3 DEF Sound
  <2>3. QED
    BY <2>1, <2>2
<1>6. ASSUME NEW x \in Blocks \ live'  PROVE patchable'[x] = 0
  BY <1>1 DEF IInv
<1>7. QED
  BY <1>3, <1>4, <1>5, <1>6 DEF IInv

LEMMA CarveStep ==
  ASSUME IInv, NEW b \in live, NEW c \in Blocks \ live, NEW ms \in BOOLEAN,
         Carve(b, c, ms)
  PROVE  IInv'
<1> DEFINE n == GetRemainingSize(View(b))
<1>1. n = Minus(blocks[b].size, Minus(blocks[b].curr, blocks[b].start))
  BY DEF GetRemainingSize, GetTotalSize, GetSize, View
<1>2. n \in Ptr
      /\ Plus(blocks[b].curr, n) = Plus(blocks[b].start, blocks[b].size)
  BY <1>1, LiveBlock, SubBlockEnd DEF Sound
<1>3. ms \/ Plus(blocks[b].curr, n) <= RootEnd
  BY <1>2, LiveBlock DEF Sound, Carve, CanCarve
<1>4. Constructed(c, SubBlockOfSize(View(b), n, ms))
  BY DEF Carve, SubBlock
<1>5. QED
  BY <1>2, <1>3, <1>4, CarvePreserves

LEMMA CarveSizeStep ==
  ASSUME IInv, NEW b \in live, NEW c \in Blocks \ live, NEW n \in SubSizes,
         NEW ms \in BOOLEAN, CarveSize(b, c, n, ms)
  PROVE  IInv'
<1>1. n \in Ptr
  BY CodeBlocksAssumption
<1>2. ms \/ Plus(blocks[b].curr, n) <= RootEnd
  <2>1. SUFFICES ASSUME ms = FALSE  PROVE Plus(blocks[b].curr, n) <= RootEnd
    OBVIOUS
  <2>2. /\ blocks[b].curr + n <= Plus(blocks[b].start, blocks[b].size)
        /\ Plus(blocks[b].start, blocks[b].size) <= RootEnd
    BY <2>1, LiveBlock DEF CarveSize, CanCarve, RoomFor, End, View, Sound
  <2>3. /\ blocks[b].curr \in Nat /\ n \in Nat
        /\ RootEnd \in Nat /\ RootEnd < AddrSpace
        /\ Plus(blocks[b].start, blocks[b].size) \in Nat
    BY <1>1, LiveBlock, CodeBlocksAssumption, BlockAssumption DEF Ptr, RootEnd
  <2>4. QED
    BY <2>2, <2>3, PlusNoWrap, BlockAssumption
<1>3. Constructed(c, SubBlockOfSize(View(b), n, ms))
  BY DEF CarveSize
<1>4. QED
  BY <1>1, <1>2, <1>3, CarvePreserves

LEMMA NextStep ==
  ASSUME ~NDEBUG, ChecksPlaceholder, IInv, Next
  PROVE  IInv'
<1>1. PICK b \in live : CallOn(b)
  BY DEF Next
<1>2. ~aborted
  BY DEF Next
<1>3. CASE WriteStep(b)
  <2>1. PICK d \in Data :
          \/ Push(b, d)
          \/ \E n \in SkipSizes : PushJump(b, d, n)
          \/ \E n \in 0 .. Len(d) : PushPrefix(b, d, n)
          \/ \E off \in Offsets : Patch(b, off, d)
    BY <1>3 DEF WriteStep
  <2>2. CASE Push(b, d)
    BY <1>2, <2>2, PushStep
  <2>3. CASE \E n \in SkipSizes : PushJump(b, d, n)
    BY <1>2, <2>3, PushJumpStep
  <2>4. CASE \E n \in 0 .. Len(d) : PushPrefix(b, d, n)
    BY <1>2, <2>4, PushPrefixStep
  <2>5. CASE \E off \in Offsets : Patch(b, off, d)
    BY <1>2, <2>5, PatchStep
  <2>6. QED
    BY <2>1, <2>2, <2>3, <2>4, <2>5
<1>4. CASE \E n \in SkipSizes : Skip(b, n)
  BY <1>2, <1>4, SkipStep
<1>5. CASE \E off \in Offsets, d \in Data : ReadBack(b, off, Len(d))
  <2>1. PICK off \in Offsets, d \in Data : ReadBack(b, off, Len(d))
    BY <1>5
  <2>2. QED
    BY <1>2, <2>1, ReadBackStep
<1>6. CASE \E d \in Data : ReadAhead(b, Len(d))
  BY <1>2, <1>6, ReadAheadStep
<1>7. CASE Rewind(b)
  BY <1>2, <1>7, RewindStep
<1>8. CASE \E p \in 0 .. CursorLimit : RewindTo(b, p)
  BY <1>2, <1>8, RewindToStep
<1>9. CASE \E c \in Blocks \ live, ms \in BOOLEAN :
              \/ Carve(b, c, ms)
              \/ \E n \in SubSizes : CarveSize(b, c, n, ms)
  <2>1. PICK c \in Blocks \ live, ms \in BOOLEAN :
          \/ Carve(b, c, ms)
          \/ \E n \in SubSizes : CarveSize(b, c, n, ms)
    BY <1>9
  <2>2. CASE Carve(b, c, ms)
    BY <2>2, CarveStep
  <2>3. CASE \E n \in SubSizes : CarveSize(b, c, n, ms)
    BY <2>3, CarveSizeStep
  <2>4. QED
    BY <2>1, <2>2, <2>3
<1>10. QED
  BY <1>1, <1>3, <1>4, <1>5, <1>6, <1>7, <1>8, <1>9 DEF CallOn

LEMMA InitStep ==
  ASSUME Init
  PROVE  IInv
<1>1. /\ RootStart \in Ptr /\ RootSize \in Ptr
      /\ RootEnd \in Nat /\ RootEnd < AddrSpace /\ RootStart <= CursorLimit
      /\ RootStart \in Nat /\ RootSize \in Nat
  BY CodeBlocksAssumption, BlockAssumption DEF Ptr, RootEnd
<1>2. Plus(RootStart, RootSize) = RootEnd
  BY <1>1, PlusNoWrap DEF RootEnd
<1>3. TypeOK
  <2>1. mem \in [Ptr -> Byte \cup {Fresh, Foreign}]
    BY DEF Init
  <2>2. blocks \in [Blocks -> BlockType]
    BY <1>1 DEF Init, BlockType
  <2>3. QED
    BY <2>1, <2>2, CodeBlocksAssumption DEF Init, TypeOK
<1>4. RootContained
  <2>1. ASSUME NEW p \in Ptr, p \notin RootStart .. RootEnd - 1
        PROVE  ~(RootStart <= p /\ p < RootEnd)
    BY <1>1, <2>1, BlockAssumption DEF Ptr
  <2>2. QED
    BY <2>1 DEF Init, RootContained
<1>5. ASSUME NEW b \in live  PROVE Sound(b)
  <2>1. b \in Blocks /\ patchable[b] = 0
    BY CodeBlocksAssumption DEF Init
  <2>2. blocks[b] = [curr |-> RootStart, start |-> RootStart,
                     size |-> RootSize, measure |-> FALSE]
    BY <2>1 DEF Init
  <2>3. QED
    BY <1>1, <1>2, <2>1, <2>2 DEF Sound
<1>6. \A b \in Blocks \ live : patchable[b] = 0
  BY DEF Init
<1>7. QED
  BY <1>3, <1>4, <1>5, <1>6 DEF IInv

LEMMA StutterStep ==
  ASSUME IInv, UNCHANGED vars
  PROVE  IInv'
BY DEF vars, IInv, TypeOK, RootContained, Sound

----------------------------------------------------------------------------
(* The strengthened invariant holds in every state of a build with asserts *)
(* (os.cpp:8 and 12) driven by a client that keeps the discipline.         *)
THEOREM Inductive ==
  ASSUME ~NDEBUG, ChecksPlaceholder
  PROVE  Spec => []IInv
<1>1. Init => IInv
  BY InitStep
<1>2. IInv /\ [Next]_vars => IInv'
  BY NextStep, StutterStep
<1>3. QED
  BY <1>1, <1>2, PTL DEF Spec

(* No byte outside the region the root block was given is ever changed.    *)
THEOREM Containment ==
  ASSUME ~NDEBUG, ChecksPlaceholder
  PROVE  Spec => []RootContained
<1>1. IInv => RootContained
  BY DEF IInv
<1>2. QED
  BY <1>1, Inductive, PTL

(* Every variable keeps its type: in particular every pointer and size of  *)
(* every block stays representable.                                        *)
THEOREM TypeCorrect ==
  ASSUME ~NDEBUG, ChecksPlaceholder
  PROVE  Spec => []TypeOK
<1>1. IInv => TypeOK
  BY DEF IInv
<1>2. QED
  BY <1>1, Inductive, PTL

(* Every CodeBlock ends, as verifyCurrent computes its end, inside the     *)
(* region, however it was carved.                                          *)
THEOREM Nesting ==
  ASSUME ~NDEBUG, ChecksPlaceholder
  PROVE  Spec => []Nested
<1>1. IInv => Nested
  BY DEF IInv, Sound, Nested, End, View
<1>2. QED
  BY <1>1, Inductive, PTL

----------------------------------------------------------------------------
(* A write at the cursor changes only bytes of the block it goes through.  *)
LEMMA WriteInExtent ==
  ASSUME ~NDEBUG, IInv, ~aborted, NEW b \in live, NEW d \in Data
  PROVE  \E m \in [Ptr -> Cell], ab \in BOOLEAN :
           /\ WriteRaw(View(b), d)
                = Value(m, blocks[b].curr, blocks[b].start, blocks[b].size,
                        blocks[b].measure, ab)
           /\ \A q \in Ptr : m[q] # mem[q] => q \in Extent(b)
<1> DEFINE c == blocks[b].curr
           s == blocks[b].start
           z == blocks[b].size
           ms == blocks[b].measure
           w == WriteRaw(View(b), d)
<1>1. aborted = FALSE /\ ms \in BOOLEAN
  BY LiveBlock DEF IInv, TypeOK
<1>2. \/ w = Value(mem, c, s, z, ms, TRUE)
      \/ w = Value(mem, c, s, z, ms, FALSE)
      \/ /\ Plus(c, Len(d)) <= Plus(s, z)
         /\ w = Value(Store(mem, c, d), c, s, z, ms, FALSE)
  BY <1>1, WriteRawEffect
<1>3. CASE /\ Plus(c, Len(d)) <= Plus(s, z)
           /\ w = Value(Store(mem, c, d), c, s, z, ms, FALSE)
  <2>1. /\ c \in Ptr /\ c \in Nat /\ s \in Nat /\ s <= c /\ Len(d) \in Nat
        /\ c + Len(d) < AddrSpace /\ Plus(s, z) \in Nat
    BY LiveBlock, Datum, BlockAssumption, CodeBlocksAssumption DEF Sound, Ptr
  <2>2. c + Len(d) <= Plus(s, z)
    BY <1>3, <2>1, PlusNoWrap
  <2>3. /\ Store(mem, c, d) \in [Ptr -> Cell]
        /\ \A q \in Ptr : q \notin c .. c + Len(d) - 1
                            => Store(mem, c, d)[q] = mem[q]
    BY <2>1, LiveBlock, Datum, StoreEffect
  <2>4. ASSUME NEW q \in Ptr, Store(mem, c, d)[q] # mem[q]
        PROVE  q \in Extent(b)
    <3>1. c <= q /\ q <= c + Len(d) - 1 /\ q \in Int
      BY <2>1, <2>3, <2>4, BlockAssumption DEF Ptr
    <3>2. s <= q /\ q < Plus(s, z)
      BY <2>1, <2>2, <3>1
    <3>3. QED
      BY <3>2 DEF Extent
  <2>5. QED
    BY <1>3, <2>3, <2>4
<1>4. mem \in [Ptr -> Cell]
  BY LiveBlock
<1>5. QED
  BY <1>2, <1>3, <1>4

(* A write followed by a skip, which is what all emitters are made of.     *)
LEMMA AdvanceInExtent ==
  ASSUME ~NDEBUG, IInv, ~aborted, NEW b \in live, NEW d \in Data, NEW n, NEW k,
         \/ Becomes(b, SkipBytes(WriteRaw(View(b), d), n))
         \/ Becomes(b, SkipBytes(SkipBytes(WriteRaw(View(b), d), n), k))
  PROVE  \A q \in Ptr : mem'[q] # mem[q] => q \in Extent(b)
<1>1. PICK m \in [Ptr -> Cell], ab \in BOOLEAN :
        /\ WriteRaw(View(b), d)
             = Value(m, blocks[b].curr, blocks[b].start, blocks[b].size,
                     blocks[b].measure, ab)
        /\ \A q \in Ptr : m[q] # mem[q] => q \in Extent(b)
  BY WriteInExtent
<1> DEFINE once == SkipBytes(WriteRaw(View(b), d), n)
           c1 == IF ab THEN blocks[b].curr ELSE Plus(blocks[b].curr, n)
<1>2. once = Value(m, c1, blocks[b].start, blocks[b].size, blocks[b].measure, ab)
  BY <1>1, SkipBytesEffect
<1>3. SkipBytes(once, k) = Value(m, IF ab THEN c1 ELSE Plus(c1, k),
                                 blocks[b].start, blocks[b].size,
                                 blocks[b].measure, ab)
  BY <1>2, SkipBytesEffect
<1>4. once.mem = m /\ SkipBytes(once, k).mem = m
  BY <1>2, <1>3 DEF Value
<1>5. mem' = m
  BY <1>4 DEF Becomes
<1>6. QED
  BY <1>1, <1>5

(* A patch changes only bytes of the block whose operand it replaces.      *)
LEMMA PatchInExtent ==
  ASSUME IInv, ~aborted, NEW b \in live, NEW d \in Data,
         NEW off \in Offsets, Patch(b, off, d)
  PROVE  \A q \in Ptr : mem'[q] # mem[q] => q \in Extent(b)
<1> DEFINE c == blocks[b].curr
           s == blocks[b].start
           z == blocks[b].size
           ms == blocks[b].measure
           w == WriteRawAt(View(b), off, d)
<1>1. aborted = FALSE /\ ms \in BOOLEAN
  BY LiveBlock DEF IInv, TypeOK
<1>2. \/ w = Value(mem, c, s, z, ms, TRUE)
      \/ w = Value(mem, c, s, z, ms, FALSE)
      \/ /\ ms = FALSE
         /\ w = Value(Store(mem, Plus(s, off), d), c, s, z, ms, FALSE)
  BY <1>1, WriteRawAtEffect
<1>3. mem' = w.mem
  BY DEF Patch, Becomes
<1>4. CASE w = Value(mem, c, s, z, ms, TRUE) \/ w = Value(mem, c, s, z, ms, FALSE)
  BY <1>3, <1>4 DEF Value
<1>5. CASE ms = FALSE
           /\ w = Value(Store(mem, Plus(s, off), d), c, s, z, ms, FALSE)
  <2>1. /\ off \in Nat /\ s \in Nat /\ Len(d) \in Nat /\ Len(d) > 0
        /\ RootEnd \in Nat /\ Plus(s, z) \in Nat /\ patchable[b] \in Nat
        /\ RootEnd < AddrSpace /\ AddrSpace \in Nat
    BY LiveBlock, Datum, CodeBlocksAssumption, BlockAssumption DEF Offsets, Ptr, RootEnd
  <2>2. off + Len(d) <= patchable[b]
    BY DEF Patch
  <2>3. s + patchable[b] <= Plus(s, z) /\ Plus(s, z) <= RootEnd
    BY <1>5, <2>1, <2>2, LiveBlock DEF Sound
  <2>4. s + off \in Ptr /\ s + off + Len(d) <= Plus(s, z) /\ (s + off) + Len(d) < AddrSpace
    BY <2>1, <2>2, <2>3 DEF Ptr
  <2>5. Plus(s, off) = s + off
    BY <2>1, <2>4, PlusNoWrap
  <2>6. \A q \in Ptr : q \notin s + off .. (s + off) + Len(d) - 1
                         => Store(mem, s + off, d)[q] = mem[q]
    BY <2>4, LiveBlock, Datum, StoreEffect
  <2>7. mem' = Store(mem, s + off, d)
    BY <1>3, <1>5, <2>5 DEF Value
  <2>8. ASSUME NEW q \in Ptr, mem'[q] # mem[q]
        PROVE  q \in Extent(b)
    <3>1. s + off <= q /\ q <= (s + off) + Len(d) - 1 /\ q \in Int
      BY <2>1, <2>6, <2>7, <2>8, BlockAssumption DEF Ptr
    <3>2. s <= q /\ q < Plus(s, z)
      BY <2>1, <2>4, <3>1
    <3>3. QED
      BY <3>2 DEF Extent
  <2>9. QED
    BY <2>8
<1>6. QED
  BY <1>2, <1>4, <1>5

LEMMA WriteStepInExtent ==
  ASSUME ~NDEBUG, IInv, ~aborted, NEW b \in live, WriteStep(b)
  PROVE  \A q \in Ptr : mem'[q] # mem[q] => q \in Extent(b)
<1>1. PICK d \in Data :
        \/ Push(b, d)
        \/ \E n \in SkipSizes : PushJump(b, d, n)
        \/ \E n \in 0 .. Len(d) : PushPrefix(b, d, n)
        \/ \E off \in Offsets : Patch(b, off, d)
  BY DEF WriteStep
<1>2. CASE Push(b, d)
  <2>1. Becomes(b, SkipBytes(WriteRaw(View(b), d), Len(d)))
    BY <1>2 DEF Push, PushRaw
  <2>2. QED
    BY <2>1, AdvanceInExtent
<1>3. CASE \E n \in SkipSizes : PushJump(b, d, n)
  <2>1. PICK n \in SkipSizes : PushJump(b, d, n)
    BY <1>3
  <2>2. Becomes(b, SkipBytes(SkipBytes(WriteRaw(View(b), d), Len(d)), n))
    BY <2>1 DEF PushJump, PushRaw
  <2>3. QED
    BY <2>2, AdvanceInExtent
<1>4. CASE \E n \in 0 .. Len(d) : PushPrefix(b, d, n)
  <2>1. PICK n \in 0 .. Len(d) : PushPrefix(b, d, n)
    BY <1>4
  <2>2. Becomes(b, SkipBytes(WriteRaw(View(b), d), n))
    BY <2>1 DEF PushPrefix
  <2>3. QED
    BY <2>2, AdvanceInExtent
<1>5. CASE \E off \in Offsets : Patch(b, off, d)
  BY <1>5, PatchInExtent
<1>6. QED
  BY <1>1, <1>2, <1>3, <1>4, <1>5

(* No write through a block, at its cursor or through a handle, changes a  *)
(* byte outside that block: neither what its parent holds before it, nor a *)
(* sibling behind it.                                                      *)
THEOREM OwnExtent ==
  ASSUME ~NDEBUG, ChecksPlaceholder
  PROVE  Spec => OwnExtentOnly
<1> DEFINE Own == \A b \in live : mem' # mem /\ WriteStep(b) =>
                    \A p \in Ptr : mem'[p] # mem[p] => p \in Extent(b)
<1>1. IInv /\ [Next]_vars => [Own]_vars
  <2>1. ASSUME IInv, Next  PROVE Own
    BY <2>1, WriteStepInExtent DEF Next
  <2>2. QED
    BY <2>1
<1>2. QED
  BY <1>1, Inductive, PTL DEF Spec, OwnExtentOnly
=============================================================================
