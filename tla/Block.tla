------------------------------- MODULE Block -------------------------------
(***************************************************************************)
(* The memory blocks of os.h/os.cpp: BaseBlock and its two derived         *)
(* classes, CodeBlock (which writes) and MeasureBlock (which only moves    *)
(* its cursor).                                                            *)
(*                                                                         *)
(* A block is a window [start, start + size) over memory that it neither   *)
(* owns nor allocates, with a cursor that is not confined to the window.   *)
(* Every method becomes an operator from the block before the call to the  *)
(* block after it, so that the instruction emitters, which are templates   *)
(* over the block class, are written once as compositions of these         *)
(* operators.  A block value carries the memory it writes to:              *)
(*                                                                         *)
(*   mem      every addressable byte                                       *)
(*   curr     mDataCurr           start   mDataStart       size   mSize    *)
(*   measure  TRUE for a MeasureBlock, FALSE for a CodeBlock               *)
(*   aborted  an assert has failed: the process is gone, and every later   *)
(*            operation leaves the block as it is                          *)
(***************************************************************************)
EXTENDS Integers, Sequences

CONSTANTS
  AddrSpace,  \* the number of addresses: 2^32 for the x86 target
  NDEBUG      \* TRUE when the build compiles the asserts out

ASSUME BlockAssumption ==
  /\ AddrSpace \in Nat \ {0}
  /\ NDEBUG \in BOOLEAN

Ptr == 0 .. AddrSpace - 1

(***************************************************************************)
(* Pointer and size_t arithmetic, modulo the address space.  Each sum or   *)
(* difference of two values of Ptr leaves the range by less than one turn, *)
(* so one correction is enough.                                            *)
(***************************************************************************)
Wrap(x) ==
  IF x < 0 THEN x + AddrSpace
  ELSE IF x >= AddrSpace THEN x - AddrSpace
  ELSE x

Plus(p, n) == Wrap(p + n)
Minus(p, q) == Wrap(p - q)

(* memcpy(p, data, Len(data)) and memcpy(_, p, n). *)
Store(mem, p, data) ==
  [q \in DOMAIN mem |->
     IF Minus(q, p) < Len(data) THEN data[Minus(q, p) + 1] ELSE mem[q]]

Fetch(mem, p, n) == [i \in 1 .. n |-> mem[Plus(p, i - 1)]]

----------------------------------------------------------------------------
(* Construction and accessors. *)

NewBlock(mem, data, size, measure) ==
  [mem |-> mem, curr |-> data, start |-> data, size |-> size,
   measure |-> measure, aborted |-> FALSE]

GetOffset(b) == Minus(b.curr, b.start)
GetSize(b) == Minus(b.curr, b.start)
GetTotalSize(b) == b.size
\* Mutant: the difference is not reduced to a size_t.
RemainingUnreduced(b) == GetTotalSize(b) - GetSize(b)
GetRemainingSize(b) == Minus(GetTotalSize(b), GetSize(b))
GetAlignSize(b, align) == (align - (b.curr % align)) % align
End(b) == Plus(b.start, b.size)

----------------------------------------------------------------------------
(* Cursor movement. *)

SkipBytes(b, n) ==
  IF b.aborted THEN b ELSE [b EXCEPT !.curr = Plus(@, n)]

Reset(b) == IF b.aborted THEN b ELSE [b EXCEPT !.curr = b.start]

(* The value reset(ptr) returns, and the block after the call. *)
ResetAccepts(b, ptr) == ptr >= b.start /\ ptr < End(b)
ResetTo(b, ptr) ==
  IF ~b.aborted /\ ResetAccepts(b, ptr) THEN [b EXCEPT !.curr = ptr] ELSE b

(* Both forms of subBlock: the new block starts at the cursor of b, which  *)
(* stays where it is.                                                      *)
SubBlockOfSize(b, n, measure) == NewBlock(b.mem, b.curr, n, measure)
\* Mutant: the sub-block is as large as its parent.
SubBlockOfTotalSize(b, measure) == SubBlockOfSize(b, GetTotalSize(b), measure)
SubBlock(b, measure) == SubBlockOfSize(b, GetRemainingSize(b), measure)

----------------------------------------------------------------------------
(* Checked access.  verifyOffset ignores the offset it is given: it tests  *)
(* the cursor, as verifyCurrent does.                                      *)

\* Mutant: only the first byte is checked.
VerifyFirstByte(b, n) == b.curr <= End(b)
VerifyCurrent(b, n) == Plus(b.curr, n) <= End(b)
\* Mutant: one byte too strict.
VerifyOffsetStrictly(b, offset, n) == Plus(b.curr, n) < End(b)
VerifyOffset(b, offset, n) == Plus(b.curr, n) <= End(b)

(* assert(cond): the operation that follows runs on the result. *)
Asserting(b, cond) ==
  IF NDEBUG \/ cond THEN b ELSE [b EXCEPT !.aborted = TRUE]

StoreUnlessAborted(b, p, data) ==
  IF b.aborted THEN b ELSE [b EXCEPT !.mem = Store(@, p, data)]

(* writeRaw(val): the cursor does not move. *)
WriteRaw(b, data) ==
  IF b.aborted \/ b.measure THEN b
  ELSE StoreUnlessAborted(Asserting(b, VerifyCurrent(b, Len(data))),
                          b.curr, data)

(* writeRaw(val, offset). *)
\* Mutant: the offset is taken from the cursor.
WriteRawFromCursor(b, offset, data) ==
  IF b.aborted \/ b.measure THEN b
  ELSE StoreUnlessAborted(Asserting(b, VerifyOffset(b, offset, Len(data))),
                          Plus(b.curr, offset), data)
WriteRawAt(b, offset, data) ==
  IF b.aborted \/ b.measure THEN b
  ELSE StoreUnlessAborted(Asserting(b, VerifyOffset(b, offset, Len(data))),
                          Plus(b.start, offset), data)

(* pushRaw(val): a MeasureBlock only skips, a CodeBlock writes and skips.  *)
\* Mutant: measuring counts writes instead of bytes.
PushRawCounted(b, data) ==
  SkipBytes(WriteRaw(b, data), IF b.measure THEN 1 ELSE Len(data))
PushRaw(b, data) == SkipBytes(WriteRaw(b, data), Len(data))

(* readRaw(val) and readRaw(val, offset): the effect on the block, which   *)
(* can only be a failed assert, and the bytes a CodeBlock delivers.        *)
ReadRaw(b, n) ==
  IF b.aborted \/ b.measure THEN b ELSE Asserting(b, VerifyCurrent(b, n))
ReadRawAt(b, offset, n) ==
  IF b.aborted \/ b.measure THEN b ELSE Asserting(b, VerifyOffset(b, offset, n))
BytesAt(b, offset, n) == Fetch(b.mem, Plus(b.start, offset), n)
=============================================================================
