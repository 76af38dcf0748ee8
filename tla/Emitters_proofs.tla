---- MODULE Emitters_proofs ----
(***************************************************************************)
(* What the emitters of the code (CodeBlock's pushes, the templates of     *)
(* x86_base.h and the x64 templates) do to a block, for every block and    *)
(* every operand.  The one notion is Emits(D, b, a, n, s): block a is      *)
(* block b after n bytes, with up to s more changed beyond the cursor when *)
(* a store wider than the operand spills, and when an assertion may stop   *)
(* the program. Emits is closed under sequencing (EmitsThen), so each emitter *)
(* follows from the ones it calls, in the order of the source.  The        *)
(* results: WriteEmits for an instruction of the i386 and i387 templates,  *)
(* NopEmits, and Emits64 for the x64 templates.                            *)
(***************************************************************************)
EXTENDS X64I386, TLAPS, WellFoundedInduction, SequenceTheorems

(***************************************************************************)
(* Induction and the folds of the community modules                        *)
(***************************************************************************)
\* Induction over the naturals for a set of them: the least number that the set
\* misses, which exists because < is well founded, cannot have a predecessor in
\* the set. The folds below need it: LEMMAs quantify over no operator.
LEMMA Induction ==
  ASSUME NEW T, 0 \in T, \A n \in Nat : n \in T => n + 1 \in T
  PROVE  Nat \subseteq T
<1> DEFINE Less == {p \in Nat \X Nat : p[1] < p[2]}
           Missing == Nat \ T
<1>1. IsWellFoundedOn(Less, Nat)
  BY NatLessThanWellFounded DEF OpToRel
<1> HIDE DEF Less
<1>2. SUFFICES ASSUME Missing # {} PROVE FALSE
  OBVIOUS
<1>3. PICK n \in Missing : \A m \in Missing : <<m, n>> \notin Less
  BY <1>1, <1>2, WFMin
<1>4. n \in Nat \ {0}
  BY <1>3
<1>5. n - 1 \in Nat /\ n - 1 < n
  BY <1>4
<1>6. n - 1 \in T
  BY <1>3, <1>4, <1>5 DEF Less
<1>7. QED
  BY <1>3, <1>5, <1>6

\* The largest element of a subset of 1 .. n + 1 that holds n + 1 is n + 1.
LEMMA MaxWithLast ==
  ASSUME NEW n \in Nat, NEW t \in SUBSET (1 .. n + 1), n + 1 \in t
  PROVE  Max(t) = n + 1
<1>1. \A y \in t : n + 1 >= y
  OBVIOUS
<1>2. ASSUME NEW x \in t, \A y \in t : x >= y
      PROVE  x = n + 1
  BY <1>2
<1>3. QED
  BY <1>1, <1>2 DEF Max

\* Every nonempty subset of 1 .. n has a largest element, the one Max chooses.
LEMMA MaxMember ==
  ASSUME NEW n \in Nat, NEW t \in SUBSET (1 .. n), t # {}
  PROVE  Max(t) \in t
<1> DEFINE P == {m \in Nat : \A u \in SUBSET (1 .. m) : u # {} => \E x \in u : \A y \in u : x >= y}
<1>1. 0 \in P
  <2>1. 1 .. 0 = {}
    OBVIOUS
  <2>2. QED
    BY <2>1
<1>2. ASSUME NEW m \in Nat, m \in P PROVE m + 1 \in P
  <2> SUFFICES ASSUME NEW u \in SUBSET (1 .. m + 1), u # {}
               PROVE  \E x \in u : \A y \in u : x >= y
    OBVIOUS
  <2>1. CASE m + 1 \in u
    BY <2>1
  <2>2. CASE m + 1 \notin u
    <3>1. u \in SUBSET (1 .. m)
      BY <2>2
    <3>2. QED
      BY <1>2, <3>1
  <2>3. QED
    BY <2>1, <2>2
<1> HIDE DEF P
<1>3. n \in P
  BY <1>1, <1>2, Induction
<1>4. \E x \in t : \A y \in t : x >= y
  BY <1>3 DEF P
<1>5. QED
  BY <1>4 DEF Max

\* The function by which FoldLeft is defined, for PushByte over s, is h.
Folding(b, s, n, h) ==
  h = [t \in SUBSET (1 .. n) |-> IF t = {} THEN b ELSE PushByte(h[t \ {Max(t)}], s[Max(t)])]

\* That function exists for every length, so the CHOOSE of FoldLeft finds it.
LEMMA FoldingExists ==
  ASSUME NEW b, NEW s, NEW n \in Nat
  PROVE  \E h : Folding(b, s, n, h)
<1> DEFINE P == {m \in Nat : \E h : Folding(b, s, m, h)}
<1>1. 0 \in P
  <2> DEFINE h == [t \in SUBSET (1 .. 0) |-> b]
  <2>1. Folding(b, s, 0, h)
    <3>1. 1 .. 0 = {}
      OBVIOUS
    <3>2. SUBSET (1 .. 0) = {{}}
      BY <3>1
    <3> QED
      BY <3>2 DEF Folding
  <2> QED
    BY <2>1
<1>2. ASSUME NEW m \in Nat, m \in P PROVE m + 1 \in P
  <2>1. PICK g : Folding(b, s, m, g)
    BY <1>2
  <2> DEFINE h == [t \in SUBSET (1 .. m + 1) |->
                     IF m + 1 \in t THEN PushByte(g[t \ {m + 1}], s[m + 1]) ELSE g[t]]
  <2>2. ASSUME NEW t \in SUBSET (1 .. m + 1)
        PROVE  h[t] = IF t = {} THEN b ELSE PushByte(h[t \ {Max(t)}], s[Max(t)])
    <3>1. CASE m + 1 \in t
      <4>1. Max(t) = m + 1
        BY <3>1, MaxWithLast
      <4>2. t \ {m + 1} \in SUBSET (1 .. m + 1) /\ m + 1 \notin t \ {m + 1}
        OBVIOUS
      <4>3. h[t \ {m + 1}] = g[t \ {m + 1}]
        BY <4>2
      <4>4. h[t] = PushByte(g[t \ {m + 1}], s[m + 1])
        BY <3>1
      <4>5. QED
        BY <3>1, <4>1, <4>3, <4>4
    <3>2. CASE m + 1 \notin t
      <4>1. t \in SUBSET (1 .. m)
        BY <3>2
      <4>2. h[t] = g[t]
        BY <3>2
      <4>3. g[t] = IF t = {} THEN b ELSE PushByte(g[t \ {Max(t)}], s[Max(t)])
        BY <2>1, <4>1 DEF Folding
      <4>4. \A x : t \ {x} \in SUBSET (1 .. m + 1) /\ m + 1 \notin t \ {x}
        BY <4>1, <3>2
      <4>5. h[t \ {Max(t)}] = g[t \ {Max(t)}]
        BY <4>4
      <4>6. QED
        BY <4>2, <4>3, <4>5
    <3>3. QED
      BY <3>1, <3>2
  <2> HIDE DEF h
  <2>3. h = [t \in SUBSET (1 .. m + 1) |-> h[t]]
    BY DEF h
  <2>4. Folding(b, s, m + 1, h)
    BY <2>2, <2>3 DEF Folding
  <2>5. QED
    BY <2>4
<1> HIDE DEF P
<1>3. n \in P
  BY <1>1, <1>2, Induction
<1>4. QED
  BY <1>3 DEF P

\* The blocks g[0], g[1], ... that pushing the bytes of s one after another goes
\* through, from b to PushBytes(b, s).
Chain(b, s, n, g) ==
  /\ DOMAIN g = 0 .. n
  /\ g[0] = b
  /\ \A i \in 1 .. n : g[i] = PushByte(g[i - 1], s[i])
  /\ PushBytes(b, s) = g[n]

\* Pushing a sequence of bytes (CodeBlock::PushBytes) pushes them one at a time,
\* first to last.
LEMMA PushBytesChain ==
  ASSUME NEW b, NEW n \in Nat, NEW s, DOMAIN s = 1 .. n
  PROVE  \E g : Chain(b, s, n, g)
<1> DEFINE h == CHOOSE h : h = [t \in SUBSET (1 .. n) |->
                    IF t = {} THEN b ELSE PushByte(h[t \ {Max(t)}], s[Max(t)])]
           g == [i \in 0 .. n |-> h[1 .. i]]
<1>1. PushBytes(b, s) = h[1 .. n]
  BY DEF PushBytes, FoldLeft, MapThenFoldSet
<1>2. h = [t \in SUBSET (1 .. n) |->
                    IF t = {} THEN b ELSE PushByte(h[t \ {Max(t)}], s[Max(t)])]
  <2>1. \E x : x = [t \in SUBSET (1 .. n) |->
                    IF t = {} THEN b ELSE PushByte(x[t \ {Max(t)}], s[Max(t)])]
    <3>1. PICK x : Folding(b, s, n, x)
      BY FoldingExists
    <3>2. x = [t \in SUBSET (1 .. n) |->
                    IF t = {} THEN b ELSE PushByte(x[t \ {Max(t)}], s[Max(t)])]
      BY <3>1 DEF Folding
    <3>3. QED
      BY <3>2
  <2>2. QED
    BY <2>1
<1> HIDE DEF h
<1>3. g[0] = b
  <2>1. 1 .. 0 = {}
    OBVIOUS
  <2>2. h[{}] = b
    BY <1>2
  <2>3. QED
    BY <2>1, <2>2
<1>4. ASSUME NEW i \in 1 .. n PROVE g[i] = PushByte(g[i - 1], s[i])
  <2>1. 1 .. i \in SUBSET (1 .. n) /\ 1 .. i # {}
    OBVIOUS
  <2>2. Max(1 .. i) = i
    BY MaxWithLast, i - 1 \in Nat, (i - 1) + 1 = i, i \in 1 .. i
  <2>3. (1 .. i) \ {i} = 1 .. i - 1
    OBVIOUS
  <2>4. h[1 .. i] = PushByte(h[1 .. i - 1], s[i])
    BY <1>2, <2>1, <2>2, <2>3
  <2>5. QED
    BY <2>4
<1>5. DOMAIN g = 0 .. n /\ g[n] = h[1 .. n]
  OBVIOUS
<1> HIDE DEF g
<1>6. Chain(b, s, n, g)
  BY <1>1, <1>3, <1>4, <1>5 DEF Chain
<1>7. QED
  BY <1>6

(***************************************************************************)
(* What emitting does to a block                                           *)
(***************************************************************************)
\* A block whose memory is D: a code block over its allocation, a measuring block
\* over the empty set.
BlocksOver(D) ==
  [mem : [D -> ByteValue], curr : Ptr, start : Ptr, size : Ptr,
   measure : BOOLEAN, aborted : BOOLEAN]

\* The block ends inside the address space and n bytes fit, with the three that
\* a 4 byte store of a shorter operand writes beyond them.
Roomy(b, n) == b.start + b.size < AddrSpace /\ GetOffset(b) + n + 3 <= b.size
\* Nothing that writing n bytes touches wraps around the address space.
Straight(b, n) ==
  b.start + b.size < AddrSpace /\ b.start + GetOffset(b) + n + 3 < AddrSpace

\* Block a is block b after it emitted n bytes and spilled up to s: the cursor is n
\* further, or as far as it came before an assertion stopped the program; an
\* assertion stops it only where a checked build has no room; and the bytes that
\* changed lie between the two cursors, or among the s behind (three at most, from
\* a 4 byte store), and inside the block in a checked build. A measuring block
\* changes its cursor only.
Emits(D, b, a, n, s) ==
  /\ a \in BlocksOver(D)
  /\ a.start = b.start /\ a.size = b.size /\ a.measure = b.measure
  /\ b.aborted => a = b
  /\ GetOffset(b) <= GetOffset(a) /\ GetOffset(a) <= GetOffset(b) + n
  /\ ~a.aborted => GetOffset(a) = GetOffset(b) + n
  /\ a.aborted => b.aborted \/ ~(b.measure \/ NDEBUG \/ Roomy(b, n))
  /\ \A q \in D : a.mem[q] # b.mem[q] =>
       /\ ~b.measure
       /\ GetOffset(b) <= Minus(q, b.start) /\ Minus(q, b.start) <= GetOffset(a) + 2
       /\ ~a.aborted => Minus(q, b.start) < GetOffset(a) + s
       /\ Straight(b, n) => NDEBUG \/ Minus(q, b.start) < b.size

\* The cursor's offset is an address.
LEMMA OffsetType ==
  ASSUME NEW D \in SUBSET Ptr, NEW b \in BlocksOver(D)
  PROVE  GetOffset(b) \in Ptr
BY BlockAssumption DEF BlocksOver, GetOffset, Minus, Wrap, Ptr

\* Distances add up as long as they stay inside the address space.
LEMMA Distance ==
  ASSUME NEW q \in Ptr, NEW c \in Ptr, NEW s \in Ptr, NEW k \in Nat,
         Minus(q, c) < k, Minus(c, s) + k <= AddrSpace
  PROVE  Minus(q, c) \in Nat /\ Minus(q, s) = Minus(c, s) + Minus(q, c)
BY BlockAssumption DEF Ptr, Minus, Wrap

\* A store keeps memory a function to bytes and changes no byte outside the data.
LEMMA StoreType ==
  ASSUME NEW D \in SUBSET Ptr, NEW m \in [D -> ByteValue], NEW p \in Ptr,
         NEW data \in Seq(ByteValue)
  PROVE  /\ Store(m, p, data) \in [D -> ByteValue]
         /\ \A q \in D : Store(m, p, data)[q] # m[q] => Minus(q, p) < Len(data)
<1>1. Store(m, p, data) = [q \in D |-> IF Minus(q, p) < Len(data)
                                       THEN data[Minus(q, p) + 1] ELSE m[q]]
  BY DEF Store
<1>2. ASSUME NEW q \in D, Minus(q, p) < Len(data) PROVE data[Minus(q, p) + 1] \in ByteValue
  <2>1. Minus(q, p) \in Nat
    BY BlockAssumption DEF Minus, Wrap, Ptr
  <2>2. Minus(q, p) + 1 \in 1 .. Len(data)
    BY <1>2, <2>1
  <2>3. QED
    BY <2>2
<1>3. QED
  BY <1>1, <1>2

\* WriteRaw of up to n + s bytes and then SkipBytes(n) emits n bytes and spills s: the
\* pair every Push of the code is made of.
LEMMA WriteSkipEmits ==
  ASSUME NEW D \in SUBSET Ptr, NEW b \in BlocksOver(D), NEW data \in Seq(ByteValue),
         NEW n \in Nat, NEW s \in 0 .. 3, Len(data) <= n + s, GetOffset(b) + n + 3 < AddrSpace
  PROVE  Emits(D, b, SkipBytes(WriteRaw(b, data), n), n, s)
<1> DEFINE w == WriteRaw(b, data)
           a == SkipBytes(w, n)
<1> USE BlockAssumption
<1> SUFFICES Emits(D, b, a, n, s)
  OBVIOUS
<1>0. /\ b = [mem |-> b.mem, curr |-> b.curr, start |-> b.start, size |-> b.size,
              measure |-> b.measure, aborted |-> b.aborted]
      /\ b.mem \in [D -> ByteValue] /\ b.curr \in Ptr /\ b.start \in Ptr /\ b.size \in Ptr
      /\ b.measure \in BOOLEAN /\ b.aborted \in BOOLEAN
  BY DEF BlocksOver
<1>a. GetOffset(b) \in Nat /\ GetOffset(b) = Minus(b.curr, b.start) /\ Len(data) \in Nat
  BY OffsetType DEF Ptr, GetOffset
<1>b. Len(data) <= n + 3 /\ GetOffset(b) + Len(data) <= AddrSpace /\ AddrSpace \in Nat
  BY <1>a DEF Ptr
<1>1. CASE b.aborted
  <2>1. w = b /\ a = b
    BY <1>1 DEF WriteRaw, SkipBytes
  <2>2. QED
    BY <1>1, <2>1, <1>a DEF Emits
<1>2. CASE ~b.aborted /\ b.measure
  <2>1. a = [b EXCEPT !.curr = Plus(b.curr, n)]
    BY <1>2 DEF WriteRaw, SkipBytes
  <2> HIDE DEF a
  <2>2. Plus(b.curr, n) \in Ptr
    BY <1>0 DEF Ptr, Plus, Wrap, GetOffset, Minus
  <2>3. Minus(Plus(b.curr, n), b.start) = GetOffset(b) + n
    BY <1>0 DEF Ptr, Plus, Wrap, GetOffset, Minus
  <2>4. /\ a \in BlocksOver(D) /\ a.mem = b.mem /\ a.curr = Plus(b.curr, n)
        /\ a.start = b.start /\ a.size = b.size /\ a.measure = b.measure
        /\ ~a.aborted
    BY <1>0, <1>2, <2>1, <2>2 DEF BlocksOver
  <2>5. GetOffset(a) = GetOffset(b) + n
    BY <2>3, <2>4 DEF GetOffset
  <2>6. QED
    BY <1>2, <2>4, <2>5, <1>a DEF Emits
<1>3. CASE ~b.aborted /\ ~b.measure /\ ~NDEBUG /\ ~VerifyCurrent(b, Len(data))
  <2>1. a = [b EXCEPT !.aborted = TRUE]
    BY <1>3 DEF WriteRaw, SkipBytes, StoreUnlessAborted, Asserting
  <2> HIDE DEF a
  <2>2. /\ a \in BlocksOver(D) /\ a.mem = b.mem /\ a.curr = b.curr
        /\ a.start = b.start /\ a.size = b.size /\ a.measure = b.measure
        /\ a.aborted /\ GetOffset(a) = GetOffset(b)
    BY <1>0, <2>1 DEF BlocksOver, GetOffset
  <2>3. ~Roomy(b, n)
    BY <1>0, <1>3 DEF Roomy, VerifyCurrent, End, GetOffset, Minus, Plus, Wrap, Ptr
  <2>4. QED
    BY <1>3, <2>2, <2>3, <1>a DEF Emits
<1>4. CASE ~b.aborted /\ ~b.measure /\ (NDEBUG \/ VerifyCurrent(b, Len(data)))
  <2>0. w = [b EXCEPT !.mem = Store(b.mem, b.curr, data)]
    BY <1>4 DEF WriteRaw, StoreUnlessAborted, Asserting
  <2> HIDE DEF w
  <2>1. a = [mem |-> Store(b.mem, b.curr, data), curr |-> Plus(b.curr, n), start |-> b.start,
             size |-> b.size, measure |-> b.measure, aborted |-> b.aborted]
    BY <1>0, <1>4, <2>0 DEF SkipBytes
  <2> HIDE DEF a
  <2>2. Plus(b.curr, n) \in Ptr
    BY <1>0 DEF Ptr, Plus, Wrap, GetOffset, Minus
  <2>3. Minus(Plus(b.curr, n), b.start) = GetOffset(b) + n
    BY <1>0 DEF Ptr, Plus, Wrap, GetOffset, Minus
  <2>4. /\ Store(b.mem, b.curr, data) \in [D -> ByteValue]
        /\ \A q \in D : Store(b.mem, b.curr, data)[q] # b.mem[q] => Minus(q, b.curr) < Len(data)
    BY <1>0, StoreType
  <2>5. /\ a \in BlocksOver(D) /\ a.mem = Store(b.mem, b.curr, data)
        /\ a.curr = Plus(b.curr, n)
        /\ a.start = b.start /\ a.size = b.size /\ a.measure = b.measure
        /\ ~a.aborted
    BY <1>0, <1>4, <2>1, <2>2, <2>4 DEF BlocksOver
  <2>6. GetOffset(a) = GetOffset(b) + n
    BY <2>3, <2>5 DEF GetOffset
  <2>7. ASSUME NEW q \in D, Minus(q, b.curr) < Len(data)
        PROVE  /\ Minus(q, b.start) = GetOffset(b) + Minus(q, b.curr)
               /\ Minus(q, b.curr) \in Nat
    BY <1>0, <1>a, <1>b, <2>7, Distance
  <2>8. ASSUME Straight(b, n), VerifyCurrent(b, Len(data))
        PROVE  GetOffset(b) + Len(data) <= b.size
    <3>1. b.curr = b.start + GetOffset(b)
      BY <1>0, <1>a, <2>8 DEF Straight, Minus, Wrap, Ptr
    <3>2. Plus(b.curr, Len(data)) = b.curr + Len(data) /\ End(b) = b.start + b.size
      <4>1. /\ b.start \in Nat /\ b.size \in Nat /\ b.curr \in Nat /\ n \in Nat
            /\ GetOffset(b) \in Nat /\ Len(data) \in Nat /\ Len(data) <= n + 3
            /\ AddrSpace \in Nat
        BY <1>0, <1>a, <1>b DEF Ptr
      <4>2. b.start + b.size < AddrSpace /\ b.start + GetOffset(b) + n + 3 < AddrSpace
        BY <2>8 DEF Straight
      <4>3. b.curr + Len(data) < AddrSpace
        BY <3>1, <4>1, <4>2
      <4>4. \A x \in Nat : x < AddrSpace => Wrap(x) = x
        BY <4>1 DEF Wrap
      <4>5. b.curr + Len(data) \in Nat /\ b.start + b.size \in Nat
        BY <4>1
      <4>6. QED
        BY <4>2, <4>3, <4>4, <4>5 DEF End, Plus
    <3>3. QED
      BY <1>0, <1>a, <2>8, <3>1, <3>2 DEF VerifyCurrent, Ptr
  <2>9. ASSUME NEW q \in D, a.mem[q] # b.mem[q]
        PROVE  /\ ~b.measure
               /\ GetOffset(b) <= Minus(q, b.start) /\ Minus(q, b.start) <= GetOffset(a) + 2
               /\ Minus(q, b.start) < GetOffset(a) + s
               /\ Straight(b, n) => NDEBUG \/ Minus(q, b.start) < b.size
    <3>1. Minus(q, b.curr) < Len(data)
      BY <2>4, <2>5, <2>9
    <3>2. Minus(q, b.start) = GetOffset(b) + Minus(q, b.curr) /\ Minus(q, b.curr) \in Nat
      BY <2>7, <3>1
    <3>3. /\ GetOffset(b) <= Minus(q, b.start) /\ Minus(q, b.start) <= GetOffset(a) + 2
          /\ Minus(q, b.start) < GetOffset(a) + s
      BY <1>a, <2>6, <3>1, <3>2
    <3>4. ASSUME Straight(b, n), ~NDEBUG
          PROVE  Minus(q, b.start) < b.size
      <4>1. VerifyCurrent(b, Len(data))
        BY <1>4, <3>4
      <4>2. GetOffset(b) + Len(data) <= b.size
        BY <2>8, <3>4, <4>1
      <4>3. QED
        BY <1>0, <1>a, <3>1, <3>2, <4>2 DEF Ptr
    <3>5. QED
      BY <1>4, <3>3, <3>4
  <2>10. QED
    BY <1>4, <2>5, <2>6, <2>9, <1>a DEF Emits
<1>5. QED
  BY <1>0, <1>1, <1>2, <1>3, <1>4

\* Emitting n1 bytes and then n2 bytes emits n1 + n2 bytes. What the first part
\* spills the second one covers, when that is long enough.
LEMMA EmitsThen ==
  ASSUME NEW D \in SUBSET Ptr, NEW b \in BlocksOver(D), NEW m, NEW a,
         NEW n1 \in Nat, NEW n2 \in Nat, NEW s1 \in 0 .. 3, NEW s2 \in 0 .. 3,
         Emits(D, b, m, n1, s1), Emits(D, m, a, n2, s2), s1 <= n2 + s2
  PROVE  Emits(D, b, a, n1 + n2, s2)
<1> USE BlockAssumption
<1>1. /\ m \in BlocksOver(D) /\ a \in BlocksOver(D)
      /\ GetOffset(b) \in Nat /\ GetOffset(m) \in Nat /\ GetOffset(a) \in Nat
  BY OffsetType DEF Emits, Ptr
<1>2. /\ a.start = b.start /\ a.size = b.size /\ a.measure = b.measure
      /\ m.start = b.start /\ m.size = b.size /\ m.measure = b.measure
      /\ b.start \in Nat /\ b.size \in Nat
      /\ b.aborted \in BOOLEAN /\ m.aborted \in BOOLEAN
  BY <1>1 DEF Emits, BlocksOver, Ptr
<1>3. b.aborted => a = b
  BY DEF Emits
<1>4. GetOffset(b) <= GetOffset(a) /\ GetOffset(a) <= GetOffset(b) + (n1 + n2)
  BY <1>1 DEF Emits
<1>5. ~a.aborted => ~m.aborted
  BY DEF Emits
<1>6. ~a.aborted => GetOffset(a) = GetOffset(b) + (n1 + n2)
  BY <1>1, <1>5 DEF Emits
<1>7. /\ Roomy(b, n1 + n2) => Roomy(b, n1) /\ Roomy(m, n2)
      /\ Straight(b, n1 + n2) => Straight(b, n1) /\ Straight(m, n2)
  BY <1>1, <1>2 DEF Emits, Roomy, Straight
<1>8. a.aborted => b.aborted \/ ~(b.measure \/ NDEBUG \/ Roomy(b, n1 + n2))
  BY <1>2, <1>7 DEF Emits
<1>9. ASSUME NEW q \in D, a.mem[q] # b.mem[q]
      PROVE  /\ ~b.measure
             /\ GetOffset(b) <= Minus(q, b.start) /\ Minus(q, b.start) <= GetOffset(a) + 2
             /\ ~a.aborted => Minus(q, b.start) < GetOffset(a) + s2
             /\ Straight(b, n1 + n2) => NDEBUG \/ Minus(q, b.start) < b.size
  <2>1. Minus(q, b.start) \in Nat
    BY DEF BlocksOver, Minus, Wrap, Ptr
  <2>2. CASE a.mem[q] # m.mem[q]
    BY <1>1, <1>2, <1>7, <2>1, <2>2 DEF Emits
  <2>3. CASE m.mem[q] # b.mem[q]
    <3>1. ~a.aborted => GetOffset(a) = GetOffset(m) + n2 /\ ~m.aborted
      BY <1>5 DEF Emits
    <3>2. QED
      BY <1>1, <1>2, <1>7, <2>1, <2>3, <3>1 DEF Emits
  <2>4. QED
    BY <1>9, <2>2, <2>3
<1>10. QED
  BY <1>1, <1>2, <1>3, <1>4, <1>6, <1>8, <1>9 DEF Emits

\* Whoever spills s1 bytes spills at most s2.
LEMMA SpillsMore ==
  ASSUME NEW D \in SUBSET Ptr, NEW b \in BlocksOver(D), NEW a, NEW n \in Nat,
         NEW s1 \in 0 .. 3, NEW s2 \in 0 .. 3, Emits(D, b, a, n, s1), s1 <= s2
  PROVE  Emits(D, b, a, n, s2)
<1>1. a \in BlocksOver(D) /\ GetOffset(a) \in Nat
  BY OffsetType DEF Emits, Ptr
<1>2. \A q \in D : Minus(q, b.start) \in Nat
  BY BlockAssumption DEF BlocksOver, Minus, Wrap, Ptr
<1>3. QED
  BY <1>1, <1>2 DEF Emits

\* SkipBytes alone emits, writing nothing.
LEMMA SkipEmits ==
  ASSUME NEW D \in SUBSET Ptr, NEW b \in BlocksOver(D),
         NEW n \in Nat, GetOffset(b) + n + 3 < AddrSpace
  PROVE  Emits(D, b, SkipBytes(b, n), n, 0)
<1> DEFINE a == SkipBytes(b, n)
<1> USE BlockAssumption
<1> SUFFICES Emits(D, b, a, n, 0)
  OBVIOUS
<1>0. /\ b.mem \in [D -> ByteValue] /\ b.curr \in Ptr /\ b.start \in Ptr /\ b.size \in Ptr
      /\ b.measure \in BOOLEAN /\ b.aborted \in BOOLEAN
  BY DEF BlocksOver
<1>a. GetOffset(b) \in Nat /\ GetOffset(b) = Minus(b.curr, b.start)
  BY OffsetType DEF Ptr, GetOffset
<1>1. CASE b.aborted
  <2>1. a = b
    BY <1>1 DEF SkipBytes
  <2>2. QED
    BY <1>1, <2>1, <1>a DEF Emits
<1>2. CASE ~b.aborted
  <2>1. a = [b EXCEPT !.curr = Plus(b.curr, n)]
    BY <1>2 DEF SkipBytes
  <2> HIDE DEF a
  <2>2. Plus(b.curr, n) \in Ptr
    BY <1>0, <1>a DEF Ptr, Plus, Wrap, Minus
  <2>3. Minus(Plus(b.curr, n), b.start) = GetOffset(b) + n
    BY <1>0, <1>a DEF Ptr, Plus, Wrap, Minus
  <2>4. /\ a \in BlocksOver(D) /\ a.mem = b.mem /\ a.curr = Plus(b.curr, n)
        /\ a.start = b.start /\ a.size = b.size /\ a.measure = b.measure
        /\ ~a.aborted
    BY <1>0, <1>2, <2>1, <2>2 DEF BlocksOver
  <2>5. GetOffset(a) = GetOffset(b) + n
    BY <2>3, <2>4 DEF GetOffset
  <2>6. QED
    BY <1>a, <1>2, <2>4, <2>5 DEF Emits
<1>3. QED
  BY <1>1, <1>2

\* What is left of the room after the first of two parts is room for the second.
LEMMA EmitsRoom ==
  ASSUME NEW D \in SUBSET Ptr, NEW b \in BlocksOver(D), NEW m,
         NEW n1 \in Nat, NEW n2 \in Nat, NEW s,
         Emits(D, b, m, n1, s), GetOffset(b) + (n1 + n2) + 3 < AddrSpace
  PROVE  m \in BlocksOver(D) /\ GetOffset(m) + n2 + 3 < AddrSpace
BY OffsetType, BlockAssumption DEF Emits, Ptr

(***************************************************************************)
(* The pushes of CodeBlock                                                 *)
(***************************************************************************)
\* The part of an integer above its low byte is an integer.
LEMMA HighPartType ==
  ASSUME NEW v \in Int, NEW i \in Nat \ {0}
  PROVE  HighPart(v, i) \in Int
<1>1. CASE i > 4
  BY <1>1 DEF HighPart
<1>2. CASE i \in 1 .. 4
  <2>1. 256 ^ 0 = 1 /\ 256 ^ 1 = 256 /\ 256 ^ 2 = 65536 /\ 256 ^ 3 = 16777216
    OBVIOUS
  <2>2. i = 1 \/ i = 2 \/ i = 3 \/ i = 4
    BY <1>2
  <2>a. i - 1 = 0 \/ i - 1 = 1 \/ i - 1 = 2 \/ i - 1 = 3
    BY <2>2
  <2>3. 256 ^ (i - 1) \in {1, 256, 65536, 16777216}
    <3> DEFINE k == i - 1
    <3> HIDE DEF k
    <3>1. k = 0 \/ k = 1 \/ k = 2 \/ k = 3
      BY <2>a DEF k
    <3>2. 256 ^ k \in {1, 256, 65536, 16777216}
      <4>1. CASE k = 0
        BY <2>1, <4>1
      <4>2. CASE k = 1
        BY <2>1, <4>2
      <4>3. CASE k = 2
        BY <2>1, <4>3
      <4>4. CASE k = 3
        BY <2>1, <4>4
      <4>5. QED
        BY <3>1, <4>1, <4>2, <4>3, <4>4
    <3>3. QED
      BY <3>2 DEF k
  <2>4. v \div 1 \in Int /\ v \div 256 \in Int /\ v \div 65536 \in Int /\ v \div 16777216 \in Int
    OBVIOUS
  <2>5. HighPart(v, i) = v \div 256 ^ (i - 1)
    BY <1>2 DEF HighPart
  <2>6. QED
    BY <2>3, <2>4, <2>5
<1>3. QED
  BY <1>1, <1>2

\* The little-endian form of an integer in n bytes is n bytes.
LEMMA LittleEndianType ==
  ASSUME NEW v \in Int, NEW n \in Nat
  PROVE  LittleEndian(v, n) \in Seq(ByteValue) /\ Len(LittleEndian(v, n)) = n
<1>1. ASSUME NEW i \in 1 .. n  PROVE HighPart(v, i) % 256 \in ByteValue
  <2>1. HighPart(v, i) \in Int
    BY HighPartType
  <2>2. QED
    BY <2>1 DEF ByteValue
<1>2. LittleEndian(v, n) \in [1 .. n -> ByteValue]
  BY <1>1 DEF LittleEndian
<1>3. QED
  BY <1>2

\* PushRaw emits the bytes it is given.
LEMMA PushRawEmits ==
  ASSUME NEW D \in SUBSET Ptr, NEW b \in BlocksOver(D), NEW data \in Seq(ByteValue),
         GetOffset(b) + Len(data) + 3 < AddrSpace
  PROVE  Emits(D, b, PushRaw(b, data), Len(data), 0)
<1>1. Len(data) \in Nat /\ Len(data) <= Len(data) + 0
  OBVIOUS
<1>2. QED
  BY <1>1, WriteSkipEmits DEF PushRaw

\* PushByte emits one byte.
LEMMA PushByteEmits ==
  ASSUME NEW D \in SUBSET Ptr, NEW b \in BlocksOver(D), NEW v \in ByteValue,
         GetOffset(b) + 1 + 3 < AddrSpace
  PROVE  Emits(D, b, PushByte(b, v), 1, 0)
<1>1. <<v>> \in Seq(ByteValue) /\ Len(<<v>>) = 1
  OBVIOUS
<1>2. QED
  BY <1>1, PushRawEmits DEF PushByte

\* PushInt emits an integer of n bytes as n bytes.
LEMMA PushIntEmits ==
  ASSUME NEW D \in SUBSET Ptr, NEW b \in BlocksOver(D), NEW v \in Int, NEW n \in Nat,
         GetOffset(b) + n + 3 < AddrSpace
  PROVE  Emits(D, b, PushInt(b, v, n), n, 0)
BY LittleEndianType, PushRawEmits DEF PushInt

\* PushBytes emits as many bytes as it is given, however many those are.
LEMMA PushBytesEmits ==
  ASSUME NEW D \in SUBSET Ptr, NEW b \in BlocksOver(D), NEW s \in Seq(ByteValue),
         GetOffset(b) + Len(s) + 3 < AddrSpace
  PROVE  Emits(D, b, PushBytes(b, s), Len(s), 0)
<1> USE BlockAssumption
<1>0. PICK n \in Nat : n = Len(s) /\ DOMAIN s = 1 .. n
  OBVIOUS
<1>1. n \in Nat /\ DOMAIN s = 1 .. n /\ GetOffset(b) \in Nat
  BY <1>0, OffsetType DEF Ptr
<1>2. PICK g : Chain(b, s, n, g)
  BY <1>1, PushBytesChain
<1> DEFINE P == {i \in Nat : i <= n => Emits(D, b, g[i], i, 0)}
<1>3. 0 \in P
  BY <1>1, <1>2 DEF Emits, Chain
<1>4. ASSUME NEW i \in Nat, i \in P  PROVE i + 1 \in P
  <2> SUFFICES ASSUME i + 1 <= n  PROVE Emits(D, b, g[i + 1], i + 1, 0)
    OBVIOUS
  <2>1. Emits(D, b, g[i], i, 0)
    BY <1>1, <1>4
  <2>2. i + 1 \in 1 .. n /\ GetOffset(b) + (i + 1) + 3 < AddrSpace
    BY <1>0, <1>1
  <2>3. g[i] \in BlocksOver(D) /\ GetOffset(g[i]) + 1 + 3 < AddrSpace
    BY <2>1, <2>2, EmitsRoom
  <2>4. g[i + 1] = PushByte(g[i], s[i + 1]) /\ s[i + 1] \in ByteValue
    <3>1. g[i + 1] = PushByte(g[(i + 1) - 1], s[i + 1])
      BY <1>2, <2>2 DEF Chain
    <3>2. (i + 1) - 1 = i
      OBVIOUS
    <3>3. QED
      BY <1>1, <2>2, <3>1, <3>2
  <2>5. Emits(D, g[i], g[i + 1], 1, 0)
    BY <2>3, <2>4, PushByteEmits
  <2>6. QED
    BY <2>1, <2>5, EmitsThen
<1> HIDE DEF P
<1>5. Nat \subseteq P
  BY <1>3, <1>4, Induction
<1>6. QED
  BY <1>0, <1>1, <1>2, <1>5 DEF P, Chain

\* The ModRM and SIB bytes built from fields in range are bytes.
LEMMA FieldsType ==
  ASSUME NEW x \in 0 .. 3, NEW y \in 0 .. 7, NEW z \in 0 .. 7
  PROVE  ModRegRm(x, y, z) \in ByteValue /\ BuildSIB(x, y, z) \in ByteValue
BY DEF ModRegRm, BuildSIB, ByteValue

\* WriteModRegRm emits one byte.
LEMMA ModRegRmEmits ==
  ASSUME NEW D \in SUBSET Ptr, NEW b \in BlocksOver(D), GetOffset(b) + 1 + 3 < AddrSpace,
         NEW mod \in 0 .. 3, NEW reg \in 0 .. 7, NEW rm \in 0 .. 7
  PROVE  Emits(D, b, WriteModRegRm(b, mod, reg, rm), 1, 0)
BY FieldsType, PushByteEmits DEF WriteModRegRm

(***************************************************************************)
(* Memory operands                                                         *)
(***************************************************************************)
\* How many bytes the segment prefix of a memory operand takes.
SegLength(m) == IF CustomSegReg(m) THEN 1 ELSE 0
\* WriteSegmPrefix writes the prefix byte whether it skips over it or not.
SegSpill(m) == 1 - SegLength(m)
\* How many bytes the SIB byte that ESP as base forces takes.
EspLength(m) == IF EspBase(m) THEN 1 ELSE 0
\* WriteEspPostfix writes it in any case.
EspSpill(m) == 1 - EspLength(m)
\* And WriteSmallestOffset writes four bytes.
OffsetSpill(m) == 4 - OptimalBytes(m)

\* WriteSegmPrefix emits the prefix byte, or nothing when the operand has none.
LEMMA SegmPrefixEmits ==
  ASSUME NEW D \in SUBSET Ptr, NEW b \in BlocksOver(D), NEW m, m.seg \in RegSeg \cup {None},
         GetOffset(b) + SegLength(m) + 3 < AddrSpace
  PROVE  /\ SegLength(m) \in 0 .. 1 /\ SegSpill(m) \in 0 .. 1
         /\ Emits(D, b, WriteSegmPrefix(b, m), SegLength(m), SegSpill(m))
<1>1. /\ SegLength(m) \in 0 .. 1 /\ SegLength(m) \in Nat
      /\ SegSpill(m) \in 0 .. 1 /\ SegLength(m) + SegSpill(m) = 1
  BY DEF SegLength, SegSpill
<1>2. SegReg(m) \in ByteValue
  BY DEF SegReg, RegSeg, ES, CS, SS, DS, FS, GS, None, ByteValue
<1>3. <<SegReg(m)>> \in Seq(ByteValue) /\ Len(<<SegReg(m)>>) = 1
  BY <1>2
<1>4. WriteSegmPrefix(b, m) = SkipBytes(WriteRaw(b, <<SegReg(m)>>), SegLength(m))
  BY DEF WriteSegmPrefix, SegLength
<1> DEFINE data == <<SegReg(m)>>
           n == SegLength(m)
           s == SegSpill(m)
<1>5. /\ data \in Seq(ByteValue) /\ Len(data) <= n + s /\ n \in Nat /\ s \in 0 .. 3
      /\ GetOffset(b) + n + 3 < AddrSpace
  BY <1>1, <1>3
<1> HIDE DEF data, n, s
<1>6. Emits(D, b, SkipBytes(WriteRaw(b, data), n), n, s)
  BY <1>5, WriteSkipEmits
<1>7. QED
  BY <1>1, <1>4, <1>6 DEF data, n, s

\* WriteEspPostfix emits the SIB byte, or nothing.
LEMMA EspPostfixEmits ==
  ASSUME NEW D \in SUBSET Ptr, NEW b \in BlocksOver(D), NEW m,
         GetOffset(b) + EspLength(m) + 3 < AddrSpace
  PROVE  /\ EspLength(m) \in 0 .. 1 /\ EspSpill(m) \in 0 .. 1
         /\ Emits(D, b, WriteEspPostfix(b, m), EspLength(m), EspSpill(m))
<1>1. /\ EspLength(m) \in 0 .. 1 /\ EspLength(m) \in Nat
      /\ EspSpill(m) \in 0 .. 1 /\ EspLength(m) + EspSpill(m) = 1
  BY DEF EspLength, EspSpill
<1>2. \h24 \in ByteValue
  BY DEF ByteValue
<1>3. <<\h24>> \in Seq(ByteValue) /\ Len(<<\h24>>) = 1
  BY <1>2
<1>4. WriteEspPostfix(b, m) = SkipBytes(WriteRaw(b, <<\h24>>), EspLength(m))
  BY DEF WriteEspPostfix, EspLength
<1> DEFINE data == <<\h24>>
           n == EspLength(m)
           s == EspSpill(m)
<1>5. /\ data \in Seq(ByteValue) /\ Len(data) <= n + s /\ n \in Nat /\ s \in 0 .. 3
      /\ GetOffset(b) + n + 3 < AddrSpace
  BY <1>1, <1>3
<1> HIDE DEF data, n, s
<1>6. Emits(D, b, SkipBytes(WriteRaw(b, data), n), n, s)
  BY <1>5, WriteSkipEmits
<1>7. QED
  BY <1>1, <1>4, <1>6 DEF data, n, s

\* WriteSmallestOffset writes 4 bytes and advances by the 1 or 4 that the offset
\* needs: the store that spills three bytes.
LEMMA SmallestOffsetEmits ==
  ASSUME NEW D \in SUBSET Ptr, NEW b \in BlocksOver(D), NEW m, m.offset \in Int,
         GetOffset(b) + OptimalBytes(m) + 3 < AddrSpace
  PROVE  /\ OptimalBytes(m) \in {1, 4} /\ OffsetSpill(m) \in {0, 3}
         /\ Emits(D, b, WriteSmallestOffset(b, m), OptimalBytes(m), OffsetSpill(m))
<1>1. OptimalBytes(m) \in {1, 4} /\ OffsetSpill(m) = 4 - OptimalBytes(m)
  BY DEF OptimalBytes, OffsetSpill
<1>2. LittleEndian(m.offset, 4) \in Seq(ByteValue) /\ Len(LittleEndian(m.offset, 4)) = 4
  BY LittleEndianType
<1> DEFINE data == LittleEndian(m.offset, 4)
           n == OptimalBytes(m)
           s == OffsetSpill(m)
<1>3. data \in Seq(ByteValue) /\ Len(data) = 4
  BY <1>2
<1>4. n \in {1, 4} /\ s = 4 - n /\ GetOffset(b) + n + 3 < AddrSpace
  BY <1>1
<1> HIDE DEF data, n, s
<1>5. Len(data) <= n + s /\ n \in Nat /\ s \in {0, 3} /\ s \in 0 .. 3
  BY <1>3, <1>4
<1>6. Emits(D, b, SkipBytes(WriteRaw(b, data), n), n, s)
  BY <1>3, <1>4, <1>5, WriteSkipEmits
<1>7. QED
  BY <1>1, <1>5, <1>6 DEF data, n, s, WriteSmallestOffset

\* WriteOffset emits four bytes.
LEMMA OffsetEmits ==
  ASSUME NEW D \in SUBSET Ptr, NEW b \in BlocksOver(D), NEW m, m.offset \in Int,
         GetOffset(b) + 4 + 3 < AddrSpace
  PROVE  Emits(D, b, WriteOffset(b, m), 4, 0)
BY PushIntEmits DEF WriteOffset

\* WriteSIB emits one byte.
LEMMA SIBEmits ==
  ASSUME NEW D \in SUBSET Ptr, NEW b \in BlocksOver(D), NEW m,
         m.scale \in 0 .. 3, m.index \in Reg, m.base \in Reg \cup {None},
         GetOffset(b) + 1 + 3 < AddrSpace
  PROVE  Emits(D, b, WriteSIB(b, m), 1, 0)
<1> DEFINE base == IF m.base = None THEN 5 ELSE m.base
<1>1. base \in 0 .. 7 /\ m.index \in 0 .. 7
  BY DEF Reg, None
<1>2. BuildSIB(m.scale, m.index, base) \in ByteValue
  BY <1>1, FieldsType
<1>3. QED
  BY <1>2, PushByteEmits DEF WriteSIB

\* How many bytes ModRM, SIB and offset of a memory operand take, by its mode.
MemLength(m) ==
  CASE m.mode = "OFFSET" -> 1 + 4
    [] m.mode = "BASE" -> 1 + EspLength(m)
    [] m.mode = "BASE_OFFSET" -> 1 + EspLength(m) + OptimalBytes(m)
    [] m.mode = "INDEX_OFFSET" -> 1 + 1 + 4
    [] m.mode = "BASE_INDEX" -> 1 + 1
    [] m.mode = "BASE_INDEX_OFFSET" -> 1 + 1 + OptimalBytes(m)

\* They are one to six.
LEMMA MemLengthType ==
  ASSUME NEW m, NEW R, IsMem(m, R)
  PROVE  MemLength(m) \in 1 .. 6
BY DEF MemLength, IsMem, WithBase, WithIndexReg, EspLength, OptimalBytes

\* What a memory operand spills: its last part, if that is a SIB byte or an offset
\* that may be shorter than what is written.
MemSpill(m) ==
  CASE m.mode = "BASE" -> EspSpill(m)
    [] m.mode \in {"BASE_OFFSET", "BASE_INDEX_OFFSET"} -> OffsetSpill(m)
    [] OTHER -> 0

\* It is at most three bytes.
LEMMA MemSpillType ==
  ASSUME NEW m
  PROVE  MemSpill(m) \in 0 .. 3
BY DEF MemSpill, EspSpill, OffsetSpill, EspLength, OptimalBytes

\* WriteMem emits exactly those bytes, in each of the addressing modes.
LEMMA MemEmits ==
  ASSUME NEW D \in SUBSET Ptr, NEW b \in BlocksOver(D), NEW m, IsMem(m, Reg),
         NEW reg \in 0 .. 7, GetOffset(b) + MemLength(m) + 3 < AddrSpace
  PROVE  Emits(D, b, WriteMem(b, m, reg), MemLength(m), MemSpill(m))
<1> USE DEF RegInd, Disp1, Disp4
<1>0. /\ m.offset \in Int /\ m.scale \in 0 .. 3 /\ DispMod(m) \in 0 .. 3
      /\ EspLength(m) \in 0 .. 1 /\ OptimalBytes(m) \in {1, 4}
      /\ EspSpill(m) \in 0 .. 3 /\ OffsetSpill(m) \in 0 .. 3 /\ EspSpill(m) <= 1
      /\ GetOffset(b) \in Nat /\ AddrSpace \in Nat
  BY OffsetType, BlockAssumption DEF IsMem, DispMod, EspLength, EspSpill, OptimalBytes, OffsetSpill, Ptr
<1>1. CASE m.mode = "OFFSET"
  <2> DEFINE b1 == WriteModRegRm(b, RegInd, reg, 5)
  <2>1. GetOffset(b) + (1 + 4) + 3 < AddrSpace /\ MemLength(m) = 1 + 4 /\ MemSpill(m) = 0
    BY <1>1 DEF MemSpill, MemLength
  <2>2. Emits(D, b, b1, 1, 0)
    BY <1>0, <2>1, ModRegRmEmits
  <2> HIDE DEF b1
  <2>3. b1 \in BlocksOver(D) /\ GetOffset(b1) + 4 + 3 < AddrSpace
    BY <2>1, <2>2, EmitsRoom
  <2>4. Emits(D, b1, WriteOffset(b1, m), 4, 0)
    BY <1>0, <2>3, OffsetEmits
  <2>5. WriteMem(b, m, reg) = WriteOffset(b1, m)
    BY <1>1 DEF WriteMem, b1
  <2>6. QED
    BY <2>1, <2>2, <2>4, <2>5, EmitsThen
<1>2. CASE m.mode = "BASE"
  <2> DEFINE b1 == WriteModRegRm(b, RegInd, reg, m.base)
             b2 == WriteEspPostfix(b1, m)
  <2>1. /\ GetOffset(b) + (1 + EspLength(m)) + 3 < AddrSpace /\ m.base \in 0 .. 7
        /\ MemLength(m) = 1 + EspLength(m) /\ MemSpill(m) = EspSpill(m)
    BY <1>2 DEF MemSpill, MemLength, IsMem, WithBase, Reg
  <2>2. Emits(D, b, b1, 1, 0)
    BY <1>0, <2>1, ModRegRmEmits
  <2> HIDE DEF b1
  <2>3. b1 \in BlocksOver(D) /\ GetOffset(b1) + EspLength(m) + 3 < AddrSpace
    BY <1>0, <2>1, <2>2, EmitsRoom
  <2>4. Emits(D, b1, b2, EspLength(m), EspSpill(m))
    BY <1>0, <2>3, EspPostfixEmits
  <2>5. WriteMem(b, m, reg) = b2
    BY <1>2 DEF WriteMem, b1
  <2>6. QED
    BY <1>0, <2>1, <2>2, <2>4, <2>5, EmitsThen
<1>3. CASE m.mode = "BASE_OFFSET"
  <2> DEFINE b1 == WriteModRegRm(b, DispMod(m), reg, m.base)
             b2 == WriteEspPostfix(b1, m)
             b3 == WriteSmallestOffset(b2, m)
  <2>1. /\ GetOffset(b) + (1 + (EspLength(m) + OptimalBytes(m))) + 3 < AddrSpace
        /\ m.base \in 0 .. 7
        /\ MemLength(m) = 1 + (EspLength(m) + OptimalBytes(m)) /\ MemSpill(m) = OffsetSpill(m)
    BY <1>0, <1>3 DEF MemSpill, MemLength, IsMem, WithBase, Reg
  <2>2. Emits(D, b, b1, 1, 0)
    BY <1>0, <2>1, ModRegRmEmits
  <2> HIDE DEF b1
  <2>3. b1 \in BlocksOver(D) /\ GetOffset(b1) + (EspLength(m) + OptimalBytes(m)) + 3 < AddrSpace
    BY <1>0, <2>1, <2>2, EmitsRoom
  <2>4. Emits(D, b1, b2, EspLength(m), EspSpill(m))
    BY <1>0, <2>3, EspPostfixEmits, OffsetType DEF Ptr
  <2>a. WriteMem(b, m, reg) = b3
    BY <1>3 DEF WriteMem, b1
  <2> HIDE DEF b2
  <2>5. b2 \in BlocksOver(D) /\ GetOffset(b2) + OptimalBytes(m) + 3 < AddrSpace
    BY <1>0, <2>3, <2>4, EmitsRoom
  <2>6. Emits(D, b2, b3, OptimalBytes(m), OffsetSpill(m))
    BY <1>0, <2>5, SmallestOffsetEmits
  <2> HIDE DEF b3
  <2>7. Emits(D, b1, b3, EspLength(m) + OptimalBytes(m), OffsetSpill(m))
    BY <1>0, <2>3, <2>4, <2>6, EmitsThen
  <2>8. Emits(D, b, b3, 1 + (EspLength(m) + OptimalBytes(m)), OffsetSpill(m))
    <3>1. /\ EspLength(m) + OptimalBytes(m) \in Nat /\ 0 \in 0 .. 3 /\ 1 \in Nat
          /\ OffsetSpill(m) \in 0 .. 3
          /\ 0 <= (EspLength(m) + OptimalBytes(m)) + OffsetSpill(m)
      BY <1>0
    <3>2. QED
      BY <2>2, <2>7, <3>1, EmitsThen
  <2>9. QED
    BY <2>1, <2>8, <2>a
<1>4. CASE m.mode = "INDEX_OFFSET"
  <2> DEFINE b1 == WriteModRegRm(b, RegInd, reg, 4)
             b2 == WriteSIB(b1, m)
             b3 == WriteOffset(b2, m)
  <2>1. /\ GetOffset(b) + (1 + (1 + 4)) + 3 < AddrSpace
        /\ m.index \in Reg /\ m.base \in Reg \cup {None}
        /\ MemLength(m) = 1 + (1 + 4) /\ MemSpill(m) = 0
    BY <1>0, <1>4 DEF MemSpill, MemLength, IsMem, WithBase, WithIndexReg
  <2>2. Emits(D, b, b1, 1, 0)
    BY <1>0, <2>1, ModRegRmEmits
  <2> HIDE DEF b1
  <2>3. b1 \in BlocksOver(D) /\ GetOffset(b1) + (1 + 4) + 3 < AddrSpace
    BY <1>0, <2>1, <2>2, EmitsRoom
  <2>4. Emits(D, b1, b2, 1, 0)
    BY <1>0, <2>1, <2>3, SIBEmits, OffsetType DEF Ptr
  <2>a. WriteMem(b, m, reg) = b3
    BY <1>4 DEF WriteMem, b1
  <2> HIDE DEF b2
  <2>5. b2 \in BlocksOver(D) /\ GetOffset(b2) + 4 + 3 < AddrSpace
    BY <1>0, <2>3, <2>4, EmitsRoom
  <2>6. Emits(D, b2, b3, 4, 0)
    BY <1>0, <2>5, OffsetEmits
  <2> HIDE DEF b3
  <2>7. Emits(D, b1, b3, 1 + 4, 0)
    BY <2>3, <2>4, <2>6, EmitsThen
  <2>8. QED
    BY <1>0, <2>1, <2>2, <2>7, <2>a, EmitsThen
<1>5. CASE m.mode = "BASE_INDEX"
  <2> DEFINE b1 == WriteModRegRm(b, RegInd, reg, 4)
             b2 == WriteSIB(b1, m)
  <2>1. /\ GetOffset(b) + (1 + 1) + 3 < AddrSpace
        /\ m.index \in Reg /\ m.base \in Reg \cup {None}
        /\ MemLength(m) = 1 + 1 /\ MemSpill(m) = 0
    BY <1>0, <1>5 DEF MemSpill, MemLength, IsMem, WithBase, WithIndexReg
  <2>2. Emits(D, b, b1, 1, 0)
    BY <1>0, <2>1, ModRegRmEmits
  <2> HIDE DEF b1
  <2>3. b1 \in BlocksOver(D) /\ GetOffset(b1) + 1 + 3 < AddrSpace
    BY <1>0, <2>1, <2>2, EmitsRoom
  <2>4. Emits(D, b1, b2, 1, 0)
    BY <1>0, <2>1, <2>3, SIBEmits
  <2>5. WriteMem(b, m, reg) = b2
    BY <1>5 DEF WriteMem, b1
  <2>6. QED
    BY <1>0, <2>1, <2>2, <2>4, <2>5, EmitsThen
<1>6. CASE m.mode = "BASE_INDEX_OFFSET"
  <2> DEFINE b1 == WriteModRegRm(b, DispMod(m), reg, 4)
             b2 == WriteSIB(b1, m)
             b3 == WriteSmallestOffset(b2, m)
  <2>1. /\ GetOffset(b) + (1 + (1 + OptimalBytes(m))) + 3 < AddrSpace
        /\ m.index \in Reg /\ m.base \in Reg \cup {None}
        /\ MemLength(m) = 1 + (1 + OptimalBytes(m)) /\ MemSpill(m) = OffsetSpill(m)
    BY <1>0, <1>6 DEF MemSpill, MemLength, IsMem, WithBase, WithIndexReg
  <2>2. Emits(D, b, b1, 1, 0)
    BY <1>0, <2>1, ModRegRmEmits
  <2> HIDE DEF b1
  <2>3. b1 \in BlocksOver(D) /\ GetOffset(b1) + (1 + OptimalBytes(m)) + 3 < AddrSpace
    BY <1>0, <2>1, <2>2, EmitsRoom
  <2>4. Emits(D, b1, b2, 1, 0)
    BY <1>0, <2>1, <2>3, SIBEmits, OffsetType DEF Ptr
  <2>a. WriteMem(b, m, reg) = b3
    BY <1>6 DEF WriteMem, b1
  <2> HIDE DEF b2
  <2>5. b2 \in BlocksOver(D) /\ GetOffset(b2) + OptimalBytes(m) + 3 < AddrSpace
    BY <1>0, <2>3, <2>4, EmitsRoom
  <2>6. Emits(D, b2, b3, OptimalBytes(m), OffsetSpill(m))
    BY <1>0, <2>5, SmallestOffsetEmits
  <2> HIDE DEF b3
  <2>7. Emits(D, b1, b3, 1 + OptimalBytes(m), OffsetSpill(m))
    BY <1>0, <2>3, <2>4, <2>6, EmitsThen
  <2>8. Emits(D, b, b3, 1 + (1 + OptimalBytes(m)), OffsetSpill(m))
    BY <1>0, <2>2, <2>7, EmitsThen
  <2>9. QED
    BY <2>1, <2>8, <2>a
<1>7. QED
  BY <1>1, <1>2, <1>3, <1>4, <1>5, <1>6 DEF IsMem, WithBase, WithIndexReg

(***************************************************************************)
(* Instructions: head, register or memory operand, tail                    *)
(***************************************************************************)
\* An instruction without a tail writes none.
LEMMA FoldNone ==
  ASSUME NEW b, NEW s, DOMAIN s = {}
  PROVE  FoldLeft(WritePart, b, s) = b
<1> DEFINE h == CHOOSE h : h = [t \in SUBSET {} |->
                    IF t = {} THEN b ELSE WritePart(h[t \ {Max(t)}], s[Max(t)])]
<1>1. FoldLeft(WritePart, b, s) = h[{}]
  BY DEF FoldLeft, MapThenFoldSet
<1>2. h = [t \in SUBSET {} |->
                    IF t = {} THEN b ELSE WritePart(h[t \ {Max(t)}], s[Max(t)])]
  <2> DEFINE g == [t \in SUBSET {} |-> b]
  <2>1. g = [t \in SUBSET {} |->
                    IF t = {} THEN b ELSE WritePart(g[t \ {Max(t)}], s[Max(t)])]
    OBVIOUS
  <2> HIDE DEF g
  <2>2. QED
    BY <2>1
<1> HIDE DEF h
<1>3. QED
  BY <1>1, <1>2

\* One part is written once.
LEMMA FoldOne ==
  ASSUME NEW b, NEW s, DOMAIN s = {1}
  PROVE  FoldLeft(WritePart, b, s) = WritePart(b, s[1])
<1> DEFINE h == CHOOSE h : h = [t \in SUBSET {1} |->
                    IF t = {} THEN b ELSE WritePart(h[t \ {Max(t)}], s[Max(t)])]
<1>0. Max({1}) = 1
  BY DEF Max
<1>1. FoldLeft(WritePart, b, s) = h[{1}]
  BY DEF FoldLeft, MapThenFoldSet
<1>2. h = [t \in SUBSET {1} |->
                    IF t = {} THEN b ELSE WritePart(h[t \ {Max(t)}], s[Max(t)])]
  <2> DEFINE g == [t \in SUBSET {1} |-> IF t = {} THEN b ELSE WritePart(b, s[1])]
  <2>1. g = [t \in SUBSET {1} |->
                    IF t = {} THEN b ELSE WritePart(g[t \ {Max(t)}], s[Max(t)])]
    <3>1. ASSUME NEW t \in SUBSET {1}, t # {} PROVE t = {1} /\ t \ {Max(t)} = {}
      BY <1>0, <3>1
    <3>2. ASSUME NEW t \in SUBSET {1}
          PROVE  g[t] = IF t = {} THEN b ELSE WritePart(g[t \ {Max(t)}], s[Max(t)])
      BY <1>0, <3>1
    <3> QED
      BY <3>2
  <2> HIDE DEF g
  <2>2. QED
    BY <2>1
<1> HIDE DEF h
<1>3. {1} \ {1} = {} /\ {1} # {}
  OBVIOUS
<1>4. h[{1}] = WritePart(h[{}], s[1])
  BY <1>0, <1>2, <1>3
<1>5. h[{}] = b
  BY <1>2
<1>6. QED
  BY <1>1, <1>4, <1>5

\* Two parts are written in their order.
LEMMA FoldTwo ==
  ASSUME NEW b, NEW s, DOMAIN s = {1, 2}
  PROVE  FoldLeft(WritePart, b, s) = WritePart(WritePart(b, s[1]), s[2])
<1> DEFINE h == CHOOSE h : h = [t \in SUBSET {1, 2} |->
                    IF t = {} THEN b ELSE WritePart(h[t \ {Max(t)}], s[Max(t)])]
<1>0. Max({1}) = 1 /\ Max({2}) = 2 /\ Max({1, 2}) = 2
  BY DEF Max
<1>1. FoldLeft(WritePart, b, s) = h[{1, 2}]
  BY DEF FoldLeft, MapThenFoldSet
<1>a. {1, 2} \ {2} = {1} /\ {1} \ {1} = {} /\ {2} \ {2} = {} /\ {1} # {} /\ {2} # {} /\ {1, 2} # {}
  OBVIOUS
<1>b. \A t \in SUBSET {1, 2} : t = {} \/ t = {1} \/ t = {2} \/ t = {1, 2}
  OBVIOUS
<1>2. h = [t \in SUBSET {1, 2} |->
                    IF t = {} THEN b ELSE WritePart(h[t \ {Max(t)}], s[Max(t)])]
  <2> DEFINE g == [t \in SUBSET {1, 2} |->
                     IF t = {} THEN b ELSE IF 2 \notin t THEN WritePart(b, s[1])
                     ELSE IF 1 \notin t THEN WritePart(b, s[2])
                     ELSE WritePart(WritePart(b, s[1]), s[2])]
  <2>1. g = [t \in SUBSET {1, 2} |->
                    IF t = {} THEN b ELSE WritePart(g[t \ {Max(t)}], s[Max(t)])]
    <3>1. /\ g[{}] = b /\ g[{1}] = WritePart(b, s[1]) /\ g[{2}] = WritePart(b, s[2])
          /\ g[{1, 2}] = WritePart(WritePart(b, s[1]), s[2])
      OBVIOUS
    <3>2. DOMAIN g = SUBSET {1, 2} /\ g = [t \in SUBSET {1, 2} |-> g[t]]
      OBVIOUS
    <3> HIDE DEF g
    <3>3. ASSUME NEW t \in SUBSET {1, 2}
          PROVE  g[t] = IF t = {} THEN b ELSE WritePart(g[t \ {Max(t)}], s[Max(t)])
      <4>1. CASE t = {}
        BY <3>1, <4>1
      <4>2. CASE t = {1}
        BY <1>0, <1>a, <3>1, <4>2
      <4>3. CASE t = {2}
        BY <1>0, <1>a, <3>1, <4>3
      <4>4. CASE t = {1, 2}
        BY <1>0, <1>a, <3>1, <4>4
      <4> QED
        BY <1>b, <4>1, <4>2, <4>3, <4>4
    <3> QED
      BY <3>2, <3>3
  <2> HIDE DEF g
  <2>2. QED
    BY <2>1
<1> HIDE DEF h
<1>4. h[{1, 2}] = WritePart(h[{1}], s[2])
  BY <1>0, <1>2, <1>a
<1>5. h[{1}] = WritePart(h[{}], s[1])
  BY <1>0, <1>2, <1>a
<1>6. h[{}] = b
  BY <1>2
<1>7. QED
  BY <1>1, <1>4, <1>5, <1>6

\* WritePart (an immediate, an address or a label) emits the size of the part.
LEMMA PartEmits ==
  ASSUME NEW D \in SUBSET Ptr, NEW b \in BlocksOver(D), NEW part, IsPart(part),
         GetOffset(b) + part.size + 3 < AddrSpace
  PROVE  Emits(D, b, WritePart(b, part), part.size, 0)
<1>1. part.size \in Nat
  BY AddrBytesAssumption DEF IsPart
<1>2. CASE part.k = "imm"
  BY <1>1, <1>2, PushIntEmits DEF WritePart, IsPart
<1>3. CASE part.k = "label"
  BY <1>1, <1>3, SkipEmits DEF WritePart, IsPart
<1>4. CASE part.k = "addr"
  <2> DEFINE jump == CalcJumpOffset(b.curr, part.to, part.size)
  <2>1. part.to \in Ptr
    BY <1>4 DEF IsPart
  <2>2. jump \in Int
    BY <1>1, <2>1, BlockAssumption DEF CalcJumpOffset, Minus, Plus, Wrap, BlocksOver, Ptr
  <2>3. WritePart(b, part) = PushInt(b, jump, part.size)
    BY <1>4 DEF WritePart
  <2> HIDE DEF jump
  <2>4. QED
    BY <1>1, <2>2, <2>3, PushIntEmits
<1>5. QED
  BY <1>2, <1>3, <1>4 DEF IsPart

\* The size of the i-th part of the tail, if there is one.
PartLength(f, i) == IF i \in DOMAIN f.tail THEN f.tail[i].size ELSE 0
\* A tail has at most two parts.
TailLength(f) == PartLength(f, 1) + PartLength(f, 2)

\* The tail takes at most eight bytes.
LEMMA PartLengthType ==
  ASSUME NEW f, IsTail(f.tail)
  PROVE  PartLength(f, 1) \in Nat /\ PartLength(f, 2) \in Nat /\ TailLength(f) \in 0 .. 8
<1>1. ASSUME NEW i \in DOMAIN f.tail  PROVE f.tail[i].size \in 0 .. 8
  BY AddrBytesAssumption DEF IsTail, IsPart
<1>2. ASSUME 2 \in DOMAIN f.tail
      PROVE  f.tail[1].size \in 0 .. 4 /\ f.tail[2].size \in 0 .. 4
  <2>1. IsPart(f.tail[1]) /\ IsPart(f.tail[2]) /\ f.tail[1].k = "imm" /\ f.tail[2].k = "imm"
    BY <1>2 DEF IsTail
  <2>2. QED
    BY <2>1 DEF IsPart
<1>3. QED
  BY <1>1, <1>2 DEF PartLength, TailLength, IsTail

\* The tail emits its length.
LEMMA TailEmits ==
  ASSUME NEW D \in SUBSET Ptr, NEW b \in BlocksOver(D), NEW f, IsTail(f.tail),
         GetOffset(b) + TailLength(f) + 3 < AddrSpace
  PROVE  Emits(D, b, FoldLeft(WritePart, b, f.tail), TailLength(f), 0)
<1>0. /\ PartLength(f, 1) \in Nat /\ PartLength(f, 2) \in Nat
      /\ GetOffset(b) \in Nat /\ AddrSpace \in Nat
  BY PartLengthType, OffsetType, BlockAssumption DEF Ptr
<1>1. CASE DOMAIN f.tail = {}
  <2>1. FoldLeft(WritePart, b, f.tail) = b
    BY <1>1, FoldNone
  <2>2. TailLength(f) = 0
    BY <1>1 DEF TailLength, PartLength
  <2>3. QED
    BY <1>0, <2>1, <2>2 DEF Emits
<1>2. CASE DOMAIN f.tail = {1}
  <2>1. FoldLeft(WritePart, b, f.tail) = WritePart(b, f.tail[1])
    BY <1>2, FoldOne
  <2>2. TailLength(f) = f.tail[1].size /\ IsPart(f.tail[1])
    BY <1>0, <1>2 DEF TailLength, PartLength, IsTail
  <2>3. QED
    BY <2>1, <2>2, PartEmits
<1>3. CASE DOMAIN f.tail = {1, 2}
  <2> DEFINE b1 == WritePart(b, f.tail[1])
             n1 == f.tail[1].size
             n2 == f.tail[2].size
  <2>1. FoldLeft(WritePart, b, f.tail) = WritePart(b1, f.tail[2])
    BY <1>3, FoldTwo
  <2>2. /\ TailLength(f) = n1 + n2 /\ IsPart(f.tail[1]) /\ IsPart(f.tail[2])
        /\ n1 \in Nat /\ n2 \in Nat
    BY <1>0, <1>3 DEF TailLength, PartLength, IsTail
  <2>3. GetOffset(b) + n1 + 3 < AddrSpace /\ GetOffset(b) + (n1 + n2) + 3 < AddrSpace
    BY <1>0, <2>2
  <2>4. Emits(D, b, b1, n1, 0)
    BY <2>2, <2>3, PartEmits
  <2>5. b1 \in BlocksOver(D) /\ GetOffset(b1) + n2 + 3 < AddrSpace
    BY <2>2, <2>3, <2>4, EmitsRoom
  <2> HIDE DEF b1
  <2>6. Emits(D, b1, WritePart(b1, f.tail[2]), n2, 0)
    BY <2>2, <2>5, PartEmits
  <2>7. QED
    BY <2>1, <2>2, <2>4, <2>6, EmitsThen
<1>4. QED
  BY <1>1, <1>2, <1>3 DEF IsTail

\* The bytes of the segment prefix and of the opcode.
HeadLength(f) == (IF f.rm.k = "mem" THEN SegLength(f.rm.mem) ELSE 0) + Len(f.bytes)
\* The bytes of the register or memory operand.
RmLength(f) ==
  CASE f.rm.k = "mem" -> MemLength(f.rm.mem)
    [] f.rm.k = "reg" -> 1
    [] OTHER -> 0
\* The bytes of an instruction: a function of the call alone, whatever block it is
\* written to.
InstrLength(f) == HeadLength(f) + (RmLength(f) + TailLength(f))

\* What the parts of an instruction spill.
HeadSpill(f) == IF f.rm.k = "mem" THEN 1 ELSE 0
RmSpill(f) == IF f.rm.k = "mem" THEN MemSpill(f.rm.mem) ELSE 0

\* Segment prefix and opcode emit their length.
LEMMA HeadEmits ==
  ASSUME NEW D \in SUBSET Ptr, NEW b \in BlocksOver(D), NEW f, IsInstruction(f),
         GetOffset(b) + HeadLength(f) + 3 < AddrSpace
  PROVE  Emits(D, b, WriteHead(b, f), HeadLength(f), HeadSpill(f))
<1>0. /\ f.bytes \in Seq(ByteValue) /\ Len(f.bytes) \in Nat
      /\ GetOffset(b) \in Nat /\ AddrSpace \in Nat
  BY OffsetType, BlockAssumption DEF Ptr, IsInstruction
<1>1. CASE f.rm.k = "mem"
  <2> DEFINE m == f.rm.mem
             b1 == WriteSegmPrefix(b, m)
             n == Len(f.bytes)
  <2>1. m.seg \in RegSeg \cup {None} /\ SegLength(m) \in Nat
    BY <1>1 DEF IsInstruction, IsMem, SegLength
  <2>2. HeadLength(f) = SegLength(m) + n
    BY <1>1 DEF HeadLength
  <2>3. GetOffset(b) + SegLength(m) + 3 < AddrSpace /\ GetOffset(b) + (SegLength(m) + n) + 3 < AddrSpace
    BY <1>0, <2>1, <2>2
  <2>4. Emits(D, b, b1, SegLength(m), SegSpill(m)) /\ SegSpill(m) \in 0 .. 1
    BY <2>1, <2>3, SegmPrefixEmits
  <2>5. b1 \in BlocksOver(D) /\ GetOffset(b1) + n + 3 < AddrSpace
    BY <1>0, <2>1, <2>3, <2>4, EmitsRoom
  <2>6. WriteHead(b, f) = PushBytes(b1, f.bytes) /\ HeadSpill(f) = 1
    BY <1>1 DEF WriteHead, HeadSpill
  <2> DEFINE s == SegSpill(m)
  <2>s. s \in 0 .. 3 /\ s <= n + 1 /\ 1 \in 0 .. 3 /\ 0 \in 0 .. 3 /\ 0 <= 1 /\ n \in Nat
    BY <1>0, <2>4
  <2>e. Emits(D, b, b1, SegLength(m), s)
    BY <2>4
  <2> HIDE DEF b1, s
  <2>7. Emits(D, b1, PushBytes(b1, f.bytes), n, 0)
    BY <1>0, <2>5, PushBytesEmits
  <2> HIDE DEF n
  <2>8. Emits(D, b1, PushBytes(b1, f.bytes), n, 1)
    BY <2>5, <2>7, <2>s, SpillsMore
  <2>9. Emits(D, b, PushBytes(b1, f.bytes), SegLength(m) + n, 1)
    BY <2>1, <2>8, <2>e, <2>s, EmitsThen
  <2>10. QED
    BY <2>2, <2>6, <2>9 DEF n
<1>2. CASE f.rm.k # "mem"
  BY <1>0, <1>2, PushBytesEmits DEF WriteHead, HeadLength, HeadSpill
<1>3. QED
  BY <1>1, <1>2

\* The register or memory operand emits its length.
LEMMA RMEmits ==
  ASSUME NEW D \in SUBSET Ptr, NEW b \in BlocksOver(D), NEW f, IsInstruction(f),
         GetOffset(b) + RmLength(f) + 3 < AddrSpace
  PROVE  Emits(D, b, WriteRM(b, f), RmLength(f), RmSpill(f))
<1>1. CASE f.rm.k = "mem"
  BY <1>1, MemEmits DEF WriteRM, RmLength, RmSpill, IsInstruction
<1>2. CASE f.rm.k = "reg"
  BY <1>2, ModRegRmEmits DEF WriteRM, RmLength, RmSpill, IsInstruction, Reg, RegAddr
<1>3. CASE f.rm.k \notin {"mem", "reg"}
  <2>1. WriteRM(b, f) = b /\ RmLength(f) = 0 /\ RmSpill(f) = 0
    BY <1>3 DEF WriteRM, RmLength, RmSpill
  <2>2. QED
    BY <2>1, OffsetType DEF Emits, Ptr
<1>4. QED
  BY <1>1, <1>2, <1>3

\* The lengths of the parts of an instruction are those of the i386: the whole is at
\* most 19 bytes.
LEMMA LengthsType ==
  ASSUME NEW f, IsInstruction(f)
  PROVE  /\ HeadSpill(f) \in 0 .. 3 /\ RmSpill(f) \in 0 .. 3
         /\ HeadSpill(f) <= RmLength(f) + RmSpill(f)
         /\ HeadLength(f) \in 0 .. 5 /\ RmLength(f) \in 0 .. 6 /\ TailLength(f) \in 0 .. 8
         /\ InstrLength(f) \in 0 .. 19
<1>1. HeadLength(f) \in 0 .. 5
  <2>1. f.bytes \in Seq(ByteValue) /\ Len(f.bytes) <= 4
    BY DEF IsInstruction
  <2> DEFINE n == Len(f.bytes)
             p == SegLength(f.rm.mem)
  <2>a. n \in Nat /\ n <= 4 /\ p \in 0 .. 1
    BY <2>1 DEF SegLength
  <2>b. HeadLength(f) = (IF f.rm.k = "mem" THEN p ELSE 0) + n
    BY DEF HeadLength
  <2> HIDE DEF n, p
  <2>2. n \in 0 .. 4
    BY <2>a
  <2>3. CASE f.rm.k = "mem"
    <3>1. HeadLength(f) = p + n
      BY <2>b, <2>3
    <3>2. QED
      BY <2>2, <2>a, <3>1
  <2>4. CASE f.rm.k # "mem"
    BY <2>2, <2>b, <2>4
  <2>5. QED
    BY <2>3, <2>4
<1>2. RmLength(f) \in 0 .. 6
  BY MemLengthType DEF RmLength, IsInstruction
<1>3. TailLength(f) \in 0 .. 8
  BY PartLengthType DEF IsInstruction
<1>4. InstrLength(f) \in 0 .. 19
  BY <1>1, <1>2, <1>3 DEF InstrLength
<1>5. RmSpill(f) \in 0 .. 3 /\ HeadSpill(f) \in 0 .. 3
  BY MemSpillType DEF RmSpill, HeadSpill
<1>6. HeadSpill(f) <= RmLength(f) + RmSpill(f)
  <2>1. CASE f.rm.k = "mem"
    <3>1. MemLength(f.rm.mem) \in 1 .. 6
      BY <2>1, MemLengthType DEF IsInstruction
    <3>2. QED
      BY <1>5, <2>1, <3>1 DEF HeadSpill, RmLength
  <2>2. CASE f.rm.k # "mem"
    BY <1>2, <1>5, <2>2 DEF HeadSpill
  <2>3. QED
    BY <2>1, <2>2
<1>7. QED
  BY <1>1, <1>2, <1>3, <1>4, <1>5, <1>6

\* A handle of field points into the bytes at offsets lo to hi - 1: all of the bytes
\* that Replace writes through it, or that binding the label does.
IsHandle(field, h, lo, hi) ==
  \/ field \in {"reg", "base", "index"}
     /\ \E at \in Nat, shift \in {0, 3} : lo <= at /\ at < hi /\ h = Bits(at, shift, 7)
  \/ field = "scale" /\ \E at \in Nat : lo <= at /\ at < hi /\ h = Bits(at, 6, 3)
  \/ field \in {"offset", "imm"}
     /\ \E at \in Nat, n \in {1, 2, 4} : lo <= at /\ at + n <= hi /\ h = Bytes(at, n)
  \/ field = "label" /\ h \in Nat /\ lo <= h /\ h < hi

\* The handles of a replaceable memory operand point into the bytes of the operand.
LEMMA MemHandlesInside ==
  ASSUME NEW m, IsMem(m, Reg), NEW at \in Nat, NEW lo \in Nat, NEW hi \in Nat,
         lo <= at, at + MemLength(m) <= hi,
         NEW field \in DOMAIN MemHandles(m, at)
  PROVE  IsHandle(field, MemHandles(m, at)[field], lo, hi)
<1> DEFINE h == MemHandles(m, at)[field]
           sib == at + 1
           offset == at + 1 + (IF HasSIB(m) \/ EspBase(m) THEN 1 ELSE 0)
<1>1. /\ field \in ReplaceableParts(m)
      /\ h = CASE field = "base" -> RegBits(IF HasSIB(m) THEN sib ELSE at, 0)
               [] field = "index" -> RegBits(sib, 3)
               [] field = "scale" -> Bits(sib, 6, 3)
               [] field = "offset" -> Bytes(offset, OffsetBytes(m))
  BY DEF MemHandles
<1> HIDE DEF h
<1>2. /\ m.mode \in {"OFFSET", "BASE", "BASE_OFFSET", "INDEX_OFFSET", "BASE_INDEX",
                     "BASE_INDEX_OFFSET"}
      /\ HasSIB(m) => ~(m.mode \in {"OFFSET", "BASE", "BASE_OFFSET"})
      /\ m.mode \in {"INDEX_OFFSET", "BASE_INDEX", "BASE_INDEX_OFFSET"} => HasSIB(m)
      /\ m.mode = "OFFSET" => ~EspBase(m)
      /\ OptimalBytes(m) \in {1, 4}
  BY DEF IsMem, WithBase, WithIndexReg, HasSIB, EspBase, None, ESP, OptimalBytes
<1>3. /\ field \in {"base", "index", "scale", "offset"}
      /\ field \in {"index", "scale"} => HasSIB(m)
      /\ field = "offset" => m.mode \in {"OFFSET", "BASE_OFFSET", "INDEX_OFFSET", "BASE_INDEX_OFFSET"}
  BY <1>1, <1>2 DEF ReplaceableParts
<1>4. /\ MemLength(m) \in Nat /\ MemLength(m) >= 1
      /\ HasSIB(m) => MemLength(m) >= 2
  BY <1>2 DEF MemLength, EspLength
<1>5. CASE field = "base"
  <2> DEFINE p == IF HasSIB(m) THEN sib ELSE at
  <2>1. p \in Nat /\ lo <= p /\ p < hi
    BY <1>4
  <2>2. h = Bits(p, 0, 7)
    BY <1>1, <1>5 DEF RegBits
  <2> HIDE DEF p
  <2>3. QED
    BY <1>5, <2>1, <2>2 DEF IsHandle, h
<1>6. CASE field = "index"
  <2>1. sib \in Nat /\ lo <= sib /\ sib < hi
    BY <1>3, <1>4, <1>6
  <2>2. h = Bits(sib, 3, 7)
    BY <1>1, <1>6 DEF RegBits
  <2> HIDE DEF sib
  <2>3. QED
    BY <1>6, <2>1, <2>2 DEF IsHandle, h
<1>7. CASE field = "scale"
  <2>1. sib \in Nat /\ lo <= sib /\ sib < hi
    BY <1>3, <1>4, <1>7
  <2>2. h = Bits(sib, 6, 3)
    BY <1>1, <1>7
  <2> HIDE DEF sib
  <2>3. QED
    BY <1>7, <2>1, <2>2 DEF IsHandle, h
<1>8. CASE field = "offset"
  <2> DEFINE n == OffsetBytes(m)
  <2>1. n \in {1, 2, 4}
    BY <1>2 DEF OffsetBytes
  <2>2. offset + n = at + MemLength(m)
    <3>1. CASE m.mode = "OFFSET"
      BY <1>2, <3>1 DEF MemLength, OffsetBytes
    <3>2. CASE m.mode = "BASE_OFFSET"
      BY <1>2, <3>2 DEF MemLength, OffsetBytes, EspLength
    <3>3. CASE m.mode = "INDEX_OFFSET"
      BY <1>2, <3>3 DEF MemLength, OffsetBytes
    <3>4. CASE m.mode = "BASE_INDEX_OFFSET"
      BY <1>2, <3>4 DEF MemLength, OffsetBytes
    <3>5. QED
      BY <1>3, <1>8, <3>1, <3>2, <3>3, <3>4
  <2>3. offset \in Nat /\ lo <= offset
    OBVIOUS
  <2>4. h = Bytes(offset, n)
    BY <1>1, <1>8
  <2> HIDE DEF n, offset
  <2>5. offset + n <= hi
    BY <2>2
  <2>6. QED
    BY <1>8, <2>1, <2>3, <2>4, <2>5 DEF IsHandle, h
<1>9. QED
  BY <1>3, <1>5, <1>6, <1>7, <1>8

\* Each handle that an instruction returns points into the bytes of the instruction:
\* the code computes it from the cursor on the way.
LEMMA HandlesInside ==
  ASSUME NEW f, IsInstruction(f), NEW part, HasPart(f, part),
         NEW lo \in Nat, NEW modRm \in Nat, NEW tail \in Nat, NEW hi \in Nat,
         lo <= modRm, tail = modRm + RmLength(f), hi = tail + TailLength(f),
         f.bytes # <<>> => lo < modRm, tail < AddrSpace,
         NEW field \in DOMAIN Handles(f, part, modRm, tail)
  PROVE  IsHandle(field, Handles(f, part, modRm, tail)[field], lo, hi)
<1> DEFINE h == Handles(f, part, modRm, tail)
<1>0. RmLength(f) \in Nat /\ TailLength(f) \in Nat
  BY LengthsType
<1>1. CASE part = "rm" /\ f.rm.k = "mem"
  <2>1. h = MemHandles(f.rm.mem, modRm) /\ RmLength(f) = MemLength(f.rm.mem)
    BY <1>1 DEF Handles, RmLength
  <2>2. IsMem(f.rm.mem, Reg)
    BY <1>1 DEF IsInstruction
  <2>3. QED
    BY <1>0, <2>1, <2>2, MemHandlesInside
<1>2. CASE part \in {"rm", "reg"} /\ ~(part = "rm" /\ f.rm.k = "mem")
  <2>1. h = [reg |-> RegBits(modRm, IF part = "rm" THEN 0 ELSE 3)]
    BY <1>2 DEF Handles, HasPart
  <2>2. RmLength(f) >= 1
    BY <1>2, MemLengthType DEF HasPart, RmLength, IsInstruction
  <2>3. modRm < hi
    BY <1>0, <2>2
  <2>4. QED
    BY <2>1, <2>3 DEF IsHandle, RegBits
<1>3. CASE part = "opcode"
  <2>1. h = [reg |-> RegBits(Minus(tail, 1), 0)] /\ RmLength(f) = 0 /\ lo < tail
    BY <1>3 DEF Handles, HasPart, RmLength
  <2>2. Minus(tail, 1) = tail - 1
    BY <2>1, BlockAssumption DEF Minus, Wrap
  <2>3. tail - 1 \in Nat /\ lo <= tail - 1 /\ tail - 1 < hi
    BY <1>0, <2>1
  <2>4. QED
    BY <2>1, <2>2, <2>3 DEF IsHandle, RegBits
<1>4. CASE part = "imm"
  <2>1. h = [imm |-> Bytes(tail, f.tail[1].size)]
    BY <1>4 DEF Handles
  <2>2. f.tail[1].size \in {1, 2, 4}
    BY <1>4 DEF HasPart, IsInstruction, IsTail, IsPart
  <2>3. PartLength(f, 1) = f.tail[1].size
    BY <1>4 DEF PartLength, HasPart
  <2>4. PartLength(f, 2) \in Nat
    BY PartLengthType DEF IsInstruction
  <2>5. tail + f.tail[1].size <= hi
    BY <2>2, <2>3, <2>4 DEF TailLength
  <2>6. lo <= tail
    BY <1>0
  <2> DEFINE n == f.tail[1].size
  <2> HIDE DEF n
  <2>7. IsHandle("imm", Bytes(tail, n), lo, hi)
    BY <2>2, <2>5, <2>6 DEF IsHandle, n
  <2>8. QED
    BY <2>1, <2>7 DEF n
<1>5. CASE part = "imm2"
  <2>1. h = [imm |-> Bytes(tail + f.tail[1].size, f.tail[2].size)]
    BY <1>5 DEF Handles
  <2>2. f.tail[1].size \in {1, 2, 4} /\ f.tail[2].size \in {1, 2, 4} /\ 1 \in DOMAIN f.tail
        /\ 2 \in DOMAIN f.tail
    BY <1>5 DEF HasPart, IsInstruction, IsTail, IsPart
  <2>3. PartLength(f, 1) = f.tail[1].size /\ PartLength(f, 2) = f.tail[2].size
    BY <2>2 DEF PartLength
  <2>5. (tail + f.tail[1].size) + f.tail[2].size <= hi
    BY <2>2, <2>3 DEF TailLength
  <2> DEFINE at == tail + f.tail[1].size
             n == f.tail[2].size
  <2>6. at \in Nat /\ lo <= at
    BY <1>0, <2>2
  <2> HIDE DEF at, n
  <2>7. IsHandle("imm", Bytes(at, n), lo, hi)
    BY <2>2, <2>5, <2>6 DEF IsHandle, at, n
  <2>8. QED
    BY <2>1, <2>7 DEF at, n
<1>6. CASE part = "label"
  <2>1. h = [label |-> tail]
    BY <1>6 DEF Handles
  <2>2. f.tail[1].size \in Nat /\ f.tail[1].size >= 1 /\ 1 \in DOMAIN f.tail
    BY <1>6, AddrBytesAssumption DEF HasPart, IsInstruction, IsTail, IsPart
  <2>3. PartLength(f, 1) = f.tail[1].size /\ PartLength(f, 2) \in Nat
    BY <2>2, PartLengthType DEF PartLength, IsInstruction
  <2>4. tail < hi
    BY <2>2, <2>3 DEF TailLength
  <2>5. QED
    BY <1>0, <2>1, <2>4 DEF IsHandle
<1>7. CASE part = "none"
  <2>1. DOMAIN h = {}
    BY <1>7 DEF Handles, NoHandles
  <2>2. QED
    BY <2>1
<1>8. QED
  BY <1>1, <1>2, <1>3, <1>4, <1>5, <1>6, <1>7 DEF HasPart

\* An instruction emits its length, and unless an assertion stopped it on the way,
\* its handles point into its own bytes and a label's is at its end.
LEMMA WriteEmits ==
  ASSUME NEW D \in SUBSET Ptr, NEW b \in BlocksOver(D), NEW f, IsInstruction(f),
         GetOffset(b) + InstrLength(f) + 3 < AddrSpace
  PROVE  /\ Emits(D, b, Write(b, f).b, InstrLength(f), RmSpill(f))
         /\ DOMAIN Write(b, f).h = DOMAIN f.args
         /\ \A i \in DOMAIN f.args :
              "label" \in DOMAIN Write(b, f).h[i] =>
                /\ DOMAIN Write(b, f).h[i] = {"label"}
                /\ f.args[i] = "label"
                /\ Write(b, f).h[i].label \in Ptr
         /\ ~Write(b, f).b.aborted =>
              \A i \in DOMAIN f.args :
                /\ \A field \in DOMAIN Write(b, f).h[i] :
                     IsHandle(field, Write(b, f).h[i][field], GetOffset(b),
                              GetOffset(b) + InstrLength(f))
                /\ "label" \in DOMAIN Write(b, f).h[i] =>
                     Write(b, f).h[i].label + f.tail[1].size = GetOffset(b) + InstrLength(f)
<1> DEFINE b1 == WriteHead(b, f)
           b2 == WriteRM(b1, f)
           a == FoldLeft(WritePart, b2, f.tail)
           modRm == GetOffset(b1)
           tail == GetOffset(b2)
           h == [i \in DOMAIN f.args |-> Handles(f, f.args[i], modRm, tail)]
           n1 == HeadLength(f)
           n2 == RmLength(f)
           n3 == TailLength(f)
           s1 == HeadSpill(f)
           s2 == RmSpill(f)
<1>0. Write(b, f) = [b |-> a, h |-> h]
  BY DEF Write, WriteFrom, WriteTail
<1>1. /\ n1 \in Nat /\ n2 \in Nat /\ n3 \in Nat /\ InstrLength(f) = n1 + (n2 + n3)
      /\ GetOffset(b) \in Nat /\ AddrSpace \in Nat
      /\ GetOffset(b) + (n1 + (n2 + n3)) + 3 < AddrSpace
      /\ GetOffset(b) + n1 + 3 < AddrSpace
  BY LengthsType, OffsetType, BlockAssumption DEF InstrLength, Ptr
<1>s. s1 \in 0 .. 3 /\ s2 \in 0 .. 3 /\ s1 <= n2 + s2 /\ 0 \in 0 .. 3 /\ 0 <= s2
  BY LengthsType
<1>2. Emits(D, b, b1, n1, s1)
  BY <1>1, HeadEmits
<1> HIDE DEF b1, n1, s1
<1>3. b1 \in BlocksOver(D) /\ GetOffset(b1) + (n2 + n3) + 3 < AddrSpace
  BY <1>1, <1>2, EmitsRoom
<1>4. Emits(D, b1, b2, n2, s2)
  BY <1>1, <1>3, RMEmits, OffsetType DEF Ptr
<1> HIDE DEF b2, n2, s2
<1>5. b2 \in BlocksOver(D) /\ GetOffset(b2) + n3 + 3 < AddrSpace
  BY <1>1, <1>3, <1>4, EmitsRoom
<1>6. Emits(D, b2, a, n3, 0)
  BY <1>5, TailEmits DEF IsInstruction
<1> HIDE DEF a, n3
<1>7. Emits(D, b1, a, n2 + n3, s2)
  <2>1. Emits(D, b2, a, n3, s2)
    BY <1>1, <1>5, <1>6, <1>s, SpillsMore
  <2>2. s2 <= n3 + s2
    BY <1>1, <1>s
  <2>3. QED
    BY <1>1, <1>3, <1>4, <1>s, <2>1, <2>2, EmitsThen
<1>8. Emits(D, b, a, InstrLength(f), s2)
  <2>1. n2 + n3 \in Nat /\ s1 <= (n2 + n3) + s2
    BY <1>1, <1>s
  <2>2. QED
    BY <1>1, <1>2, <1>7, <1>s, <2>1, EmitsThen
<1>9. tail \in Ptr /\ modRm \in Ptr /\ tail \in Nat /\ modRm \in Nat
  BY <1>3, <1>5, OffsetType DEF Ptr
<1>10. ASSUME NEW i \in DOMAIN f.args, "label" \in DOMAIN h[i]
       PROVE  DOMAIN h[i] = {"label"} /\ f.args[i] = "label" /\ h[i].label = tail
  <2>1. HasPart(f, f.args[i]) /\ IsInstruction(f)
    BY DEF IsInstruction
  <2>2. h[i] = Handles(f, f.args[i], modRm, tail)
    OBVIOUS
  <2>3. f.args[i] = "label"
    <3>1. CASE f.args[i] = "rm" /\ f.rm.k = "mem"
      <4>1. DOMAIN h[i] = ReplaceableParts(f.rm.mem)
        BY <2>2, <3>1 DEF Handles, MemHandles
      <4>2. "label" \notin ReplaceableParts(f.rm.mem)
        BY <2>1, <3>1 DEF ReplaceableParts, IsInstruction, IsMem, WithBase, WithIndexReg
      <4>3. QED
        BY <1>10, <4>1, <4>2
    <3>2. CASE f.args[i] \in {"rm", "reg", "opcode"} /\ ~(f.args[i] = "rm" /\ f.rm.k = "mem")
      <4>1. DOMAIN h[i] = {"reg"}
        BY <2>1, <2>2, <3>2 DEF Handles, HasPart
      <4>2. QED
        BY <1>10, <4>1
    <3>3. CASE f.args[i] \in {"imm", "imm2"}
      <4>1. DOMAIN h[i] = {"imm"}
        BY <2>2, <3>3 DEF Handles
      <4>2. QED
        BY <1>10, <4>1
    <3>4. CASE f.args[i] = "none"
      <4>1. DOMAIN h[i] = {}
        BY <2>2, <3>4 DEF Handles, NoHandles
      <4>2. QED
        BY <1>10, <4>1
    <3>5. QED
      BY <2>1, <3>1, <3>2, <3>3, <3>4 DEF HasPart
  <2>4. h[i] = [label |-> tail]
    BY <2>2, <2>3 DEF Handles
  <2>5. QED
    BY <2>3, <2>4
<1>11. ASSUME ~a.aborted
       PROVE  /\ modRm = GetOffset(b) + n1 /\ tail = modRm + n2
              /\ GetOffset(b) + InstrLength(f) = tail + n3
  BY <1>1, <1>2, <1>4, <1>6, <1>8, <1>9, <1>11 DEF Emits
<1>12. ASSUME ~a.aborted, NEW i \in DOMAIN f.args, NEW field \in DOMAIN h[i]
       PROVE  IsHandle(field, h[i][field], GetOffset(b), GetOffset(b) + InstrLength(f))
  <2> DEFINE hi == GetOffset(b) + InstrLength(f)
  <2>1. /\ GetOffset(b) <= modRm /\ tail = modRm + RmLength(f) /\ hi = tail + TailLength(f)
        /\ hi \in Nat /\ tail < AddrSpace
    BY <1>1, <1>11, <1>12 DEF n2, n3
  <2>2. f.bytes # <<>> => GetOffset(b) < modRm
    <3> SUFFICES ASSUME f.bytes # <<>> PROVE n1 > 0
      BY <1>1, <1>11, <1>12
    <3> DEFINE n == Len(f.bytes)
               p == SegLength(f.rm.mem)
    <3>1. n \in Nat /\ n # 0 /\ p \in Nat
      BY DEF IsInstruction, SegLength
    <3>2. n1 = (IF f.rm.k = "mem" THEN p ELSE 0) + n
      BY DEF HeadLength, n1
    <3> HIDE DEF n, p
    <3>3. QED
      BY <3>1, <3>2
  <2>3. HasPart(f, f.args[i])
    BY DEF IsInstruction
  <2>4. h[i] = Handles(f, f.args[i], modRm, tail)
    OBVIOUS
  <2> HIDE DEF h, modRm, tail, hi
  <2>5. IsHandle(field, h[i][field], GetOffset(b), hi)
    BY <1>1, <1>9, <1>12, <2>1, <2>2, <2>3, <2>4, HandlesInside
  <2>6. QED
    BY <2>5 DEF hi
<1>13. ASSUME ~a.aborted, NEW i \in DOMAIN f.args, "label" \in DOMAIN h[i]
       PROVE  h[i].label + f.tail[1].size = GetOffset(b) + InstrLength(f)
  <2>1. f.args[i] = "label" /\ h[i].label = tail
    BY <1>10, <1>13
  <2>2. 1 \in DOMAIN f.tail /\ f.tail[1].k = "label" /\ IsTail(f.tail)
    BY <2>1 DEF IsInstruction, HasPart
  <2>3. 2 \notin DOMAIN f.tail
    BY <2>2 DEF IsTail
  <2>4. f.tail[1].size \in Nat
    BY <2>2, AddrBytesAssumption DEF IsTail, IsPart
  <2>5. n3 = f.tail[1].size
    BY <2>2, <2>3, <2>4 DEF TailLength, PartLength, n3
  <2>6. QED
    BY <1>9, <1>11, <1>13, <2>1, <2>5
<1> HIDE DEF h
<1>14. DOMAIN h = DOMAIN f.args
  BY DEF h
<1>15. QED
  BY <1>0, <1>8, <1>9, <1>10, <1>12, <1>13, <1>14 DEF s2

\* Nop(n) emits n bytes.
LEMMA NopEmits ==
  ASSUME NEW D \in SUBSET Ptr, NEW b \in BlocksOver(D), NEW n \in Nat,
         GetOffset(b) + n + 3 < AddrSpace
  PROVE  Emits(D, b, Nop(b, n).b, n, 0)
<1> DEFINE s == [i \in 1 .. n |-> \h90]
<1>1. s \in [1 .. n -> ByteValue]
  BY DEF ByteValue
<1>2. s \in Seq(ByteValue) /\ Len(s) = n
  BY <1>1
<1> HIDE DEF s
<1>3. Emits(D, b, PushRaw(b, s), n, 0)
  BY <1>2, PushRawEmits
<1>4. QED
  BY <1>3 DEF Nop, s

(***************************************************************************)
(* The x64 instructions                                                    *)
(***************************************************************************)
\* A 64-bit register is three low bits and the extension bit for the REX prefix.
LEMMA LowBits ==
  ASSUME NEW r \in Reg64
  PROVE  RemoveExtRegBit(r) \in 0 .. 7 /\ r \div 8 \in 0 .. 1
BY DEF Reg64, RemoveExtRegBit

\* Prefixes and opcode of a zero or sign extending move are two to four bytes.
LEMMA ExtendedOpcodeType ==
  ASSUME NEW dst, NEW src, NEW opcode \in ByteValue, NEW mask \in 0 .. 7
  PROVE  /\ ExtendedOpcode(dst, src, opcode, mask) \in Seq(ByteValue)
         /\ Len(ExtendedOpcode(dst, src, opcode, mask)) \in 2 .. 4
<1>1. Sized(opcode, src) \in ByteValue
  <2>1. 2 ^ 0 = 1
    OBVIOUS
  <2>2. opcode \in ByteValue /\ (opcode \div 1) % 2 # 1 => opcode + 1 \in ByteValue
    BY DEF ByteValue
  <2>3. SetBit(opcode, 0) \in ByteValue
    BY <2>1, <2>2 DEF SetBit
  <2>4. QED
    BY <2>3 DEF Sized
<1> DEFINE s1 == IF dst = WORD THEN <<Prefix16>> ELSE <<>>
           s2 == IF mask = 0 THEN <<>> ELSE <<\h40 + mask>>
           s3 == <<PrefixExtended, Sized(opcode, src)>>
<1>2. s1 \in Seq(ByteValue) /\ Len(s1) \in 0 .. 1
  <2>1. CASE dst = WORD
    <3>1. s1 = <<Prefix16>> /\ Prefix16 \in ByteValue
      BY <2>1 DEF Prefix16, ByteValue
    <3> HIDE DEF s1
    <3>2. QED
      BY <3>1
  <2>2. CASE dst # WORD
    <3>1. s1 = <<>>
      BY <2>2
    <3> HIDE DEF s1
    <3>2. QED
      BY <3>1
  <2>3. QED
    BY <2>1, <2>2
<1>3. s2 \in Seq(ByteValue) /\ Len(s2) \in 0 .. 1
  <2>1. CASE mask # 0
    <3>1. s2 = <<\h40 + mask>> /\ \h40 + mask \in ByteValue
      BY <2>1 DEF ByteValue
    <3> HIDE DEF s2
    <3>2. QED
      BY <3>1
  <2>2. CASE mask = 0
    <3>1. s2 = <<>>
      BY <2>2
    <3> HIDE DEF s2
    <3>2. QED
      BY <3>1
  <2>3. QED
    BY <2>1, <2>2
<1>4. s3 \in Seq(ByteValue) /\ Len(s3) = 2
  BY <1>1 DEF ByteValue, PrefixExtended
<1>5. ExtendedOpcode(dst, src, opcode, mask) = s1 \o s2 \o s3
  BY DEF ExtendedOpcode
<1> HIDE DEF s1, s2, s3
<1> DEFINE s12 == s1 \o s2
<1>6. s12 \in Seq(ByteValue) /\ Len(s12) = Len(s1) + Len(s2)
  BY <1>2, <1>3
<1>a. s1 \o s2 \o s3 = s12 \o s3
  OBVIOUS
<1> HIDE DEF s12
<1>7. s12 \o s3 \in Seq(ByteValue) /\ Len(s12 \o s3) = Len(s12) + Len(s3)
  BY <1>4, <1>6, ConcatProperties
<1> DEFINE s123 == s12 \o s3
<1> HIDE DEF s123
<1>8. s123 \in Seq(ByteValue) /\ Len(s123) = Len(s12) + Len(s3)
  BY <1>7 DEF s123
<1>9. Len(s123) \in 2 .. 4
  <2>1. PICK n1 \in 0 .. 1, n2 \in 0 .. 1 : n1 = Len(s1) /\ n2 = Len(s2)
    BY <1>2, <1>3
  <2>2. Len(s12) = n1 + n2
    BY <1>6, <2>1
  <2>3. Len(s123) = (n1 + n2) + 2
    BY <1>4, <1>8, <2>2
  <2>4. QED
    BY <2>3
<1>10. ExtendedOpcode(dst, src, opcode, mask) = s123
  BY <1>5, <1>a DEF s123
<1>11. QED
  BY <1>8, <1>9, <1>10

\* The extension bits of two registers make the low bits of a REX prefix.
LEMMA MasksType ==
  ASSUME NEW r \in Reg64, NEW s \in Reg64
  PROVE  ExtRegMask(r, FirstRegBit) + ExtRegMask(s, SecondRegBit) \in 0 .. 7
<1>1. 2 ^ 0 = 1 /\ 2 ^ 2 = 4
  OBVIOUS
<1>2. r \div 8 \in 0 .. 1 /\ s \div 8 \in 0 .. 1
  BY LowBits
<1>3. QED
  BY <1>1, <1>2 DEF ExtRegMask, FirstRegBit, SecondRegBit

\* So do those of a memory operand and a register.
LEMMA MemMasksType ==
  ASSUME NEW m, IsMem(m, Reg64), NEW r \in Reg64
  PROVE  MemExtRegMask(m) + ExtRegMask(r, SecondRegBit) \in 0 .. 7
<1>1. 2 ^ 0 = 1 /\ 2 ^ 1 = 2 /\ 2 ^ 2 = 4
  OBVIOUS
<1>2. r \div 8 \in 0 .. 1
  BY LowBits
<1>3. MaskOf(m.base, BaseRegBit) \in 0 .. 1
  BY <1>1, LowBits DEF MaskOf, ExtRegMask, BaseRegBit, IsMem
<1>4. MaskOf(m.index, IndexRegBit) \in {0, 2}
  <2>1. CASE m.index = None
    BY <2>1 DEF MaskOf
  <2>2. CASE m.index \in Reg64
    <3>1. m.index \div 8 \in 0 .. 1
      BY <2>2, LowBits
    <3>2. QED
      BY <1>1, <3>1 DEF MaskOf, ExtRegMask, IndexRegBit
  <2>3. QED
    BY <2>1, <2>2 DEF IsMem
<1>5. ExtRegMask(r, SecondRegBit) \in {0, 4}
  BY <1>1, <1>2 DEF ExtRegMask, SecondRegBit
<1>6. QED
  BY <1>3, <1>4, <1>5 DEF MemExtRegMask

\* WithoutIndex emits ModRM and the SIB byte that ESP and R12 force.
LEMMA WithoutIndexEmits ==
  ASSUME NEW D \in SUBSET Ptr, NEW b \in BlocksOver(D), NEW m, m.base \in Reg64,
         NEW mod \in 0 .. 3, NEW reg \in 0 .. 7,
         GetOffset(b) + (1 + EspLength(m)) + 3 < AddrSpace
  PROVE  Emits(D, b, WithoutIndex(b, m, mod, reg), 1 + EspLength(m), EspSpill(m))
<1> DEFINE base == RemoveExtRegBit(m.base)
           b1 == WriteModRegRm(b, mod, reg, base)
           n == EspLength(m)
           s == EspSpill(m)
<1>0. base \in 0 .. 7
  BY LowBits
<1> HIDE DEF base
<1>1. base \in 0 .. 7 /\ n \in Nat /\ s \in 0 .. 3 /\ 0 \in 0 .. 3 /\ 0 <= n + s /\ GetOffset(b) \in Nat /\ AddrSpace \in Nat
  BY <1>0, OffsetType, BlockAssumption DEF EspLength, EspSpill, Ptr
<1>2. GetOffset(b) + 1 + 3 < AddrSpace
  BY <1>1
<1>3. Emits(D, b, b1, 1, 0)
  BY <1>1, <1>2, ModRegRmEmits
<1>4. b1 \in BlocksOver(D) /\ GetOffset(b1) + n + 3 < AddrSpace
  BY <1>1, <1>3, EmitsRoom
<1>5. WithoutIndex(b, m, mod, reg) = WriteEspPostfix(b1, m)
  BY DEF WithoutIndex, base
<1> HIDE DEF b1
<1>6. Emits(D, b1, WriteEspPostfix(b1, m), n, s)
  BY <1>4, EspPostfixEmits
<1>7. QED
  BY <1>1, <1>3, <1>5, <1>6, EmitsThen

\* WithIndex emits ModRM and SIB.
LEMMA WithIndexEmits ==
  ASSUME NEW D \in SUBSET Ptr, NEW b \in BlocksOver(D), NEW m,
         m.index \in Reg64, m.base \in Reg64 \cup {None}, m.scale \in 0 .. 3,
         NEW mod \in 0 .. 3, NEW reg \in 0 .. 7,
         GetOffset(b) + (1 + 1) + 3 < AddrSpace
  PROVE  Emits(D, b, WithIndex(b, m, mod, reg), 1 + 1, 0)
<1> DEFINE base == IF m.base = None THEN 5 ELSE RemoveExtRegBit(m.base)
           sib == BuildSIB(m.scale, RemoveExtRegBit(m.index), base)
           b1 == WriteModRegRm(b, mod, reg, 4)
<1>1. base \in 0 .. 7 /\ RemoveExtRegBit(m.index) \in 0 .. 7
      /\ GetOffset(b) \in Nat /\ AddrSpace \in Nat
  BY LowBits, OffsetType, BlockAssumption DEF Ptr
<1> HIDE DEF base
<1>2. sib \in ByteValue
  BY <1>1, FieldsType
<1>a. WithIndex(b, m, mod, reg) = PushByte(b1, sib)
  BY DEF WithIndex, base
<1> HIDE DEF sib
<1>3. Emits(D, b, b1, 1, 0)
  BY <1>1, ModRegRmEmits
<1>4. b1 \in BlocksOver(D) /\ GetOffset(b1) + 1 + 3 < AddrSpace
  BY <1>1, <1>3, EmitsRoom
<1> HIDE DEF b1
<1>6. Emits(D, b1, PushByte(b1, sib), 1, 0)
  BY <1>2, <1>4, PushByteEmits
<1>7. QED
  BY <1>1, <1>3, <1>a, <1>6, EmitsThen

\* How many bytes a 64-bit memory operand takes: an absolute address has a SIB byte.
Mem64Length(m) == IF m.mode = "OFFSET" THEN 1 + (1 + 4) ELSE MemLength(m)

\* WriteMem64 emits exactly those, in each of the addressing modes.
LEMMA Mem64Emits ==
  ASSUME NEW D \in SUBSET Ptr, NEW b \in BlocksOver(D), NEW m, IsMem(m, Reg64),
         NEW reg \in 0 .. 7, GetOffset(b) + Mem64Length(m) + 3 < AddrSpace
  PROVE  Emits(D, b, WriteMem64(b, m, reg), Mem64Length(m), MemSpill(m))
<1> USE DEF RegInd, Disp1, Disp4
<1>0. /\ m.offset \in Int /\ m.scale \in 0 .. 3 /\ DispMod(m) \in 0 .. 3
      /\ EspLength(m) \in 0 .. 1 /\ OptimalBytes(m) \in {1, 4}
      /\ EspSpill(m) \in 0 .. 3 /\ OffsetSpill(m) \in 0 .. 3 /\ EspSpill(m) <= 1
      /\ GetOffset(b) \in Nat /\ AddrSpace \in Nat
  BY OffsetType, BlockAssumption DEF IsMem, DispMod, EspLength, EspSpill, OptimalBytes, OffsetSpill, Ptr
<1>1. CASE m.mode = "OFFSET"
  <2> DEFINE b1 == WriteModRegRm(b, RegInd, reg, 4)
             b2 == PushByte(b1, \h25)
             b3 == WriteOffset(b2, m)
  <2>1. /\ GetOffset(b) + (1 + (1 + 4)) + 3 < AddrSpace
        /\ Mem64Length(m) = 1 + (1 + 4) /\ MemSpill(m) = 0
    BY <1>0, <1>1 DEF MemSpill, Mem64Length
  <2>2. Emits(D, b, b1, 1, 0)
    BY <1>0, <2>1, ModRegRmEmits
  <2> HIDE DEF b1
  <2>3. b1 \in BlocksOver(D) /\ GetOffset(b1) + (1 + 4) + 3 < AddrSpace
    BY <1>0, <2>1, <2>2, EmitsRoom
  <2>b. \h25 \in ByteValue /\ GetOffset(b1) \in Nat
    BY <2>3, OffsetType DEF ByteValue, Ptr
  <2>4. Emits(D, b1, b2, 1, 0)
    BY <1>0, <2>3, <2>b, PushByteEmits
  <2>a. WriteMem64(b, m, reg) = b3
    BY <1>1 DEF WriteMem64, b1
  <2> HIDE DEF b2
  <2>5. b2 \in BlocksOver(D) /\ GetOffset(b2) + 4 + 3 < AddrSpace
    BY <1>0, <2>3, <2>4, EmitsRoom
  <2>6. Emits(D, b2, b3, 4, 0)
    BY <1>0, <2>5, OffsetEmits
  <2> HIDE DEF b3
  <2>7. Emits(D, b1, b3, 1 + 4, 0)
    BY <2>3, <2>4, <2>6, EmitsThen
  <2>8. QED
    BY <1>0, <2>1, <2>2, <2>7, <2>a, EmitsThen
<1>2. CASE m.mode = "BASE"
  <2>1. /\ m.base \in Reg64 /\ Mem64Length(m) = 1 + EspLength(m)
        /\ MemSpill(m) = EspSpill(m)
    BY <1>2 DEF MemSpill, Mem64Length, MemLength, IsMem, WithBase
  <2>2. WriteMem64(b, m, reg) = WithoutIndex(b, m, RegInd, reg)
    BY <1>2 DEF WriteMem64
  <2>3. QED
    BY <1>0, <2>1, <2>2, WithoutIndexEmits
<1>3. CASE m.mode = "BASE_OFFSET"
  <2> DEFINE b1 == WithoutIndex(b, m, DispMod(m), reg)
             n == 1 + EspLength(m)
             k == OptimalBytes(m)
             s == EspSpill(m)
             t == OffsetSpill(m)
  <2>1. /\ m.base \in Reg64 /\ Mem64Length(m) = n + k /\ n \in Nat /\ k \in Nat
        /\ MemSpill(m) = t /\ s \in 0 .. 3 /\ t \in 0 .. 3 /\ s <= k + t
    BY <1>0, <1>3 DEF MemSpill, Mem64Length, MemLength, IsMem, WithBase
  <2>2. WriteMem64(b, m, reg) = WriteSmallestOffset(b1, m)
    BY <1>3 DEF WriteMem64
  <2>3. GetOffset(b) + n + 3 < AddrSpace /\ GetOffset(b) + (n + k) + 3 < AddrSpace
    BY <1>0, <2>1
  <2>4. Emits(D, b, b1, n, s)
    BY <1>0, <2>1, <2>3, WithoutIndexEmits
  <2> HIDE DEF b1, n, s
  <2>5. b1 \in BlocksOver(D) /\ GetOffset(b1) + k + 3 < AddrSpace
    BY <2>1, <2>3, <2>4, EmitsRoom
  <2>6. Emits(D, b1, WriteSmallestOffset(b1, m), k, t)
    BY <1>0, <2>5, SmallestOffsetEmits
  <2>7. QED
    BY <2>1, <2>2, <2>4, <2>6, EmitsThen
<1>4. CASE m.mode = "INDEX_OFFSET"
  <2> DEFINE b1 == WithIndex(b, m, RegInd, reg)
  <2>1. /\ m.index \in Reg64 /\ m.base = None /\ Mem64Length(m) = (1 + 1) + 4
        /\ MemSpill(m) = 0
    BY <1>4 DEF MemSpill, Mem64Length, MemLength, IsMem, WithBase, WithIndexReg
  <2>2. WriteMem64(b, m, reg) = WriteOffset(b1, m)
    BY <1>4 DEF WriteMem64
  <2>3. GetOffset(b) + (1 + 1) + 3 < AddrSpace /\ GetOffset(b) + ((1 + 1) + 4) + 3 < AddrSpace
    BY <1>0, <2>1
  <2>4. Emits(D, b, b1, 1 + 1, 0)
    BY <1>0, <2>1, <2>3, WithIndexEmits
  <2> HIDE DEF b1
  <2>5. b1 \in BlocksOver(D) /\ GetOffset(b1) + 4 + 3 < AddrSpace
    BY <2>3, <2>4, EmitsRoom
  <2>6. Emits(D, b1, WriteOffset(b1, m), 4, 0)
    BY <1>0, <2>5, OffsetEmits
  <2>7. QED
    BY <2>1, <2>2, <2>4, <2>6, EmitsThen
<1>5. CASE m.mode = "BASE_INDEX"
  <2>1. /\ m.index \in Reg64 /\ m.base \in Reg64 /\ Mem64Length(m) = 1 + 1
        /\ MemSpill(m) = 0
    BY <1>5 DEF MemSpill, Mem64Length, MemLength, IsMem, WithBase, WithIndexReg
  <2>2. WriteMem64(b, m, reg) = WithIndex(b, m, RegInd, reg)
    BY <1>5 DEF WriteMem64
  <2>3. QED
    BY <1>0, <2>1, <2>2, WithIndexEmits
<1>6. CASE m.mode = "BASE_INDEX_OFFSET"
  <2> DEFINE b1 == WithIndex(b, m, DispMod(m), reg)
             k == OptimalBytes(m)
             t == OffsetSpill(m)
  <2>1. /\ m.index \in Reg64 /\ m.base \in Reg64 /\ Mem64Length(m) = (1 + 1) + k
        /\ k \in Nat /\ MemSpill(m) = t /\ t \in 0 .. 3
    BY <1>0, <1>6 DEF MemSpill, Mem64Length, MemLength, IsMem, WithBase, WithIndexReg
  <2>2. WriteMem64(b, m, reg) = WriteSmallestOffset(b1, m)
    BY <1>6 DEF WriteMem64
  <2>3. GetOffset(b) + (1 + 1) + 3 < AddrSpace /\ GetOffset(b) + ((1 + 1) + k) + 3 < AddrSpace
    BY <1>0, <2>1
  <2>4. Emits(D, b, b1, 1 + 1, 0)
    BY <1>0, <2>1, <2>3, WithIndexEmits
  <2> HIDE DEF b1
  <2>5. b1 \in BlocksOver(D) /\ GetOffset(b1) + k + 3 < AddrSpace
    BY <2>1, <2>3, <2>4, EmitsRoom
  <2>6. Emits(D, b1, WriteSmallestOffset(b1, m), k, t)
    BY <1>0, <2>5, SmallestOffsetEmits
  <2>7. QED
    BY <2>1, <2>2, <2>4, <2>6, EmitsThen
<1>7. QED
  BY <1>1, <1>2, <1>3, <1>4, <1>5, <1>6 DEF IsMem, WithBase, WithIndexReg

\* Prefixes and opcode of an extending move from a register.
RegBytes64(c) ==
  ExtendedOpcode(c.ops[1].size, c.ops[2].size, ExtendOpcode64[c.mn],
                 ExtRegMask(c.ops[1].reg, FirstRegBit) + ExtRegMask(c.ops[2].reg, SecondRegBit))
\* Prefixes and opcode of an extending move from memory.
MemBytes64(c) ==
  AddressPrefix(c.ops[2])
  \o ExtendedOpcode(c.ops[1].size, c.size, ToReg(ExtendOpcode64[c.mn]),
                    MemExtRegMask(c.ops[2].mem) + ExtRegMask(c.ops[1].reg, SecondRegBit))
\* The bytes of an x64 instruction: a function of the call alone.
Length64(c) ==
  IF c.mn \in DOMAIN Conversion64Bytes THEN Len(Conversion64Bytes[c.mn])
  ELSE CASE c.ops[2].k = "reg" -> Len(RegBytes64(c)) + 1
         [] c.ops[2].k = "mem" -> Len(MemBytes64(c)) + Mem64Length(c.ops[2].mem)

\* What it spills: its memory operand's.
Spill64(c) ==
  IF c.mn \in DOMAIN Conversion64Bytes \/ c.ops[2].k = "reg" THEN 0 ELSE MemSpill(c.ops[2].mem)

\* The conversions (CBW and the like) are one or two bytes.
LEMMA ConversionType ==
  ASSUME NEW mn \in DOMAIN Conversion64Bytes
  PROVE  /\ Conversion64Bytes[mn] \in Seq(ByteValue)
         /\ Len(Conversion64Bytes[mn]) \in 1 .. 2
<1>1. mn \in {"Cbw", "Cdq", "Cwd", "Cwde"}
  BY DEF Conversion64Bytes
<1>2. /\ \h66 \in ByteValue /\ \h98 \in ByteValue /\ \h99 \in ByteValue
  BY DEF ByteValue
<1>3. CASE mn = "Cbw"
  <2>1. Conversion64Bytes[mn] = <<\h66, \h98>>
    BY <1>3 DEF Conversion64Bytes
  <2>2. QED
    BY <1>2, <2>1
<1>4. CASE mn = "Cdq"
  <2>1. Conversion64Bytes[mn] = <<\h99>>
    BY <1>4 DEF Conversion64Bytes
  <2>2. QED
    BY <1>2, <2>1
<1>5. CASE mn = "Cwd"
  <2>1. Conversion64Bytes[mn] = <<\h66, \h99>>
    BY <1>5 DEF Conversion64Bytes
  <2>2. QED
    BY <1>2, <2>1
<1>6. CASE mn = "Cwde"
  <2>1. Conversion64Bytes[mn] = <<\h98>>
    BY <1>6 DEF Conversion64Bytes
  <2>2. QED
    BY <1>2, <2>1
<1>7. QED
  BY <1>1, <1>3, <1>4, <1>5, <1>6

\* The opcodes of the extending moves, for memory and for registers, are bytes.
LEMMA ExtendOpcodeType ==
  ASSUME NEW mn \in DOMAIN ExtendOpcode64
  PROVE  ExtendOpcode64[mn] \in ByteValue /\ ToReg(ExtendOpcode64[mn]) \in ByteValue
<1>1. ExtendOpcode64[mn] \in {\hBE, \hB6}
  BY DEF ExtendOpcode64
<1>2. 2 ^ 1 = 2
  OBVIOUS
<1>3. \A v \in {\hBE, \hB6} : v \in ByteValue /\ v + 2 \in ByteValue
  BY DEF ByteValue
<1>4. \A v \in {\hBE, \hB6} : SetBit(v, 1) \in ByteValue
  BY <1>2, <1>3 DEF SetBit
<1>5. QED
  BY <1>1, <1>3, <1>4 DEF ToReg

\* Prefixes and opcode before a memory operand are two to five bytes.
LEMMA MemBytesType ==
  ASSUME NEW c, c.mn \in DOMAIN ExtendOpcode64, c.ops[1].reg \in Reg64, IsMem(c.ops[2].mem, Reg64)
  PROVE  MemBytes64(c) \in Seq(ByteValue) /\ Len(MemBytes64(c)) \in 2 .. 5
<1> DEFINE s1 == AddressPrefix(c.ops[2])
           s2 == ExtendedOpcode(c.ops[1].size, c.size, ToReg(ExtendOpcode64[c.mn]),
                    MemExtRegMask(c.ops[2].mem) + ExtRegMask(c.ops[1].reg, SecondRegBit))
<1>1. s1 \in Seq(ByteValue) /\ Len(s1) \in 0 .. 1
  <2>1. \h67 \in ByteValue
    BY DEF ByteValue
  <2>2. s1 = <<>> \/ s1 = <<\h67>>
    BY DEF AddressPrefix
  <2> HIDE DEF s1
  <2>3. QED
    <3>1. CASE s1 = <<>>
      BY <3>1
    <3>2. CASE s1 = <<\h67>>
      BY <2>1, <3>2
    <3>3. QED
      BY <2>2, <3>1, <3>2
<1>2. s2 \in Seq(ByteValue) /\ Len(s2) \in 2 .. 4
  BY MemMasksType, ExtendOpcodeType, ExtendedOpcodeType
<1>3. MemBytes64(c) = s1 \o s2
  BY DEF MemBytes64
<1> HIDE DEF s1, s2
<1>4. s1 \o s2 \in Seq(ByteValue) /\ Len(s1 \o s2) = Len(s1) + Len(s2)
  BY <1>1, <1>2, ConcatProperties
<1>5. PICK n1 \in 0 .. 1, n2 \in 2 .. 4 : n1 = Len(s1) /\ n2 = Len(s2)
  BY <1>1, <1>2
<1>6. Len(MemBytes64(c)) = n1 + n2
  BY <1>3, <1>4, <1>5
<1>7. QED
  BY <1>3, <1>4, <1>6

\* Every x64 call that the templates accept emits its length, in every block with
\* room for it and the three bytes that may spill.
LEMMA Emits64 ==
  ASSUME NEW c, IsCall64(c)
  PROVE  /\ Length64(c) \in 1 .. 12 /\ Spill64(c) \in 0 .. 3
         /\ \A D \in SUBSET Ptr : \A b \in BlocksOver(D) :
              GetOffset(b) + Length64(c) + 3 < AddrSpace
                => Emits(D, b, Emit64(b, c).b, Length64(c), Spill64(c))
<1>0. \A b : Emit64(b, c).b = Written64(b, c)
  BY DEF Emit64
<1>s. Spill64(c) \in 0 .. 3
  BY MemSpillType DEF Spill64
<1>1. CASE c.mn \in DOMAIN Conversion64Bytes
  <2>1. Length64(c) = Len(Conversion64Bytes[c.mn]) /\ Spill64(c) = 0
    BY <1>1 DEF Length64, Spill64
  <2>2. \A b : Written64(b, c) = PushBytes(b, Conversion64Bytes[c.mn])
    BY <1>1 DEF Written64
  <2>3. QED
    BY <1>0, <1>1, <2>1, <2>2, ConversionType, PushBytesEmits
<1>2. CASE c.mn \notin DOMAIN Conversion64Bytes /\ c.ops[2].k = "reg"
  <2> DEFINE s == RegBytes64(c)
             n == Len(s)
  <2>1. c.mn \in DOMAIN ExtendOpcode64 /\ c.ops[1].reg \in Reg64 /\ c.ops[2].reg \in Reg64
    BY <1>2 DEF IsCall64
  <2>2. s \in Seq(ByteValue) /\ n \in 2 .. 4
    BY <2>1, MasksType, ExtendOpcodeType, ExtendedOpcodeType DEF RegBytes64
  <2>3. Length64(c) = n + 1 /\ Spill64(c) = 0
    BY <1>2 DEF Length64, Spill64
  <2>4. ASSUME NEW D \in SUBSET Ptr, NEW b \in BlocksOver(D),
               GetOffset(b) + (n + 1) + 3 < AddrSpace
        PROVE  Emits(D, b, Written64(b, c), n + 1, 0)
    <3> DEFINE b1 == PushBytes(b, s)
               reg == RemoveExtRegBit(c.ops[2].reg)
               rm == RemoveExtRegBit(c.ops[1].reg)
    <3>1. Written64(b, c) = WriteModRegRm(b1, RegAddr, reg, rm)
      BY <1>2 DEF Written64, TemplateRegRegExt, RegBytes64
    <3>2. reg \in 0 .. 7 /\ rm \in 0 .. 7 /\ RegAddr \in 0 .. 3
      BY <2>1, LowBits DEF RegAddr
    <3>3. GetOffset(b) + n + 3 < AddrSpace
      BY <2>2, <2>4, OffsetType, BlockAssumption DEF Ptr
    <3> HIDE DEF s, reg, rm
    <3>4. Emits(D, b, b1, n, 0)
      BY <2>2, <3>3, PushBytesEmits
    <3>5. b1 \in BlocksOver(D) /\ GetOffset(b1) + 1 + 3 < AddrSpace
      BY <2>2, <2>4, <3>4, EmitsRoom
    <3> HIDE DEF b1
    <3>6. Emits(D, b1, WriteModRegRm(b1, RegAddr, reg, rm), 1, 0)
      BY <3>2, <3>5, ModRegRmEmits
    <3>7. QED
      BY <2>2, <3>1, <3>4, <3>6, EmitsThen
  <2> HIDE DEF n
  <2>5. QED
    BY <1>0, <2>2, <2>3, <2>4
<1>3. CASE c.mn \notin DOMAIN Conversion64Bytes /\ c.ops[2].k = "mem"
  <2> DEFINE s == MemBytes64(c)
             m == c.ops[2].mem
             n == Len(s)
             k == Mem64Length(m)
             s1 == MemSpill(m)
  <2>1. c.mn \in DOMAIN ExtendOpcode64 /\ c.ops[1].reg \in Reg64 /\ IsMem(m, Reg64)
    BY <1>3 DEF IsCall64
  <2>2. s \in Seq(ByteValue) /\ n \in 2 .. 5
    BY <2>1, MemBytesType
  <2>3. Length64(c) = n + k /\ Spill64(c) = s1
    BY <1>3 DEF Length64, Spill64
  <2>a. k \in 1 .. 6 /\ s1 \in 0 .. 3
    BY <2>1, MemLengthType, MemSpillType DEF Mem64Length
  <2>4. ASSUME NEW D \in SUBSET Ptr, NEW b \in BlocksOver(D),
               GetOffset(b) + (n + k) + 3 < AddrSpace
        PROVE  Emits(D, b, Written64(b, c), n + k, s1)
    <3> DEFINE b1 == PushBytes(b, s)
               reg == RemoveExtRegBit(c.ops[1].reg)
    <3>1. Written64(b, c) = WriteMem64(b1, m, reg)
      BY <1>3 DEF Written64, TemplateRegMemExt, MemBytes64
    <3>2. reg \in 0 .. 7
      BY <2>1, LowBits
    <3>3. GetOffset(b) + n + 3 < AddrSpace
      BY <2>2, <2>a, <2>4, OffsetType, BlockAssumption DEF Ptr
    <3>z. n \in Nat /\ k \in Nat /\ 0 \in 0 .. 3
      BY <2>2, <2>a
    <3> HIDE DEF s, reg, m, k, s1
    <3>4. Emits(D, b, b1, n, 0)
      BY <2>2, <3>3, PushBytesEmits
    <3>5. b1 \in BlocksOver(D) /\ GetOffset(b1) + k + 3 < AddrSpace
      BY <2>2, <2>a, <2>4, <3>4, <3>z, EmitsRoom
    <3> HIDE DEF b1
    <3>6. Emits(D, b1, WriteMem64(b1, m, reg), k, s1)
      BY <2>1, <3>2, <3>5, Mem64Emits DEF k, s1
    <3>7. n \in Nat /\ k \in Nat /\ 0 \in 0 .. 3 /\ s1 \in 0 .. 3 /\ 0 <= k + s1
      BY <2>2, <2>a
    <3> HIDE DEF n
    <3>8. Emits(D, b, WriteMem64(b1, m, reg), n + k, s1)
      BY <3>4, <3>6, <3>7, EmitsThen
    <3>9. QED
      BY <3>1, <3>8
  <2> HIDE DEF n, k, s1
  <2>5. QED
    BY <1>0, <2>2, <2>3, <2>4, <2>a
<1>4. QED
  BY <1>1, <1>2, <1>3, <1>s DEF IsCall64
====
