----------------------------- MODULE ByteStream -----------------------------
(***************************************************************************)
(* What a code block is to those who do not read it: a row of byte         *)
(* strings, one for each instruction.  A client of the assembler can add a *)
(* string at the end, change the bytes of one string, or cut the row       *)
(* short.  Strings never grow or shrink, and no step touches two of them.  *)
(***************************************************************************)
EXTENDS Naturals, Sequences

VARIABLE stream     \* a sequence of sequences of bytes

Init == stream = <<>>

Add ==
  /\ Len(stream') = Len(stream) + 1
  /\ \A j \in DOMAIN stream : stream'[j] = stream[j]

Change ==
  \E i \in DOMAIN stream :
    /\ Len(stream') = Len(stream)
    /\ Len(stream'[i]) = Len(stream[i])
    /\ \A j \in DOMAIN stream \ {i} : stream'[j] = stream[j]

Cut ==
  \E n \in 0 .. Len(stream) :
    /\ Len(stream') = n
    /\ \A j \in 1 .. n : stream'[j] = stream[j]

Next == Add \/ Change \/ Cut

Spec == Init /\ [][Next]_stream
=============================================================================
