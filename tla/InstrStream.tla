---------------------------- MODULE InstrStream ----------------------------
(***************************************************************************)
(* What a code block is to the processor that will run it: a stream of     *)
(* instructions.  A client of the assembler can add an instruction at the  *)
(* end, amend one operand of one instruction, put another instruction of   *)
(* the same length in the place of one, or cut the stream short.  Nothing  *)
(* it does has any other effect.                                           *)
(***************************************************************************)
EXTENDS Naturals, Sequences

CONSTANT Asked(_)   \* whether an instruction is one that the client asks for

VARIABLE stream     \* instructions [mn, size, lock, rep, ops, len]

OnlyAt(i) ==
  /\ DOMAIN stream' = DOMAIN stream
  /\ \A j \in DOMAIN stream \ {i} : stream'[j] = stream[j]

Init == stream = <<>>

Add ==
  /\ Len(stream') = Len(stream) + 1
  /\ SubSeq(stream', 1, Len(stream)) = stream
  /\ Asked(stream'[Len(stream')])

Amend ==
  \E i \in DOMAIN stream : \E k \in DOMAIN stream[i].ops :
    /\ OnlyAt(i)
    /\ DOMAIN stream'[i].ops = DOMAIN stream[i].ops
    /\ stream'[i] = [stream[i] EXCEPT !.ops[k] = stream'[i].ops[k]]

Exchange ==
  \E i \in DOMAIN stream :
    /\ OnlyAt(i)
    /\ stream'[i].len = stream[i].len
    /\ Asked(stream'[i])

Cut == \E n \in 0 .. Len(stream) : stream' = SubSeq(stream, 1, n)

Next == Add \/ Amend \/ Exchange \/ Cut

Spec == Init /\ [][Next]_stream
=============================================================================
