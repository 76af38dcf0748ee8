---------------------------- MODULE Subroutine ----------------------------
(***************************************************************************)
(* What a program that calls a function relies on: between the call and    *)
(* the return the caller sees nothing; the function does return; and then  *)
(* the world is what was promised for these arguments, in every part the   *)
(* caller can observe, the registers that a function must preserve and the *)
(* stack included.                                                         *)
(***************************************************************************)
CONSTANTS
  IsCall(_),         \* whether there is such a call
  Promised(_, _)     \* the world after a call, from the world before it

VARIABLES
  world,     \* what the caller can observe
  pending    \* the call that has not returned, or NoCall

NoCall == <<>>
vars == <<world, pending>>

Begin ==
  /\ pending = NoCall
  /\ pending' # NoCall /\ IsCall(pending')
  /\ UNCHANGED world

Return ==
  /\ pending # NoCall
  /\ world' = Promised(world, pending)
  /\ pending' = NoCall

Init == pending = NoCall
Next == Begin \/ Return

EveryCallReturns == pending # NoCall ~> pending = NoCall

Spec == Init /\ [][Next]_vars /\ EveryCallReturns
=============================================================================
