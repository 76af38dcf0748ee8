--------------------------- MODULE MCCodeBlocks ---------------------------
(* Instances of CodeBlocks for TLC: two blocks, two byte values, and data  *)
(* of one and of two bytes.                                                *)
EXTENDS CodeBlocks

CONSTANTS b0, b1, fresh, foreign, x, y

MCByte == {x, y}
MCData == {<<x>>, <<y, y>>}
=============================================================================
