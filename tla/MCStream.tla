------------------------------ MODULE MCStream ------------------------------
(* The programs of MCAssembler for module AssemblerStream. *)
EXTENDS MCAssembler, AssemblerStream
=============================================================================
