-------------------------------- MODULE MCU4 --------------------------------
(***************************************************************************)
(* Small instances of U4 for TLC.                                          *)
(***************************************************************************)
EXTENDS U4Refinement, TLC

ChunkSymmetry == Permutations(Chunks)
OneBlink == {<<1, 1>>}
=============================================================================
