------------------------------ MODULE MCTTree ------------------------------
(***************************************************************************)
(* The call tree store with an arbitrary client.                           *)
(***************************************************************************)
EXTENDS TTreeClient, TLC

(* Names are only compared: permuting them changes nothing.                *)
Symmetry == Permutations(Fun) \cup Permutations(File)
=============================================================================
