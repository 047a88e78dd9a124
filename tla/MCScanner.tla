------------------------------ MODULE MCScanner -----------------------------
(***************************************************************************)
(* Scanner on small instances.  Birth height 2 or 3 leaves one or two      *)
(* heights before it for early rescans; the file is saved every second     *)
(* height instead of every hundredth.                                      *)
(***************************************************************************)
EXTENDS Scanner, TLC

Symmetry == Permutations(UTXO)
=============================================================================
