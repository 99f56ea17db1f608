----------------------------- MODULE MCDbSlots -----------------------------
(* Instances of DbSlots for TLC. *)
EXTENDS DbSlots, TLC

ReaderSymmetry == Permutations(Readers)
=============================================================================
