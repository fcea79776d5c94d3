----------------------------- MODULE MCTransfer -----------------------------
(* Values for the constants of Transfer that a .cfg cannot express. *)
EXTENDS Transfer

(* Every report about the TSNs that can be outstanding at once. *)
MCGapBlocks == {B \in SUBSET ((2 .. WrapRad) \X (2 .. WrapRad)) : AreGapBlocks(B)}
MCARwnds == 0 .. InBufferLimit
=============================================================================
