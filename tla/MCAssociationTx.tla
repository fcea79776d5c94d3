--------------------------- MODULE MCAssociationTx ---------------------------
(* Values for the constants of AssociationTx that a .cfg cannot express. *)
EXTENDS AssociationTx

MCGapBlocks == {{}, {<<2, 2>>}, {<<2, 3>>}, {<<3, 3>>}}
MCTwoBlocks == {{}, {<<2, 2>>, <<4, 4>>}}

(***************************************************************************)
(* Bound: control chunks, probes and the shutdown are explored with the    *)
(* first MCControlChunks chunks; the rest of the stream, up to and past    *)
(* the wrap of the TSNs, is data only.                                     *)
(***************************************************************************)
MCControlChunks == 2
Quiet == send_next = <<>> /\ shutdown_state = "None" /\ probed = {}
ControlIsEarly == Quiet \/ Len(out_queue) + Cardinality(wire) <= MCControlChunks
=============================================================================
