--------------------------- MODULE MCAssociationRx ---------------------------
(* Values for the constants of AssociationRx that a .cfg cannot express. *)
EXTENDS AssociationRx

Chunk(k, stream, ssn, lo, hi, unordered, begin, end) ==
    [tsn |-> Ahead(InitTsn, k), stream_id |-> stream, stream_seq_num |-> ssn,
     lo |-> lo, hi |-> hi, unordered |-> unordered, begin |-> begin, end |-> end]

(* A message in three fragments, one on another stream, one in two fragments. *)
MCOrdered ==
    {Chunk(0, 0, 0, 0, 2, FALSE, TRUE, FALSE), Chunk(1, 0, 0, 2, 3, FALSE, FALSE, FALSE),
     Chunk(2, 0, 0, 3, 4, FALSE, FALSE, TRUE), Chunk(3, 1, 0, 4, 5, FALSE, TRUE, TRUE),
     Chunk(4, 0, 1, 5, 6, FALSE, TRUE, FALSE), Chunk(5, 0, 1, 6, 7, FALSE, FALSE, TRUE)}

(* The last chunk is of a stream that the receiver does not have. *)
MCUnknownStream ==
    MCOrdered \cup {Chunk(6, 1, 1, 7, 8, FALSE, TRUE, TRUE),
                    Chunk(7, InStreams, 0, 8, 9, FALSE, TRUE, TRUE)}

(* The last message is unordered. *)
MCUnordered == MCOrdered \cup {Chunk(6, 0, 2, 7, 8, TRUE, TRUE, TRUE)}
=============================================================================
