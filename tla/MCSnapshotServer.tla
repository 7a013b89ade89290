--------------------------- MODULE MCSnapshotServer ---------------------------
(* SnapshotServer on four rows, with the loop of the code. *)
EXTENDS BulkSlice

McSize == [o \in Oids |-> IF o = 2 THEN 5 ELSE 2]
==============================================================================
