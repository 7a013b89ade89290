------------------------------ MODULE BulkSlice ------------------------------
(***************************************************************************)
(* SnapshotController.read_next_slice as the loop it is: one bisect on the *)
(* sorted array of OIDs, then a scan that stops at the count or before the *)
(* byte budget is exceeded.  SnapshotServer uses what it computes, as a    *)
(* set; SliceIsTheLoop says that the two agree.                            *)
(***************************************************************************)
EXTENDS SnapshotServer, Sequences, SequencesExt

\* The position of the first entry after name.
BisectRight(oids, name) ==
    Cardinality({i \in DOMAIN oids : oids[i] <= name}) + 1

\* Mutation of SliceStep: the budget applies to the first entry as well.
SliceStepStrict(acc, oid) ==
    IF acc.stop \/ Len(acc.out) >= Repetitions
       \/ acc.used + Size[oid] > Budget
    THEN [acc EXCEPT !.stop = TRUE]
    ELSE [acc EXCEPT !.out = Append(@, oid), !.used = @ + Size[oid]]

\* One turn of the loop: the first entry is taken whatever its size.
SliceStep(acc, oid) ==
    IF acc.stop \/ Len(acc.out) >= Repetitions
       \/ (acc.out # <<>> /\ acc.used + Size[oid] > Budget)
    THEN [acc EXCEPT !.stop = TRUE]
    ELSE [acc EXCEPT !.out = Append(@, oid), !.used = @ + Size[oid]]

\* An empty result becomes one endOfMibView.
ReadNextSlice(oids, name) ==
    LET rest == SubSeq(oids, BisectRight(oids, name), Len(oids))
    IN FoldLeft(SliceStep, [out |-> <<>>, used |-> 0, stop |-> FALSE], rest).out

\* ctrl.oids: the OIDs of a snapshot in their order, each of them once.
Arrays(s) ==
    {oids \in [1..Cardinality(s) -> s] :
         \A i, j \in 1..Cardinality(s) : i < j => oids[i] < oids[j]}

\* Every slice the server answers with is what the code's loop produces, in
\* the order of the OIDs.  It depends on the snapshot alone, so the states
\* before a walk, in which every snapshot is served, are enough.
SliceIsTheLoop ==
    walk = "idle" => \A x \in Oids \cup {0}, oids \in Arrays(served.oids) :
        LET out == ReadNextSlice(oids, x)
        IN /\ ToSet(out) = NextSlice(served.oids, x)
           /\ \A i \in 1..(Len(out) - 1) : out[i] < out[i + 1]
==============================================================================
