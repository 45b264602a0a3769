------------------------------- MODULE Deltas -------------------------------
(***************************************************************************)
(* Two volumes, what thin_delta prints of them, the entries and digests    *)
(* lvdiff makes of that, and what the library finds when it compares the   *)
(* two in a dump of the metadata.  The digests and the comparison share    *)
(* nothing and run in different behaviours: digests at every level but 0,  *)
(* where GenChecksum does nothing, comparisons at level 0.                 *)
(***************************************************************************)
EXTENDS DeltaEntries, GenChecksum, CompareBlocks

CONSTANTS
  MaxBlock,       \* the highest chunk number: bounds the model
  MaxCompared,    \* the highest chunk of volumes that are compared: the same
  PlaceA, PlaceB  \* where in the pool a volume has a chunk of its own

ASSUME MaxBlockAssumption == MaxBlock \in Nat /\ MaxCompared \in 0..MaxBlock
ASSUME VolumesAssumption  == Id = {"A", "B"}
ASSUME PlacesAssumption   ==
  /\ PlaceA \in [0..MaxBlock -> Nat] /\ PlaceB \in [0..MaxBlock -> Nat]
  /\ \A b \in 0..MaxBlock : PlaceA[b] # PlaceB[b]

VARIABLES
  fate,      \* how each chunk fares
  expanded   \* what Delta returns

vars == <<fate, expanded, checksumVars, compareVars>>

\* B shares the chunks that are the same with A.
Place(id, b) == IF id = "B" /\ fate[b] # "same" THEN PlaceB[b] ELSE PlaceA[b]

Provisioned(id) ==
  {b \in DOMAIN fate : fate[b] \in {"same", "different",
                                   IF id = "A" THEN "left_only" ELSE "right_only"}}

\* The stretches a dump can write as one range.
Stretches(id) ==
  {[begin |-> r.begin, data |-> Place(id, r.begin), length |-> r.length] : r \in
     {r \in UNION {Runs({b \in Provisioned(id) : Place(id, b) = b + shift}) :
                     shift \in {Place(id, b) - b : b \in Provisioned(id)}} :
        r.length > 1}}

\* What a dump may say of a volume: any stretch as a range or block by block.  A
\* damaged one may count wrong.
Dumps(id, miscounts) ==
  {LET ranges == SetToSeq(R)
       rest == {[origin |-> b, data |-> Place(id, b)] : b \in Provisioned(id)}
                 \ Extras(ranges)
   IN [singles |-> SetToSeq(rest),
       ranges |-> ranges,
       mapped |-> Cardinality(Provisioned(id)) + extra] :
      R \in SUBSET Stretches(id), extra \in miscounts}

Init ==
  /\ fate \in [0..MaxBlock -> Fates]
  /\ expanded = ExpandBlocks(DeltaBlocks(fate))
  /\ ChecksumInit(expanded.entries)
  /\ level = 0 => \A b \in DOMAIN fate : b > MaxCompared => fate[b] = "none"
  /\ \E A \in Dumps("A", {0, 1}), B \in Dumps("B", {0}) :
       /\ devices = [id \in Id |-> IF id = "A" THEN A ELSE B]
       /\ level # 0 => A.ranges = <<>> /\ B.ranges = <<>>
                        /\ A.mapped = Cardinality(Provisioned("A"))
  /\ CompareInit

\* The calls have returned, or the program is gone.
Ended ==
  /\ pc \in {"done", "panicked"}
  /\ level = 0 => cpc \in {"done", "failed"}
  /\ UNCHANGED vars

Next ==
  \/ level # 0 /\ ChecksumNext /\ UNCHANGED <<fate, expanded, compareVars>>
  \/ level = 0 /\ CompareNext /\ UNCHANGED <<fate, expanded, checksumVars>>
  \/ Ended

Spec == Init /\ [][Next]_vars

-----------------------------------------------------------------------------
\* What lvdiff goes by (ExpandBlocks) has each provisioned chunk once, in ascending
\* order, for what thin_delta said of it, however its ranges interleave; and the
\* count for the header is that of the entries that will be sent.
EntriesTrue ==
  LET es == expanded.entries IN
  /\ Ascending(es)
  /\ Elements(es) =
       {Entry(b, CASE fate[b] = "different" -> DeltaOpUpdate
                   [] fate[b] = "left_only" -> DeltaOpCreate
                   [] fate[b] = "right_only" -> DeltaOpDelete
                   [] fate[b] = "same" -> DeltaOpIgnore) :
          b \in {b \in DOMAIN fate : fate[b] # "none"}}
  /\ expanded.count = Cardinality({k \in 1..Len(es) : es[k].op # DeltaOpIgnore})

\* The two ways to a delta that the package has agree: merging the mappings of B
\* and of A gives the entries of thin_delta but for those that are not sent, in the
\* same order.
AgreesWithThinDelta ==
  cpc = "done" /\ src = "B" /\ dst = "A" =>
    /\ Ascending(diff)
    /\ Elements(diff) = {e \in Elements(expanded.entries) : e.op # DeltaOpIgnore}

=============================================================================
