------------------------------ MODULE Digests ------------------------------
(***************************************************************************)
(* What an entry of a delta says of its chunk, and which chunks            *)
(* GenChecksum digests, in closed form, for a delta whose entries are at   *)
(* the chunks S.  GenChecksum.tla has the loops.                           *)
(***************************************************************************)
EXTENDS Integers, Sequences

DeltaOpCreate == "create"
DeltaOpUpdate == "update"
DeltaOpDelete == "delete"
DeltaOpIgnore == "ignore"
DeltaOpType == {DeltaOpCreate, DeltaOpUpdate, DeltaOpDelete, DeltaOpIgnore}

DeltaEntry == [origin : Nat, op : DeltaOpType]

Entry(b, op) == [origin |-> b, op |-> op]

\* Sorted by origin block, which entries and mappings have both.
Ascending(s) == \A k, l \in 1..Len(s) : k < l => s[k].origin < s[l].origin

\* Where a digest starts: chunk 0, and every entry after a gap.
RunHeads(S) == {b \in S : b = 0 \/ b - 1 \notin S}

\* How many chunks it covers: the inner loop goes on at level 3 only, and measures
\* the distance from the head of the run, so it stops after the second chunk.
DigestLength(S, level, b) == IF level = 3 /\ b + 1 \in S THEN 2 ELSE 1

\* The first entry is not chunk 0: the outer loop looks at blocks[-1].
ChecksumPanics(S) == S # {} /\ 0 \notin S

=============================================================================
