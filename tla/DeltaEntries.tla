---------------------------- MODULE DeltaEntries ----------------------------
(***************************************************************************)
(* What thin_delta prints of two volumes, and ExpandBlocks of              *)
(* lvbackup/thindelta/thindelta.go, which makes entries of it.             *)
(***************************************************************************)
EXTENDS Digests, SequencesExt

\* thin_delta prints the longest ranges of chunks that fare alike, in order;
\* "none" are chunks that neither volume has.
Fates == {"none", "different", "left_only", "right_only", "same"}

Runs(B) ==
  {r \in [begin : B, length : 1..Cardinality(B)] :
     /\ r.begin..(r.begin + r.length - 1) \subseteq B
     /\ r.begin - 1 \notin B
     /\ r.begin + r.length \notin B}

\* Each range once; nothing that is made of them depends on the order.
DeltaBlocks(fate) ==
  [f \in Fates |-> SetToSeq(Runs({b \in DOMAIN fate : fate[b] = f}))]

OfRanges(ranges, op) ==
  FlattenSeq([k \in 1..Len(ranges) |->
                [n \in 1..ranges[k].length |-> Entry(ranges[k].begin + n - 1, op)]])

\* The places whose entries do not come behind that at n: of equals, which thin_delta
\* does not print, the first stays first.
UpTo(s, n) ==
  {m \in 1..Len(s) : \/ s[m].origin < s[n].origin
                     \/ s[m].origin = s[n].origin /\ m <= n}

\* sort.Sort by entryByOrigin.
Sorted(s) ==
  [k \in 1..Len(s) |-> s[CHOOSE n \in 1..Len(s) : Cardinality(UpTo(s, n)) = k]]

\* Wrong on purpose: what a plausible bug would make of the next definition.
ExpandBlocksMutant(deltablocks) ==
  LET entries == OfRanges(deltablocks["different"], DeltaOpUpdate)
                   \o OfRanges(deltablocks["left_only"], DeltaOpCreate)
                   \o OfRanges(deltablocks["right_only"], DeltaOpDelete)
                   \o OfRanges(deltablocks["same"], DeltaOpIgnore)
  IN [entries |-> Sorted(entries),
      count |-> Len(entries)]

\* The entries, and how many there were before those that are not sent.
ExpandBlocks(deltablocks) ==
  LET changed == OfRanges(deltablocks["different"], DeltaOpUpdate)
                   \o OfRanges(deltablocks["left_only"], DeltaOpCreate)
                   \o OfRanges(deltablocks["right_only"], DeltaOpDelete)
      all == changed \o OfRanges(deltablocks["same"], DeltaOpIgnore)
  IN [entries |-> Sorted(all),
      count |-> Len(changed)]

=============================================================================
