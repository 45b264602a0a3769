--------------------------- MODULE CompareBlocks ---------------------------
(***************************************************************************)
(* CompareDeviceBlocks of lvbackup/thindelta/thindelta.go with             *)
(* ExpandRangeMappings of format.go: the difference between two devices of *)
(* a dump of the pool's metadata, by merging their sorted mappings.  The   *)
(* devices are held by pointer: a comparison expands them in place, and    *)
(* the next one finds them so.  Indices start at 1 here.                   *)
(***************************************************************************)
EXTENDS Digests, FiniteSets

CONSTANTS
  Id,       \* the devices of the dump
  Nil,      \* the nil pointer
  MaxCalls  \* how often the function is called: bounds the model

ASSUME NilAssumption   == Nil \notin Id
ASSUME CallsAssumption == MaxCalls \in Nat

VARIABLES
  devices,  \* the devices pointed to
  src, dst, \* the arguments
  i, j,     \* the indices of the merging loop
  diff,     \* the slice entries
  cpc,      \* where the function is
  calls     \* how often it was called

compareVars == <<devices, src, dst, i, j, diff, cpc, calls>>

Mapping == [origin : Nat, data : Nat]
RangeMapping == [begin : Nat, data : Nat, length : Nat]
Device == [singles : Seq(Mapping), ranges : Seq(RangeMapping), mapped : Nat]

Elements(s) == {s[k] : k \in 1..Len(s)}

Extras(ranges) ==
  UNION {{[origin |-> r.begin + n, data |-> r.data + n] : n \in 0..(r.length - 1)} :
           r \in Elements(ranges)}

\* What a device says, in either way of writing it.
Mapped(d) == Elements(d.singles) \cup Extras(d.ranges)

OneToOne(M) == \A m, n \in M : m.origin = n.origin => m = n

\* A dump names each block of a device once.
NamesOnce(d) ==
  /\ OneToOne(Mapped(d))
  /\ \A k, l \in 1..Len(d.singles) : d.singles[k] = d.singles[l] => k = l
  /\ Elements(d.singles) \cap Extras(d.ranges) = {}
  /\ \A k, l \in 1..Len(d.ranges) :
       k # l => Extras(<<d.ranges[k]>>) \cap Extras(<<d.ranges[l]>>) = {}

Source == devices[src].singles
Dest == devices[dst].singles

CompareInit ==
  /\ devices \in [Id -> Device]
  /\ \A d \in Id : NamesOnce(devices[d])
  /\ src = Nil
  /\ dst \in Id
  /\ i = 1 /\ j = 1
  /\ diff = <<>>
  /\ cpc = "idle"
  /\ calls = 0

Call ==
  /\ cpc \in {"idle", "done", "failed"}
  /\ calls < MaxCalls
  /\ calls' = calls + 1
  /\ src' \in Id \cup {Nil}
  /\ dst' \in Id
  /\ i' = 1 /\ j' = 1
  /\ diff' = <<>>
  /\ cpc' = "dst"
  /\ UNCHANGED devices

CountMatches(d) == Len(d.singles) + Cardinality(Extras(d.ranges)) = d.mapped

\* Wrong on purpose: what a plausible bug would make of the next definition.
ExpandedMutant(d, s) == [d EXCEPT !.singles = s]

Expanded(d, s) == [d EXCEPT !.singles = s, !.ranges = <<>>]

\* ExpandRangeMappings: the ranges become single mappings, all of them sorted.
Expand(id) ==
  LET d == devices[id] IN
  /\ CountMatches(d)
  /\ \E s \in [1..d.mapped -> Mapped(d)] :
       /\ Ascending(s)
       /\ Elements(s) = Mapped(d)
       /\ devices' = [devices EXCEPT ![id] = Expanded(d, s)]

\* Its error, which ends the comparison.
ExpandFails ==
  /\ \/ cpc = "dst" /\ ~CountMatches(devices[dst])
     \/ cpc = "src" /\ ~CountMatches(devices[src])
  /\ cpc' = "failed"
  /\ UNCHANGED <<devices, src, dst, i, j, diff, calls>>

ExpandDst ==
  /\ cpc = "dst"
  /\ Expand(dst)
  /\ cpc' = IF src = Nil THEN "create" ELSE "src"
  /\ UNCHANGED <<src, dst, i, j, diff, calls>>

\* One entry for each mapping of a list from an index on.
Rest(s, from, op) ==
  [k \in 1..(Len(s) - from + 1) |-> Entry(s[from+k-1].origin, op)]

\* Without a source everything is new.
CreateAll ==
  /\ cpc = "create"
  /\ diff' = Rest(Dest, 1, DeltaOpCreate)
  /\ cpc' = "done"
  /\ UNCHANGED <<devices, src, dst, i, j, calls>>

ExpandSrc ==
  /\ cpc = "src"
  /\ Expand(src)
  /\ cpc' = "merge"
  /\ UNCHANGED <<src, dst, i, j, diff, calls>>

Merging == cpc = "merge" /\ i <= Len(Source) /\ j <= Len(Dest)

InSourceOnly ==
  /\ Merging
  /\ Source[i].origin < Dest[j].origin
  /\ diff' = Append(diff, Entry(Source[i].origin, DeltaOpDelete))
  /\ i' = i + 1
  /\ UNCHANGED <<devices, src, dst, j, cpc, calls>>

\* Wrong on purpose: what a plausible bug would make of the next definition.
InBothMutant ==
  /\ Merging
  /\ Source[i].origin = Dest[j].origin
  /\ diff' = Append(diff, Entry(Dest[j].origin, DeltaOpUpdate))
  /\ i' = i + 1
  /\ j' = j + 1
  /\ UNCHANGED <<devices, src, dst, cpc, calls>>

InBoth ==
  /\ Merging
  /\ Source[i].origin = Dest[j].origin
  /\ diff' = IF Source[i].data # Dest[j].data
             THEN Append(diff, Entry(Dest[j].origin, DeltaOpUpdate)) ELSE diff
  /\ i' = i + 1
  /\ j' = j + 1
  /\ UNCHANGED <<devices, src, dst, cpc, calls>>

\* Wrong on purpose: what a plausible bug would make of the next definition.
InDestOnlyMutant ==
  /\ Merging
  /\ Source[i].origin > Dest[j].origin
  /\ diff' = Append(diff, Entry(Source[i].origin, DeltaOpCreate))
  /\ j' = j + 1
  /\ UNCHANGED <<devices, src, dst, i, cpc, calls>>

InDestOnly ==
  /\ Merging
  /\ Source[i].origin > Dest[j].origin
  /\ diff' = Append(diff, Entry(Dest[j].origin, DeltaOpCreate))
  /\ j' = j + 1
  /\ UNCHANGED <<devices, src, dst, i, cpc, calls>>

\* Wrong on purpose: what a plausible bug would make of the next definition.
MergeRestMutant ==
  /\ cpc = "merge" /\ ~Merging
  /\ diff' = diff \o Rest(Source, i, DeltaOpDelete)
  /\ cpc' = "done"
  /\ UNCHANGED <<devices, src, dst, i, j, calls>>

\* The loops over what is left of either list.
MergeRest ==
  /\ cpc = "merge" /\ ~Merging
  /\ diff' = diff \o Rest(Source, i, DeltaOpDelete) \o Rest(Dest, j, DeltaOpCreate)
  /\ cpc' = "done"
  /\ UNCHANGED <<devices, src, dst, i, j, calls>>

CompareNext ==
  \/ Call \/ ExpandDst \/ ExpandSrc \/ ExpandFails \/ CreateAll
  \/ InSourceOnly \/ InBoth \/ InDestOnly \/ MergeRest

CompareSpec == CompareInit /\ [][CompareNext]_compareVars

-----------------------------------------------------------------------------
Origins(M) == {m.origin : m \in M}

\* The difference of two devices, as sets of mappings.
Difference(old, new) ==
  {Entry(b, DeltaOpDelete) : b \in Origins(old) \ Origins(new)}
    \cup {Entry(b, DeltaOpCreate) : b \in Origins(new) \ Origins(old)}
    \cup {Entry(m.origin, DeltaOpUpdate) :
            m \in {n \in new : \E o \in old : o.origin = n.origin /\ o.data # n.data}}

Old == IF src = Nil THEN {} ELSE Mapped(devices[src])

\* The two indices run through both lists without skipping a block, taking one for
\* another or visiting one twice, whatever part of the devices is written in ranges
\* and however often they were compared before.
DiffRight ==
  cpc = "done" => /\ Ascending(diff)
                  /\ Elements(diff) = Difference(Old, Mapped(devices[dst]))

\* A dump that is right is never refused: devices that were expanded by an earlier
\* comparison, or that are both arguments of one, are counted right again.
RefusesOnlyMiscounted ==
  cpc = "failed" =>
    \E d \in {src, dst} \ {Nil} : Cardinality(Mapped(devices[d])) # devices[d].mapped

-----------------------------------------------------------------------------
(* The inductive invariant.                                                *)

CompareTypeOK ==
  /\ devices \in [Id -> Device]
  /\ src \in Id \cup {Nil}
  /\ dst \in Id
  /\ i \in Nat \ {0} /\ j \in Nat \ {0}
  /\ diff \in Seq(DeltaEntry)
  /\ cpc \in {"idle", "dst", "src", "create", "merge", "done", "failed"}
  /\ calls \in Nat

Flat(d) == d.ranges = <<>> /\ Ascending(d.singles)

\* Which devices were expanded when, and what the loop starts from.
Prepared ==
  /\ \A d \in Id : OneToOne(Mapped(devices[d]))
  /\ cpc \in {"dst", "src", "create"} => i = 1 /\ j = 1 /\ diff = <<>>
  /\ cpc \in {"src", "create", "merge"} => Flat(devices[dst])
  /\ cpc \in {"src", "merge"} => src \in Id
  /\ cpc = "create" => src = Nil
  /\ cpc = "merge" => Flat(devices[src])

\* The blocks the two indices have passed.
Passed ==
  {Source[k].origin : k \in 1..(i-1)} \cup {Dest[l].origin : l \in 1..(j-1)}

\* The loop has the difference as far as it got, and either list goes on behind it.
MergedSoFar ==
  cpc = "merge" =>
    /\ i <= Len(Source) + 1 /\ j <= Len(Dest) + 1
    /\ Ascending(diff)
    /\ Elements(diff) =
         {e \in Difference(Old, Mapped(devices[dst])) : e.origin \in Passed}
    /\ i <= Len(Source) => \A b \in Passed : b < Source[i].origin
    /\ j <= Len(Dest) => \A b \in Passed : b < Dest[j].origin

MergeInv == CompareTypeOK /\ Prepared /\ MergedSoFar /\ DiffRight

\* However a device was expanded, it still names each of its blocks once.
NamedOnce == \A d \in Id : NamesOnce(devices[d])

CompareInv == MergeInv /\ NamedOnce /\ RefusesOnlyMiscounted

=============================================================================
