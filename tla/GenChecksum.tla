---------------------------- MODULE GenChecksum ----------------------------
(***************************************************************************)
(* The loops of GenChecksum (lvbackup/thindelta/thin_volume_check.go) over *)
(* the sorted entries of a delta.  A digest stands for the sequence of the *)
(* chunks that were read for it.  Indices start at 1 here.                 *)
(***************************************************************************)
EXTENDS Digests

CONSTANT Levels   \* values of the parameter level

ASSUME LevelsAssumption == Levels \subseteq Int

VARIABLES
  entries,  \* the parameter blocks
  level,
  pc,       \* which loop is running, or how the function ended
  p, q,
  ret,      \* the digests made
  hash      \* the chunks written to the digest in the making

checksumVars == <<entries, level, pc, p, q, ret, hash>>

ChecksumInit(blocks) ==
  /\ entries = blocks
  /\ level \in Levels
  /\ pc = IF level = 0 THEN "done" ELSE "outer"
  /\ p = 1 /\ q = 1
  /\ ret = <<>>
  /\ hash = <<>>

LeaveLoop ==
  /\ pc = "outer"
  /\ p > Len(entries)
  /\ pc' = "done"
  /\ UNCHANGED <<entries, level, p, q, ret, hash>>

\* Wrong on purpose: what a plausible bug would make of the next definition.
GapMutant == entries[p].origin - entries[p-1].origin >= 1

Gap == entries[p].origin - entries[p-1].origin > 1

\* The condition of the outer loop; Go evaluates blocks[p-1] unless the first
\* disjunct holds.
Turn ==
  /\ pc = "outer"
  /\ p <= Len(entries)
  /\ \/ /\ entries[p].origin # 0 /\ p = 1
        /\ pc' = "panicked"
        /\ UNCHANGED <<p, q, hash>>
     \/ /\ entries[p].origin # 0 => p > 1 /\ Gap
        /\ pc' = "inner"
        /\ q' = p
        /\ hash' = <<>>
        /\ UNCHANGED p
     \/ /\ entries[p].origin # 0 /\ p > 1 /\ ~Gap
        /\ p' = p + 1
        /\ UNCHANGED <<pc, q, hash>>
  /\ UNCHANGED <<entries, level, ret>>

\* Wrong on purpose: what a plausible bug would make of the next definition.
RunEndsMutant == q = Len(entries) \/ level # 3

\* Both breaks of the inner loop, after the read of entry q.
RunEnds ==
  \/ q = Len(entries)
  \/ q < Len(entries) /\ entries[q+1].origin - entries[p].origin > 1
  \/ level # 3

HashNext ==
  /\ pc = "inner"
  /\ ~RunEnds
  /\ hash' = Append(hash, entries[q].origin)
  /\ q' = q + 1
  /\ UNCHANGED <<entries, level, pc, p, ret>>

CloseRun ==
  /\ pc = "inner"
  /\ RunEnds
  /\ hash' = Append(hash, entries[q].origin)
  /\ q' = q + 1
  /\ ret' = Append(ret, [off |-> entries[p].origin, len |-> q + 1 - p, read |-> hash'])
  /\ \/ /\ level = 1
        /\ pc' = "done"
        /\ UNCHANGED p
     \/ /\ level # 1
        /\ pc' = "outer"
        /\ p' = q + 1
  /\ UNCHANGED <<entries, level>>

ChecksumNext == LeaveLoop \/ Turn \/ HashNext \/ CloseRun

ChecksumSpec ==
  /\ \E blocks \in Seq(DeltaEntry) : Ascending(blocks) /\ ChecksumInit(blocks)
  /\ [][ChecksumNext]_checksumVars

-----------------------------------------------------------------------------
\* The chunk numbers of the delta.
S == {entries[k].origin : k \in 1..Len(entries)}

\* lvpatch digests off, off+1, ... whatever entries lvdiff read: the chunks read
\* for a digest are those its line will name.
ReadsWhatItNames ==
  \A n \in 1..Len(ret) :
    ret[n].read = [k \in 1..ret[n].len |-> ret[n].off + k - 1]

\* Where Lvdiff.tla takes the loops to start a digest.
Planned == {h \in RunHeads(S) : level # 0 /\ (level = 1 => h = 0)}

\* The loops end with the digests of the closed form, in its order, and panic
\* where it says so: the loops skip no run and digest none twice.
LoopsFollowPlan ==
  /\ pc = "done" => {<<ret[n].off, ret[n].len>> : n \in 1..Len(ret)}
                     = {<<h, DigestLength(S, level, h)>> : h \in Planned}
  /\ \A m, n \in 1..Len(ret) : m < n => ret[m].off < ret[n].off
  /\ pc = "panicked" => level # 0 /\ ChecksumPanics(S)
  /\ level # 0 /\ ChecksumPanics(S) => pc # "done" /\ ret = <<>>

-----------------------------------------------------------------------------
(* The inductive invariant.                                                *)

ChecksumTypeOK ==
  /\ entries \in Seq(DeltaEntry) /\ Ascending(entries)
  /\ level \in Levels
  /\ pc \in {"outer", "inner", "done", "panicked"}
  /\ p \in 1..(Len(entries) + 1)
  /\ ret \in Seq([off : Nat, len : Nat, read : Seq(Nat)])

\* A digest in the list is of a run that starts with its first chunk.
EachOfARun ==
  \A n \in 1..Len(ret) :
    /\ ret[n].off \in RunHeads(S)
    /\ ret[n].len = DigestLength(S, level, ret[n].off)

\* The heads of runs among the entries that p has passed have their digests.
RunsSoFar ==
  /\ level = 0 => pc = "done" /\ ret = <<>>
  /\ level = 1 /\ pc \in {"outer", "inner"} => p = 1
  /\ pc \in {"outer", "inner"} =>
       {ret[n].off : n \in 1..Len(ret)}
         = RunHeads(S) \cap {entries[k].origin : k \in 1..(p-1)}
  /\ pc = "inner" \/ p > 1 => entries[1].origin = 0

\* The inner loop is at the head of a run, or at level 3 at the chunk after it.
InRun ==
  pc = "inner" =>
    /\ p <= Len(entries) /\ entries[p].origin \in RunHeads(S)
    /\ \/ q = p /\ hash = <<>>
       \/ /\ q = p + 1 /\ q <= Len(entries) /\ level = 3
          /\ entries[q].origin = entries[p].origin + 1
          /\ hash = <<entries[p].origin>>

ChecksumInv ==
  /\ ChecksumTypeOK /\ EachOfARun /\ RunsSoFar /\ InRun
  /\ ReadsWhatItNames /\ LoopsFollowPlan

=============================================================================
