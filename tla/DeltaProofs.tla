---------------------------- MODULE DeltaProofs ----------------------------
(***************************************************************************)
(* For any two volumes: the entries lvdiff goes by are those of the        *)
(* volumes, in order; the loops of GenChecksum digest of them what their   *)
(* closed form says; and the library finds the same entries when it        *)
(* compares the volumes.                                                   *)
(***************************************************************************)
EXTENDS Deltas, CompareProofs, SequenceTheorems, Numbers

-----------------------------------------------------------------------------
(* Lists in order.                                                         *)

\* The chunks of a delta in order, by index.
LEMMA InOrder ==
  ASSUME NEW es \in Seq(DeltaEntry), Ascending(es),
         NEW k \in 1..Len(es), NEW l \in 1..Len(es)
  PROVE  /\ es[k].origin \in Nat /\ es[l].origin \in Nat
         /\ k < l <=> es[k].origin < es[l].origin
         /\ k = l <=> es[k].origin = es[l].origin
<1>1. es[k] \in DeltaEntry /\ es[l] \in DeltaEntry /\ k \in Nat /\ l \in Nat
  OBVIOUS
<1>2. es[k].origin \in Nat /\ es[l].origin \in Nat
  BY <1>1 DEF DeltaEntry
<1>3. /\ k < l => es[k].origin < es[l].origin
      /\ l < k => es[l].origin < es[k].origin
  BY DEF Ascending
<1>4. k < l \/ k = l \/ l < k
  BY <1>1
<1> QED
  BY <1>2, <1>3, <1>4

\* The members of a list after an append.
LEMMA AppendMember ==
  ASSUME NEW T, NEW s \in Seq(T), NEW x \in T
  PROVE  /\ Append(s, x) \in Seq(T)
         /\ Len(s) \in Nat /\ Len(Append(s, x)) = Len(s) + 1
         /\ \A n \in 1..Len(s) : Append(s, x)[n] = s[n]
         /\ Append(s, x)[Len(s) + 1] = x
         /\ \A n \in 1..(Len(s) + 1) : n \in 1..Len(s) \/ n = Len(s) + 1
OBVIOUS

\* A chunk and the next one.
LEMMA TwoInARow ==
  ASSUME NEW x \in Nat
  PROVE  Append(<<x>>, x + 1) = [k \in 1..2 |-> x + k - 1]
<1>1. <<x>> \in Seq(Nat) /\ Len(<<x>>) = 1 /\ <<x>>[1] = x
  OBVIOUS
<1>2. /\ Append(<<x>>, x + 1) \in Seq(Nat)
      /\ Len(Append(<<x>>, x + 1)) = Len(<<x>>) + 1
      /\ \A n \in 1..Len(<<x>>) : Append(<<x>>, x + 1)[n] = <<x>>[n]
      /\ Append(<<x>>, x + 1)[Len(<<x>>) + 1] = x + 1
  BY <1>1, AppendProperties
<1>3. PICK s \in Seq(Nat) : s = Append(<<x>>, x + 1)
  BY <1>2
<1>4. Len(s) = 2 /\ s[1] = x /\ s[2] = x + 1
  BY <1>1, <1>2, <1>3
<1>5. s \in [1..2 -> Nat]
  BY <1>4, LenProperties
<1>6. \A k \in 1..2 : s[k] = x + k - 1
  BY <1>4
<1>7. s = [k \in 1..2 |-> x + k - 1]
  BY <1>5, <1>6
<1> QED
  BY <1>3, <1>7

\* S by index.
LEMMA SMembers ==
  ASSUME entries \in Seq(DeltaEntry)
  PROVE  /\ Len(entries) \in Nat
         /\ \A k \in 1..Len(entries) : entries[k].origin \in S
         /\ \A b \in S : \E k \in 1..Len(entries) : b = entries[k].origin
         /\ S \subseteq Nat
<1>1. \A k \in 1..Len(entries) : entries[k].origin \in Nat
  <2> SUFFICES ASSUME NEW k \in 1..Len(entries) PROVE entries[k].origin \in Nat
    OBVIOUS
  <2>1. entries[k] \in DeltaEntry
    OBVIOUS
  <2> QED
    BY <2>1 DEF DeltaEntry
<1> QED
  BY <1>1 DEF S

\* What lies between two neighbours, and before the first: nothing.
LEMMA HeadAt ==
  ASSUME entries \in Seq(DeltaEntry), Ascending(entries), NEW k \in 1..Len(entries)
  PROVE  /\ k = 1 => entries[k].origin \in RunHeads(S)
         /\ k > 1 => (entries[k].origin \in RunHeads(S)
                        <=> entries[k].origin - entries[k-1].origin > 1)
         /\ k < Len(entries) => (entries[k].origin + 1 \in S
                        <=> entries[k+1].origin = entries[k].origin + 1)
         /\ k = Len(entries) => entries[k].origin + 1 \notin S
<1> DEFINE O(n) == entries[n].origin
<1>0. /\ O(k) \in Nat /\ O(k) \in S /\ Len(entries) \in Nat /\ k \in Nat
      /\ \A l \in 1..Len(entries) :
           O(l) \in Nat /\ (k < l <=> O(k) < O(l)) /\ (k = l <=> O(k) = O(l))
  BY InOrder, SMembers
<1>1. ASSUME k = 1 PROVE O(k) \in RunHeads(S)
  <2> SUFFICES ASSUME O(k) - 1 \in S PROVE FALSE
    BY <1>0 DEF RunHeads
  <2>1. PICK l \in 1..Len(entries) : O(k) - 1 = O(l)
    BY SMembers
  <2> QED
    BY <1>0, <1>1, <2>1
<1>2. ASSUME k > 1 PROVE O(k) \in RunHeads(S) <=> O(k) - O(k-1) > 1
  <2>1. k - 1 \in 1..Len(entries) /\ O(k-1) \in Nat /\ O(k-1) \in S /\ O(k-1) < O(k)
    <3>1. PICK l \in 1..Len(entries) : l = k - 1
      BY <1>0, <1>2
    <3> QED
      BY <1>0, <3>1, SMembers, InOrder
  <2>2. ASSUME O(k) - O(k-1) > 1, O(k) - 1 \in S PROVE FALSE
    <3>1. PICK l \in 1..Len(entries) : O(k) - 1 = O(l)
      BY <2>2, SMembers
    <3>2. l < k /\ k - 1 < l
      BY <1>0, <2>1, <2>2, <3>1, InOrder
    <3> QED
      BY <1>0, <3>2
  <2>3. O(k) # 0 /\ (~(O(k) - O(k-1) > 1) => O(k-1) = O(k) - 1)
    <3>1. O(k) \in Nat
      BY <1>0
    <3> HIDE DEF O
    <3> QED
      BY <2>1, <3>1
  <2> QED
    BY <1>0, <2>1, <2>2, <2>3 DEF RunHeads
<1>3. ASSUME O(k) + 1 \in S
      PROVE  k < Len(entries) /\ O(k+1) = O(k) + 1
  <2>1. PICK l \in 1..Len(entries) : O(k) + 1 = O(l)
    BY <1>3, SMembers
  <2>2. k < l
    BY <1>0, <2>1
  <2>3. PICK n \in 1..Len(entries) : n = k + 1
    BY <1>0, <2>2
  <2>4. O(k) < O(n) /\ (n < l => O(n) < O(l)) /\ O(n) \in Nat
    BY <1>0, <2>3, InOrder
  <2>5. n = l
    <3>1. ~(n < l)
      BY <1>0, <2>1, <2>4
    <3> QED
      BY <1>0, <2>2, <2>3, <3>1
  <2> QED
    BY <1>0, <2>1, <2>3, <2>5
<1>4. k < Len(entries) => k + 1 \in 1..Len(entries) /\ O(k+1) \in S
  BY <1>0, SMembers
<1> QED
  BY <1>0, <1>1, <1>2, <1>3, <1>4

-----------------------------------------------------------------------------
(* The turns of the loops.                                                 *)

\* Digests of the right length, one for each planned head, are the plan.
LEMMA PairsOfPlan ==
  ASSUME NEW r, NEW P,
         {r[n].off : n \in 1..Len(r)} = P,
         \A n \in 1..Len(r) : r[n].len = DigestLength(S, level, r[n].off)
  PROVE  {<<r[n].off, r[n].len>> : n \in 1..Len(r)}
           = {<<h, DigestLength(S, level, h)>> : h \in P}
OBVIOUS

\* Nothing that ChecksumInv speaks of depends on anything but the entries.
LEMMA SameEntries ==
  ASSUME UNCHANGED <<entries, level>>
  PROVE  S' = S /\ Planned' = Planned
BY DEF S, Planned

LEMMA FirstEntry ==
  ASSUME ChecksumTypeOK, entries # <<>>
  PROVE  /\ 1 \in 1..Len(entries) /\ entries[1].origin \in S
         /\ 0 \in S => entries[1].origin = 0
<1>1. Len(entries) \in Nat /\ Len(entries) # 0
  BY DEF ChecksumTypeOK
<1>2. 1 \in 1..Len(entries)
  BY <1>1
<1>3. \A l \in 1..Len(entries) :
        entries[l].origin \in Nat /\ entries[1].origin \in Nat
          /\ (l < 1 <=> entries[l].origin < entries[1].origin)
  BY <1>2, InOrder DEF ChecksumTypeOK
<1>4. ASSUME 0 \in S PROVE entries[1].origin = 0
  <2>1. PICK l \in 1..Len(entries) : 0 = entries[l].origin
    BY <1>4, SMembers DEF ChecksumTypeOK
  <2> QED
    BY <1>3, <2>1
<1> QED
  BY <1>2, <1>4, SMembers DEF ChecksumTypeOK

LEMMA ChecksumStart ==
  ASSUME NEW blocks \in Seq(DeltaEntry), Ascending(blocks), ChecksumInit(blocks)
  PROVE  ChecksumInv
<1>1. /\ entries = blocks /\ level \in Levels /\ level \in Int
      /\ pc = (IF level = 0 THEN "done" ELSE "outer") /\ p = 1 /\ ret = <<>>
      /\ Len(entries) \in Nat /\ Len(ret) = 0
  BY LevelsAssumption DEF ChecksumInit
<1>2. ret \in Seq([off : Nat, len : Nat, read : Seq(Nat)])
  BY <1>1
<1>3. ChecksumTypeOK
  BY <1>1, <1>2 DEF ChecksumTypeOK
<1>4. {entries[k].origin : k \in 1..(p-1)} = {} /\ {ret[n].off : n \in 1..Len(ret)} = {}
  BY <1>1
<1>5. EachOfARun /\ RunsSoFar /\ InRun /\ ReadsWhatItNames
  BY <1>1, <1>4 DEF EachOfARun, RunsSoFar, InRun, ReadsWhatItNames
<1>6. LoopsFollowPlan
  <2>1. level = 0 => Planned = {}
    BY DEF Planned
  <2> QED
    BY <1>1, <2>1 DEF LoopsFollowPlan
<1> QED
  BY <1>3, <1>5, <1>6 DEF ChecksumInv

LEMMA TurnKeeps ==
  ASSUME ChecksumInv, Turn
  PROVE  ChecksumInv'
<1> USE DEF ChecksumInv
<1>0. /\ pc = "outer" /\ p \in 1..Len(entries) /\ Len(entries) \in Nat
      /\ UNCHANGED <<entries, level, ret>> /\ S' = S /\ Planned' = Planned
      /\ level # 0
  BY SameEntries DEF Turn, ChecksumTypeOK, RunsSoFar
<1>1. EachOfARun' /\ ReadsWhatItNames'
  BY <1>0 DEF EachOfARun, ReadsWhatItNames
<1>2. CASE entries[p].origin # 0 /\ p = 1 /\ pc' = "panicked" /\ UNCHANGED <<p, q, hash>>
  <2>1. ret = <<>>
    <3>1. {ret[n].off : n \in 1..Len(ret)}
            = RunHeads(S) \cap {entries[k].origin : k \in 1..(p-1)}
      BY <1>0 DEF RunsSoFar
    <3>2. 1..(p-1) = {}
      BY <1>2
    <3>3. 1..Len(ret) = {}
      BY <3>1, <3>2
    <3>4. Len(ret) \in Nat
      BY DEF ChecksumTypeOK
    <3>5. Len(ret) = 0
      BY <3>3, <3>4
    <3> QED
      BY <3>5 DEF ChecksumTypeOK
  <2>2. ChecksumPanics(S)
    <3>1. entries # <<>>
      BY <1>0
    <3> QED
      BY <1>2, <3>1, FirstEntry DEF ChecksumPanics
  <2> QED
    BY <1>0, <1>1, <1>2, <2>1, <2>2
    DEF ChecksumTypeOK, RunsSoFar, InRun, LoopsFollowPlan
<1>3. CASE /\ entries[p].origin # 0 => p > 1 /\ Gap
           /\ pc' = "inner" /\ q' = p /\ hash' = <<>> /\ UNCHANGED p
  <2>1. entries[p].origin \in RunHeads(S)
    <3>1. entries[p].origin = 0 => entries[p].origin \in RunHeads(S)
      BY <1>0, SMembers DEF RunHeads, ChecksumTypeOK
    <3>2. entries[p].origin # 0 => entries[p].origin \in RunHeads(S)
      BY <1>0, <1>3, HeadAt DEF Gap, ChecksumTypeOK
    <3> QED
      BY <3>1, <3>2
  <2>2. entries[1].origin = 0
    <3>1. p = 1 => entries[1].origin = 0
      BY <1>3
    <3> QED
      BY <1>0, <3>1 DEF RunsSoFar, ChecksumTypeOK
  <2>3. RunsSoFar'
    BY <1>0, <1>3, <2>2 DEF RunsSoFar
  <2> QED
    BY <1>0, <1>1, <1>3, <2>1, <2>3 DEF ChecksumTypeOK, InRun, LoopsFollowPlan
<1>4. CASE /\ entries[p].origin # 0 /\ p > 1 /\ ~Gap
           /\ p' = p + 1 /\ UNCHANGED <<pc, q, hash>>
  <2>1. entries[p].origin \notin RunHeads(S)
    BY <1>0, <1>4, HeadAt DEF Gap, ChecksumTypeOK
  <2>2. 1..(p'-1) = (1..(p-1)) \cup {p}
    BY <1>0, <1>4
  <2>3. {entries[k].origin : k \in 1..(p'-1)}
          = {entries[k].origin : k \in 1..(p-1)} \cup {entries[p].origin}
    BY <2>2
  <2>4. RunsSoFar'
    <3>1. {ret[n].off : n \in 1..Len(ret)}
            = RunHeads(S) \cap {entries[k].origin : k \in 1..(p-1)}
      BY <1>0 DEF RunsSoFar
    <3>2. {ret[n].off : n \in 1..Len(ret)}
            = RunHeads(S) \cap {entries[k].origin : k \in 1..(p'-1)}
      BY <2>1, <2>3, <3>1, Zenon
    <3>3. level # 1 /\ entries[1].origin = 0
      BY <1>0, <1>4 DEF RunsSoFar
    <3> QED
      BY <1>0, <1>4, <3>2, <3>3 DEF RunsSoFar
  <2>5. p' \in 1..(Len(entries) + 1)
    BY <1>0, <1>4
  <2> QED
    BY <1>0, <1>1, <1>4, <2>4, <2>5 DEF ChecksumTypeOK, InRun, LoopsFollowPlan
<1> QED
  BY <1>2, <1>3, <1>4 DEF Turn


\* The inner loop goes on once at most: the third chunk is too far from the first.
LEMMA HashNextKeeps ==
  ASSUME ChecksumInv, HashNext
  PROVE  ChecksumInv'
<1> USE DEF ChecksumInv
<1>0. /\ pc = "inner" /\ pc' = pc /\ UNCHANGED <<entries, level, p, ret>>
      /\ S' = S /\ Planned' = Planned
      /\ hash' = Append(hash, entries[q].origin) /\ q' = q + 1
      /\ q # Len(entries) /\ level = 3
      /\ ~(q < Len(entries) /\ entries[q+1].origin - entries[p].origin > 1)
  BY SameEntries DEF HashNext, RunEnds
<1>1. p \in 1..Len(entries) /\ Len(entries) \in Nat
  BY <1>0 DEF InRun, ChecksumTypeOK
<1>2. q # p + 1
  <2> SUFFICES ASSUME q = p + 1, q <= Len(entries),
                      entries[q].origin = entries[p].origin + 1
               PROVE  FALSE
    BY <1>0 DEF InRun
  <2>1. PICK n \in 1..Len(entries) : n = q + 1
    BY <1>0, <1>1
  <2>2. PICK l \in 1..Len(entries) : l = q
    BY <1>1
  <2>a. l < n
    BY <2>1, <2>2
  <2>3. entries[l].origin < entries[n].origin
    BY <1>1, <2>a DEF ChecksumTypeOK, Ascending
  <2>4. entries[p].origin \in Nat /\ entries[n].origin \in Nat
    BY <1>1, <2>1, InOrder DEF ChecksumTypeOK
  <2>5. q < Len(entries)
    BY <1>0, <1>1
  <2> QED
    BY <1>0, <2>1, <2>2, <2>3, <2>4, <2>5
<1>3. q = p /\ hash = <<>> /\ p < Len(entries)
  BY <1>0, <1>1, <1>2 DEF InRun
<1>4. entries[p+1].origin = entries[p].origin + 1
  <2>1. PICK n \in 1..Len(entries) : n = p + 1
    BY <1>1, <1>3
  <2>2. /\ entries[p].origin < entries[n].origin
        /\ entries[p].origin \in Nat /\ entries[n].origin \in Nat
    BY <1>1, <2>1, InOrder DEF ChecksumTypeOK
  <2>3. ~(entries[n].origin - entries[p].origin > 1)
    BY <1>0, <1>3, <2>1
  <2> QED
    BY <2>1, <2>2, <2>3
<1>5. hash' = <<entries[p].origin>> /\ q' = p + 1 /\ q' <= Len(entries)
  BY <1>0, <1>1, <1>3
<1>6. InRun'
  BY <1>0, <1>4, <1>5 DEF InRun
<1>7. EachOfARun' /\ ReadsWhatItNames' /\ RunsSoFar' /\ LoopsFollowPlan'
  BY <1>0 DEF EachOfARun, ReadsWhatItNames, RunsSoFar, LoopsFollowPlan
<1> QED
  BY <1>0, <1>6, <1>7 DEF ChecksumTypeOK

\* A digest that is closed is that of the run p is at the head of, and p goes behind it.
LEMMA ClosedRun ==
  ASSUME ChecksumInv, CloseRun
  PROVE  /\ p \in 1..Len(entries) /\ entries[p].origin \in RunHeads(S)
         /\ q + 1 - p = DigestLength(S, level, entries[p].origin)
         /\ hash' = [k \in 1..(q + 1 - p) |-> entries[p].origin + k - 1]
         /\ q \in 1..Len(entries) /\ q \in {p, p + 1}
         /\ q = p + 1 => entries[q].origin \notin RunHeads(S)
<1> USE DEF ChecksumInv
<1>0. /\ pc = "inner" /\ UNCHANGED <<entries, level>>
      /\ hash' = Append(hash, entries[q].origin)
      /\ RunEnds
  BY DEF CloseRun
<1>1. /\ p \in 1..Len(entries) /\ Len(entries) \in Nat
      /\ entries[p].origin \in RunHeads(S) /\ entries[p].origin \in Nat
  BY <1>0, InOrder DEF InRun, ChecksumTypeOK
<1>2. CASE q = p /\ hash = <<>>
  <2>1. DigestLength(S, level, entries[p].origin) = 1
    <3> SUFFICES ASSUME level = 3, entries[p].origin + 1 \in S PROVE FALSE
      BY DEF DigestLength
    <3>1. p < Len(entries) /\ entries[p+1].origin = entries[p].origin + 1
      BY <1>1, HeadAt DEF ChecksumTypeOK
    <3>2. ~(entries[p+1].origin - entries[p].origin > 1)
      BY <1>1, <3>1
    <3> QED
      BY <1>0, <1>1, <1>2, <3>1, <3>2 DEF RunEnds
  <2>2. hash' = <<entries[p].origin>>
    BY <1>0, <1>2
  <2>3. q + 1 - p = 1
    BY <1>1, <1>2
  <2>4. <<entries[p].origin>> = [k \in 1..1 |-> entries[p].origin + k - 1]
    BY <1>1
  <2> QED
    BY <1>1, <1>2, <2>1, <2>2, <2>3, <2>4
<1>3. CASE /\ q = p + 1 /\ q <= Len(entries) /\ level = 3
           /\ entries[q].origin = entries[p].origin + 1
           /\ hash = <<entries[p].origin>>
  <2>1. q \in 1..Len(entries) /\ q > 1 /\ q - 1 = p /\ q + 1 - p = 2
    BY <1>1, <1>3
  <2>2. entries[q].origin \in S
    BY <2>1, SMembers DEF ChecksumTypeOK
  <2>3. DigestLength(S, level, entries[p].origin) = 2
    BY <1>3, <2>2 DEF DigestLength
  <2>4. entries[q].origin \notin RunHeads(S)
    <3>1. entries[q].origin # 0 /\ entries[q].origin - 1 = entries[p].origin
      BY <1>1, <1>3
    <3>2. entries[p].origin \in S
      BY <1>1, SMembers DEF ChecksumTypeOK
    <3> QED
      BY <3>1, <3>2 DEF RunHeads
  <2>5. hash' = Append(<<entries[p].origin>>, entries[p].origin + 1)
    BY <1>0, <1>3
  <2>6. hash' = [k \in 1..2 |-> entries[p].origin + k - 1]
    BY <1>1, <2>5, TwoInARow
  <2> QED
    BY <1>1, <1>3, <2>1, <2>3, <2>4, <2>6
<1> QED
  BY <1>0, <1>2, <1>3 DEF InRun


LEMMA CloseRunKeeps ==
  ASSUME ChecksumInv, CloseRun
  PROVE  ChecksumInv'
<1> USE DEF ChecksumInv
<1> DEFINE b == entries[p].origin
           n == q + 1 - p
           digest == [off |-> b, len |-> n, read |-> hash']
           T == [off : Nat, len : Nat, read : Seq(Nat)]
<1>0. /\ pc = "inner" /\ level # 0 /\ UNCHANGED <<entries, level>>
      /\ S' = S /\ Planned' = Planned
      /\ ret' = Append(ret, digest)
      /\ \/ level = 1 /\ pc' = "done" /\ p' = p
         \/ level # 1 /\ pc' = "outer" /\ p' = q + 1
  BY SameEntries DEF CloseRun, RunsSoFar
<1>1. /\ p \in 1..Len(entries) /\ b \in RunHeads(S) /\ n = DigestLength(S, level, b)
      /\ hash' = [k \in 1..n |-> b + k - 1]
      /\ q \in 1..Len(entries) /\ q \in {p, p + 1}
      /\ q = p + 1 => entries[q].origin \notin RunHeads(S)
      /\ Len(entries) \in Nat
  BY ClosedRun DEF ChecksumTypeOK
<1>2. b \in Nat /\ n \in Nat
  <2>1. b \in Nat
    BY <1>1, InOrder DEF ChecksumTypeOK
  <2> HIDE DEF ChecksumInv, b, n, digest
  <2>a. /\ p \in 1..Len(entries) /\ q \in 1..Len(entries) /\ q \in {p, p + 1}
        /\ Len(entries) \in Nat
    BY <1>1
  <2>2. p \in Nat /\ q \in Nat /\ (q = p \/ q = p + 1)
    BY <2>a
  <2>3. q + 1 - p \in Nat
    BY <2>2
  <2> QED  BY <2>1, <2>3 DEF n
<1>3. digest \in T
  <2>1. hash' \in Seq(Nat)
    <3>1. \A k \in 1..n : b + k - 1 \in Nat
      BY <1>2
    <3>2. [k \in 1..n |-> b + k - 1] \in [1..n -> Nat]
      BY <3>1
    <3> HIDE DEF b, n
    <3> QED
      BY <1>1, <1>2, <3>2, SeqDef
  <2> QED
    BY <1>2, <2>1
<1>4. digest.off = b /\ digest.len = n /\ digest.read = hash'
  OBVIOUS
<1> HIDE DEF digest, b, n
<1>5. /\ ret' \in Seq(T) /\ Len(ret) \in Nat /\ Len(ret') = Len(ret) + 1
      /\ \A m \in 1..Len(ret) : ret'[m] = ret[m]
      /\ ret'[Len(ret) + 1] = digest
      /\ \A m \in 1..Len(ret') : m \in 1..Len(ret) \/ m = Len(ret) + 1
  BY <1>0, <1>3, AppendMember DEF ChecksumTypeOK
<1>6. ChecksumTypeOK'
  BY <1>0, <1>1, <1>5 DEF ChecksumTypeOK
<1>7. EachOfARun' /\ ReadsWhatItNames'
  <2>1. ASSUME NEW m \in 1..Len(ret')
        PROVE  /\ ret'[m].off \in RunHeads(S)
               /\ ret'[m].len = DigestLength(S, level, ret'[m].off)
               /\ ret'[m].read = [k \in 1..ret'[m].len |-> ret'[m].off + k - 1]
    <3>1. CASE m \in 1..Len(ret)
      <4>1. ret'[m] = ret[m]
        BY <1>5, <3>1
      <4> QED
        BY <3>1, <4>1 DEF EachOfARun, ReadsWhatItNames
    <3>2. CASE m = Len(ret) + 1
      <4>1. ret'[m] = digest
        BY <1>5, <3>2
      <4> QED
        BY <1>1, <1>4, <4>1
    <3> QED
      BY <1>5, <3>1, <3>2
  <2> QED
    BY <1>0, <2>1 DEF EachOfARun, ReadsWhatItNames
<1>8. {ret'[m].off : m \in 1..Len(ret')} = {ret[m].off : m \in 1..Len(ret)} \cup {b}
  <2>1. 1..Len(ret') = (1..Len(ret)) \cup {Len(ret) + 1}
    BY <1>5
  <2>2. \A m \in 1..Len(ret) : ret'[m].off = ret[m].off
    BY <1>5
  <2>3. ret'[Len(ret) + 1].off = b
    BY <1>4, <1>5
  <2> QED
    BY <2>1, <2>2, <2>3, Zenon
<1>9. {ret[m].off : m \in 1..Len(ret)} = RunHeads(S) \cap {entries[k].origin : k \in 1..(p-1)}
  BY <1>0 DEF RunsSoFar
<1>10. entries[1].origin = 0 /\ 0 \in S
  <2>1. entries[1].origin = 0
    BY <1>0 DEF RunsSoFar
  <2>2. entries # <<>>
    BY <1>1
  <2> QED
    BY <2>1, <2>2, FirstEntry
<1>11. \A k, m \in 1..Len(ret') : k < m => ret'[k].off < ret'[m].off
  <2>1. ASSUME NEW k \in 1..Len(ret) PROVE ret[k].off < b
    <3>1. PICK l \in 1..(p-1) : ret[k].off = entries[l].origin
      BY <1>9
    <3>2. l \in 1..Len(entries) /\ l < p
      BY <1>1
    <3> QED
      BY <1>1, <3>1, <3>2, InOrder DEF ChecksumTypeOK, b
  <2>2. ASSUME NEW k \in 1..Len(ret'), NEW m \in 1..Len(ret'), k < m
        PROVE  ret'[k].off < ret'[m].off
    <3>1. k \in 1..Len(ret) /\ ret'[k] = ret[k]
      <4>1. k \in Nat /\ m \in Nat /\ m <= Len(ret) + 1
        BY <1>5
      <4>2. k # Len(ret) + 1
        BY <1>5, <2>2, <4>1
      <4> QED
        BY <1>5, <4>2
    <3>2. CASE m \in 1..Len(ret)
      BY <1>5, <2>2, <3>1, <3>2 DEF LoopsFollowPlan
    <3>3. CASE m = Len(ret) + 1
      <4>1. ret'[m].off = b
        BY <1>4, <1>5, <3>3
      <4> QED
        BY <2>1, <3>1, <4>1
    <3> QED
      BY <1>5, <3>2, <3>3
  <2> QED
    BY <2>2
<1>12. CASE level = 1 /\ pc' = "done" /\ p' = p
  <2>1. p = 1 /\ b = 0
    BY <1>0, <1>10, <1>12 DEF RunsSoFar, b
  <2>2. {ret[m].off : m \in 1..Len(ret)} = {}
    <3>1. 1..(p-1) = {}
      BY <2>1
    <3> QED
      BY <1>9, <3>1
  <2>3. {ret'[m].off : m \in 1..Len(ret')} = Planned
    <3>1. {ret'[m].off : m \in 1..Len(ret')} = {0}
      BY <1>8, <2>1, <2>2
    <3>2. 0 \in RunHeads(S)
      BY <1>1, <2>1
    <3>3. Planned = {0}
      BY <1>12, <3>2 DEF Planned
    <3> QED
      BY <3>1, <3>3
  <2>4. \A m \in 1..Len(ret') : ret'[m].len = DigestLength(S, level, ret'[m].off)
    BY <1>0, <1>7 DEF EachOfARun
  <2>5. {<<ret'[m].off, ret'[m].len>> : m \in 1..Len(ret')}
          = {<<h, DigestLength(S, level, h)>> : h \in Planned}
    BY <2>3, <2>4, PairsOfPlan
  <2>6. LoopsFollowPlan'
    BY <1>0, <1>10, <1>11, <1>12, <2>5 DEF LoopsFollowPlan, ChecksumPanics
  <2>7. RunsSoFar' /\ InRun'
    BY <1>0, <1>10, <1>12, <2>1 DEF RunsSoFar, InRun
  <2> QED
    BY <1>6, <1>7, <2>6, <2>7
<1>13. CASE level # 1 /\ pc' = "outer" /\ p' = q + 1
  <2>1. RunHeads(S) \cap {entries[k].origin : k \in 1..(p'-1)}
          = (RunHeads(S) \cap {entries[k].origin : k \in 1..(p-1)}) \cup {b}
    <3>1. CASE q = p
      <4>1. 1..(p'-1) = (1..(p-1)) \cup {p}
        BY <1>1, <1>13, <3>1
      <4> QED
        BY <1>1, <4>1 DEF b
    <3>2. CASE q = p + 1
      <4>1. 1..(p'-1) = (1..(p-1)) \cup {p, q}
        BY <1>1, <1>13, <3>2
      <4> QED
        BY <1>1, <3>2, <4>1 DEF b
    <3> QED
      BY <1>1, <3>1, <3>2
  <2>2. RunsSoFar'
    <3>1. {ret'[m].off : m \in 1..Len(ret')}
            = RunHeads(S) \cap {entries[k].origin : k \in 1..(p'-1)}
      BY <1>8, <1>9, <2>1, Zenon
    <3> QED
      BY <1>0, <1>10, <1>13, <3>1 DEF RunsSoFar
  <2>3. LoopsFollowPlan' /\ InRun'
    BY <1>0, <1>10, <1>11, <1>13 DEF LoopsFollowPlan, ChecksumPanics, InRun
  <2> QED
    BY <1>6, <1>7, <2>2, <2>3
<1> QED
  BY <1>0, <1>12, <1>13

LEMMA LeaveLoopKeeps ==
  ASSUME ChecksumInv, LeaveLoop
  PROVE  ChecksumInv'
<1> USE DEF ChecksumInv
<1>0. /\ pc = "outer" /\ pc' = "done" /\ UNCHANGED <<entries, level, p, q, ret, hash>>
      /\ S' = S /\ Planned' = Planned /\ level # 0
      /\ p = Len(entries) + 1 /\ Len(entries) \in Nat
  BY SameEntries DEF LeaveLoop, ChecksumTypeOK, RunsSoFar
<1>1. {entries[k].origin : k \in 1..(p-1)} = S
  BY <1>0 DEF S
<1>2. {ret[n].off : n \in 1..Len(ret)} = RunHeads(S)
  BY <1>0, <1>1 DEF RunsSoFar, RunHeads
<1>3. entries # <<>> => entries[1].origin = 0 /\ 0 \in S /\ level # 1
  <2> SUFFICES ASSUME entries # <<>>
               PROVE  entries[1].origin = 0 /\ 0 \in S /\ level # 1
    OBVIOUS
  <2>1. p > 1
    BY <1>0, FirstEntry
  <2> QED
    BY <1>0, <2>1, FirstEntry DEF RunsSoFar
<1>4. entries = <<>> => S = {} /\ RunHeads(S) = {}
  BY DEF S, RunHeads
<1>5. Planned = RunHeads(S)
  BY <1>0, <1>3, <1>4 DEF Planned
<1>6. {<<ret[n].off, ret[n].len>> : n \in 1..Len(ret)}
        = {<<h, DigestLength(S, level, h)>> : h \in Planned}
  BY <1>2, <1>5, PairsOfPlan DEF EachOfARun
<1>7. ~ChecksumPanics(S)
  BY <1>3, <1>4 DEF ChecksumPanics
<1>8. LoopsFollowPlan'
  BY <1>0, <1>6, <1>7 DEF LoopsFollowPlan
<1>9. EachOfARun' /\ ReadsWhatItNames' /\ RunsSoFar' /\ InRun' /\ ChecksumTypeOK'
  BY <1>0 DEF EachOfARun, ReadsWhatItNames, RunsSoFar, InRun, ChecksumTypeOK
<1> QED
  BY <1>8, <1>9

-----------------------------------------------------------------------------
(* The theorems.                                                           *)

\* The invariant of the two loops: their indices visit the heads of runs in order,
\* and the inner loop reads the chunks its digest will name.
THEOREM ChecksumInvariance == ChecksumSpec => []ChecksumInv
<1>1. (\E blocks \in Seq(DeltaEntry) : Ascending(blocks) /\ ChecksumInit(blocks))
        => ChecksumInv
  BY ChecksumStart
<1>2. ChecksumInv /\ [ChecksumNext]_checksumVars => ChecksumInv'
  <2> SUFFICES ASSUME ChecksumInv, [ChecksumNext]_checksumVars PROVE ChecksumInv'
    OBVIOUS
  <2>1. CASE ChecksumNext
    BY <2>1, LeaveLoopKeeps, TurnKeeps, HashNextKeeps, CloseRunKeeps DEF ChecksumNext
  <2>2. CASE UNCHANGED checksumVars
    BY <2>2, SameEntries
    DEF checksumVars, ChecksumInv, ChecksumTypeOK, EachOfARun, RunsSoFar, InRun,
        ReadsWhatItNames, LoopsFollowPlan
  <2> QED
    BY <2>1, <2>2
<1> QED
  BY <1>1, <1>2, PTL DEF ChecksumSpec

\* The loops digest the runs of the closed form, each once and in order, whatever the
\* delta and the level, and index below the slice exactly if chunk 0 is in no entry.
THEOREM LoopsFollowPlanCorrect == ChecksumSpec => []LoopsFollowPlan
<1>1. ChecksumInv => LoopsFollowPlan
  BY DEF ChecksumInv
<1> QED
  BY <1>1, ChecksumInvariance, PTL

\* A digest is of the chunks that lvpatch will read for its line.
THEOREM ReadsWhatItNamesCorrect == ChecksumSpec => []ReadsWhatItNames
<1>1. ChecksumInv => ReadsWhatItNames
  BY DEF ChecksumInv
<1> QED
  BY <1>1, ChecksumInvariance, PTL

-----------------------------------------------------------------------------
(* Numbers and lists.                                                      *)

\* A list that has nothing twice.
Distinct(s) == \A k, l \in 1..Len(s) : s[k] = s[l] => k = l

\* Two of them, one after the other, when they have nothing in common.
LEMMA DistinctConcat ==
  ASSUME NEW T, NEW s \in Seq(T), NEW t \in Seq(T),
         Distinct(s), Distinct(t), Elements(s) \cap Elements(t) = {}
  PROVE  Distinct(s \o t)
<1>1. /\ s \o t \in Seq(T)
      /\ Len(s \o t) = Len(s) + Len(t)
      /\ Len(s) \in Nat /\ Len(t) \in Nat
      /\ \A k \in 1..(Len(s) + Len(t)) :
           (s \o t)[k] = IF k <= Len(s) THEN s[k] ELSE t[k - Len(s)]
  BY ConcatProperties, LenProperties
<1> SUFFICES ASSUME NEW k \in 1..(Len(s) + Len(t)), NEW l \in 1..(Len(s) + Len(t)),
                    (s \o t)[k] = (s \o t)[l]
             PROVE  k = l
  BY <1>1 DEF Distinct
<1>2. CASE k <= Len(s) /\ l <= Len(s)
  <2>1. k \in 1..Len(s) /\ l \in 1..Len(s) /\ s[k] = s[l]
    BY <1>1, <1>2
  <2> QED  BY <2>1 DEF Distinct
<1>3. CASE k > Len(s) /\ l > Len(s)
  <2>1. /\ k - Len(s) \in 1..Len(t) /\ l - Len(s) \in 1..Len(t)
        /\ t[k - Len(s)] = t[l - Len(s)]
    BY <1>1, <1>3
  <2>2. k - Len(s) = l - Len(s)
    BY <2>1 DEF Distinct
  <2> QED  BY <1>1, <2>2
<1>4. ASSUME NEW m \in 1..(Len(s) + Len(t)), NEW n \in 1..(Len(s) + Len(t)),
             m <= Len(s), n > Len(s)
      PROVE  (s \o t)[m] # (s \o t)[n]
  <2>1. m \in 1..Len(s) /\ n - Len(s) \in 1..Len(t)
    BY <1>1, <1>4
  <2>2. s[m] \in Elements(s) /\ t[n - Len(s)] \in Elements(t)
    BY <2>1 DEF Elements
  <2> QED  BY <1>1, <1>4, <2>2
<1>5. (k <= Len(s) \/ k > Len(s)) /\ (l <= Len(s) \/ l > Len(s))
  BY <1>1
<1> QED  BY <1>2, <1>3, <1>4, <1>5

\* FlattenSeq is defined by recursion; the function it wants exists.
FlattenTo(ss, f, n) ==
  f = [k \in 1..n |-> IF k = 1 THEN ss[k] ELSE f[k-1] \o ss[k]]

LEMMA FlattenExists ==
  ASSUME NEW ss, NEW n \in Nat
  PROVE  \E f : FlattenTo(ss, f, n)
<1> DEFINE Bad == {m \in Nat : ~ \E f : FlattenTo(ss, f, m)}
<1> SUFFICES ASSUME Bad # {}
             PROVE  FALSE
  OBVIOUS
<1>1. PICK m \in Bad : \A l \in Bad : m <= l
  BY LeastNat
<1>2. m # 0
  <2>1. FlattenTo(ss, [k \in 1..0 |-> ss[k]], 0)
    BY DEF FlattenTo
  <2> QED  BY <2>1
<1>3. m \in Nat /\ m - 1 \in Nat /\ m - 1 \notin Bad
  BY <1>1, <1>2
<1>4. PICK g : FlattenTo(ss, g, m - 1)
  BY <1>3
<1> DEFINE f == [k \in 1..m |-> IF k < m THEN g[k]
                                ELSE IF k = 1 THEN ss[k] ELSE g[k-1] \o ss[k]]
<1>5. ASSUME NEW k \in 1..m
      PROVE  f[k] = IF k = 1 THEN ss[k] ELSE f[k-1] \o ss[k]
  <2>1. CASE k < m
    <3>1. k \in 1..(m-1) /\ (k # 1 => k - 1 \in 1..m /\ k - 1 < m)
      BY <1>3, <2>1
    <3>2. g[k] = IF k = 1 THEN ss[k] ELSE g[k-1] \o ss[k]
      BY <1>4, <3>1 DEF FlattenTo
    <3> QED  BY <2>1, <3>1, <3>2
  <2>2. CASE k = m
    <3>1. k # 1 => k - 1 \in 1..m /\ k - 1 < m
      BY <1>3, <2>2
    <3> QED  BY <2>2, <3>1
  <2> QED  BY <1>3, <2>1, <2>2
<1>6. f = [k \in 1..m |-> IF k = 1 THEN ss[k] ELSE f[k-1] \o ss[k]]
  BY <1>5
<1>7. FlattenTo(ss, f, m)
  <2> HIDE DEF f
  <2> QED  BY <1>6 DEF FlattenTo
<1> QED  BY <1>7

\* What FlattenSeq returns has what the lists have, and nothing twice when no list has
\* and no two of them have anything in common.
LEMMA Flattened ==
  ASSUME NEW T, NEW ss \in Seq(Seq(T)),
         \A k \in 1..Len(ss) : Distinct(ss[k]),
         \A k, l \in 1..Len(ss) : k # l => Elements(ss[k]) \cap Elements(ss[l]) = {}
  PROVE  /\ FlattenSeq(ss) \in Seq(T)
         /\ Distinct(FlattenSeq(ss))
         /\ Elements(FlattenSeq(ss)) = UNION {Elements(ss[k]) : k \in 1..Len(ss)}
<1>1. Len(ss) \in Nat /\ \A k \in 1..Len(ss) : ss[k] \in Seq(T)
  BY LenProperties, ElementOfSeq
<1>2. CASE Len(ss) = 0
  <2>1. ss = <<>>
    BY <1>2, EmptySeq
  <2>2. FlattenSeq(ss) = <<>>
    BY <1>2, <2>1 DEF FlattenSeq
  <2>3. <<>> \in Seq(T) /\ Len(<<>>) = 0
    BY EmptySeq
  <2>4. Elements(<<>>) = {} /\ Distinct(<<>>)
    BY <2>3 DEF Elements, Distinct
  <2>5. 1..Len(ss) = {}
    BY <1>2
  <2> QED  BY <2>2, <2>3, <2>4, <2>5
<1>3. CASE Len(ss) # 0
  <2> DEFINE L == Len(ss)
             f == CHOOSE f : f = [k \in 1..L |-> IF k = 1 THEN ss[k] ELSE f[k-1] \o ss[k]]
             Good(n) == /\ f[n] \in Seq(T)
                        /\ Distinct(f[n])
                        /\ Elements(f[n]) = UNION {Elements(ss[k]) : k \in 1..n}
             Bad == {n \in 1..L : ~Good(n)}
  <2>1. f = [k \in 1..L |-> IF k = 1 THEN ss[k] ELSE f[k-1] \o ss[k]]
    BY <1>1, FlattenExists DEF FlattenTo
  <2>2. FlattenSeq(ss) = f[L]
    BY <1>3 DEF FlattenSeq
  <2> HIDE DEF f
  <2>3. ASSUME NEW n \in 1..L, \A m \in 1..L : m < n => Good(m)
        PROVE  Good(n)
    <3>1. CASE n = 1
      <4>1. f[1] = ss[1] /\ 1..1 = {1} /\ 1 \in 1..L
        BY <1>1, <2>1, <3>1
      <4> QED  BY <1>1, <3>1, <4>1
    <3>2. CASE n # 1
      <4>1. n - 1 \in 1..L /\ n - 1 < n /\ 1..n = (1..(n-1)) \cup {n} /\ n \notin 1..(n-1)
            /\ 1..(n-1) \subseteq 1..L
        BY <1>1, <3>2
      <4>2. f[n] = f[n-1] \o ss[n]
        BY <2>1, <3>2
      <4>3. Good(n - 1)
        BY <2>3, <4>1
      <4>4. ss[n] \in Seq(T) /\ Distinct(ss[n])
        BY <1>1
      <4>5. Elements(f[n-1]) \cap Elements(ss[n]) = {}
        <5>1. \A k \in 1..(n-1) : Elements(ss[k]) \cap Elements(ss[n]) = {}
          BY <4>1
        <5>2. Elements(f[n-1]) = UNION {Elements(ss[k]) : k \in 1..(n-1)}
          BY <4>3
        <5> HIDE DEF L
        <5> QED  BY <5>1, <5>2, Zenon
      <4>6. f[n] \in Seq(T) /\ Elements(f[n]) = Elements(f[n-1]) \cup Elements(ss[n])
        BY <4>2, <4>3, <4>4, ElementsConcat, ConcatProperties
      <4>7. Distinct(f[n])
        BY <4>2, <4>3, <4>4, <4>5, DistinctConcat
      <4>8. Elements(f[n]) = UNION {Elements(ss[k]) : k \in 1..n}
        BY <4>1, <4>3, <4>6
      <4> QED  BY <4>6, <4>7, <4>8
    <3> QED  BY <3>1, <3>2
  <2>4. Bad = {}
    <3> SUFFICES ASSUME Bad # {}
                 PROVE  FALSE
      OBVIOUS
    <3>1. Bad \in SUBSET Nat
      BY <1>1
    <3>2. PICK n \in Bad : \A m \in Bad : n <= m
      BY <3>1, LeastNat
    <3>3. \A m \in 1..L : m < n => Good(m)
      <4>1. n \in Nat /\ \A m \in 1..L : m \in Nat
        BY <1>1, <3>2
      <4>2. \A m \in 1..L : ~Good(m) => m \in Bad
        OBVIOUS
      <4> HIDE DEF Good, Bad
      <4> QED  BY <3>2, <4>1, <4>2
    <3> QED  BY <2>3, <3>2, <3>3
  <2>5. L \in 1..L
    BY <1>1, <1>3
  <2>6. Good(L)
    BY <2>4, <2>5
  <2> QED  BY <2>2, <2>6
<1> QED  BY <1>2, <1>3

-----------------------------------------------------------------------------
(* The ranges of thin_delta.                                               *)

\* A finite set of numbers has a longest range around each of its members.
LEMMA RunAround ==
  ASSUME NEW B \in SUBSET Nat, IsFiniteSet(B), NEW b \in B
  PROVE  \E r \in Runs(B) : b \in r.begin..(r.begin + r.length - 1)
<1> DEFINE Down == {n \in Nat : n <= b /\ n..b \subseteq B}
           Out == {n \in Nat : n > b /\ n \notin B}
<1>1. b \in Nat /\ b \in Down
  <2>1. b \in Nat /\ b..b = {b}
    OBVIOUS
  <2> QED  BY <2>1
<1>2. PICK lo \in Down : \A m \in Down : lo <= m
  <2> HIDE DEF Down
  <2>1. Down \in SUBSET Nat
    BY DEF Down
  <2> QED  BY <1>1, <2>1, LeastNat
<1>3. lo \in Nat /\ lo <= b /\ lo..b \subseteq B
  BY <1>2
<1>4. lo - 1 \notin B
  <2> SUFFICES ASSUME lo - 1 \in B
               PROVE  FALSE
    OBVIOUS
  <2>1. lo - 1 \in Nat /\ (lo-1)..b = {lo-1} \cup (lo..b)
    BY <1>1, <1>3
  <2>2. lo - 1 \in Down
    BY <1>1, <1>3, <2>1
  <2> QED  BY <1>2, <1>3, <2>2
<1>5. Out # {}
  <2> SUFFICES ASSUME Out = {}
               PROVE  FALSE
    OBVIOUS
  <2>1. Cardinality(B) \in Nat
    BY FS_CardinalityType
  <2> DEFINE c == b + 1 + Cardinality(B)
             I == (b+1)..c
  <2>2. I \subseteq B
    BY <1>1, <2>1
  <2>3. Cardinality(I) = Cardinality(B) + 1
    <3>1. b + 1 \in Int /\ c \in Int /\ ~(b + 1 > c) /\ c - (b + 1) + 1 = Cardinality(B) + 1
      BY <1>1, <2>1
    <3> HIDE DEF c
    <3> QED  BY <3>1, FS_Interval
  <2> HIDE DEF I
  <2>4. Cardinality(I) <= Cardinality(B)
    BY <2>2, FS_Subset
  <2> QED  BY <2>1, <2>3, <2>4
<1>6. PICK hi \in Out : \A m \in Out : hi <= m
  <2> HIDE DEF Out
  <2>1. Out \in SUBSET Nat
    BY DEF Out
  <2> QED  BY <1>5, <2>1, LeastNat
<1>7. hi \in Nat /\ hi > b /\ hi \notin B /\ \A m \in Nat : m > b /\ m < hi => m \in B
  BY <1>6
<1>8. lo..(hi - 1) \subseteq B
  BY <1>1, <1>3, <1>7
<1> HIDE DEF Down, Out
<1> DEFINE r == [begin |-> lo, length |-> hi - lo]
<1>9. r.begin = lo /\ r.length = hi - lo /\ lo \in B
  BY <1>1, <1>3
<1>10. hi - lo \in 1..Cardinality(B)
  <2>1. Cardinality(B) \in Nat
    BY FS_CardinalityType
  <2>2. Cardinality(lo..(hi - 1)) = hi - lo
    <3>1. lo \in Int /\ hi - 1 \in Int
      BY <1>3, <1>7
    <3>2. Cardinality(lo..(hi - 1)) = IF lo > hi - 1 THEN 0 ELSE hi - 1 - lo + 1
      BY <3>1, FS_Interval
    <3> QED  BY <1>1, <1>3, <1>7, <3>2
  <2>3. Cardinality(lo..(hi - 1)) <= Cardinality(B)
    BY <1>8, FS_Subset
  <2> QED  BY <1>1, <1>3, <1>7, <2>1, <2>2, <2>3
<1>11. r \in Runs(B)
  <2>1. r \in [begin : B, length : 1..Cardinality(B)]
    BY <1>9, <1>10
  <2>2. lo + (hi - lo) - 1 = hi - 1 /\ lo + (hi - lo) = hi
    BY <1>3, <1>7
  <2> HIDE DEF r
  <2> QED  BY <1>4, <1>7, <1>8, <1>9, <2>1, <2>2 DEF Runs
<1>12. b \in lo..(lo + (hi - lo) - 1)
  BY <1>1, <1>3, <1>7
<1> HIDE DEF r
<1> QED  BY <1>9, <1>11, <1>12

\* The numbers in a range.
Blocks(r) == r.begin..(r.begin + r.length - 1)

\* The longest ranges of a finite set of numbers are finitely many, have nothing in
\* common and leave nothing out.
LEMMA RunsPartition ==
  ASSUME NEW B \in SUBSET Nat, IsFiniteSet(B)
  PROVE  /\ IsFiniteSet(Runs(B))
         /\ \A r \in Runs(B) : /\ r.begin \in Nat /\ r.length \in Nat \ {0}
                               /\ Blocks(r) \subseteq B
         /\ \A r, t \in Runs(B) : r # t => Blocks(r) \cap Blocks(t) = {}
         /\ UNION {Blocks(r) : r \in Runs(B)} = B
<1>1. ASSUME NEW r \in Runs(B)
      PROVE  /\ r.begin \in Nat /\ r.length \in Nat \ {0}
             /\ Blocks(r) \subseteq B
             /\ r.begin - 1 \notin B /\ r.begin + r.length \notin B
             /\ r = [begin |-> r.begin, length |-> r.length]
             /\ r.begin \in B
  <2>1. Cardinality(B) \in Nat
    BY FS_CardinalityType
  <2>2. r.begin \in B /\ r.length \in 1..Cardinality(B)
        /\ r = [begin |-> r.begin, length |-> r.length]
    BY DEF Runs
  <2>3. /\ Blocks(r) \subseteq B
        /\ r.begin - 1 \notin B /\ r.begin + r.length \notin B
    BY DEF Runs, Blocks
  <2>4. r.begin \in Nat /\ r.length \in Nat \ {0}
    BY <2>1, <2>2
  <2> QED  BY <2>2, <2>3, <2>4
<1>2. ASSUME NEW r \in Runs(B), NEW t \in Runs(B), NEW x \in Blocks(r) \cap Blocks(t)
      PROVE  r = t
  <2> DEFINE a == r.begin
             c == t.begin
             m == r.length
             n == t.length
  <2>1. /\ a \in Nat /\ c \in Nat /\ m \in Nat \ {0} /\ n \in Nat \ {0}
        /\ a..(a + m - 1) \subseteq B /\ c..(c + n - 1) \subseteq B
        /\ a - 1 \notin B /\ c - 1 \notin B /\ a + m \notin B /\ c + n \notin B
        /\ x \in a..(a + m - 1) /\ x \in c..(c + n - 1)
    BY <1>1, <1>2 DEF Blocks
  <2>2. r = [begin |-> a, length |-> m] /\ t = [begin |-> c, length |-> n]
    BY <1>1
  <2> HIDE DEF a, c, m, n
  <2>3. ~(a < c)
    <3>1. a < c => c - 1 \in a..(a + m - 1)
      BY <2>1
    <3> QED  BY <2>1, <3>1
  <2>4. ~(c < a)
    <3>1. c < a => a - 1 \in c..(c + n - 1)
      BY <2>1
    <3> QED  BY <2>1, <3>1
  <2>5. a = c
    BY <2>1, <2>3, <2>4
  <2>6. ~(m < n)
    <3>1. m < n => a + m \in c..(c + n - 1)
      BY <2>1, <2>5
    <3> QED  BY <2>1, <3>1
  <2>7. ~(n < m)
    <3>1. n < m => c + n \in a..(a + m - 1)
      BY <2>1, <2>5
    <3> QED  BY <2>1, <3>1
  <2>8. m = n
    BY <2>1, <2>6, <2>7
  <2> QED  BY <2>2, <2>5, <2>8
<1>3. IsFiniteSet(Runs(B))
  <2> DEFINE f == [r \in Runs(B) |-> r.begin]
  <2>1. f \in Injection(Runs(B), B)
    <3>1. f \in [Runs(B) -> B]
      BY <1>1
    <3>2. ASSUME NEW r \in Runs(B), NEW t \in Runs(B), f[r] = f[t]
          PROVE  r = t
      <4>1. r.begin \in Blocks(r) /\ r.begin = t.begin /\ t.begin \in Blocks(t)
        BY <1>1, <3>2 DEF Blocks
      <4> QED  BY <1>2, <4>1
    <3> HIDE DEF f
    <3> QED  BY <3>1, <3>2 DEF Injection, IsInjective
  <2> HIDE DEF f
  <2> QED  BY <2>1, FS_Injection
<1>4. ASSUME NEW b \in B
      PROVE  \E r \in Runs(B) : b \in Blocks(r)
  BY RunAround DEF Blocks
<1> QED  BY <1>1, <1>2, <1>3, <1>4

\* A finite set as a list.
LEMMA Listed ==
  ASSUME NEW T, IsFiniteSet(T)
  PROVE  /\ SetToSeq(T) \in Seq(T)
         /\ Elements(SetToSeq(T)) = T
         /\ Distinct(SetToSeq(T))
<1> DEFINE n == Cardinality(T)
           s == SetToSeq(T)
<1>1. n \in Nat /\ ExistsBijection(1..n, T)
  BY FS_CardinalityType
<1>2. PICK f : f \in Bijection(1..n, T)
  BY <1>1 DEF ExistsBijection
<1>3. f \in [1..n -> T] /\ IsInjective(f)
  BY <1>2 DEF Bijection, Injection
<1>4. s \in [1..n -> T] /\ IsInjective(s)
  <2> HIDE DEF n
  <2> QED  BY <1>3 DEF SetToSeq, n
<1>5. s \in Injection(1..n, T) /\ Cardinality(1..n) = n
  <2>1. 1 \in Int /\ n \in Int
    BY <1>1
  <2>2. Cardinality(1..n) = IF 1 > n THEN 0 ELSE n - 1 + 1
    BY <2>1, FS_Interval
  <2> HIDE DEF n, s
  <2> QED  BY <1>1, <1>4, <2>2 DEF Injection
<1>6. s \in Surjection(1..n, T)
  <2> HIDE DEF s
  <2> QED  BY <1>5, FS_Injection
<1>7. s \in Seq(T) /\ Len(s) = n
  <2> HIDE DEF s, n
  <2> QED  BY <1>1, <1>4, FunctionIsSeq
<1> HIDE DEF s, n
<1>8. Elements(s) = T
  BY <1>4, <1>6, <1>7 DEF Elements, Surjection
<1>9. Distinct(s)
  BY <1>4, <1>7 DEF Distinct, IsInjective
<1> QED  BY <1>7, <1>8, <1>9 DEF s

-----------------------------------------------------------------------------
(* The entries.                                                            *)

EntriesOf(B, op) == {Entry(b, op) : b \in B}

\* The inner loop of ExpandBlocks over one range.
LEMMA EntriesOfRange ==
  ASSUME NEW first \in Nat, NEW n \in Nat, NEW op \in DeltaOpType
  PROVE  LET t == [k \in 1..n |-> Entry(first + k - 1, op)] IN
         /\ t \in Seq(DeltaEntry)
         /\ Distinct(t)
         /\ Elements(t) = EntriesOf(first..(first + n - 1), op)
<1> DEFINE t == [k \in 1..n |-> Entry(first + k - 1, op)]
<1>1. \A k \in 1..n : t[k] = Entry(first + k - 1, op) /\ first + k - 1 \in first..(first + n - 1)
                      /\ first + k - 1 \in Nat
  OBVIOUS
<1>2. t \in [1..n -> DeltaEntry] /\ \A k \in 1..n : t[k].origin = first + k - 1
  BY <1>1 DEF Entry, DeltaEntry
<1> HIDE DEF t
<1>3. t \in Seq(DeltaEntry) /\ Len(t) = n
  BY <1>2, FunctionIsSeq
<1>4. Distinct(t)
  <2> SUFFICES ASSUME NEW k \in 1..n, NEW l \in 1..n, t[k] = t[l]
               PROVE  k = l
    BY <1>3 DEF Distinct
  <2>1. first + k - 1 = first + l - 1
    BY <1>2
  <2> QED  BY <2>1
<1>5. Elements(t) = EntriesOf(first..(first + n - 1), op)
  <2>1. ASSUME NEW x \in Elements(t)
        PROVE  x \in EntriesOf(first..(first + n - 1), op)
    <3>1. PICK k \in 1..n : x = t[k]
      BY <1>3 DEF Elements
    <3> QED  BY <1>1, <3>1 DEF EntriesOf
  <2>2. ASSUME NEW b \in first..(first + n - 1)
        PROVE  Entry(b, op) \in Elements(t)
    <3>1. b - first + 1 \in 1..n /\ first + (b - first + 1) - 1 = b
      OBVIOUS
    <3>2. t[b - first + 1] = Entry(b, op)
      BY <1>1, <3>1
    <3> QED  BY <1>3, <3>1, <3>2 DEF Elements
  <2> QED  BY <2>1, <2>2 DEF EntriesOf
<1> QED  BY <1>3, <1>4, <1>5 DEF t

\* Both loops over the ranges in which thin_delta prints a set of chunks: each of
\* them once.
LEMMA EntriesOfRanges ==
  ASSUME NEW B \in SUBSET Nat, IsFiniteSet(B), NEW op \in DeltaOpType
  PROVE  LET t == OfRanges(SetToSeq(Runs(B)), op) IN
         /\ t \in Seq(DeltaEntry)
         /\ Distinct(t)
         /\ Elements(t) = EntriesOf(B, op)
<1> DEFINE rs == SetToSeq(Runs(B))
           OfOne(r) == [n \in 1..r.length |-> Entry(r.begin + n - 1, op)]
           ss == [k \in 1..Len(rs) |-> OfOne(rs[k])]
<1>1. /\ rs \in Seq(Runs(B)) /\ Elements(rs) = Runs(B) /\ Distinct(rs)
      /\ Len(rs) \in Nat
      /\ \A k \in 1..Len(rs) : rs[k] \in Runs(B)
  <2>1. rs \in Seq(Runs(B)) /\ Elements(rs) = Runs(B) /\ Distinct(rs)
    BY RunsPartition, Listed
  <2> HIDE DEF rs
  <2> QED  BY <2>1, LenProperties, ElementOfSeq
<1>2. ASSUME NEW r \in Runs(B)
      PROVE  /\ OfOne(r) \in Seq(DeltaEntry)
             /\ Distinct(OfOne(r))
             /\ Elements(OfOne(r)) = EntriesOf(Blocks(r), op)
  <2>1. r.begin \in Nat /\ r.length \in Nat
    BY RunsPartition
  <2> QED  BY <2>1, EntriesOfRange DEF Blocks
<1> HIDE DEF rs, OfOne
<1>3. ss \in Seq(Seq(DeltaEntry)) /\ Len(ss) = Len(rs)
  <2>1. ss \in [1..Len(rs) -> Seq(DeltaEntry)]
    BY <1>1, <1>2
  <2> HIDE DEF ss
  <2> QED  BY <1>1, <2>1, FunctionIsSeq
<1>4. \A k \in 1..Len(ss) : /\ Distinct(ss[k])
                            /\ Elements(ss[k]) = EntriesOf(Blocks(rs[k]), op)
  <2>1. \A k \in 1..Len(ss) : ss[k] = OfOne(rs[k]) /\ rs[k] \in Runs(B)
    BY <1>1, <1>3
  <2> HIDE DEF ss
  <2> QED  BY <1>2, <2>1
<1> HIDE DEF ss
<1>5. ASSUME NEW k \in 1..Len(ss), NEW l \in 1..Len(ss), k # l
      PROVE  Elements(ss[k]) \cap Elements(ss[l]) = {}
  <2>1. rs[k] \in Runs(B) /\ rs[l] \in Runs(B) /\ rs[k] # rs[l]
    BY <1>1, <1>3, <1>5 DEF Distinct
  <2>2. Blocks(rs[k]) \cap Blocks(rs[l]) = {}
    BY <2>1, RunsPartition
  <2>3. EntriesOf(Blocks(rs[k]), op) \cap EntriesOf(Blocks(rs[l]), op) = {}
    BY <2>2 DEF EntriesOf, Entry
  <2> QED  BY <1>4, <2>3
<1>6. /\ FlattenSeq(ss) \in Seq(DeltaEntry)
      /\ Distinct(FlattenSeq(ss))
      /\ Elements(FlattenSeq(ss)) = UNION {Elements(ss[k]) : k \in 1..Len(ss)}
  BY <1>3, <1>4, <1>5, Flattened
<1>7. UNION {Elements(ss[k]) : k \in 1..Len(ss)} = EntriesOf(B, op)
  <2>1. ASSUME NEW k \in 1..Len(ss)
        PROVE  Elements(ss[k]) \subseteq EntriesOf(B, op)
    <3>1. Blocks(rs[k]) \subseteq B
      BY <1>1, <1>3, RunsPartition
    <3> QED  BY <1>4, <3>1 DEF EntriesOf
  <2>2. ASSUME NEW b \in B
        PROVE  \E k \in 1..Len(ss) : Entry(b, op) \in Elements(ss[k])
    <3>1. PICK r \in Runs(B) : b \in Blocks(r)
      BY RunsPartition
    <3>2. PICK k \in 1..Len(ss) : r = rs[k]
      BY <1>1, <1>3, <3>1 DEF Elements
    <3>3. Entry(b, op) \in EntriesOf(Blocks(rs[k]), op)
      BY <3>1, <3>2 DEF EntriesOf
    <3> QED  BY <1>4, <3>3
  <2> QED  BY <2>1, <2>2 DEF EntriesOf
<1>8. OfRanges(rs, op) = FlattenSeq(ss)
  BY DEF OfRanges, ss, OfOne
<1> QED  BY <1>6, <1>7, <1>8 DEF rs

\* Sorting: every entry once more, ascending when no two are of the same chunk.
LEMMA SortedRight ==
  ASSUME NEW s \in Seq(DeltaEntry),
         \A k, l \in 1..Len(s) : s[k].origin = s[l].origin => k = l
  PROVE  /\ Sorted(s) \in Seq(DeltaEntry)
         /\ Len(Sorted(s)) = Len(s)
         /\ Ascending(Sorted(s))
         /\ Elements(Sorted(s)) = Elements(s)
<1> DEFINE L == Len(s)
           rank == [n \in 1..L |-> Cardinality(UpTo(s, n))]
           place(k) == CHOOSE n \in 1..L : Cardinality(UpTo(s, n)) = k
<1>1. L \in Nat /\ \A n \in 1..L : s[n] \in DeltaEntry /\ s[n].origin \in Nat
  <2>1. L \in Nat /\ \A n \in 1..L : s[n] \in DeltaEntry
    BY LenProperties, ElementOfSeq
  <2> QED  BY <2>1 DEF DeltaEntry
<1>2. IsFiniteSet(1..L) /\ Cardinality(1..L) = L
  <2>1. 1 \in Int /\ L \in Int
    BY <1>1
  <2>2. IsFiniteSet(1..L) /\ Cardinality(1..L) = IF 1 > L THEN 0 ELSE L - 1 + 1
    <3> HIDE DEF L
    <3> QED  BY <2>1, FS_Interval
  <2> QED  BY <1>1, <2>2
<1>3. ASSUME NEW n \in 1..L
      PROVE  /\ UpTo(s, n) \subseteq 1..L /\ n \in UpTo(s, n)
             /\ IsFiniteSet(UpTo(s, n))
             /\ Cardinality(UpTo(s, n)) \in 1..L
  <2>1. UpTo(s, n) \subseteq 1..L /\ n \in UpTo(s, n)
    BY <1>1 DEF UpTo
  <2>2. /\ IsFiniteSet(UpTo(s, n))
        /\ Cardinality(UpTo(s, n)) <= L
    <3> DEFINE I == 1..L
    <3>1. IsFiniteSet(I) /\ Cardinality(I) = L /\ UpTo(s, n) \in SUBSET I
      BY <1>2, <2>1
    <3> HIDE DEF L, I
    <3>2. /\ IsFiniteSet(UpTo(s, n))
          /\ Cardinality(UpTo(s, n)) <= Cardinality(I)
      BY <3>1, FS_Subset
    <3> QED  BY <3>1, <3>2
  <2>3. Cardinality(UpTo(s, n)) \in Nat /\ Cardinality(UpTo(s, n)) # 0
    BY <2>1, <2>2, FS_CardinalityType, FS_EmptySet
  <2> QED  BY <1>1, <2>1, <2>2, <2>3
<1>4. ASSUME NEW m \in 1..L, NEW n \in 1..L, s[m].origin < s[n].origin
      PROVE  Cardinality(UpTo(s, m)) < Cardinality(UpTo(s, n))
  <2>1. UpTo(s, m) \subseteq UpTo(s, n) /\ n \notin UpTo(s, m)
    BY <1>1, <1>4 DEF UpTo
  <2>2. UpTo(s, m) # UpTo(s, n)
    BY <1>3, <2>1
  <2>3. /\ Cardinality(UpTo(s, m)) <= Cardinality(UpTo(s, n))
        /\ Cardinality(UpTo(s, m)) # Cardinality(UpTo(s, n))
    BY <1>3, <2>1, <2>2, FS_Subset
  <2> QED  BY <1>1, <1>3, <2>3
<1>5. rank \in Injection(1..L, 1..L)
  <2>1. rank \in [1..L -> 1..L]
    BY <1>3
  <2>2. ASSUME NEW m \in 1..L, NEW n \in 1..L, rank[m] = rank[n]
        PROVE  m = n
    <3>1. ~(s[m].origin < s[n].origin) /\ ~(s[n].origin < s[m].origin)
      BY <1>1, <1>3, <1>4, <2>2
    <3>2. s[m].origin = s[n].origin
      BY <1>1, <3>1
    <3> QED  BY <3>2
  <2> HIDE DEF rank
  <2> QED  BY <2>1, <2>2 DEF Injection, IsInjective
<1>6. rank \in Surjection(1..L, 1..L)
  <2> HIDE DEF rank, L
  <2> QED  BY <1>2, <1>5, FS_Injection
<1>7. ASSUME NEW k \in 1..L
      PROVE  place(k) \in 1..L /\ Cardinality(UpTo(s, place(k))) = k
  <2>1. \E n \in 1..L : rank[n] = k
    <3> HIDE DEF rank, L
    <3> QED  BY <1>6 DEF Surjection
  <2>2. \E n \in 1..L : Cardinality(UpTo(s, n)) = k
    BY <2>1
  <2> QED  BY <2>2
<1> DEFINE t == Sorted(s)
<1>8. t = [k \in 1..L |-> s[place(k)]]
  BY DEF Sorted
<1> HIDE DEF t, place
<1>9. t \in Seq(DeltaEntry) /\ Len(t) = L
  <2>1. t \in [1..L -> DeltaEntry]
    BY <1>1, <1>7, <1>8
  <2> HIDE DEF L
  <2> QED  BY <1>1, <2>1, FunctionIsSeq
<1>10. Ascending(t)
  <2> SUFFICES ASSUME NEW k \in 1..L, NEW l \in 1..L, k < l
               PROVE  t[k].origin < t[l].origin
    BY <1>9 DEF Ascending
  <2>1. ~(s[place(l)].origin < s[place(k)].origin)
    <3>1. s[place(l)].origin < s[place(k)].origin => l < k
      BY <1>4, <1>7
    <3> QED  BY <1>1, <3>1
  <2>2. place(k) # place(l)
    <3>1. k # l
      BY <1>1
    <3> QED  BY <1>7, <3>1
  <2>3. s[place(k)].origin # s[place(l)].origin
    BY <1>7, <2>2
  <2>4. s[place(k)].origin \in Nat /\ s[place(l)].origin \in Nat
    BY <1>1, <1>7
  <2>5. s[place(k)].origin < s[place(l)].origin
    BY <2>1, <2>3, <2>4
  <2> QED  BY <1>8, <2>5
<1>11. Elements(t) = Elements(s)
  <2>1. ASSUME NEW k \in 1..L
        PROVE  t[k] \in Elements(s)
    BY <1>7, <1>8 DEF Elements
  <2>2. ASSUME NEW n \in 1..L
        PROVE  s[n] \in Elements(t)
    <3> DEFINE k == Cardinality(UpTo(s, n))
    <3>1. k \in 1..L
      BY <1>3
    <3>2. place(k) \in 1..L /\ rank[place(k)] = rank[n]
      BY <1>7, <3>1
    <3>3. place(k) = n
      <4> HIDE DEF rank
      <4> QED  BY <1>5, <3>2 DEF Injection, IsInjective
    <3>4. t[k] = s[n]
      BY <1>8, <3>1, <3>3
    <3> HIDE DEF k
    <3> QED  BY <1>9, <3>1, <3>4 DEF Elements
  <2> QED  BY <1>9, <2>1, <2>2 DEF Elements
<1> QED  BY <1>9, <1>10, <1>11 DEF t

\* The chunks that fare alike.
Faring(f, x) == {b \in DOMAIN f : f[b] = x}

\* What ExpandBlocks appends for one kind of ranges.
LEMMA EntriesOfFate ==
  ASSUME NEW f \in [0..MaxBlock -> Fates], NEW x \in Fates, NEW op \in DeltaOpType
  PROVE  LET t == OfRanges(DeltaBlocks(f)[x], op) IN
         /\ t \in Seq(DeltaEntry)
         /\ Distinct(t)
         /\ Elements(t) = EntriesOf(Faring(f, x), op)
<1> DEFINE B == Faring(f, x)
<1>1. B \in SUBSET (0..MaxBlock) /\ 0..MaxBlock \subseteq Nat
  BY MaxBlockAssumption DEF Faring
<1>2. IsFiniteSet(B)
  <2>1. IsFiniteSet(0..MaxBlock)
    BY MaxBlockAssumption, FS_Interval
  <2> HIDE DEF B
  <2> QED  BY <1>1, <2>1, FS_Subset
<1>3. DeltaBlocks(f)[x] = SetToSeq(Runs(B))
  BY DEF DeltaBlocks, Faring
<1> HIDE DEF B
<1>4. LET t == OfRanges(SetToSeq(Runs(B)), op) IN
      /\ t \in Seq(DeltaEntry)
      /\ Distinct(t)
      /\ Elements(t) = EntriesOf(B, op)
  BY <1>1, <1>2, EntriesOfRanges
<1> QED  BY <1>3, <1>4 DEF B

\* The operation of an entry by what thin_delta says of its chunk.
FateOp(x) ==
  CASE x = "different" -> DeltaOpUpdate
    [] x = "left_only" -> DeltaOpCreate
    [] x = "right_only" -> DeltaOpDelete
    [] x = "same" -> DeltaOpIgnore

\* Two lists of which no entry of the one is of a chunk of the other.
LEMMA Joined ==
  ASSUME NEW s \in Seq(DeltaEntry), NEW t \in Seq(DeltaEntry), NEW X, NEW Y,
         Distinct(s), Distinct(t), Elements(s) = X, Elements(t) = Y, X \cap Y = {}
  PROVE  /\ s \o t \in Seq(DeltaEntry)
         /\ Distinct(s \o t)
         /\ Elements(s \o t) = X \cup Y
BY DistinctConcat, ElementsConcat, ConcatProperties

\* Whatever fares how, ExpandBlocks has one entry for each chunk that a volume has,
\* and counts those that are not the same.
LEMMA ExpandBlocksTrue ==
  ASSUME NEW f \in [0..MaxBlock -> Fates]
  PROVE  LET x == ExpandBlocks(DeltaBlocks(f)) IN
         /\ x.entries \in Seq(DeltaEntry)
         /\ Ascending(x.entries)
         /\ Elements(x.entries) =
              {Entry(b, FateOp(f[b])) : b \in {b \in DOMAIN f : f[b] # "none"}}
         /\ x.count = Cardinality({k \in 1..Len(x.entries) :
                                     x.entries[k].op # DeltaOpIgnore})
<1> DEFINE db == DeltaBlocks(f)
           Part(x, op) == EntriesOf(Faring(f, x), op)
           d == OfRanges(db["different"], DeltaOpUpdate)
           l == OfRanges(db["left_only"], DeltaOpCreate)
           r == OfRanges(db["right_only"], DeltaOpDelete)
           same == OfRanges(db["same"], DeltaOpIgnore)
           dl == d \o l
           changed == dl \o r
           all == changed \o same
           X == Part("different", DeltaOpUpdate)
           Y == Part("left_only", DeltaOpCreate)
           Z == Part("right_only", DeltaOpDelete)
           W == Part("same", DeltaOpIgnore)
<1>1. /\ d \in Seq(DeltaEntry) /\ Distinct(d) /\ Elements(d) = X
      /\ l \in Seq(DeltaEntry) /\ Distinct(l) /\ Elements(l) = Y
      /\ r \in Seq(DeltaEntry) /\ Distinct(r) /\ Elements(r) = Z
      /\ same \in Seq(DeltaEntry) /\ Distinct(same) /\ Elements(same) = W
  <2>1. /\ {"different", "left_only", "right_only", "same"} \subseteq Fates
        /\ {DeltaOpUpdate, DeltaOpCreate, DeltaOpDelete, DeltaOpIgnore} \subseteq DeltaOpType
    BY DEF Fates, DeltaOpType
  <2>2. d \in Seq(DeltaEntry) /\ Distinct(d) /\ Elements(d) = X
    BY <2>1, EntriesOfFate
  <2>3. l \in Seq(DeltaEntry) /\ Distinct(l) /\ Elements(l) = Y
    BY <2>1, EntriesOfFate
  <2>4. r \in Seq(DeltaEntry) /\ Distinct(r) /\ Elements(r) = Z
    BY <2>1, EntriesOfFate
  <2>5. same \in Seq(DeltaEntry) /\ Distinct(same) /\ Elements(same) = W
    BY <2>1, EntriesOfFate
  <2> QED  BY <2>2, <2>3, <2>4, <2>5
<1>2. ExpandBlocks(db) = [entries |-> Sorted(all), count |-> Len(changed)]
  BY DEF ExpandBlocks
<1>3. /\ DeltaOpUpdate # DeltaOpCreate /\ DeltaOpUpdate # DeltaOpDelete
      /\ DeltaOpCreate # DeltaOpDelete
      /\ DeltaOpIgnore \notin {DeltaOpUpdate, DeltaOpCreate, DeltaOpDelete}
  BY DEF DeltaOpUpdate, DeltaOpCreate, DeltaOpDelete, DeltaOpIgnore
<1>4. /\ \A e \in X : e.op = DeltaOpUpdate
      /\ \A e \in Y : e.op = DeltaOpCreate
      /\ \A e \in Z : e.op = DeltaOpDelete
      /\ \A e \in W : e.op = DeltaOpIgnore
  BY DEF EntriesOf, Entry
<1> HIDE DEF db, d, l, r, same, X, Y, Z, W
<1>5. /\ dl \in Seq(DeltaEntry) /\ Distinct(dl) /\ Elements(dl) = X \cup Y
  <2>1. X \cap Y = {}
    BY <1>3, <1>4
  <2> QED  BY <1>1, <2>1, Joined
<1> HIDE DEF dl
<1>6. /\ changed \in Seq(DeltaEntry) /\ Distinct(changed)
      /\ Elements(changed) = X \cup Y \cup Z
  <2>1. (X \cup Y) \cap Z = {}
    BY <1>3, <1>4
  <2> QED  BY <1>1, <1>5, <2>1, Joined
<1> HIDE DEF changed
<1>7. /\ all \in Seq(DeltaEntry) /\ Distinct(all)
      /\ Elements(all) = X \cup Y \cup Z \cup W
  <2>1. (X \cup Y \cup Z) \cap W = {}
    BY <1>3, <1>4
  <2> QED  BY <1>1, <1>6, <2>1, Joined
<1> HIDE DEF all
<1>8. X \cup Y \cup Z \cup W =
        {Entry(b, FateOp(f[b])) : b \in {b \in DOMAIN f : f[b] # "none"}}
  <2>1. /\ FateOp("different") = DeltaOpUpdate /\ FateOp("left_only") = DeltaOpCreate
        /\ FateOp("right_only") = DeltaOpDelete /\ FateOp("same") = DeltaOpIgnore
    BY DEF FateOp
  <2>2. \A b \in DOMAIN f : f[b] \in {"none", "different", "left_only", "right_only", "same"}
    BY DEF Fates
  <2>3. \A e \in X \cup Y \cup Z \cup W :
          \E b \in DOMAIN f : f[b] # "none" /\ e = Entry(b, FateOp(f[b]))
    BY <2>1 DEF X, Y, Z, W, EntriesOf, Faring
  <2>4. \A b \in DOMAIN f : f[b] # "none" => Entry(b, FateOp(f[b])) \in X \cup Y \cup Z \cup W
    BY <2>1, <2>2 DEF X, Y, Z, W, EntriesOf, Faring
  <2> QED  BY <2>3, <2>4
<1>9. \A k, m \in 1..Len(all) : all[k].origin = all[m].origin => k = m
  <2> SUFFICES ASSUME NEW k \in 1..Len(all), NEW m \in 1..Len(all),
                      all[k].origin = all[m].origin
               PROVE  k = m
    OBVIOUS
  <2>1. all[k] \in Elements(all) /\ all[m] \in Elements(all)
    BY DEF Elements
  <2>2. PICK b \in DOMAIN f : all[k] = Entry(b, FateOp(f[b]))
    BY <1>7, <1>8, <2>1
  <2>3. PICK c \in DOMAIN f : all[m] = Entry(c, FateOp(f[c]))
    BY <1>7, <1>8, <2>1
  <2>4. b = c
    BY <2>2, <2>3 DEF Entry
  <2>5. all[k] = all[m]
    BY <2>2, <2>3, <2>4
  <2> QED  BY <1>7, <2>5 DEF Distinct
<1> DEFINE es == Sorted(all)
<1>10. /\ es \in Seq(DeltaEntry) /\ Ascending(es) /\ Elements(es) = Elements(all)
  BY <1>7, <1>9, SortedRight
<1> HIDE DEF es
<1>11. Len(changed) = Cardinality({k \in 1..Len(es) : es[k].op # DeltaOpIgnore})
  <2> DEFINE C == X \cup Y \cup Z
             K == {k \in 1..Len(es) : es[k].op # DeltaOpIgnore}
             g == [k \in K |-> es[k]]
  <2>1. Cardinality(C) = Len(changed)
    BY <1>6, Counted DEF Distinct
  <2>2. C = {e \in Elements(es) : e.op # DeltaOpIgnore}
    BY <1>3, <1>4, <1>7, <1>10
  <2> HIDE DEF C
  <2>3. /\ Len(es) \in Nat
        /\ \A k \in 1..Len(es) : es[k] \in DeltaEntry /\ es[k].origin \in Nat
    <3>1. Len(es) \in Nat /\ \A k \in 1..Len(es) : es[k] \in DeltaEntry
      BY <1>10, LenProperties, ElementOfSeq
    <3> QED  BY <3>1 DEF DeltaEntry
  <2>4. \A k, m \in 1..Len(es) : es[k] = es[m] => k = m
    <3> SUFFICES ASSUME NEW k \in 1..Len(es), NEW m \in 1..Len(es), k # m
                 PROVE  es[k] # es[m]
      OBVIOUS
    <3>1. k < m \/ m < k
      BY <2>3
    <3>2. es[k].origin < es[m].origin \/ es[m].origin < es[k].origin
      BY <1>10, <3>1 DEF Ascending
    <3>3. es[k].origin # es[m].origin
      BY <2>3, <3>2
    <3> QED  BY <3>3
  <2>5. IsFiniteSet(K)
    <3>1. IsFiniteSet(1..Len(es))
      BY <2>3, FS_Interval
    <3> QED  BY <3>1, FS_Subset
  <2>6. g \in Surjection(K, C) /\ g \in Injection(K, C)
    <3>1. g \in [K -> C]
      BY <2>2 DEF Elements
    <3>2. \A e \in C : \E k \in K : g[k] = e
      BY <2>2 DEF Elements
    <3>3. \A k, m \in K : g[k] = g[m] => k = m
      BY <2>4
    <3> HIDE DEF g, K
    <3> QED  BY <3>1, <3>2, <3>3 DEF Surjection, Injection, IsInjective
  <2> HIDE DEF g, K
  <2>7. Cardinality(C) = Cardinality(K)
    BY <2>5, <2>6, FS_Surjection
  <2> QED  BY <2>1, <2>7 DEF K
<1>12. ExpandBlocks(db) = [entries |-> es, count |-> Len(changed)]
  BY <1>2 DEF es, all
<1> QED  BY <1>7, <1>8, <1>10, <1>11, <1>12 DEF db

\* What ExpandBlocks makes of the output of thin_delta is the delta of the two
\* volumes, however many chunks they have and however its ranges interleave.
THEOREM EntriesTrueCorrect == Spec => []EntriesTrue
<1>1. Init => fate \in [0..MaxBlock -> Fates] /\ expanded = ExpandBlocks(DeltaBlocks(fate))
  BY DEF Init
<1>2. fate \in [0..MaxBlock -> Fates] /\ expanded = ExpandBlocks(DeltaBlocks(fate))
        => EntriesTrue
  BY ExpandBlocksTrue DEF EntriesTrue, FateOp
<1>3. EntriesTrue /\ [Next]_vars => EntriesTrue'
  BY DEF EntriesTrue, Next, Ended, vars
<1> QED  BY <1>1, <1>2, <1>3, PTL DEF Spec

\* What GenChecksum is given is such a list, so that its loops go by the plan for
\* whatever thin_delta says of two volumes.
THEOREM DigestsOfTheDelta == Spec => [](LoopsFollowPlan /\ ReadsWhatItNames)
<1>1. Init => \E blocks \in Seq(DeltaEntry) : Ascending(blocks) /\ ChecksumInit(blocks)
  BY ExpandBlocksTrue DEF Init
<1>2. [Next]_vars => [ChecksumNext]_checksumVars
  BY DEF Next, Ended, vars
<1>3. Spec => ChecksumSpec
  BY <1>1, <1>2, PTL DEF Spec, ChecksumSpec
<1> QED  BY <1>3, LoopsFollowPlanCorrect, ReadsWhatItNamesCorrect, PTL

-----------------------------------------------------------------------------
(* The dumps.                                                              *)

FateTypeOK == fate \in [0..MaxBlock -> Fates]

\* The mappings of a volume.
Said(id) == {[origin |-> b, data |-> Place(id, b)] : b \in Provisioned(id)}

\* Its chunks and where they are.
LEMMA PlaceType ==
  ASSUME FateTypeOK, NEW id
  PROVE  /\ Provisioned(id) \in SUBSET Nat /\ IsFiniteSet(Provisioned(id))
         /\ \A b \in Provisioned(id) : Place(id, b) \in Nat
         /\ IsFiniteSet(Said(id))
<1> DEFINE P == Provisioned(id)
<1>1. P \in SUBSET (0..MaxBlock) /\ 0..MaxBlock \subseteq Nat
  BY MaxBlockAssumption DEF Provisioned, FateTypeOK
<1>2. IsFiniteSet(0..MaxBlock)
  BY MaxBlockAssumption, FS_Interval
<1>3. \A b \in P : Place(id, b) \in Nat
  BY <1>1, PlacesAssumption DEF Place
<1> DEFINE f == [b \in P |-> [origin |-> b, data |-> Place(id, b)]]
<1>4. f \in Surjection(P, Said(id))
  BY DEF Surjection, Said
<1> HIDE DEF P, f
<1>5. IsFiniteSet(P)
  BY <1>1, <1>2, FS_Subset
<1>6. IsFiniteSet(Said(id))
  BY <1>4, <1>5, FS_Surjection
<1> QED  BY <1>1, <1>3, <1>5, <1>6 DEF P

\* What can be written as a range says nothing the volume does not, and there are
\* finitely many such stretches.
LEMMA StretchesTrue ==
  ASSUME FateTypeOK, NEW id
  PROVE  /\ IsFiniteSet(Stretches(id))
         /\ \A r \in Stretches(id) : RangeBlocks(r) \subseteq Said(id)
<1> DEFINE P == Provisioned(id)
           At(shift) == {b \in P : Place(id, b) = b + shift}
           Shifts == {Place(id, b) - b : b \in P}
<1>1. P \in SUBSET Nat /\ IsFiniteSet(P) /\ \A b \in P : Place(id, b) \in Nat
  BY PlaceType
<1>2. ASSUME NEW shift \in Shifts
      PROVE  shift \in Int /\ At(shift) \in SUBSET P /\ IsFiniteSet(At(shift))
  <2>1. shift \in Int /\ At(shift) \in SUBSET P
    BY <1>1
  <2> HIDE DEF At, P
  <2> QED  BY <1>1, <2>1, FS_Subset
<1>3. ASSUME NEW t \in Stretches(id)
      PROVE  \E shift \in Shifts : \E r \in Runs(At(shift)) :
               t = [begin |-> r.begin, data |-> Place(id, r.begin), length |-> r.length]
  BY <1>3 DEF Stretches
<1> HIDE DEF P, At, Shifts
<1>4. ASSUME NEW shift \in Shifts, NEW r \in Runs(At(shift))
      PROVE  /\ r.begin \in Nat /\ r.length \in Nat \ {0}
             /\ \A n \in 0..(r.length - 1) : r.begin + n \in At(shift)
             /\ r.begin \in At(shift)
  <2>1. At(shift) \in SUBSET Nat /\ IsFiniteSet(At(shift))
    BY <1>1, <1>2
  <2>2. r.begin \in Nat /\ r.length \in Nat \ {0} /\ Blocks(r) \subseteq At(shift)
    BY <2>1, RunsPartition
  <2>3. \A n \in 0..(r.length - 1) : r.begin + n \in Blocks(r)
    BY <2>2 DEF Blocks
  <2>4. 0 \in 0..(r.length - 1) /\ r.begin + 0 = r.begin
    BY <2>2
  <2>5. r.begin \in At(shift)
    BY <2>2, <2>3, <2>4
  <2> QED  BY <2>2, <2>3, <2>5
<1>5. ASSUME NEW shift \in Shifts, NEW b \in At(shift)
      PROVE  b \in P /\ b \in Nat /\ Place(id, b) \in Nat /\ Place(id, b) = b + shift
  BY <1>1, <1>5 DEF At
<1>6. ASSUME NEW t \in Stretches(id)
      PROVE  t.begin \in P /\ RangeBlocks(t) \subseteq Said(id)
  <2>0. PICK shift \in Shifts : \E r \in Runs(At(shift)) :
          t = [begin |-> r.begin, data |-> Place(id, r.begin), length |-> r.length]
    BY <1>3
  <2>1. PICK r \in Runs(At(shift)) :
          t = [begin |-> r.begin, data |-> Place(id, r.begin), length |-> r.length]
    BY <2>0
  <2>2. t.begin = r.begin /\ t.data = Place(id, r.begin) /\ t.length = r.length
    BY <2>1
  <2>3. ASSUME NEW n \in 0..(t.length - 1)
        PROVE  [origin |-> t.begin + n, data |-> t.data + n] \in Said(id)
    <3>1. /\ r.begin \in Nat /\ n \in Nat /\ shift \in Int
          /\ r.begin + n \in At(shift) /\ r.begin \in At(shift)
      BY <1>2, <1>4, <2>2
    <3>2. /\ Place(id, r.begin + n) = r.begin + n + shift
          /\ Place(id, r.begin) = r.begin + shift
          /\ r.begin + n \in P
      BY <1>5, <3>1
    <3>3. Place(id, r.begin) + n = Place(id, r.begin + n)
      BY <3>1, <3>2
    <3> QED  BY <2>2, <3>2, <3>3 DEF Said, P
  <2>4. t.begin \in P
    BY <1>4, <1>5, <2>2
  <2> QED  BY <2>3, <2>4 DEF RangeBlocks
<1>7. IsFiniteSet(Stretches(id))
  <2> DEFINE f == [t \in Stretches(id) |-> t.begin]
  <2>1. ASSUME NEW t \in Stretches(id), NEW u \in Stretches(id), t.begin = u.begin
        PROVE  t = u
    <3>a. PICK shift \in Shifts : \E r \in Runs(At(shift)) :
            t = [begin |-> r.begin, data |-> Place(id, r.begin), length |-> r.length]
      BY <1>3
    <3>1. PICK r \in Runs(At(shift)) :
            t = [begin |-> r.begin, data |-> Place(id, r.begin), length |-> r.length]
      BY <3>a
    <3>b. PICK other \in Shifts : \E q0 \in Runs(At(other)) :
            u = [begin |-> q0.begin, data |-> Place(id, q0.begin), length |-> q0.length]
      BY <1>3
    <3>2. PICK q0 \in Runs(At(other)) :
            u = [begin |-> q0.begin, data |-> Place(id, q0.begin), length |-> q0.length]
      BY <3>b
    <3>3. r.begin = q0.begin
      BY <2>1, <3>1, <3>2
    <3>4. shift = other
      <4>1. /\ shift \in Int /\ other \in Int /\ r.begin \in Nat
            /\ Place(id, r.begin) = r.begin + shift
            /\ Place(id, r.begin) = r.begin + other
        BY <1>2, <1>4, <1>5, <3>3
      <4> QED  BY <4>1
    <3>5. r = q0
      <4>1. At(shift) \in SUBSET Nat /\ IsFiniteSet(At(shift))
        BY <1>1, <1>2
      <4>2. r \in Runs(At(shift)) /\ q0 \in Runs(At(shift))
        BY <3>4
      <4>3. r.begin \in Blocks(r) /\ q0.begin \in Blocks(q0)
        BY <1>4, <4>2 DEF Blocks
      <4> QED  BY <3>3, <4>1, <4>2, <4>3, RunsPartition
    <3> QED  BY <3>1, <3>2, <3>5
  <2>2. f \in Injection(Stretches(id), P)
    <3>1. f \in [Stretches(id) -> P]
      BY <1>6
    <3>2. \A t, u \in Stretches(id) : f[t] = f[u] => t = u
      BY <2>1
    <3> HIDE DEF f
    <3> QED  BY <3>1, <3>2 DEF Injection, IsInjective
  <2> HIDE DEF f
  <2> QED  BY <1>1, <2>2, FS_Injection
<1> QED  BY <1>6, <1>7

\* Whatever part of it is written in ranges, a dump says of a volume what it has.
LEMMA DumpsTrue ==
  ASSUME FateTypeOK, NEW id, NEW miscounts, NEW d \in Dumps(id, miscounts)
  PROVE  Mapped(d) = Said(id)
<1>1. PICK R \in SUBSET Stretches(id) :
        /\ d.ranges = SetToSeq(R)
        /\ d.singles = SetToSeq(Said(id) \ Extras(SetToSeq(R)))
  BY DEF Dumps, Said
<1>2. IsFiniteSet(R)
  BY StretchesTrue, FS_Subset
<1>3. Elements(d.ranges) = R
  BY <1>1, <1>2, Listed
<1>4. Extras(d.ranges) \subseteq Said(id)
  <2>1. Extras(d.ranges) = UNION {RangeBlocks(r) : r \in R}
    BY <1>3 DEF Extras, RangeBlocks
  <2> QED  BY <2>1, StretchesTrue
<1> DEFINE rest == Said(id) \ Extras(d.ranges)
<1>5. IsFiniteSet(rest)
  BY PlaceType, FS_Subset
<1>6. Elements(d.singles) = rest
  <2>1. d.singles = SetToSeq(rest)
    BY <1>1
  <2> HIDE DEF rest
  <2> QED  BY <1>5, <2>1, Listed
<1> QED  BY <1>4, <1>6 DEF Mapped

\* The difference of the two, block by block, is what thin_delta says of them.
LEMMA DifferenceOfFates ==
  ASSUME FateTypeOK
  PROVE  Difference(Said("B"), Said("A")) =
           {e \in {Entry(b, FateOp(fate[b])) : b \in {b \in DOMAIN fate : fate[b] # "none"}} :
              e.op # DeltaOpIgnore}
<1> DEFINE N == {b \in DOMAIN fate : fate[b] # "none"}
           E == {Entry(b, FateOp(fate[b])) : b \in N}
           D == Difference(Said("B"), Said("A"))
<1>0. ASSUME NEW id
      PROVE  Origins(Said(id)) = Provisioned(id)
  <2>1. ASSUME NEW b \in Provisioned(id)
        PROVE  b \in Origins(Said(id))
    <3>1. [origin |-> b, data |-> Place(id, b)] \in Said(id)
      BY DEF Said
    <3>2. [origin |-> b, data |-> Place(id, b)].origin = b
      OBVIOUS
    <3> QED  BY <3>1, <3>2 DEF Origins
  <2>2. ASSUME NEW m \in Said(id)
        PROVE  m.origin \in Provisioned(id)
    BY DEF Said
  <2> QED  BY <2>1, <2>2 DEF Origins
<1>1. Origins(Said("A")) = Provisioned("A") /\ Origins(Said("B")) = Provisioned("B")
  BY <1>0
<1>2. /\ Provisioned("A") = {b \in DOMAIN fate : fate[b] \in {"same", "different", "left_only"}}
      /\ Provisioned("B") = {b \in DOMAIN fate : fate[b] \in {"same", "different", "right_only"}}
  BY DEF Provisioned
<1>3. \A b \in DOMAIN fate : fate[b] \in {"none", "different", "left_only", "right_only", "same"}
  BY DEF Fates, FateTypeOK
<1>4. \A b \in DOMAIN fate : Place("A", b) # Place("B", b) <=> fate[b] # "same"
  BY PlacesAssumption DEF Place, FateTypeOK
<1>5. /\ FateOp("different") = DeltaOpUpdate /\ FateOp("left_only") = DeltaOpCreate
      /\ FateOp("right_only") = DeltaOpDelete /\ FateOp("same") = DeltaOpIgnore
  BY DEF FateOp
<1>6. DeltaOpIgnore \notin {DeltaOpUpdate, DeltaOpCreate, DeltaOpDelete}
  BY DEF DeltaOpUpdate, DeltaOpCreate, DeltaOpDelete, DeltaOpIgnore
<1>7. D = {Entry(b, DeltaOpDelete) : b \in {b \in DOMAIN fate : fate[b] = "right_only"}}
            \cup {Entry(b, DeltaOpCreate) : b \in {b \in DOMAIN fate : fate[b] = "left_only"}}
            \cup {Entry(b, DeltaOpUpdate) : b \in {b \in DOMAIN fate : fate[b] = "different"}}
  <2>1. Provisioned("B") \ Provisioned("A") = {b \in DOMAIN fate : fate[b] = "right_only"}
    BY <1>2, <1>3
  <2>2. Provisioned("A") \ Provisioned("B") = {b \in DOMAIN fate : fate[b] = "left_only"}
    BY <1>2, <1>3
  <2> DEFINE M == {m \in Said("A") : \E o \in Said("B") : o.origin = m.origin /\ o.data # m.data}
  <2>3. \A m \in M : m.origin \in DOMAIN fate /\ fate[m.origin] = "different"
    BY <1>2, <1>4 DEF Said
  <2>4. ASSUME NEW b \in DOMAIN fate, fate[b] = "different"
        PROVE  \E m \in M : m.origin = b
    <3> DEFINE m == [origin |-> b, data |-> Place("A", b)]
               o == [origin |-> b, data |-> Place("B", b)]
    <3>1. m \in Said("A") /\ o \in Said("B")
      BY <1>2, <2>4 DEF Said
    <3>2. m.origin = b /\ o.origin = b /\ o.data # m.data
      BY <1>4, <2>4
    <3> HIDE DEF m, o
    <3> QED  BY <3>1, <3>2
  <2>5. {Entry(m.origin, DeltaOpUpdate) : m \in M} =
          {Entry(b, DeltaOpUpdate) : b \in {b \in DOMAIN fate : fate[b] = "different"}}
    BY <2>3, <2>4
  <2> QED  BY <1>1, <2>1, <2>2, <2>5 DEF Difference
<1>8. ASSUME NEW e \in D
      PROVE  e \in E /\ e.op # DeltaOpIgnore
  BY <1>5, <1>6, <1>7 DEF Entry
<1>9. ASSUME NEW e \in E, e.op # DeltaOpIgnore
      PROVE  e \in D
  <2>1. PICK b \in N : e = Entry(b, FateOp(fate[b]))
    OBVIOUS
  <2>2. fate[b] # "same"
    BY <1>5, <1>9, <2>1 DEF Entry
  <2> QED  BY <1>3, <1>5, <1>7, <2>1, <2>2
<1> QED  BY <1>8, <1>9

\* A comparison of the two volumes finds what thin_delta found, however their
\* mappings are written in the dump and whatever was compared before.
THEOREM AgreesWithThinDeltaCorrect == Spec => []AgreesWithThinDelta
<1> DEFINE AsSaid ==
             /\ FateTypeOK
             /\ expanded = ExpandBlocks(DeltaBlocks(fate))
             /\ \A id \in Id : Mapped(devices[id]) = Said(id)
<1>1. Init => CompareInit /\ AsSaid
  <2> SUFFICES ASSUME Init
               PROVE  CompareInit /\ AsSaid
    OBVIOUS
  <2>1. CompareInit /\ FateTypeOK /\ expanded = ExpandBlocks(DeltaBlocks(fate))
    BY DEF Init, FateTypeOK
  <2>2. PICK A \in Dumps("A", {0, 1}), B \in Dumps("B", {0}) :
          devices = [id \in Id |-> IF id = "A" THEN A ELSE B]
    BY DEF Init
  <2>3. Mapped(A) = Said("A") /\ Mapped(B) = Said("B")
    BY <2>1, DumpsTrue
  <2>4. devices["A"] = A /\ devices["B"] = B /\ Id = {"A", "B"}
    BY <2>2, VolumesAssumption
  <2> QED  BY <2>1, <2>3, <2>4
<1>2. [Next]_vars => [CompareNext]_compareVars
  BY DEF Next, Ended, vars
<1>3. AsSaid /\ MergeInv /\ [Next]_vars => AsSaid'
  <2> SUFFICES ASSUME AsSaid, MergeInv, [Next]_vars
               PROVE  AsSaid'
    OBVIOUS
  <2>1. UNCHANGED <<fate, expanded>>
    BY DEF Next, Ended, vars
  <2>2. \A id \in Id : Said(id)' = Said(id)
    BY <2>1 DEF Said, Provisioned, Place
  <2>3. \A id \in Id : Mapped(devices'[id]) = Mapped(devices[id])
    <3>1. dst \in Id /\ devices \in [Id -> Device] /\ (cpc = "src" => src \in Id)
      BY DEF MergeInv, CompareTypeOK, Prepared
    <3>2. CASE ExpandDst
      BY <3>1, <3>2, ExpandKeeps DEF ExpandDst
    <3>3. CASE ExpandSrc
      BY <3>1, <3>3, ExpandKeeps DEF ExpandSrc
    <3>4. CASE ~ExpandDst /\ ~ExpandSrc
      <4>1. devices' = devices
        BY <1>2, <3>4 DEF CompareNext, Call, ExpandFails, CreateAll, InSourceOnly, InBoth,
                          InDestOnly, MergeRest, compareVars
      <4> QED  BY <4>1
    <3> QED  BY <3>2, <3>3, <3>4
  <2>4. FateTypeOK'
    BY <2>1 DEF FateTypeOK
  <2>5. expanded' = ExpandBlocks(DeltaBlocks(fate'))
    BY <2>1
  <2> QED  BY <2>2, <2>3, <2>4, <2>5
<1>4. AsSaid /\ MergeInv => AgreesWithThinDelta
  <2> SUFFICES ASSUME AsSaid, MergeInv, cpc = "done", src = "B", dst = "A"
               PROVE  /\ Ascending(diff)
                      /\ Elements(diff) = {e \in Elements(expanded.entries) :
                                             e.op # DeltaOpIgnore}
    BY DEF AgreesWithThinDelta
  <2>1. /\ Ascending(diff)
        /\ Elements(diff) = Difference(Old, Mapped(devices["A"]))
    BY DEF MergeInv, DiffRight
  <2>2. "B" \in Id /\ "A" \in Id /\ Old = Mapped(devices["B"])
    BY VolumesAssumption, NilAssumption DEF Old
  <2>3. Elements(diff) = Difference(Said("B"), Said("A"))
    BY <2>1, <2>2
  <2>4. Elements(expanded.entries) =
          {Entry(b, FateOp(fate[b])) : b \in {b \in DOMAIN fate : fate[b] # "none"}}
    BY ExpandBlocksTrue DEF FateTypeOK
  <2> QED  BY <2>1, <2>3, <2>4, DifferenceOfFates
<1> HIDE DEF AsSaid
<1>5. Spec => CompareSpec
  BY <1>1, <1>2, PTL DEF Spec, CompareSpec
<1> QED  BY <1>1, <1>3, <1>4, <1>5, MergeInvariance, PTL DEF Spec

=============================================================================
