----------------------------- MODULE PoolProofs -----------------------------
(***************************************************************************)
(* Proofs about PoolSharing, for any set of processes and of volumes.  The *)
(* invariant PoolInv says whose snapshot the pool can hold and what a      *)
(* process that met no other may rely on; each action preserves it because *)
(* an action of another process would mean that the two have met.          *)
(* What a path leads to follows from lemmas on the doubling of hyphens.    *)
(***************************************************************************)
EXTENDS PoolSharing, SequenceTheorems, Numbers

\* The initial states satisfy the invariant: nobody runs, the pool has no snapshot.
LEMMA PoolInit == Init => PoolInv
BY DEF Init, PoolInv, TypeOK, HolderBusy, MetTogether, Alone, StaysActive, SourceNeeded,
       TargetNeeded, Undisturbed, Running, Outcome, End

\* What one process does outside the volumes it shares keeps the types.
LEMMA PoolTypes == TypeOK /\ [Next]_vars => TypeOK'
<1> SUFFICES ASSUME TypeOK, [Next]_vars PROVE TypeOK'
  OBVIOUS
<1> USE NobodyAssumption DEF TypeOK, Outcome, End, jobs, snapVars, Goto, Return
<1>1. CASE UNCHANGED vars
  BY <1>1 DEF vars
<1>2. ASSUME NEW p \in Proc, Step(p) PROVE TypeOK'
  <2>1. CASE Start(p)
    BY <2>1 DEF Start, Running
  <2>2. CASE ReleaseLeftover(p)
    BY <2>2 DEF ReleaseLeftover
  <2>3. CASE Reserve(p)
    BY <2>3 DEF Reserve
  <2>4. CASE ReserveFails(p)
    BY <2>4 DEF ReserveFails
  <2>5. CASE ThinDeltaBegins(p)
    BY <2>5 DEF ThinDeltaBegins
  <2>6. CASE ThinDeltaEnds(p)
    BY <2>6 DEF ThinDeltaEnds
  <2>7. CASE ThinDeltaFails(p)
    BY <2>7 DEF ThinDeltaFails
  <2>8. CASE Release(p)
    BY <2>8 DEF Release
  <2>9. CASE ActivateSrc(p)
    BY <2>9 DEF ActivateSrc
  <2>10. CASE Activate(p)
    BY <2>10 DEF Activate
  <2>11. CASE OpenSrc(p)
    BY <2>11 DEF OpenSrc, Open, Found, LedTo
  <2>12. CASE Hashed(p)
    BY <2>12 DEF Hashed, Close
  <2>13. CASE OpenLv(p)
    BY <2>13 DEF OpenLv, Open, Found, LedTo
  <2>14. CASE Sent(p)
    BY <2>14 DEF Sent, Close
  <2>15. CASE Deactivate(p)
    BY <2>15 DEF Deactivate
  <2>16. CASE Killed(p)
    BY <2>16 DEF Killed
  <2> QED
    BY <1>2, <2>1, <2>2, <2>3, <2>4, <2>5, <2>6, <2>7, <2>8, <2>9, <2>10, <2>11, <2>12,
       <2>13, <2>14, <2>15, <2>16 DEF Step
<1> QED
  BY <1>1, <1>2 DEF Next, Ended

\* No step changes a name, nor where it leads.
LEMMA NamesStay ==
  [Next]_vars => /\ OwnPool' = OwnPool /\ OtherPool' = OtherPool
                 /\ \A p \in Proc : WellNamed(p)' = WellNamed(p)
<1> SUFFICES ASSUME [Next]_vars
             PROVE  /\ OwnPool' = OwnPool /\ OtherPool' = OtherPool
                    /\ \A p \in Proc : WellNamed(p)' = WellNamed(p)
  OBVIOUS
<1>1. UNCHANGED <<name, lvname, srcname>>
  BY DEF Next, Ended, vars, jobs, Step, Start, ReleaseLeftover, Reserve, ReserveFails,
         ThinDeltaBegins, ThinDeltaEnds, ThinDeltaFails, Release, ActivateSrc, Activate,
         OpenSrc, OpenLv, Open, Hashed, Sent, Close, Deactivate, Killed
<1> QED  BY <1>1 DEF WellNamed, OwnPool, OtherPool, LedTo, PathOf

\* Every step preserves the invariant.
LEMMA PoolStep == PoolInv /\ [Next]_vars => PoolInv'
<1> SUFFICES ASSUME PoolInv, [Next]_vars, TypeOK' PROVE PoolInv'
  BY PoolTypes DEF PoolInv
<1> /\ OwnPool' = OwnPool /\ \A p \in Proc : WellNamed(p)' = WellNamed(p)
    /\ OtherPool => ~OwnPool
    /\ \A p \in Proc : WellNamed(p) => OwnPool
  BY NamesStay DEF OtherPool, WellNamed
<1> USE NobodyAssumption
    DEF PoolInv, TypeOK, HolderBusy, MetTogether, Alone, StaysActive, SourceNeeded,
        TargetNeeded, HadAsSource, Undisturbed, Running, Outcome, End, jobs, snapVars,
        Goto, Return
<1>1. CASE UNCHANGED vars
  BY <1>1 DEF vars
<1>2. ASSUME NEW p \in Proc, Step(p) PROVE PoolInv'
  \* A process that starts among others is in met', and so are they.
  <2>1. CASE Start(p)
    BY <2>1 DEF Start
  \* Whoever loses its snapshot has met p.
  <2>2. CASE ReleaseLeftover(p)
    <3>1. CASE OwnPool /\ snap' = Nobody
      BY <2>2, <3>1 DEF ReleaseLeftover
    <3>2. CASE ~OwnPool /\ snap' = snap
      BY <2>2, <3>2 DEF ReleaseLeftover
    <3>3. CASE snap # Nobody /\ UNCHANGED snap /\ ignored' = ignored \cup {<<p, "leftover">>}
      BY <2>2, <3>3 DEF ReleaseLeftover
    <3> QED
      BY <2>2, <3>1, <3>2, <3>3 DEF ReleaseLeftover
  <2>3. CASE Reserve(p)
    <3>1. CASE OwnPool /\ snap = Nobody /\ snap' = p
      <4>1. HolderBusy' /\ MetTogether' /\ StaysActive'
        BY <2>3, <3>1 DEF Reserve
      <4>2. \A q \in Proc \ met' : Alone(q)'
        BY <2>3, <3>1 DEF Reserve
      <4>3. Undisturbed'
        BY <2>3, <3>1 DEF Reserve
      <4> QED
        BY <4>1, <4>2, <4>3
    <3>2. CASE OtherPool /\ UNCHANGED snap
      BY <2>3, <3>2 DEF Reserve
    <3> QED
      BY <2>3, <3>1, <3>2 DEF Reserve
  \* A process that met no other finds no snapshot here.
  <2>4. CASE ReserveFails(p)
    <3>1. CASE ~OwnPool /\ Return(p, "refused", "refused")
      BY <2>4, <3>1 DEF ReserveFails
    <3>2. CASE snap # Nobody /\ Return(p, "refused", "refused")
      BY <2>4, <3>2 DEF ReserveFails
    <3>3. CASE Return(p, "failed", "failed")
      BY <2>4, <3>3 DEF ReserveFails
    <3> QED
      BY <2>4, <3>1, <3>2, <3>3 DEF ReserveFails
  <2>5. CASE ThinDeltaBegins(p)
    BY <2>5 DEF ThinDeltaBegins
  <2>6. CASE ThinDeltaEnds(p)
    BY <2>6 DEF ThinDeltaEnds
  <2>7. CASE ThinDeltaFails(p)
    <3>1. CASE pc[p] = "begin" /\ snap = Nobody /\ Return(p, "refused", "defer")
      BY <2>7, <3>1 DEF ThinDeltaFails
    <3>2. CASE pc[p] = "read" /\ snap # from[p] /\ Return(p, "refused", "defer")
      BY <2>7, <3>2 DEF ThinDeltaFails
    <3>3. CASE pc[p] \in {"begin", "read"} /\ Return(p, "failed", "defer")
      BY <2>7, <3>3 DEF ThinDeltaFails
    <3> QED
      BY <2>7, <3>1, <3>2, <3>3 DEF ThinDeltaFails
  \* The release p deferred ends its claim, and may end that of one it met.
  <2>8. CASE Release(p)
    <3>1. /\ UNCHANGED <<met, delta, result, from, active, jobs>> /\ ignored \subseteq ignored'
          /\ pc' = [pc EXCEPT ![p] = IF result[p] = "done" THEN "activatesrc" ELSE result[p]]
      BY <2>8 DEF Release
    <3>2. HolderBusy' /\ MetTogether' /\ StaysActive'
      <4>1. CASE UNCHANGED ignored /\ snap' = IF OwnPool THEN Nobody ELSE snap
        BY <2>8, <4>1 DEF Release
      <4>2. CASE snap # Nobody /\ UNCHANGED snap
                 /\ ignored' = IF snap = p THEN ignored \cup {<<p, "deferred">>} ELSE ignored
        BY <2>8, <4>2 DEF Release
      <4> QED
        BY <2>8, <4>1, <4>2 DEF Release
    <3>3. ASSUME NEW q \in Proc \ met' PROVE Alone(q)'
      <4>1. CASE q = p
        <5>1. pc'[p] \in {"activatesrc"} \cup Outcome
          BY <2>8, <3>1
        <5> QED  BY <4>1, <5>1
      <4>2. CASE q # p
        <5>1. pc'[q] = pc[q] /\ q \in Proc \ met
          BY <3>1, <4>2
        <5>2. CASE ~Running(q)
          BY <5>1, <5>2
        <5>3. CASE Running(q)
          BY <2>8, <4>2, <5>1, <5>3 DEF Release
        <5> QED  BY <5>2, <5>3
      <4> QED
        BY <4>1, <4>2
    <3>4. Undisturbed'
      <4>1. ASSUME NEW q \in Proc \ met', "refused" \in {pc'[q], result'[q]}
            PROVE  "refused" \in {pc[q], result[q]}
        BY <3>1, <4>1
      <4>2. ASSUME NEW q \in Proc \ met'
            PROVE  delta'[q] \in {Nobody, q} \/ ~OwnPool
        BY <3>1
      <4> QED
        BY <3>1, <4>1, <4>2
    <3> QED
      BY <3>2, <3>3, <3>4
  <2>9. CASE ActivateSrc(p)
    BY <2>9 DEF ActivateSrc
  <2>10. CASE Activate(p)
    BY <2>10 DEF Activate
  <2>11. CASE OpenSrc(p)
    <3>1. pc[p] = "opensrc" /\ Open(p, srcname[p], "hash")
      BY <2>11 DEF OpenSrc
    <3>2. p \notin met /\ WellNamed(p) => Found(srcname[p]) # {}
      BY <3>1 DEF WellNamed, Found
    <3> QED
      BY <3>1, <3>2 DEF Open
  <2>12. CASE Hashed(p)
    <3>1. CASE Close(p, "done", "open")
      BY <2>12, <3>1 DEF Hashed, Close
    <3>2. CASE "lvm" \in Faults /\ Close(p, "failed", "deactivate")
      BY <2>12, <3>2 DEF Hashed, Close
    <3> QED
      BY <2>12, <3>1, <3>2 DEF Hashed
  <2>13. CASE OpenLv(p)
    <3>1. pc[p] = "open" /\ Open(p, lvname[p], "send")
      BY <2>13 DEF OpenLv
    <3>2. p \notin met /\ WellNamed(p) => Found(lvname[p]) # {}
      BY <3>1 DEF WellNamed, Found
    <3> QED
      BY <3>1, <3>2 DEF Open
  <2>14. CASE Sent(p)
    BY <2>14 DEF Sent, Close
  \* srcname[p] goes: nobody who has not met p needs it.
  <2>15. CASE Deactivate(p)
    BY <2>15 DEF Deactivate
  \* A killed process may leave its snapshot, and its volumes active.
  <2>16. CASE Killed(p)
    BY <2>16 DEF Killed
  <2> QED
    BY <1>2, <2>1, <2>2, <2>3, <2>4, <2>5, <2>6, <2>7, <2>8, <2>9, <2>10, <2>11, <2>12,
       <2>13, <2>14, <2>15, <2>16 DEF Step
<1> QED
  BY <1>1, <1>2 DEF Next, Ended

\* PoolInv holds in every reachable state.
THEOREM PoolInvariance == Spec => []PoolInv
BY PoolInit, PoolStep, PTL DEF Spec

\* What an lvdiff that runs alone takes its delta from, and that it gets one and its
\* devices unless a release failed or its names lead elsewhere.
THEOREM UndisturbedCorrect == Spec => []Undisturbed
<1>1. PoolInv => Undisturbed
  BY DEF PoolInv
<1> QED
  BY <1>1, PoolInvariance, PTL

\* A snapshot that is left is that of a killed process, or of one whose release failed.
THEOREM NothingLeftCorrect == Spec => []NothingLeft
<1>1. PoolInv => NothingLeft
  BY DEF PoolInv, TypeOK, HolderBusy, NothingLeft, Running, Outcome, End
<1> QED
  BY <1>1, PoolInvariance, PTL

\* Nothing but the deferred deactivation of a backing volume takes A or B away.
THEOREM StaysActiveCorrect == Spec => []StaysActive
<1>1. PoolInv => StaysActive
  BY DEF PoolInv
<1> QED
  BY <1>1, PoolInvariance, PTL

-----------------------------------------------------------------------------
(* Names.                                                                  *)

\* What a name is made of; the provers do not know that a literal is a string.
Part == STRING \cup {"-", "tpool"}

\* The hyphens of a name before its k-th part.
HyphensBefore(n, k) == {l \in 1..(k-1) : n[l] = "-"}

\* They are finitely many, and move the parts behind them by as much.
LEMMA Places ==
  ASSUME NEW n \in Seq(Part), NEW k \in 1..(Len(n) + 1)
  PROVE  /\ IsFiniteSet(HyphensBefore(n, k))
         /\ Place(n, k) = k + Cardinality(HyphensBefore(n, k))
         /\ Place(n, k) \in Nat /\ Place(n, k) >= k
         /\ k = 1 => Place(n, k) = 1
         /\ k <= Len(n) =>
              Place(n, k+1) = Place(n, k) + (IF n[k] = "-" THEN 2 ELSE 1)
<1>1. Len(n) \in Nat /\ k \in Nat
  OBVIOUS
<1>2. IsFiniteSet(HyphensBefore(n, k))
  <2>1. IsFiniteSet(1..(k-1))
    BY <1>1, FS_Interval
  <2> QED  BY <2>1, FS_Subset DEF HyphensBefore
<1>3. Cardinality(HyphensBefore(n, k)) \in Nat
  BY <1>2, FS_CardinalityType
<1>4. Place(n, k) = k + Cardinality(HyphensBefore(n, k))
  BY DEF Place, HyphensBefore
<1>5. ASSUME k = 1 PROVE Place(n, k) = 1
  <2>1. HyphensBefore(n, k) = {}
    BY <1>5 DEF HyphensBefore
  <2>2. Cardinality(HyphensBefore(n, k)) = 0
    BY <2>1, FS_EmptySet
  <2> QED  BY <1>4, <1>5, <2>2
<1>6. ASSUME k <= Len(n)
      PROVE  Place(n, k+1) = Place(n, k) + (IF n[k] = "-" THEN 2 ELSE 1)
  <2>1. Place(n, k+1) = k + 1 + Cardinality(HyphensBefore(n, k+1))
    BY DEF Place, HyphensBefore
  <2>2. CASE n[k] = "-"
    <3>1. HyphensBefore(n, k+1) = HyphensBefore(n, k) \cup {k} /\ k \notin HyphensBefore(n, k)
      BY <1>1, <2>2 DEF HyphensBefore
    <3>2. Cardinality(HyphensBefore(n, k+1)) = Cardinality(HyphensBefore(n, k)) + 1
      BY <1>2, <3>1, FS_AddElement
    <3> QED  BY <1>1, <1>3, <1>4, <2>1, <2>2, <3>2
  <2>3. CASE n[k] # "-"
    <3>1. HyphensBefore(n, k+1) = HyphensBefore(n, k)
      BY <1>1, <2>3 DEF HyphensBefore
    <3> QED  BY <1>1, <1>3, <1>4, <2>1, <2>3, <3>1
  <2> QED  BY <2>2, <2>3
<1> QED  BY <1>1, <1>2, <1>3, <1>4, <1>5, <1>6

\* The parts keep their order.
LEMMA PlacesGrow ==
  ASSUME NEW n \in Seq(Part), NEW k \in 1..(Len(n) + 1), NEW l \in k..(Len(n) + 1)
  PROVE  Place(n, k) <= Place(n, l)
<1>1. Len(n) \in Nat /\ k \in Nat /\ l \in 1..(Len(n) + 1) /\ l \in Nat
  OBVIOUS
<1>2. HyphensBefore(n, k) \subseteq HyphensBefore(n, l)
  BY <1>1 DEF HyphensBefore
<1> DEFINE a == Cardinality(HyphensBefore(n, k))
           b == Cardinality(HyphensBefore(n, l))
<1>3. IsFiniteSet(HyphensBefore(n, l)) /\ Place(n, l) = l + b
  BY <1>1, Places
<1>4. IsFiniteSet(HyphensBefore(n, k)) /\ Place(n, k) = k + a
  BY <1>1, Places
<1>5. a \in Nat /\ b \in Nat /\ a <= b
  BY <1>2, <1>3, <1>4, FS_CardinalityType, FS_Subset
<1> QED  BY <1>1, <1>3, <1>4, <1>5

\* What stands where the k-th part comes to stand, once or twice.
LEMMA DoubledAt ==
  ASSUME NEW n \in Seq(Part), NEW k \in 1..Len(n),
         NEW m \in Place(n, k)..(Place(n, k+1) - 1)
  PROVE  m \in 1..(Place(n, Len(n) + 1) - 1) /\ Doubled(n)[m] = n[k]
<1>1. Len(n) \in Nat /\ k \in Nat /\ k \in 1..(Len(n) + 1) /\ k + 1 \in 1..(Len(n) + 1)
  OBVIOUS
<1>2. Place(n, k) \in Nat /\ Place(n, k) >= k /\ Place(n, k+1) \in Nat
  BY <1>1, Places
<1>3. Place(n, k+1) <= Place(n, Len(n) + 1) /\ Place(n, Len(n) + 1) \in Nat
  BY <1>1, Places, PlacesGrow
<1>4. m \in 1..(Place(n, Len(n) + 1) - 1)
  BY <1>1, <1>2, <1>3
<1>5. ASSUME NEW l \in 1..Len(n), m \in Place(n, l)..(Place(n, l+1) - 1)
      PROVE  l = k
  <2>1. l \in 1..(Len(n) + 1) /\ l + 1 \in 1..(Len(n) + 1)
    BY <1>1
  <2>2. Place(n, l) \in Nat /\ Place(n, l+1) \in Nat
    BY <2>1, Places
  <2>3. ASSUME l < k PROVE FALSE
    <3>1. Place(n, l+1) <= Place(n, k)
      BY <1>1, <2>1, <2>3, PlacesGrow
    <3> QED  BY <1>2, <1>5, <2>2, <3>1
  <2>4. ASSUME k < l PROVE FALSE
    <3>1. Place(n, k+1) <= Place(n, l)
      BY <1>1, <2>1, <2>4, PlacesGrow
    <3> QED  BY <1>2, <1>5, <2>2, <3>1
  <2> QED  BY <1>1, <2>3, <2>4
<1>6. (CHOOSE l \in 1..Len(n) : m \in Place(n, l)..(Place(n, l+1) - 1)) = k
  BY <1>5
<1> QED  BY <1>4, <1>6 DEF Doubled

\* Nothing else stands in the doubled name.
LEMMA DoubledIsSeq ==
  ASSUME NEW n \in Seq(Part)
  PROVE  Doubled(n) \in Seq(Part) /\ Len(Doubled(n)) = Place(n, Len(n) + 1) - 1
<1> DEFINE N == Place(n, Len(n) + 1) - 1
<1>1. Len(n) \in Nat /\ Len(n) + 1 \in 1..(Len(n) + 1)
  OBVIOUS
<1>2. N \in Nat
  BY <1>1, Places
<1>3. ASSUME NEW m \in 1..N PROVE Doubled(n)[m] \in Part
  <2> DEFINE S == {k \in 1..Len(n) : m < Place(n, k+1)}
  <2>1. Len(n) \in S
    <3>1. Len(n) # 0
      <4>1. Place(n, 1) = 1
        BY <1>1, Places
      <4> QED  BY <1>1, <1>2, <1>3, <4>1
    <3>2. m < Place(n, Len(n) + 1)
      <4>1. Place(n, Len(n) + 1) \in Nat
        BY <1>1, Places
      <4> QED  BY <1>3, <4>1
    <3> QED  BY <1>1, <3>1, <3>2
  <2>2. S \in SUBSET Nat
    BY <1>1
  <2>3. PICK k \in S : \A l \in S : k <= l
    BY <2>1, <2>2, LeastNat
  <2>4. k \in 1..Len(n) /\ m < Place(n, k+1) /\ Place(n, k) \in Nat /\ Place(n, k+1) \in Nat
    <3>1. k \in 1..Len(n) /\ m < Place(n, k+1)
      BY <2>3
    <3>2. k \in 1..(Len(n) + 1) /\ k + 1 \in 1..(Len(n) + 1)
      BY <1>1, <3>1
    <3> QED  BY <3>1, <3>2, Places
  <2>5. Place(n, k) <= m
    <3>1. CASE k = 1
      <4>1. Place(n, 1) = 1
        BY <1>1, Places
      <4> QED  BY <1>3, <3>1, <4>1
    <3>2. CASE k # 1
      <4>1. PICK l \in Nat : k = l + 1
        BY <2>4, <3>2
      <4>2. l \in 1..Len(n) /\ ~(k <= l)
        BY <1>1, <2>4, <3>2, <4>1
      <4>3. ~(m < Place(n, l+1))
        BY <2>3, <4>2
      <4> QED  BY <1>3, <2>4, <4>1, <4>3
    <3> QED  BY <3>1, <3>2
  <2>6. m \in Place(n, k)..(Place(n, k+1) - 1)
    BY <1>3, <2>4, <2>5
  <2>7. Doubled(n)[m] = n[k]
    BY <2>4, <2>6, DoubledAt
  <2> QED  BY <2>4, <2>7
<1>4. Doubled(n) = [m \in 1..N |-> Doubled(n)[m]]
  BY DEF Doubled
<1>5. Doubled(n) \in [1..N -> Part]
  BY <1>3, <1>4
<1> HIDE DEF N
<1>6. Doubled(n) \in Seq(Part) /\ Len(Doubled(n)) = N
  BY <1>2, <1>5
<1> QED  BY <1>6 DEF N

\* A name without a hyphen stays as it is.
LEMMA PlainName ==
  ASSUME NEW n \in Seq(Part), \A k \in 1..Len(n) : n[k] # "-"
  PROVE  Doubled(n) = n
<1>1. Len(n) \in Nat
  OBVIOUS
<1>2. ASSUME NEW k \in 1..(Len(n) + 1) PROVE Place(n, k) = k
  <2>1. HyphensBefore(n, k) = {}
    BY <1>1 DEF HyphensBefore
  <2> QED  BY <1>1, <2>1, Places, FS_EmptySet
<1>3. Doubled(n) \in Seq(Part) /\ Len(Doubled(n)) = Len(n)
  BY <1>1, <1>2, DoubledIsSeq
<1>4. ASSUME NEW k \in 1..Len(n) PROVE Doubled(n)[k] = n[k]
  <2>1. Place(n, k) = k /\ Place(n, k+1) = k + 1
    BY <1>1, <1>2
  <2>2. k \in Place(n, k)..(Place(n, k+1) - 1)
    BY <1>1, <2>1
  <2> QED  BY <2>2, DoubledAt
<1> QED  BY <1>3, <1>4, SeqEqual

\* A path: a name, a hyphen, another name.
LEMMA PathParts ==
  ASSUME NEW a \in Seq(Part), NEW b \in Seq(Part)
  PROVE  LET path == a \o <<"-">> \o b IN
         /\ Len(path) = Len(a) + 1 + Len(b)
         /\ \A m \in 1..Len(a) : path[m] = a[m]
         /\ path[Len(a) + 1] = "-"
         /\ \A m \in 1..Len(b) : path[Len(a) + 1 + m] = b[m]
<1> DEFINE h == <<"-">>
           c == a \o h
<1>1. h \in Seq(Part) /\ Len(h) = 1 /\ h[1] = "-"
  <2>1. \A x \in Part : <<x>> \in Seq(Part) /\ Len(<<x>>) = 1 /\ <<x>>[1] = x
    OBVIOUS
  <2>2. "-" \in Part
    BY DEF Part
  <2> QED  BY <2>1, <2>2, Zenon
<1> HIDE DEF h
<1>2. Len(a) \in Nat /\ Len(b) \in Nat
  BY LenProperties
<1>3. /\ c \in Seq(Part) /\ Len(c) = Len(a) + 1
      /\ \A m \in 1..Len(a) : c[m] = a[m]
      /\ c[Len(a) + 1] = "-"
  <2>1. /\ c \in Seq(Part) /\ Len(c) = Len(a) + Len(h)
        /\ \A m \in 1..(Len(a) + Len(h)) :
             c[m] = IF m <= Len(a) THEN a[m] ELSE h[m - Len(a)]
    BY <1>1, ConcatProperties
  <2> HIDE DEF c
  <2> QED  BY <1>1, <1>2, <2>1
<1> HIDE DEF c
<1>4. /\ Len(c \o b) = Len(c) + Len(b)
      /\ \A m \in 1..(Len(c) + Len(b)) :
           (c \o b)[m] = IF m <= Len(c) THEN c[m] ELSE b[m - Len(c)]
  BY <1>3, ConcatProperties
<1>5. /\ Len(c \o b) = Len(a) + 1 + Len(b)
      /\ \A m \in 1..Len(a) : (c \o b)[m] = a[m]
      /\ (c \o b)[Len(a) + 1] = "-"
      /\ \A m \in 1..Len(b) : (c \o b)[Len(a) + 1 + m] = b[m]
  BY <1>2, <1>3, <1>4
<1> QED  BY <1>5 DEF c, h

\* A name has a first part, which is no hyphen.
LEMMA NameParts ==
  ASSUME NEW n \in Name
  PROVE  n \in Seq(Part) /\ Len(n) \in Nat \ {0} /\ n[1] # "-"
<1>1. n \in Seq(STRING) /\ n # <<>> /\ n[1] # "-"
  BY DEF Name
<1>2. n \in [1..Len(n) -> STRING] /\ Len(n) \in Nat /\ Len(n) # 0
  BY <1>1
<1>3. n \in [1..Len(n) -> Part]
  BY <1>2 DEF Part
<1>4. n \in Seq(Part)
  BY <1>2, <1>3
<1> QED  BY <1>1, <1>2, <1>4

\* A doubled name is a name without two hyphens in a row only if it has none.
LEMMA DoubledPlain ==
  ASSUME NEW n \in Seq(Part), ~TwoHyphens(Doubled(n))
  PROVE  Doubled(n) = n /\ \A k \in 1..Len(n) : n[k] # "-"
<1>1. ASSUME NEW k \in 1..Len(n), n[k] = "-" PROVE FALSE
  <2>1. Len(n) \in Nat /\ k \in Nat /\ k \in 1..(Len(n) + 1)
    OBVIOUS
  <2> DEFINE m == Place(n, k)
  <2>2. m \in Nat /\ Place(n, k+1) = m + 2
    BY <1>1, <2>1, Places
  <2>3. m \in Place(n, k)..(Place(n, k+1) - 1) /\ m + 1 \in Place(n, k)..(Place(n, k+1) - 1)
    BY <2>2
  <2>4. /\ m \in 1..Len(Doubled(n)) /\ Doubled(n)[m] = "-"
        /\ m + 1 \in 1..Len(Doubled(n)) /\ Doubled(n)[m + 1] = "-"
    BY <1>1, <2>3, DoubledAt, DoubledIsSeq
  <2>5. Len(Doubled(n)) \in Nat
    BY DoubledIsSeq, LenProperties
  <2> HIDE DEF m
  <2>6. m \in 1..(Len(Doubled(n)) - 1)
    BY <2>2, <2>4, <2>5
  <2> QED  BY <2>4, <2>6 DEF TwoHyphens
<1> QED  BY <1>1, PlainName

\* A path with no two hyphens in a row, wherever it leads, leads to what has the names
\* it is made of.
LEMMA LedByName ==
  ASSUME NEW g \in Name, NEW v \in Name, NEW h \in Name, NEW w \in Name,
         DmLv(h, w) = LvDevicePath(g, v), ~TwoHyphens(LvDevicePath(g, v))
  PROVE  h = g /\ w = v
<1> DEFINE path == LvDevicePath(g, v)
           d == Doubled(h)
           e == Doubled(w)
<1>1. /\ g \in Seq(Part) /\ v \in Seq(Part) /\ h \in Seq(Part) /\ w \in Seq(Part)
      /\ Len(g) \in Nat /\ Len(v) \in Nat
  BY NameParts
<1>2. d \in Seq(Part) /\ e \in Seq(Part) /\ Len(d) \in Nat /\ Len(e) \in Nat
  BY <1>1, DoubledIsSeq, LenProperties
<1>3. path = d \o <<"-">> \o e
  BY DEF DmLv
<1>4. path = g \o <<"-">> \o v
  BY DEF LvDevicePath
<1>5. ~TwoHyphens(path)
  OBVIOUS
<1> HIDE DEF path, d, e
<1>6. /\ Len(path) = Len(d) + 1 + Len(e)
      /\ \A m \in 1..Len(d) : path[m] = d[m]
      /\ \A m \in 1..Len(e) : path[Len(d) + 1 + m] = e[m]
  BY <1>2, <1>3, PathParts
<1>7. /\ Len(path) = Len(g) + 1 + Len(v)
      /\ \A m \in 1..Len(g) : path[m] = g[m]
      /\ path[Len(g) + 1] = "-"
      /\ \A m \in 1..Len(v) : path[Len(g) + 1 + m] = v[m]
  BY <1>1, <1>4, PathParts
\* Neither name has a hyphen: it would be doubled.
<1>8. d = h /\ \A k \in 1..Len(d) : d[k] # "-"
  <2>1. ~TwoHyphens(d)
    <3>1. ASSUME NEW k \in 1..(Len(d) - 1), d[k] = "-", d[k+1] = "-" PROVE FALSE
      <4>1. k \in 1..Len(d) /\ k + 1 \in 1..Len(d) /\ k \in 1..(Len(path) - 1)
        BY <1>2, <1>6
      <4>2. path[k] = "-" /\ path[k+1] = "-"
        BY <1>6, <3>1, <4>1
      <4> QED  BY <1>5, <4>1, <4>2 DEF TwoHyphens
    <3> QED  BY <3>1 DEF TwoHyphens
  <2>2. Doubled(h) = h /\ \A k \in 1..Len(h) : h[k] # "-"
    BY <1>1, <2>1, DoubledPlain DEF d
  <2> QED  BY <2>2 DEF d
<1>9. e = w /\ \A k \in 1..Len(e) : e[k] # "-"
  <2>1. ~TwoHyphens(e)
    <3>1. ASSUME NEW k \in 1..(Len(e) - 1), e[k] = "-", e[k+1] = "-" PROVE FALSE
      <4> DEFINE m == Len(d) + 1 + k
      <4>1. k \in 1..Len(e) /\ k + 1 \in 1..Len(e)
        BY <1>2
      <4>2. path[Len(d) + 1 + k] = "-" /\ path[Len(d) + 1 + (k+1)] = "-"
        BY <1>6, <3>1, <4>1
      <4>3. m \in 1..(Len(path) - 1) /\ m + 1 = Len(d) + 1 + (k+1)
        BY <1>2, <1>6
      <4>4. path[m] = "-" /\ path[m+1] = "-"
        BY <4>2, <4>3
      <4> HIDE DEF m
      <4> QED  BY <1>5, <4>3, <4>4 DEF TwoHyphens
    <3> QED  BY <3>1 DEF TwoHyphens
  <2>2. Doubled(w) = w /\ \A k \in 1..Len(w) : w[k] # "-"
    BY <1>1, <2>1, DoubledPlain DEF e
  <2> QED  BY <2>2 DEF e
\* So the only hyphen of the path is the one between the names.
<1>10. Len(d) = Len(g)
  <2>1. CASE Len(g) < Len(d)
    <3>1. Len(g) + 1 \in 1..Len(d)
      BY <1>1, <1>2, <2>1
    <3> QED  BY <1>6, <1>7, <1>8, <3>1
  <2>2. CASE Len(d) < Len(g)
    <3> DEFINE m == Len(g) - Len(d)
    <3>1. m \in Nat
      BY <1>1, <1>2, <2>2
    <3>2. m \in 1..Len(e) /\ Len(g) + 1 = Len(d) + 1 + m
      BY <1>1, <1>2, <1>6, <1>7, <2>2, <3>1
    <3>3. path[Len(d) + 1 + m] = e[m]
      BY <1>6, <3>2
    <3> QED  BY <1>7, <1>9, <3>2, <3>3
  <2> QED  BY <1>1, <1>2, <2>1, <2>2
<1>11. \A m \in 1..Len(d) : d[m] = g[m]
  BY <1>6, <1>7, <1>10
<1>12. Len(e) = Len(v) /\ \A m \in 1..Len(e) : e[m] = v[m]
  BY <1>1, <1>2, <1>6, <1>7, <1>10
<1>13. d = g
  BY <1>1, <1>2, <1>10, <1>11, SeqEqual
<1>14. e = v
  BY <1>1, <1>2, <1>12, SeqEqual
<1> QED  BY <1>8, <1>9, <1>13, <1>14

\* The same for the path of a pool.
LEMMA LedByPoolName ==
  ASSUME NEW g \in Name, NEW p \in Name, NEW h \in Name, NEW q \in Name,
         DmTPool(h, q) = TPoolDevicePath(g, p), ~TwoHyphens(TPoolDevicePath(g, p))
  PROVE  h = g /\ q = p
<1> DEFINE tail == <<"-", "tpool">>
           x == DmLv(h, q)
           y == LvDevicePath(g, p)
           path == TPoolDevicePath(g, p)
<1>1. /\ x \in Seq(Part) /\ y \in Seq(Part) /\ tail \in Seq(Part)
      /\ Len(x) \in Nat /\ Len(y) \in Nat /\ Len(tail) \in Nat
  <2>1. "-" \in Part /\ "tpool" \in Part
    BY DEF Part
  <2>2. <<"-">> \in Seq(Part) /\ tail \in Seq(Part)
    BY <2>1
  <2>3. g \in Seq(Part) /\ p \in Seq(Part) /\ Doubled(h) \in Seq(Part) /\ Doubled(q) \in Seq(Part)
    BY NameParts, DoubledIsSeq
  <2>4. x \in Seq(Part) /\ y \in Seq(Part)
    BY <2>2, <2>3, ConcatProperties DEF DmLv, LvDevicePath
  <2> QED  BY <2>2, <2>4, LenProperties
<1>2. path = x \o tail
  BY DEF DmTPool
<1>3. path = y \o tail
  BY DEF TPoolDevicePath, LvDevicePath
<1>4. ~TwoHyphens(path)
  OBVIOUS
<1> HIDE DEF tail, x, y, path
<1>5. /\ Len(path) = Len(x) + Len(tail)
      /\ \A m \in 1..(Len(x) + Len(tail)) :
           path[m] = IF m <= Len(x) THEN x[m] ELSE tail[m - Len(x)]
  BY <1>1, <1>2, ConcatProperties
<1>6. /\ Len(path) = Len(y) + Len(tail)
      /\ \A m \in 1..(Len(y) + Len(tail)) :
           path[m] = IF m <= Len(y) THEN y[m] ELSE tail[m - Len(y)]
  BY <1>1, <1>3, ConcatProperties
<1>7. x = y
  <2>1. Len(x) = Len(y)
    BY <1>1, <1>5, <1>6
  <2>2. ASSUME NEW m \in 1..Len(x) PROVE x[m] = y[m]
    <3>1. m \in 1..(Len(x) + Len(tail)) /\ m <= Len(x) /\ m \in 1..(Len(y) + Len(tail)) /\ m <= Len(y)
      BY <1>1, <2>1
    <3> QED  BY <1>5, <1>6, <3>1
  <2> QED  BY <1>1, <2>1, <2>2, SeqEqual
<1>8. ~TwoHyphens(y)
  <2>1. ASSUME NEW k \in 1..(Len(y) - 1), y[k] = "-", y[k+1] = "-" PROVE FALSE
    <3>1. /\ k \in 1..(Len(y) + Len(tail)) /\ k <= Len(y)
          /\ k+1 \in 1..(Len(y) + Len(tail)) /\ k+1 <= Len(y)
      BY <1>1
    <3>2. path[k] = "-" /\ path[k+1] = "-"
      BY <1>6, <2>1, <3>1
    <3>3. k \in 1..(Len(path) - 1)
      BY <1>1, <1>6
    <3> QED  BY <1>4, <3>2, <3>3 DEF TwoHyphens
  <2> QED  BY <2>1 DEF TwoHyphens
<1>9. DmLv(h, q) = LvDevicePath(g, p) /\ ~TwoHyphens(LvDevicePath(g, p))
  BY <1>7, <1>8 DEF x, y
<1> QED  BY <1>9, LedByName

\* No two volumes have the same names, so that such a path leads to no other.
LEMMA LedToItself ==
  ASSUME name \in Namings, NEW lv \in Lv, ~TwoHyphens(PathOf(lv))
  PROVE  LedTo(lv) \subseteq {lv}
<1>1. /\ name.vg \in Name /\ name.lv \in [Lv -> Name]
      /\ \A v, w \in Lv : name.lv[v] = name.lv[w] => v = w
      /\ name.volumes \subseteq [vg : Name, lv : Name]
      /\ [vg |-> name.vg, lv |-> name.lv[lv]] \notin name.volumes
  BY NamingsAssumption
<1>2. ASSUME NEW v \in Lv, DmLv(name.vg, name.lv[v]) = PathOf(lv)
      PROVE  v = lv
  <2>1. name.lv[v] = name.lv[lv]
    BY <1>1, <1>2, LedByName DEF PathOf
  <2> QED  BY <1>1, <2>1
<1>3. ASSUME NEW o \in name.volumes, DmLv(o.vg, o.lv) = PathOf(lv)
      PROVE  FALSE
  <2>1. o \in [vg : Name, lv : Name]
    BY <1>1
  <2>2. o.vg \in Name /\ o.lv \in Name /\ o = [vg |-> o.vg, lv |-> o.lv]
    BY <2>1
  <2>3. o.vg = name.vg /\ o.lv = name.lv[lv]
    BY <1>1, <1>3, <2>2, LedByName DEF PathOf
  <2> QED  BY <1>1, <2>2, <2>3
<1> QED  BY <1>2, <1>3 DEF LedTo

\* Nor have two pools.
LEMMA NoOtherPool ==
  ASSUME name \in Namings, OtherPool
  PROVE  TwoHyphens(TPoolDevicePath(name.vg, name.pool))
<1> SUFFICES ASSUME ~TwoHyphens(TPoolDevicePath(name.vg, name.pool)) PROVE FALSE
  OBVIOUS
<1>1. /\ name.vg \in Name /\ name.pool \in Name
      /\ name.pools \subseteq [vg : Name, pool : Name]
      /\ [vg |-> name.vg, pool |-> name.pool] \notin name.pools
  BY NamingsAssumption
<1>2. PICK o \in name.pools : DmTPool(o.vg, o.pool) = TPoolDevicePath(name.vg, name.pool)
  BY DEF OtherPool
<1>3. o \in [vg : Name, pool : Name]
  BY <1>1
<1>4. o.vg \in Name /\ o.pool \in Name /\ o = [vg |-> o.vg, pool |-> o.pool]
  BY <1>3
<1>5. o.vg = name.vg /\ o.pool = name.pool
  BY <1>1, <1>2, <1>4, LedByPoolName
<1> QED  BY <1>1, <1>4, <1>5

\* A process opens a device by the path of the volume whose turn it is, and closes it
\* before the next; it takes a delta from the pool its path leads to.
THEOREM OpenInvariance == Spec => []OpenLedTo
<1>1. Init => OpenLedTo
  BY NobodyAssumption DEF Init, OpenLedTo
<1>2. TypeOK /\ OpenLedTo /\ [Next]_vars => OpenLedTo'
  <2> SUFFICES ASSUME TypeOK, OpenLedTo, [Next]_vars PROVE OpenLedTo'
    OBVIOUS
  <2>1. /\ UNCHANGED <<name, lvname, srcname>>
        /\ \A lv \in Lv : LedTo(lv)' = LedTo(lv)
        /\ OtherPool' = OtherPool
    <3>1. UNCHANGED <<name, lvname, srcname>>
      BY DEF Next, Ended, vars, jobs, Step, Start, ReleaseLeftover, Reserve, ReserveFails,
             ThinDeltaBegins, ThinDeltaEnds, ThinDeltaFails, Release, ActivateSrc, Activate,
             OpenSrc, OpenLv, Open, Hashed, Sent, Close, Deactivate, Killed
    <3> QED  BY <3>1, NamesStay DEF LedTo, PathOf
  <2>2. CASE UNCHANGED vars
    BY <2>1, <2>2 DEF vars, OpenLedTo, ToRead, LedTo, PathOf
  <2>3. ASSUME NEW p \in Proc, Step(p) PROVE OpenLedTo'
    <3> SUFFICES ASSUME NEW q \in Proc
                 PROVE  /\ IF pc'[q] \in {"hash", "send"}
                           THEN open'[q] \subseteq LedTo(ToRead(q)') ELSE open'[q] = {}
                        /\ "other" \in {from'[q], delta'[q]} => OtherPool
      BY <2>1 DEF OpenLedTo, ToRead, LedTo, PathOf
    <3>1. /\ IF pc[q] \in {"hash", "send"}
             THEN open[q] \subseteq LedTo(ToRead(q)) ELSE open[q] = {}
          /\ "other" \in {from[q], delta[q]} => OtherPool
      BY DEF OpenLedTo
    <3>2. CASE OpenSrc(p) \/ OpenLv(p)
      BY <2>1, <3>1, <3>2
      DEF OpenSrc, OpenLv, Open, Found, Goto, Return, ToRead, TypeOK
    <3>3. CASE Hashed(p) \/ Sent(p) \/ Killed(p)
      BY <2>1, <3>1, <3>3 DEF Hashed, Sent, Killed, Close, Goto, Return, ToRead, TypeOK
    <3>4. CASE ThinDeltaBegins(p) \/ ThinDeltaEnds(p)
      <4>1. /\ open' = open /\ open[p] = {} /\ pc'[p] \notin {"hash", "send"}
            /\ \A r \in Proc \ {p} : pc'[r] = pc[r]
        BY <3>4 DEF ThinDeltaBegins, ThinDeltaEnds, Goto, TypeOK, OpenLedTo
      <4>2. "other" \in {from'[q], delta'[q]} => OtherPool
        BY <3>1, <3>4, NobodyAssumption DEF ThinDeltaBegins, ThinDeltaEnds, TypeOK
      <4> QED  BY <2>1, <3>1, <4>1, <4>2 DEF ToRead
    <3>5. CASE \/ Start(p) \/ ReleaseLeftover(p) \/ Reserve(p) \/ ReserveFails(p)
               \/ ThinDeltaFails(p) \/ Release(p)
               \/ ActivateSrc(p) \/ Activate(p) \/ Deactivate(p)
      <4>1. /\ open' = open /\ open[p] = {} /\ pc'[p] \notin {"hash", "send"}
            /\ \A r \in Proc \ {p} : pc'[r] = pc[r]
            /\ from' = from /\ delta' = delta
        BY <3>5 DEF Start, ReleaseLeftover, Reserve, ReserveFails, ThinDeltaFails, Release,
             ActivateSrc, Activate, Deactivate, Goto, Return, TypeOK, Outcome, OpenLedTo
      <4> QED  BY <2>1, <3>1, <4>1 DEF ToRead
    <3> QED  BY <2>3, <3>2, <3>3, <3>4, <3>5 DEF Step
  <2> QED  BY <2>2, <2>3 DEF Next, Ended
<1>3. PoolInv => TypeOK
  BY DEF PoolInv
<1> QED  BY <1>1, <1>2, <1>3, PoolInvariance, PTL DEF Spec

\* An lvdiff reads no volume but those it was told to, each at its turn, and no other
\* pool, unless there are two hyphens in a row in the path.
THEOREM ReadsItsOwnCorrect == Spec => []ReadsItsOwn
<1>1. TypeOK /\ OpenLedTo => ReadsItsOwn
  <2> SUFFICES ASSUME TypeOK, OpenLedTo, NEW p \in Proc
               PROVE  /\ open[p] \subseteq {ToRead(p)} \/ TwoHyphens(PathOf(ToRead(p)))
                      /\ delta[p] = "other" =>
                           TwoHyphens(TPoolDevicePath(name.vg, name.pool))
    BY DEF ReadsItsOwn
  <2>1. ToRead(p) \in Lv
    BY DEF ToRead, TypeOK
  <2>2. ~TwoHyphens(PathOf(ToRead(p))) => LedTo(ToRead(p)) \subseteq {ToRead(p)}
    BY <2>1, LedToItself DEF TypeOK
  <2>3. open[p] \subseteq {} \/ open[p] \subseteq LedTo(ToRead(p))
    BY DEF OpenLedTo
  <2>4. delta[p] = "other" => OtherPool
    BY DEF OpenLedTo
  <2> QED  BY <2>2, <2>3, <2>4, NoOtherPool DEF TypeOK
<1>2. PoolInv => TypeOK
  BY DEF PoolInv
<1> QED  BY <1>1, <1>2, PoolInvariance, OpenInvariance, PTL

=============================================================================
