--------------------------- MODULE CompareProofs ---------------------------
(***************************************************************************)
(* CompareDeviceBlocks finds the difference of any two devices and refuses *)
(* none that is counted right: CompareInv is inductive.                    *)
(***************************************************************************)
EXTENDS CompareBlocks, FiniteSetTheorems, TLAPS

-----------------------------------------------------------------------------
(* Lists.                                                                  *)

\* The entries of a slice after an append.
LEMMA ElementsAppend ==
  ASSUME NEW T, NEW s \in Seq(T), NEW x \in T
  PROVE  Elements(Append(s, x)) = Elements(s) \cup {x}
<1>1. /\ Len(Append(s, x)) = Len(s) + 1
      /\ \A k \in 1..Len(s) : Append(s, x)[k] = s[k]
      /\ Append(s, x)[Len(s) + 1] = x
  OBVIOUS
<1>2. 1..(Len(s) + 1) = (1..Len(s)) \cup {Len(s) + 1}
  <2>1. Len(s) \in Nat
    OBVIOUS
  <2> QED  BY <2>1
<1> QED  BY <1>1, <1>2, Zenon DEF Elements

\* The entries of a slice to which a list is appended.
LEMMA ElementsConcat ==
  ASSUME NEW T, NEW s \in Seq(T), NEW t \in Seq(T)
  PROVE  Elements(s \o t) = Elements(s) \cup Elements(t)
<1>1. /\ Len(s \o t) = Len(s) + Len(t)
      /\ Len(s) \in Nat /\ Len(t) \in Nat
      /\ \A k \in 1..Len(s) : (s \o t)[k] = s[k]
      /\ \A k \in 1..Len(t) : (s \o t)[Len(s) + k] = t[k]
  OBVIOUS
<1>2. ASSUME NEW x \in Elements(s \o t)
      PROVE  x \in Elements(s) \cup Elements(t)
  <2>1. PICK k \in 1..(Len(s) + Len(t)) : x = (s \o t)[k]
    BY <1>1, <1>2 DEF Elements
  <2>2. CASE k <= Len(s)
    BY <2>1, <2>2, <1>1 DEF Elements
  <2>3. CASE k > Len(s)
    <3>1. k - Len(s) \in 1..Len(t) /\ k = Len(s) + (k - Len(s))
      BY <2>1, <2>3, <1>1
    <3> QED  BY <2>1, <3>1, <1>1 DEF Elements
  <2> QED  BY <2>1, <2>2, <2>3, <1>1
<1>3. ASSUME NEW x \in Elements(s)
      PROVE  x \in Elements(s \o t)
  BY <1>1 DEF Elements
<1>4. ASSUME NEW x \in Elements(t)
      PROVE  x \in Elements(s \o t)
  <2>1. PICK k \in 1..Len(t) : x = t[k]
    BY DEF Elements
  <2>2. Len(s) + k \in 1..Len(s \o t)
    BY <1>1, <2>1
  <2> QED  BY <2>1, <2>2, <1>1 DEF Elements
<1> QED  BY <1>2, <1>3, <1>4

\* A slice stays ascending when what is appended lies behind its entries.
LEMMA AscendingAppend ==
  ASSUME NEW s \in Seq(DeltaEntry), NEW x \in DeltaEntry, Ascending(s),
         \A e \in Elements(s) : e.origin < x.origin
  PROVE  Ascending(Append(s, x))
<1>1. /\ Len(Append(s, x)) = Len(s) + 1 /\ Len(s) \in Nat
      /\ \A k \in 1..Len(s) : Append(s, x)[k] = s[k]
      /\ Append(s, x)[Len(s) + 1] = x
  OBVIOUS
<1> SUFFICES ASSUME NEW k \in 1..(Len(s) + 1), NEW l \in 1..(Len(s) + 1), k < l
             PROVE  Append(s, x)[k].origin < Append(s, x)[l].origin
  BY <1>1 DEF Ascending
<1>2. k \in 1..Len(s)
  BY <1>1
<1>3. CASE l = Len(s) + 1
  BY <1>1, <1>2, <1>3 DEF Elements
<1>4. CASE l # Len(s) + 1
  <2>1. l \in 1..Len(s)
    BY <1>1, <1>4
  <2> QED  BY <1>1, <1>2, <2>1 DEF Ascending
<1> QED  BY <1>3, <1>4

\* And when a whole ascending list is appended that lies behind them.
LEMMA AscendingConcat ==
  ASSUME NEW s \in Seq(DeltaEntry), NEW t \in Seq(DeltaEntry),
         Ascending(s), Ascending(t),
         \A e \in Elements(s), f \in Elements(t) : e.origin < f.origin
  PROVE  Ascending(s \o t)
<1>1. /\ Len(s \o t) = Len(s) + Len(t)
      /\ Len(s) \in Nat /\ Len(t) \in Nat
      /\ \A k \in 1..Len(s) : (s \o t)[k] = s[k]
      /\ \A k \in 1..Len(t) : (s \o t)[Len(s) + k] = t[k]
  OBVIOUS
<1> SUFFICES ASSUME NEW k \in 1..(Len(s) + Len(t)), NEW l \in 1..(Len(s) + Len(t)),
                    k < l
             PROVE  (s \o t)[k].origin < (s \o t)[l].origin
  BY <1>1 DEF Ascending
<1>2. CASE l <= Len(s)
  <2>1. k \in 1..Len(s) /\ l \in 1..Len(s)
    BY <1>1, <1>2
  <2> QED  BY <1>1, <2>1 DEF Ascending
<1>3. CASE l > Len(s)
  <2>1. l - Len(s) \in 1..Len(t) /\ l = Len(s) + (l - Len(s))
    BY <1>1, <1>3
  <2>2. (s \o t)[l] = t[l - Len(s)]
    BY <1>1, <2>1
  <2>3. CASE k <= Len(s)
    BY <1>1, <2>1, <2>2, <2>3 DEF Elements
  <2>4. CASE k > Len(s)
    <3>1. k - Len(s) \in 1..Len(t) /\ k = Len(s) + (k - Len(s)) /\ k - Len(s) < l - Len(s)
      BY <1>1, <2>1, <2>4
    <3>2. (s \o t)[k] = t[k - Len(s)]
      BY <1>1, <3>1
    <3> QED  BY <2>1, <2>2, <3>1, <3>2 DEF Ascending
  <2> QED  BY <2>3, <2>4, <1>1
<1> QED  BY <1>2, <1>3, <1>1

\* A function on 1..n is a sequence.
LEMMA FunctionIsSeq ==
  ASSUME NEW T, NEW n \in Nat, NEW t \in [1..n -> T]
  PROVE  t \in Seq(T) /\ Len(t) = n
OBVIOUS

EntriesFrom(s, from, op) == {Entry(s[k].origin, op) : k \in from..Len(s)}

\* The entries made of what is left of a list from an index on.
LEMMA RestOf ==
  ASSUME NEW s \in Seq(Mapping), Ascending(s),
         NEW i0 \in Nat \ {0}, i0 <= Len(s) + 1,
         NEW op \in DeltaOpType
  PROVE  /\ Rest(s, i0, op) \in Seq(DeltaEntry)
         /\ Ascending(Rest(s, i0, op))
         /\ Elements(Rest(s, i0, op)) = EntriesFrom(s, i0, op)
<1> DEFINE t == Rest(s, i0, op)
<1> DEFINE n == Len(s) - i0 + 1
<1>1. n \in Nat /\ Len(s) \in Nat
  OBVIOUS
<1>2. \A k \in 1..n : i0 + k - 1 \in 1..Len(s) /\ i0 + k - 1 \in i0..Len(s)
  BY <1>1
<1>3. \A k \in 1..n : /\ t[k] = Entry(s[i0+k-1].origin, op)
                       /\ t[k].origin = s[i0+k-1].origin
                       /\ t[k] \in DeltaEntry
  <2> TAKE k \in 1..n
  <2>1. t[k] = Entry(s[i0+k-1].origin, op)
    BY DEF Rest
  <2>2. s[i0+k-1] \in Mapping
    BY <1>2
  <2> QED  BY <2>1, <2>2 DEF Entry, DeltaEntry, Mapping
<1>4. t \in [1..n -> DeltaEntry]
  BY <1>3 DEF Rest
<1>5. t \in Seq(DeltaEntry) /\ Len(t) = n
  BY <1>1, <1>4, FunctionIsSeq
<1>6. Ascending(t)
  <2> SUFFICES ASSUME NEW k \in 1..n, NEW l \in 1..n, k < l
               PROVE  t[k].origin < t[l].origin
    BY <1>5 DEF Ascending
  <2>1. i0 + k - 1 < i0 + l - 1
    BY <1>1
  <2>2. s[i0+k-1].origin < s[i0+l-1].origin
    BY <1>2, <2>1 DEF Ascending
  <2> HIDE DEF t
  <2> QED  BY <1>3, <2>2
<1>7. \A m \in i0..Len(s) : m - i0 + 1 \in 1..n /\ i0 + (m - i0 + 1) - 1 = m
  BY <1>1
<1>8. Elements(t) = EntriesFrom(s, i0, op)
  <2>1. ASSUME NEW x \in Elements(t)
        PROVE  x \in EntriesFrom(s, i0, op)
    BY <1>2, <1>3, <1>5 DEF Elements, EntriesFrom
  <2>2. ASSUME NEW m \in i0..Len(s)
        PROVE  Entry(s[m].origin, op) \in Elements(t)
    <3>1. t[m - i0 + 1] = Entry(s[m].origin, op)
      BY <1>3, <1>7
    <3> QED  BY <3>1, <1>7, <1>5 DEF Elements
  <2> QED  BY <2>1, <2>2 DEF EntriesFrom
<1> QED  BY <1>5, <1>6, <1>8

-----------------------------------------------------------------------------
(* The difference, block by block.                                         *)

Of(D, o) == {e \in D : e.origin = o}

\* What the difference has of a block that only the old device has.
LEMMA DeletedAt ==
  ASSUME NEW M, NEW N, NEW o, o \in Origins(M), o \notin Origins(N)
  PROVE  Of(Difference(M, N), o) = {Entry(o, DeltaOpDelete)}
BY DEF Of, Difference, Origins, Entry

\* Of a block that only the new device has.
LEMMA CreatedAt ==
  ASSUME NEW M, NEW N, NEW o, o \notin Origins(M), o \in Origins(N)
  PROVE  Of(Difference(M, N), o) = {Entry(o, DeltaOpCreate)}
BY DEF Of, Difference, Origins, Entry

\* Of a block both have.
LEMMA UpdatedAt ==
  ASSUME NEW M \in SUBSET Mapping, NEW N \in SUBSET Mapping,
         OneToOne(M), OneToOne(N),
         NEW m \in M, NEW n \in N, m.origin = n.origin
  PROVE  Of(Difference(M, N), n.origin) =
           IF m.data # n.data THEN {Entry(n.origin, DeltaOpUpdate)} ELSE {}
BY DEF Of, Difference, Origins, Entry, OneToOne

\* Every entry is of a block that one of the devices has.
LEMMA DifferenceOrigins ==
  ASSUME NEW M \in SUBSET Mapping, NEW N \in SUBSET Mapping,
         NEW e \in Difference(M, N)
  PROVE  /\ e \in DeltaEntry
         /\ e.origin \in Origins(M) \cup Origins(N)
BY DEF Difference, Origins, Entry, Mapping, DeltaEntry, DeltaOpType

-----------------------------------------------------------------------------
(* The merge of two lists, as in MergedSoFar.                              *)

Lists(s, d) ==
  /\ s \in Seq(Mapping) /\ d \in Seq(Mapping)
  /\ Ascending(s) /\ Ascending(d)
  /\ OneToOne(Elements(s)) /\ OneToOne(Elements(d))

PassedOf(s, d, a, b) ==
  {s[k].origin : k \in 1..(a-1)} \cup {d[l].origin : l \in 1..(b-1)}

Found(s, d, B) == {e \in Difference(Elements(s), Elements(d)) : e.origin \in B}

Merged(s, d, a, b, es) ==
  /\ es \in Seq(DeltaEntry)
  /\ a \in 1..(Len(s) + 1) /\ b \in 1..(Len(d) + 1)
  /\ Ascending(es)
  /\ Elements(es) = Found(s, d, PassedOf(s, d, a, b))
  /\ a <= Len(s) => \A o \in PassedOf(s, d, a, b) : o < s[a].origin
  /\ b <= Len(d) => \A o \in PassedOf(s, d, a, b) : o < d[b].origin

\* The members of a list, by their places.
LEMMA Members ==
  ASSUME NEW s \in Seq(Mapping)
  PROVE  /\ Elements(s) \in SUBSET Mapping
         /\ Len(s) \in Nat
         /\ \A k \in 1..Len(s) : s[k] \in Elements(s) /\ s[k].origin \in Nat
         /\ \A m \in Elements(s) : \E k \in 1..Len(s) : m = s[k]
<1>1. Len(s) \in Nat /\ \A k \in 1..Len(s) : s[k] \in Mapping
  OBVIOUS
<1>2. \A k \in 1..Len(s) : s[k].origin \in Nat
  BY <1>1 DEF Mapping
<1> QED  BY <1>1, <1>2, Zenon DEF Elements

\* Going on to the next of either list passes one more block.
LEMMA PassOne ==
  ASSUME NEW s, NEW d, NEW a \in Nat \ {0}, NEW b \in Nat \ {0}
  PROVE  /\ PassedOf(s, d, a + 1, b) = PassedOf(s, d, a, b) \cup {s[a].origin}
         /\ PassedOf(s, d, a, b + 1) = PassedOf(s, d, a, b) \cup {d[b].origin}
         /\ PassedOf(s, d, a + 1, b + 1) =
              PassedOf(s, d, a, b) \cup {s[a].origin} \cup {d[b].origin}
<1>1. 1..(a + 1 - 1) = (1..(a-1)) \cup {a} /\ 1..(b + 1 - 1) = (1..(b-1)) \cup {b}
  OBVIOUS
<1>2. {s[k].origin : k \in (1..(a-1)) \cup {a}} =
        {s[k].origin : k \in 1..(a-1)} \cup {s[a].origin}
  OBVIOUS
<1>3. {d[k].origin : k \in (1..(b-1)) \cup {b}} =
        {d[k].origin : k \in 1..(b-1)} \cup {d[b].origin}
  OBVIOUS
<1> QED  BY <1>1, <1>2, <1>3 DEF PassedOf

\* One more entry, of a block behind all that were passed.
LEMMA OneMore ==
  ASSUME NEW s, NEW d, Lists(s, d), NEW a, NEW b, NEW es, Merged(s, d, a, b, es),
         NEW e \in DeltaEntry,
         NEW o, o = e.origin, \A c \in PassedOf(s, d, a, b) : c < o,
         Of(Difference(Elements(s), Elements(d)), o) = {e}
  PROVE  /\ Append(es, e) \in Seq(DeltaEntry)
         /\ Ascending(Append(es, e))
         /\ Elements(Append(es, e)) = Found(s, d, PassedOf(s, d, a, b) \cup {o})
<1>1. es \in Seq(DeltaEntry) /\ Ascending(es)
      /\ Elements(es) = Found(s, d, PassedOf(s, d, a, b))
  BY DEF Merged
<1>2. \A f \in Elements(es) : f.origin < e.origin
  BY <1>1 DEF Found
<1>3. Ascending(Append(es, e))
  BY <1>1, <1>2, AscendingAppend
<1>4. Elements(Append(es, e)) = Elements(es) \cup {e}
  BY <1>1, ElementsAppend
<1>5. Elements(Append(es, e)) = Found(s, d, PassedOf(s, d, a, b) \cup {o})
  BY <1>1, <1>4 DEF Found, Of
<1>6. Append(es, e) \in Seq(DeltaEntry)
  BY <1>1
<1> QED  BY <1>3, <1>5, <1>6

\* Where the loop is.
LEMMA InLoop ==
  ASSUME NEW s, NEW d, Lists(s, d), NEW a, NEW b, NEW es, Merged(s, d, a, b, es),
         a <= Len(s), b <= Len(d)
  PROVE  /\ s \in Seq(Mapping) /\ d \in Seq(Mapping)
         /\ Len(s) \in Nat /\ Len(d) \in Nat
         /\ a \in 1..Len(s) /\ b \in 1..Len(d)
         /\ s[a] \in Elements(s) /\ d[b] \in Elements(d)
         /\ s[a].origin \in Nat /\ d[b].origin \in Nat
         /\ PassedOf(s, d, a, b) \subseteq Nat
         /\ \A o \in PassedOf(s, d, a, b) : o < s[a].origin /\ o < d[b].origin
<1>1. s \in Seq(Mapping) /\ d \in Seq(Mapping)
  BY DEF Lists
<1>2. /\ Len(s) \in Nat /\ Len(d) \in Nat
      /\ a \in 1..(Len(s) + 1) /\ b \in 1..(Len(d) + 1)
  BY <1>1, Members DEF Merged
<1>3. a \in 1..Len(s) /\ b \in 1..Len(d)
  BY <1>2
<1>4. PassedOf(s, d, a, b) \subseteq Nat
  BY <1>1, <1>2, <1>3, Members DEF PassedOf
<1>5. \A o \in PassedOf(s, d, a, b) : o < s[a].origin /\ o < d[b].origin
  BY DEF Merged
<1> QED  BY <1>1, <1>2, <1>3, <1>4, <1>5, Members

\* A block between two neighbours of a list is not in it.
LEMMA NotInList ==
  ASSUME NEW d \in Seq(Mapping), Ascending(d),
         NEW b \in 1..(Len(d) + 1), NEW o \in Nat,
         \A l \in 1..(b-1) : d[l].origin < o,
         b <= Len(d) => o < d[b].origin
  PROVE  o \notin Origins(Elements(d))
<1>1. /\ Len(d) \in Nat
      /\ \A l \in 1..Len(d) : d[l].origin \in Nat
      /\ \A m \in Elements(d) : \E l \in 1..Len(d) : m = d[l]
  BY Members
<1> SUFFICES ASSUME NEW l \in 1..Len(d)
             PROVE  d[l].origin # o
  BY <1>1 DEF Origins
<1>2. CASE l < b
  <2>1. l \in 1..(b-1)
    BY <1>1, <1>2
  <2> QED  BY <1>1, <2>1
<1>3. CASE l >= b
  <2>1. b <= Len(d) /\ b \in 1..Len(d)
    BY <1>1, <1>3
  <2>2. d[b].origin <= d[l].origin
    BY <1>1, <1>3, <2>1 DEF Ascending
  <2> QED  BY <1>1, <2>1, <2>2
<1>4. b \in Nat /\ l \in Nat
  BY <1>1
<1> QED  BY <1>2, <1>3, <1>4

\* The next place of a list lies behind all that was passed.
LEMMA NextBehind ==
  ASSUME NEW s \in Seq(Mapping), Ascending(s), NEW a \in 1..Len(s),
         NEW P \in SUBSET Nat, \A o \in P : o < s[a].origin,
         a + 1 <= Len(s)
  PROVE  \A o \in P \cup {s[a].origin} : o < s[a+1].origin
<1>1. a + 1 \in 1..Len(s) /\ s[a].origin \in Nat /\ s[a+1].origin \in Nat
  <2>1. a + 1 \in 1..Len(s)
    OBVIOUS
  <2> QED  BY <2>1, Members
<1>2. s[a].origin < s[a+1].origin
  BY <1>1 DEF Ascending
<1> TAKE o \in P \cup {s[a].origin}
<1>3. CASE o \in P
  <2>1. o \in Nat /\ o < s[a].origin
    BY <1>3
  <2> QED  BY <2>1, <1>1, <1>2
<1>4. CASE o = s[a].origin
  BY <1>2, <1>4
<1> QED  BY <1>3, <1>4

\* A block of the source alone.
LEMMA SourceStep ==
  ASSUME NEW s, NEW d, Lists(s, d), NEW a, NEW b, NEW es, Merged(s, d, a, b, es),
         a <= Len(s), b <= Len(d), s[a].origin < d[b].origin
  PROVE  Merged(s, d, a + 1, b, Append(es, Entry(s[a].origin, DeltaOpDelete)))
<1> DEFINE e == Entry(s[a].origin, DeltaOpDelete)
           P == PassedOf(s, d, a, b)
<1>1. /\ s \in Seq(Mapping) /\ d \in Seq(Mapping)
      /\ Ascending(s) /\ Ascending(d)
      /\ Len(s) \in Nat /\ Len(d) \in Nat
      /\ a \in 1..Len(s) /\ b \in 1..Len(d)
      /\ s[a] \in Elements(s) /\ s[a].origin \in Nat
      /\ P \subseteq Nat
      /\ \A o \in P : o < s[a].origin /\ o < d[b].origin
  BY InLoop DEF Lists
<1>2. PassedOf(s, d, a + 1, b) = P \cup {s[a].origin}
  BY <1>1, PassOne
<1>3. Of(Difference(Elements(s), Elements(d)), s[a].origin) = {e}
  <2>1. s[a].origin \in Origins(Elements(s))
    BY <1>1 DEF Origins
  <2>2. \A l \in 1..(b-1) : d[l].origin < s[a].origin
    BY <1>1 DEF PassedOf
  <2>3. s[a].origin \notin Origins(Elements(d))
    <3>1. b \in 1..(Len(d) + 1)
      BY <1>1
    <3> QED  BY <1>1, <2>2, <3>1, NotInList
  <2> QED  BY <2>1, <2>3, DeletedAt
<1>4. e \in DeltaEntry /\ e.origin = s[a].origin
  BY <1>1 DEF Entry, DeltaEntry, DeltaOpType
<1>5. /\ Append(es, e) \in Seq(DeltaEntry)
      /\ Ascending(Append(es, e))
      /\ Elements(Append(es, e)) = Found(s, d, PassedOf(s, d, a + 1, b))
  <2> HIDE DEF e
  <2>1. \A o \in PassedOf(s, d, a, b) : o < s[a].origin
    BY <1>1
  <2>2. /\ Append(es, e) \in Seq(DeltaEntry)
        /\ Ascending(Append(es, e))
        /\ Elements(Append(es, e)) = Found(s, d, PassedOf(s, d, a, b) \cup {s[a].origin})
    BY <1>3, <1>4, <2>1, OneMore
  <2> QED  BY <1>2, <2>2
<1>6. a + 1 <= Len(s) => \A o \in PassedOf(s, d, a + 1, b) : o < s[a+1].origin
  BY <1>1, <1>2, NextBehind
<1>7. \A o \in PassedOf(s, d, a + 1, b) : o < d[b].origin
  BY <1>1, <1>2
<1>8. a + 1 \in 1..(Len(s) + 1) /\ b \in 1..(Len(d) + 1)
  BY <1>1
<1> QED  BY <1>5, <1>6, <1>7, <1>8 DEF Merged

\* A block of the destination alone.
LEMMA DestStep ==
  ASSUME NEW s, NEW d, Lists(s, d), NEW a, NEW b, NEW es, Merged(s, d, a, b, es),
         a <= Len(s), b <= Len(d), s[a].origin > d[b].origin
  PROVE  Merged(s, d, a, b + 1, Append(es, Entry(d[b].origin, DeltaOpCreate)))
<1> DEFINE e == Entry(d[b].origin, DeltaOpCreate)
           P == PassedOf(s, d, a, b)
<1>1. /\ s \in Seq(Mapping) /\ d \in Seq(Mapping)
      /\ Ascending(s) /\ Ascending(d)
      /\ Len(s) \in Nat /\ Len(d) \in Nat
      /\ a \in 1..Len(s) /\ b \in 1..Len(d)
      /\ d[b] \in Elements(d) /\ d[b].origin \in Nat /\ s[a].origin \in Nat
      /\ d[b].origin < s[a].origin
      /\ P \subseteq Nat
      /\ \A o \in P : o < s[a].origin /\ o < d[b].origin
  BY InLoop DEF Lists
<1>2. PassedOf(s, d, a, b + 1) = P \cup {d[b].origin}
  BY <1>1, PassOne
<1>3. Of(Difference(Elements(s), Elements(d)), d[b].origin) = {e}
  <2>1. d[b].origin \in Origins(Elements(d))
    BY <1>1 DEF Origins
  <2>2. \A k \in 1..(a-1) : s[k].origin < d[b].origin
    BY <1>1 DEF PassedOf
  <2>3. d[b].origin \notin Origins(Elements(s))
    <3>1. a \in 1..(Len(s) + 1)
      BY <1>1
    <3> QED  BY <1>1, <2>2, <3>1, NotInList
  <2> QED  BY <2>1, <2>3, CreatedAt
<1>4. e \in DeltaEntry /\ e.origin = d[b].origin
  BY <1>1 DEF Entry, DeltaEntry, DeltaOpType
<1>5. /\ Append(es, e) \in Seq(DeltaEntry)
      /\ Ascending(Append(es, e))
      /\ Elements(Append(es, e)) = Found(s, d, PassedOf(s, d, a, b + 1))
  <2> HIDE DEF e
  <2>1. \A o \in PassedOf(s, d, a, b) : o < d[b].origin
    BY <1>1
  <2>2. /\ Append(es, e) \in Seq(DeltaEntry)
        /\ Ascending(Append(es, e))
        /\ Elements(Append(es, e)) = Found(s, d, PassedOf(s, d, a, b) \cup {d[b].origin})
    BY <1>3, <1>4, <2>1, OneMore
  <2> QED  BY <1>2, <2>2
<1>6. b + 1 <= Len(d) => \A o \in PassedOf(s, d, a, b + 1) : o < d[b+1].origin
  BY <1>1, <1>2, NextBehind
<1>7. \A o \in PassedOf(s, d, a, b + 1) : o < s[a].origin
  BY <1>1, <1>2
<1>8. a \in 1..(Len(s) + 1) /\ b + 1 \in 1..(Len(d) + 1)
  BY <1>1
<1> QED  BY <1>5, <1>6, <1>7, <1>8 DEF Merged

\* A block of both.
LEMMA BothStep ==
  ASSUME NEW s, NEW d, Lists(s, d), NEW a, NEW b, NEW es, Merged(s, d, a, b, es),
         a <= Len(s), b <= Len(d), s[a].origin = d[b].origin
  PROVE  Merged(s, d, a + 1, b + 1,
                IF s[a].data # d[b].data
                THEN Append(es, Entry(d[b].origin, DeltaOpUpdate)) ELSE es)
<1> DEFINE e == Entry(d[b].origin, DeltaOpUpdate)
           P == PassedOf(s, d, a, b)
           D == Difference(Elements(s), Elements(d))
           all == IF s[a].data # d[b].data THEN Append(es, e) ELSE es
<1>1. /\ s \in Seq(Mapping) /\ d \in Seq(Mapping)
      /\ Ascending(s) /\ Ascending(d)
      /\ Len(s) \in Nat /\ Len(d) \in Nat
      /\ a \in 1..Len(s) /\ b \in 1..Len(d)
      /\ s[a] \in Elements(s) /\ d[b] \in Elements(d)
      /\ d[b].origin \in Nat /\ s[a].origin = d[b].origin
      /\ P \subseteq Nat
      /\ \A o \in P : o < s[a].origin /\ o < d[b].origin
  BY InLoop DEF Lists
<1>2. PassedOf(s, d, a + 1, b + 1) = P \cup {d[b].origin}
  <2>1. PassedOf(s, d, a + 1, b + 1) =
          PassedOf(s, d, a, b) \cup {s[a].origin} \cup {d[b].origin}
    BY <1>1, PassOne
  <2> QED  BY <1>1, <2>1
<1>3. Of(D, d[b].origin) = IF s[a].data # d[b].data THEN {e} ELSE {}
  <2>1. OneToOne(Elements(s)) /\ OneToOne(Elements(d))
    BY DEF Lists
  <2>2. Elements(s) \in SUBSET Mapping /\ Elements(d) \in SUBSET Mapping
    BY <1>1, Members
  <2> QED  BY <1>1, <2>1, <2>2, UpdatedAt
<1>4. /\ all \in Seq(DeltaEntry)
      /\ Ascending(all)
      /\ Elements(all) = Found(s, d, PassedOf(s, d, a + 1, b + 1))
  <2>1. CASE s[a].data # d[b].data
    <3>1. e \in DeltaEntry /\ e.origin = d[b].origin
      BY <1>1 DEF Entry, DeltaEntry, DeltaOpType
    <3>2. Of(D, d[b].origin) = {e}
      BY <1>3, <2>1
    <3>3. \A o \in PassedOf(s, d, a, b) : o < d[b].origin
      BY <1>1
    <3>4. /\ Append(es, e) \in Seq(DeltaEntry)
          /\ Ascending(Append(es, e))
          /\ Elements(Append(es, e)) =
               Found(s, d, PassedOf(s, d, a, b) \cup {d[b].origin})
      <4> HIDE DEF e
      <4> QED  BY <3>1, <3>2, <3>3, OneMore
    <3> QED  BY <1>2, <2>1, <3>4
  <2>2. CASE s[a].data = d[b].data
    <3>1. Of(D, d[b].origin) = {}
      BY <1>3, <2>2
    <3>2. Found(s, d, P \cup {d[b].origin}) = Found(s, d, P)
      BY <3>1 DEF Found, Of
    <3>3. es \in Seq(DeltaEntry) /\ Ascending(es) /\ Elements(es) = Found(s, d, P)
      BY DEF Merged
    <3> QED  BY <1>2, <2>2, <3>2, <3>3
  <2> QED  BY <2>1, <2>2
<1>5. a + 1 <= Len(s) => \A o \in PassedOf(s, d, a + 1, b + 1) : o < s[a+1].origin
  <2>1. a + 1 <= Len(s) => \A o \in P \cup {s[a].origin} : o < s[a+1].origin
    BY <1>1, NextBehind
  <2> QED  BY <1>1, <1>2, <2>1
<1>6. b + 1 <= Len(d) => \A o \in PassedOf(s, d, a + 1, b + 1) : o < d[b+1].origin
  BY <1>1, <1>2, NextBehind
<1>7. a + 1 \in 1..(Len(s) + 1) /\ b + 1 \in 1..(Len(d) + 1)
  BY <1>1
<1> QED  BY <1>4, <1>5, <1>6, <1>7 DEF Merged

\* When the destination has been passed, the rest of the source is deleted.
LEMMA RestOfSource ==
  ASSUME NEW s, NEW d, Lists(s, d), NEW a, NEW b, NEW es, Merged(s, d, a, b, es),
         b = Len(d) + 1
  PROVE  /\ Difference(Elements(s), Elements(d)) =
              Elements(es) \cup EntriesFrom(s, a, DeltaOpDelete)
         /\ \A e \in Elements(es), k \in a..Len(s) : e.origin < s[k].origin
<1> DEFINE P == PassedOf(s, d, a, b)
           D == Difference(Elements(s), Elements(d))
<1>1. /\ s \in Seq(Mapping) /\ d \in Seq(Mapping) /\ Ascending(s)
      /\ Len(s) \in Nat /\ Len(d) \in Nat
      /\ a \in 1..(Len(s) + 1)
      /\ \A k \in 1..Len(s) : s[k] \in Elements(s) /\ s[k].origin \in Nat
      /\ \A m \in Elements(s) : \E k \in 1..Len(s) : m = s[k]
      /\ \A m \in Elements(d) : \E l \in 1..Len(d) : m = d[l]
      /\ P \subseteq Nat
  <2>1. s \in Seq(Mapping) /\ d \in Seq(Mapping) /\ Ascending(s)
    BY DEF Lists
  <2>2. a \in 1..(Len(s) + 1)
    BY DEF Merged
  <2>3. P \subseteq Nat
    BY <2>1, <2>2, Members DEF PassedOf
  <2> QED  BY <2>1, <2>2, <2>3, Members
<1>2. Elements(es) = Found(s, d, P)
  BY DEF Merged
<1>3. Origins(Elements(d)) \subseteq P
  BY <1>1 DEF Origins, PassedOf
<1>4. ASSUME NEW k \in a..Len(s)
      PROVE  /\ k \in 1..Len(s)
             /\ \A o \in P : o < s[k].origin
             /\ Of(D, s[k].origin) = {Entry(s[k].origin, DeltaOpDelete)}
  <2>1. k \in 1..Len(s) /\ a <= Len(s) /\ a \in 1..Len(s)
    BY <1>1
  <2>2. s[a].origin <= s[k].origin
    BY <1>1, <2>1 DEF Ascending
  <2>3. \A o \in P : o < s[a].origin
    BY <2>1 DEF Merged
  <2>4. \A o \in P : o < s[k].origin
    BY <1>1, <2>1, <2>2, <2>3
  <2>5. s[k].origin \notin Origins(Elements(d))
    BY <1>1, <1>3, <2>1, <2>4
  <2>6. s[k].origin \in Origins(Elements(s))
    BY <1>1, <2>1 DEF Origins
  <2> QED  BY <2>1, <2>4, <2>5, <2>6, DeletedAt
<1>5. ASSUME NEW e \in D, e.origin \notin P
      PROVE  \E k \in a..Len(s) : e = Entry(s[k].origin, DeltaOpDelete)
  <2>1. e.origin \in Origins(Elements(s))
    <3>1. Elements(s) \in SUBSET Mapping /\ Elements(d) \in SUBSET Mapping
      BY <1>1, Members
    <3> QED  BY <1>3, <1>5, <3>1, DifferenceOrigins
  <2>2. PICK k \in 1..Len(s) : e.origin = s[k].origin
    <3>1. PICK m \in Elements(s) : e.origin = m.origin
      BY <2>1 DEF Origins
    <3>2. PICK k \in 1..Len(s) : m = s[k]
      BY <1>1
    <3> QED  BY <3>1, <3>2
  <2>3. k \in a..Len(s)
    BY <1>1, <1>5, <2>2 DEF PassedOf
  <2>4. e \in Of(D, s[k].origin)
    BY <2>2 DEF Of
  <2> QED  BY <1>4, <2>3, <2>4
<1>6. \A k \in a..Len(s) : Entry(s[k].origin, DeltaOpDelete) \in D
  BY <1>4 DEF Of
<1>7. D = Found(s, d, P) \cup EntriesFrom(s, a, DeltaOpDelete)
  <2> HIDE DEF D, P
  <2>1. Found(s, d, P) = {e \in D : e.origin \in P}
    BY DEF Found, D
  <2> QED  BY <1>5, <1>6, <2>1 DEF EntriesFrom
<1>8. \A e \in Elements(es), k \in a..Len(s) : e.origin < s[k].origin
  BY <1>2, <1>4 DEF Found
<1> QED  BY <1>2, <1>7, <1>8

\* When the source has been passed, the rest of the destination is created.
LEMMA RestOfDest ==
  ASSUME NEW s, NEW d, Lists(s, d), NEW a, NEW b, NEW es, Merged(s, d, a, b, es),
         a = Len(s) + 1
  PROVE  /\ Difference(Elements(s), Elements(d)) =
              Elements(es) \cup EntriesFrom(d, b, DeltaOpCreate)
         /\ \A e \in Elements(es), k \in b..Len(d) : e.origin < d[k].origin
<1> DEFINE P == PassedOf(s, d, a, b)
           D == Difference(Elements(s), Elements(d))
<1>1. /\ s \in Seq(Mapping) /\ d \in Seq(Mapping) /\ Ascending(d)
      /\ Len(s) \in Nat /\ Len(d) \in Nat
      /\ b \in 1..(Len(d) + 1)
      /\ \A k \in 1..Len(d) : d[k] \in Elements(d) /\ d[k].origin \in Nat
      /\ \A m \in Elements(d) : \E k \in 1..Len(d) : m = d[k]
      /\ \A m \in Elements(s) : \E l \in 1..Len(s) : m = s[l]
      /\ P \subseteq Nat
  <2>1. s \in Seq(Mapping) /\ d \in Seq(Mapping) /\ Ascending(d)
    BY DEF Lists
  <2>2. b \in 1..(Len(d) + 1)
    BY DEF Merged
  <2>3. P \subseteq Nat
    BY <2>1, <2>2, Members DEF PassedOf
  <2> QED  BY <2>1, <2>2, <2>3, Members
<1>2. Elements(es) = Found(s, d, P)
  BY DEF Merged
<1>3. Origins(Elements(s)) \subseteq P
  BY <1>1 DEF Origins, PassedOf
<1>4. ASSUME NEW k \in b..Len(d)
      PROVE  /\ k \in 1..Len(d)
             /\ \A o \in P : o < d[k].origin
             /\ Of(D, d[k].origin) = {Entry(d[k].origin, DeltaOpCreate)}
  <2>1. k \in 1..Len(d) /\ b <= Len(d) /\ b \in 1..Len(d)
    BY <1>1
  <2>2. d[b].origin <= d[k].origin
    BY <1>1, <2>1 DEF Ascending
  <2>3. \A o \in P : o < d[b].origin
    BY <2>1 DEF Merged
  <2>4. \A o \in P : o < d[k].origin
    BY <1>1, <2>1, <2>2, <2>3
  <2>5. d[k].origin \notin Origins(Elements(s))
    BY <1>1, <1>3, <2>1, <2>4
  <2>6. d[k].origin \in Origins(Elements(d))
    BY <1>1, <2>1 DEF Origins
  <2> QED  BY <2>1, <2>4, <2>5, <2>6, CreatedAt
<1>5. ASSUME NEW e \in D, e.origin \notin P
      PROVE  \E k \in b..Len(d) : e = Entry(d[k].origin, DeltaOpCreate)
  <2>1. e.origin \in Origins(Elements(d))
    <3>1. Elements(s) \in SUBSET Mapping /\ Elements(d) \in SUBSET Mapping
      BY <1>1, Members
    <3> QED  BY <1>3, <1>5, <3>1, DifferenceOrigins
  <2>2. PICK k \in 1..Len(d) : e.origin = d[k].origin
    <3>1. PICK m \in Elements(d) : e.origin = m.origin
      BY <2>1 DEF Origins
    <3>2. PICK k \in 1..Len(d) : m = d[k]
      BY <1>1
    <3> QED  BY <3>1, <3>2
  <2>3. k \in b..Len(d)
    BY <1>1, <1>5, <2>2 DEF PassedOf
  <2>4. e \in Of(D, d[k].origin)
    BY <2>2 DEF Of
  <2> QED  BY <1>4, <2>3, <2>4
<1>6. \A k \in b..Len(d) : Entry(d[k].origin, DeltaOpCreate) \in D
  BY <1>4 DEF Of
<1>7. D = Found(s, d, P) \cup EntriesFrom(d, b, DeltaOpCreate)
  <2> HIDE DEF D, P
  <2>1. Found(s, d, P) = {e \in D : e.origin \in P}
    BY DEF Found, D
  <2> QED  BY <1>5, <1>6, <2>1 DEF EntriesFrom
<1>8. \A e \in Elements(es), k \in b..Len(d) : e.origin < d[k].origin
  BY <1>2, <1>4 DEF Found
<1> QED  BY <1>2, <1>7, <1>8

\* The whole difference, in order.
LEMMA RestStep ==
  ASSUME NEW s, NEW d, Lists(s, d), NEW a, NEW b, NEW es, Merged(s, d, a, b, es),
         ~(a <= Len(s) /\ b <= Len(d)),
         NEW t, t = Rest(s, a, DeltaOpDelete),
         NEW u, u = Rest(d, b, DeltaOpCreate)
  PROVE  /\ es \o t \o u \in Seq(DeltaEntry)
         /\ Ascending(es \o t \o u)
         /\ Elements(es \o t \o u) = Difference(Elements(s), Elements(d))
<1>1. /\ s \in Seq(Mapping) /\ d \in Seq(Mapping)
      /\ Ascending(s) /\ Ascending(d)
      /\ Len(s) \in Nat /\ Len(d) \in Nat
      /\ a \in Nat \ {0} /\ b \in Nat \ {0}
      /\ a <= Len(s) + 1 /\ b <= Len(d) + 1
      /\ es \in Seq(DeltaEntry) /\ Ascending(es)
  <2>1. s \in Seq(Mapping) /\ d \in Seq(Mapping) /\ Len(s) \in Nat /\ Len(d) \in Nat
    BY Members DEF Lists
  <2> QED  BY <2>1 DEF Lists, Merged
<1>2. DeltaOpDelete \in DeltaOpType /\ DeltaOpCreate \in DeltaOpType
  BY DEF DeltaOpType
<1>3. /\ t \in Seq(DeltaEntry) /\ Ascending(t)
      /\ Elements(t) = EntriesFrom(s, a, DeltaOpDelete)
  BY <1>1, <1>2, RestOf
<1>4. /\ u \in Seq(DeltaEntry) /\ Ascending(u)
      /\ Elements(u) = EntriesFrom(d, b, DeltaOpCreate)
  BY <1>1, <1>2, RestOf
<1>5. /\ es \o t \in Seq(DeltaEntry)
      /\ es \o t \o u \in Seq(DeltaEntry)
      /\ Elements(es \o t) = Elements(es) \cup Elements(t)
      /\ Elements(es \o t \o u) = Elements(es \o t) \cup Elements(u)
  <2>1. es \o t \in Seq(DeltaEntry)
    BY <1>1, <1>3
  <2>2. es \o t \o u \in Seq(DeltaEntry)
    BY <2>1, <1>4
  <2>3. Elements(es \o t) = Elements(es) \cup Elements(t)
    BY <1>1, <1>3, ElementsConcat
  <2>4. Elements(es \o t \o u) = Elements(es \o t) \cup Elements(u)
    <3> DEFINE w == es \o t
    <3>1. w \in Seq(DeltaEntry)
      BY <2>1
    <3> HIDE DEF w
    <3>2. Elements(w \o u) = Elements(w) \cup Elements(u)
      BY <1>4, <3>1, ElementsConcat
    <3> QED  BY <3>2 DEF w
  <2> QED  BY <2>1, <2>2, <2>3, <2>4
<1>6. CASE b = Len(d) + 1
  <2>1. /\ Difference(Elements(s), Elements(d)) = Elements(es) \cup Elements(t)
        /\ \A e \in Elements(es), k \in a..Len(s) : e.origin < s[k].origin
    BY <1>3, <1>6, RestOfSource
  <2>2. Elements(u) = {}
    <3>1. b..Len(d) = {}
      BY <1>1, <1>6
    <3> QED  BY <1>4, <3>1 DEF EntriesFrom
  <2>3. \A e \in Elements(es), f \in Elements(t) : e.origin < f.origin
    BY <1>3, <2>1 DEF Entry, EntriesFrom
  <2>4. Ascending(es \o t)
    BY <1>1, <1>3, <2>3, AscendingConcat
  <2>5. Ascending(es \o t \o u)
    BY <1>4, <1>5, <2>2, <2>4, AscendingConcat
  <2> QED  BY <1>5, <2>1, <2>2, <2>5
<1>7. CASE a = Len(s) + 1
  <2>1. /\ Difference(Elements(s), Elements(d)) = Elements(es) \cup Elements(u)
        /\ \A e \in Elements(es), k \in b..Len(d) : e.origin < d[k].origin
    BY <1>4, <1>7, RestOfDest
  <2>2. Elements(t) = {}
    <3>1. a..Len(s) = {}
      BY <1>1, <1>7
    <3> QED  BY <1>3, <3>1 DEF EntriesFrom
  <2>3. \A e \in Elements(es \o t), f \in Elements(u) : e.origin < f.origin
    BY <1>4, <1>5, <2>1, <2>2 DEF Entry, EntriesFrom
  <2>4. Ascending(es \o t)
    BY <1>1, <1>3, <2>2, AscendingConcat
  <2>5. Ascending(es \o t \o u)
    BY <1>4, <1>5, <2>3, <2>4, AscendingConcat
  <2> QED  BY <1>5, <2>1, <2>2, <2>5
<1> QED  BY <1>1, <1>6, <1>7

-----------------------------------------------------------------------------
(* Devices.                                                                *)

\* What a device maps.
LEMMA MappedType ==
  ASSUME NEW d \in Device
  PROVE  Mapped(d) \in SUBSET Mapping
<1>1. d.singles \in Seq(Mapping) /\ d.ranges \in Seq(RangeMapping)
  BY DEF Device
<1>2. Elements(d.singles) \in SUBSET Mapping
  BY <1>1, Members
<1>3. \A r \in Elements(d.ranges) : r \in RangeMapping
  BY <1>1 DEF Elements
<1>4. \A r \in RangeMapping : \A n \in 0..(r.length - 1) :
        [origin |-> r.begin + n, data |-> r.data + n] \in Mapping
  BY DEF RangeMapping, Mapping
<1>5. Extras(d.ranges) \in SUBSET Mapping
  BY <1>3, <1>4 DEF Extras
<1> QED  BY <1>2, <1>5 DEF Mapped

\* A device without ranges maps what its list says.
LEMMA FlatMapped ==
  ASSUME NEW d \in Device, d.ranges = <<>>
  PROVE  Mapped(d) = Elements(d.singles)
<1>1. Elements(<<>>) = {}
  BY DEF Elements
<1>2. Extras(<<>>) = {}
  BY <1>1 DEF Extras
<1> QED  BY <1>2 DEF Mapped

\* The entries of a slice are finitely many, and as many as it is long when no two
\* of them are the same.
LEMMA Counted ==
  ASSUME NEW T, NEW s \in Seq(T)
  PROVE  /\ IsFiniteSet(Elements(s))
         /\ (\A k, l \in 1..Len(s) : s[k] = s[l] => k = l)
              => Cardinality(Elements(s)) = Len(s)
<1>1. Len(s) \in Nat
  OBVIOUS
<1>2. IsFiniteSet(1..Len(s)) /\ Cardinality(1..Len(s)) = Len(s)
  <2>1. 0 \in Int /\ 1 \in Int /\ Len(s) \in Int
    BY <1>1
  <2>2. /\ IsFiniteSet(1..Len(s))
        /\ Cardinality(1..Len(s)) = IF 1 > Len(s) THEN 0 ELSE Len(s) - 1 + 1
    BY <2>1, FS_Interval
  <2> QED  BY <1>1, <2>2
<1> DEFINE f == [k \in 1..Len(s) |-> s[k]]
<1>3. f \in Surjection(1..Len(s), Elements(s))
  BY DEF Surjection, Elements
<1>4. (\A k, l \in 1..Len(s) : s[k] = s[l] => k = l)
        => f \in Injection(1..Len(s), Elements(s))
  BY DEF Injection, IsInjective, Elements
<1> HIDE DEF f
<1>5. /\ IsFiniteSet(Elements(s))
      /\ Cardinality(Elements(s)) = Cardinality(1..Len(s))
           <=> f \in Injection(1..Len(s), Elements(s))
  BY <1>2, <1>3, FS_Surjection
<1> QED  BY <1>2, <1>4, <1>5

\* The mappings that one range stands for.
RangeBlocks(r) == {[origin |-> r.begin + n, data |-> r.data + n] : n \in 0..(r.length - 1)}

\* They are finitely many.
LEMMA RangeFinite ==
  ASSUME NEW r \in RangeMapping
  PROVE  IsFiniteSet(RangeBlocks(r))
<1>1. r.length \in Nat
  BY DEF RangeMapping
<1>2. IsFiniteSet(0..(r.length - 1))
  BY <1>1, FS_Interval
<1> DEFINE f == [n \in 0..(r.length - 1) |-> [origin |-> r.begin + n, data |-> r.data + n]]
<1>3. f \in Surjection(0..(r.length - 1), RangeBlocks(r))
  BY DEF Surjection, RangeBlocks
<1> HIDE DEF f
<1> QED  BY <1>2, <1>3, FS_Surjection

\* And so are those of all ranges of a device.
LEMMA ExtrasFinite ==
  ASSUME NEW ranges \in Seq(RangeMapping)
  PROVE  IsFiniteSet(Extras(ranges))
<1> DEFINE S == Elements(ranges)
           f == [r \in S |-> RangeBlocks(r)]
           I == {RangeBlocks(r) : r \in S}
<1>1. IsFiniteSet(S)
  BY Counted
<1>2. S \subseteq RangeMapping
  BY DEF Elements
<1>3. \A T \in I : IsFiniteSet(T)
  BY <1>2, RangeFinite
<1>4. f \in Surjection(S, I)
  BY DEF Surjection
<1>5. Extras(ranges) = UNION I
  BY DEF Extras, RangeBlocks
<1> HIDE DEF S, f, I
<1>6. IsFiniteSet(I)
  BY <1>1, <1>4, FS_Surjection
<1> QED  BY <1>3, <1>5, <1>6, FS_UNION

\* What ExpandRangeMappings counts of a device that names each block once is what
\* the device maps.
LEMMA MappedCounted ==
  ASSUME NEW d \in Device, NamesOnce(d)
  PROVE  Cardinality(Mapped(d)) = Len(d.singles) + Cardinality(Extras(d.ranges))
<1>1. d.singles \in Seq(Mapping) /\ d.ranges \in Seq(RangeMapping)
  BY DEF Device
<1> DEFINE S == Elements(d.singles)
           E == Extras(d.ranges)
<1>2. IsFiniteSet(S) /\ Cardinality(S) = Len(d.singles)
  BY <1>1, Counted DEF NamesOnce
<1>3. IsFiniteSet(E)
  BY <1>1, ExtrasFinite
<1>4. S \cap E = {}
  BY DEF NamesOnce
<1>5. Mapped(d) = S \cup E
  BY DEF Mapped
<1> HIDE DEF S, E
<1>6. Cardinality(S) \in Nat /\ Cardinality(E) \in Nat
  BY <1>2, <1>3, FS_CardinalityType
<1>7. Cardinality(S \cup E) = Cardinality(S) + Cardinality(E) - Cardinality(S \cap E)
  BY <1>2, <1>3, FS_Union
<1>8. Cardinality(S \cap E) = 0
  BY <1>4, FS_EmptySet
<1>9. Cardinality(S \cup E) = Cardinality(S) + Cardinality(E)
  BY <1>6, <1>7, <1>8
<1> QED  BY <1>2, <1>5, <1>9 DEF E

\* A device that is one ascending list names each block once.
LEMMA FlatNamesOnce ==
  ASSUME NEW d \in Device, Flat(d)
  PROVE  NamesOnce(d)
<1>1. d.singles \in Seq(Mapping) /\ d.ranges = <<>> /\ Ascending(d.singles)
  BY DEF Device, Flat
<1> DEFINE s == d.singles
<1>2. Mapped(d) = Elements(s)
  BY <1>1, FlatMapped
<1>3. \A k, l \in 1..Len(s) : s[k].origin = s[l].origin => k = l
  <2> SUFFICES ASSUME NEW k \in 1..Len(s), NEW l \in 1..Len(s), k # l
               PROVE  s[k].origin # s[l].origin
    OBVIOUS
  <2>1. s[k].origin \in Nat /\ s[l].origin \in Nat
    BY <1>1, Members
  <2>2. Len(s) \in Nat /\ (k < l \/ l < k)
    BY <1>1
  <2> QED  BY <1>1, <2>1, <2>2 DEF Ascending
<1>4. OneToOne(Mapped(d))
  BY <1>2, <1>3, Zenon DEF OneToOne, Elements
<1>5. Extras(d.ranges) = {} /\ Len(d.ranges) = 0
  <2>1. Elements(<<>>) = {}
    BY DEF Elements
  <2> QED  BY <1>1, <2>1 DEF Extras
<1>6. \A k, l \in 1..Len(s) : s[k] = s[l] => k = l
  BY <1>3
<1> QED  BY <1>4, <1>5, <1>6 DEF NamesOnce

\* ExpandRangeMappings changes how a device is written and not what it says.
LEMMA ExpandKeeps ==
  ASSUME devices \in [Id -> Device], NEW id \in Id, Expand(id)
  PROVE  /\ devices' \in [Id -> Device]
         /\ Flat(devices'[id])
         /\ \A d \in Id : /\ Mapped(devices'[d]) = Mapped(devices[d])
                          /\ Flat(devices[d]) => Flat(devices'[d])
                          /\ NamesOnce(devices[d]) => NamesOnce(devices'[d])
<1>1. PICK s \in [1..devices[id].mapped -> Mapped(devices[id])] :
        /\ Ascending(s)
        /\ Elements(s) = Mapped(devices[id])
        /\ devices' = [devices EXCEPT ![id] = Expanded(devices[id], s)]
  BY DEF Expand
<1> DEFINE e == Expanded(devices[id], s)
<1>2. devices[id] \in Device /\ devices[id].mapped \in Nat
  BY DEF Device
<1>3. s \in Seq(Mapping)
  <2>1. Mapped(devices[id]) \in SUBSET Mapping
    BY <1>2, MappedType
  <2>2. s \in [1..devices[id].mapped -> Mapping]
    BY <2>1
  <2> QED  BY <1>2, <2>2, FunctionIsSeq
<1>4. e \in Device /\ e.singles = s /\ e.ranges = <<>>
  <2>1. <<>> \in Seq(RangeMapping)
    OBVIOUS
  <2> QED  BY <1>2, <1>3, <2>1 DEF Expanded, Device
<1>5. Mapped(e) = Mapped(devices[id])
  BY <1>1, <1>4, FlatMapped
<1>6. Flat(e)
  BY <1>1, <1>4 DEF Flat
<1>7. devices' \in [Id -> Device] /\ devices'[id] = e
      /\ \A d \in Id \ {id} : devices'[d] = devices[d]
  <2> HIDE DEF e
  <2>1. devices' = [devices EXCEPT ![id] = e]
    BY <1>1 DEF e
  <2> QED  BY <1>4, <2>1
<1> HIDE DEF e
<1>8. Flat(devices'[id])
  BY <1>6, <1>7
<1>9. \A d \in Id : /\ Mapped(devices'[d]) = Mapped(devices[d])
                    /\ Flat(devices[d]) => Flat(devices'[d])
                    /\ NamesOnce(devices[d]) => NamesOnce(devices'[d])
  <2> TAKE d \in Id
  <2>1. CASE d = id
    <3>1. NamesOnce(e)
      BY <1>4, <1>6, FlatNamesOnce
    <3> QED  BY <1>5, <1>7, <1>8, <2>1, <3>1
  <2>2. CASE d # id
    BY <1>7, <2>2
  <2> QED  BY <2>1, <2>2
<1> QED  BY <1>7, <1>8, <1>9

-----------------------------------------------------------------------------
(* The steps.                                                              *)

\* Where the loop works on the lists of the two devices.
LEMMA Merges ==
  ASSUME MergeInv, cpc = "merge"
  PROVE  /\ Lists(Source, Dest)
         /\ Old = Elements(Source)
         /\ Mapped(devices[dst]) = Elements(Dest)
         /\ Merged(Source, Dest, i, j, diff)
<1>1. /\ src \in Id /\ dst \in Id
      /\ devices[src] \in Device /\ devices[dst] \in Device
      /\ Flat(devices[src]) /\ Flat(devices[dst])
      /\ OneToOne(Mapped(devices[src])) /\ OneToOne(Mapped(devices[dst]))
  BY DEF MergeInv, CompareTypeOK, Prepared
<1>2. Mapped(devices[src]) = Elements(Source) /\ Mapped(devices[dst]) = Elements(Dest)
  BY <1>1, FlatMapped DEF Flat, Source, Dest
<1>3. Old = Elements(Source)
  BY <1>1, <1>2, NilAssumption DEF Old
<1>4. Source \in Seq(Mapping) /\ Dest \in Seq(Mapping)
  BY <1>1 DEF Source, Dest, Device
<1>5. Lists(Source, Dest)
  BY <1>1, <1>2, <1>4 DEF Lists, Flat, Source, Dest
<1>6. Passed = PassedOf(Source, Dest, i, j)
  BY DEF Passed, PassedOf
<1>7. i \in 1..(Len(Source) + 1) /\ j \in 1..(Len(Dest) + 1) /\ diff \in Seq(DeltaEntry)
  BY <1>4 DEF MergeInv, CompareTypeOK, MergedSoFar, DeltaEntry
<1>8. Elements(diff) = Found(Source, Dest, Passed)
  BY <1>2, <1>3 DEF MergeInv, MergedSoFar, Found
<1> QED  BY <1>2, <1>3, <1>5, <1>6, <1>7, <1>8 DEF MergeInv, MergedSoFar, Merged

\* A turn of the loop that keeps what Merged says keeps the invariant.
LEMMA MergesOn ==
  ASSUME MergeInv, cpc = "merge", UNCHANGED <<devices, src, dst, cpc, calls>>,
         Merged(Source, Dest, i', j', diff')
  PROVE  MergeInv'
<1>1. /\ Lists(Source, Dest)
      /\ Old = Elements(Source)
      /\ Mapped(devices[dst]) = Elements(Dest)
  BY Merges
<1>2. /\ i' \in 1..(Len(Source) + 1) /\ j' \in 1..(Len(Dest) + 1)
      /\ Len(Source) \in Nat /\ Len(Dest) \in Nat
      /\ diff' \in Seq(DeltaEntry)
  BY <1>1, Members DEF Merged, Lists
<1>3. CompareTypeOK'
  BY <1>2 DEF MergeInv, CompareTypeOK, DeltaEntry
<1>4. Prepared'
  BY DEF MergeInv, Prepared
<1>5. /\ Source' = Source /\ Dest' = Dest /\ Old' = Old
      /\ Passed' = PassedOf(Source, Dest, i', j')
  BY DEF Source, Dest, Old, Passed, PassedOf
<1>6. Elements(diff') =
        {e \in Difference(Old, Mapped(devices[dst])) : e.origin \in Passed'}
  BY <1>1, <1>5 DEF Merged, Found
<1>7. MergedSoFar'
  BY <1>2, <1>5, <1>6 DEF Merged, MergedSoFar
<1>8. DiffRight'
  BY DEF DiffRight
<1> QED  BY <1>3, <1>4, <1>7, <1>8 DEF MergeInv

\* MergeInv is inductive.
THEOREM MergeInvariance == CompareSpec => []MergeInv
<1>1. CompareInit => MergeInv
  <2> SUFFICES ASSUME CompareInit
               PROVE  MergeInv
    OBVIOUS
  <2>1. CompareTypeOK
    BY DEF CompareInit, CompareTypeOK
  <2>2. Prepared
    BY DEF CompareInit, Prepared, NamesOnce
  <2> QED  BY <2>1, <2>2 DEF CompareInit, MergeInv, MergedSoFar, DiffRight
<1>2. MergeInv /\ [CompareNext]_compareVars => MergeInv'
  <2> SUFFICES ASSUME MergeInv, [CompareNext]_compareVars
               PROVE  MergeInv'
    OBVIOUS
  <2> USE DEF MergeInv
  <2>1. CASE Call
    <3>1. CompareTypeOK'
      BY <2>1 DEF Call, CompareTypeOK
    <3>2. Prepared'
      BY <2>1 DEF Call, Prepared
    <3> QED  BY <2>1, <3>1, <3>2 DEF Call, MergedSoFar, DiffRight
  <2>2. CASE ExpandFails
    <3>1. CompareTypeOK'
      BY <2>2 DEF ExpandFails, CompareTypeOK
    <3>2. Prepared'
      BY <2>2 DEF ExpandFails, Prepared
    <3> QED  BY <2>2, <3>1, <3>2 DEF ExpandFails, MergedSoFar, DiffRight
  <2>3. CASE ExpandDst
    <3>1. /\ devices' \in [Id -> Device]
          /\ Flat(devices'[dst])
          /\ \A d \in Id : /\ Mapped(devices'[d]) = Mapped(devices[d])
                           /\ Flat(devices[d]) => Flat(devices'[d])
      BY <2>3, ExpandKeeps DEF ExpandDst, CompareTypeOK
    <3>2. CompareTypeOK'
      BY <2>3, <3>1 DEF ExpandDst, CompareTypeOK
    <3>3. \A d \in Id : OneToOne(Mapped(devices'[d]))
      BY <3>1 DEF Prepared
    <3>4. Prepared'
      BY <2>3, <3>1, <3>3 DEF ExpandDst, Prepared, CompareTypeOK
    <3> QED  BY <2>3, <3>2, <3>4 DEF ExpandDst, MergedSoFar, DiffRight
  <2>4. CASE ExpandSrc
    <3>1. src \in Id /\ dst \in Id
      BY <2>4 DEF ExpandSrc, Prepared, CompareTypeOK
    <3>2. /\ devices' \in [Id -> Device]
          /\ Flat(devices'[src])
          /\ \A d \in Id : /\ Mapped(devices'[d]) = Mapped(devices[d])
                           /\ Flat(devices[d]) => Flat(devices'[d])
      BY <2>4, <3>1, ExpandKeeps DEF ExpandSrc, CompareTypeOK
    <3>3. CompareTypeOK'
      BY <2>4, <3>2 DEF ExpandSrc, CompareTypeOK
    <3>4. \A d \in Id : OneToOne(Mapped(devices'[d]))
      BY <3>2 DEF Prepared
    <3>5. Prepared'
      BY <2>4, <3>1, <3>2, <3>4 DEF ExpandSrc, Prepared
    <3>6. i = 1 /\ j = 1 /\ diff = <<>> /\ UNCHANGED <<i, j, diff, src, dst>>
      BY <2>4 DEF ExpandSrc, Prepared
    <3>7. Passed' = {}
      BY <3>6 DEF Passed
    <3>8. Ascending(diff') /\ Elements(diff') = {}
      BY <3>6 DEF Ascending, Elements
    <3>9. Len(Source') \in Nat /\ Len(Dest') \in Nat
      BY <3>1, <3>2, <3>6 DEF Source, Dest, Device
    <3>10. MergedSoFar'
      BY <3>6, <3>7, <3>8, <3>9 DEF MergedSoFar
    <3> QED  BY <2>4, <3>3, <3>5, <3>10 DEF ExpandSrc, DiffRight
  <2>5. CASE CreateAll
    <3>1. dst \in Id /\ src = Nil /\ devices[dst] \in Device /\ Flat(devices[dst])
      BY <2>5 DEF CreateAll, Prepared, CompareTypeOK
    <3>2. Dest \in Seq(Mapping) /\ Ascending(Dest) /\ Mapped(devices[dst]) = Elements(Dest)
      BY <3>1, FlatMapped DEF Device, Flat, Dest
    <3>3. /\ diff' \in Seq(DeltaEntry)
          /\ Ascending(diff')
          /\ Elements(diff') = EntriesFrom(Dest, 1, DeltaOpCreate)
      <4>1. 1 <= Len(Dest) + 1 /\ DeltaOpCreate \in DeltaOpType
        BY <3>2, Members DEF DeltaOpType
      <4>2. diff' = Rest(Dest, 1, DeltaOpCreate)
        BY <2>5 DEF CreateAll
      <4> QED  BY <3>2, <4>1, <4>2, RestOf
    <3>4. EntriesFrom(Dest, 1, DeltaOpCreate) = Difference({}, Elements(Dest))
      BY <3>2 DEF EntriesFrom, Elements, Difference, Origins
    <3>5. CompareTypeOK'
      BY <2>5, <3>3 DEF CreateAll, CompareTypeOK, DeltaEntry
    <3>6. Prepared'
      BY <2>5 DEF CreateAll, Prepared
    <3>7. Old' = {} /\ devices' = devices /\ dst' = dst
      BY <2>5, <3>1 DEF CreateAll, Old
    <3>8. DiffRight'
      BY <3>2, <3>3, <3>4, <3>7 DEF DiffRight
    <3> QED  BY <2>5, <3>5, <3>6, <3>8 DEF CreateAll, MergedSoFar
  <2>6. CASE InSourceOnly
    <3>1. /\ cpc = "merge" /\ UNCHANGED <<devices, src, dst, cpc, calls>>
          /\ i <= Len(Source) /\ j <= Len(Dest) /\ Source[i].origin < Dest[j].origin
          /\ i' = i + 1 /\ j' = j
          /\ diff' = Append(diff, Entry(Source[i].origin, DeltaOpDelete))
      BY <2>6 DEF InSourceOnly, Merging
    <3>2. Merged(Source, Dest, i', j', diff')
      BY <3>1, Merges, SourceStep
    <3> QED  BY <3>1, <3>2, MergesOn
  <2>7. CASE InBoth
    <3>1. /\ cpc = "merge" /\ UNCHANGED <<devices, src, dst, cpc, calls>>
          /\ i <= Len(Source) /\ j <= Len(Dest) /\ Source[i].origin = Dest[j].origin
          /\ i' = i + 1 /\ j' = j + 1
          /\ diff' = IF Source[i].data # Dest[j].data
                     THEN Append(diff, Entry(Dest[j].origin, DeltaOpUpdate)) ELSE diff
      BY <2>7 DEF InBoth, Merging
    <3>2. Merged(Source, Dest, i', j', diff')
      BY <3>1, Merges, BothStep
    <3> QED  BY <3>1, <3>2, MergesOn
  <2>8. CASE InDestOnly
    <3>1. /\ cpc = "merge" /\ UNCHANGED <<devices, src, dst, cpc, calls>>
          /\ i <= Len(Source) /\ j <= Len(Dest) /\ Source[i].origin > Dest[j].origin
          /\ i' = i /\ j' = j + 1
          /\ diff' = Append(diff, Entry(Dest[j].origin, DeltaOpCreate))
      BY <2>8 DEF InDestOnly, Merging
    <3>2. Merged(Source, Dest, i', j', diff')
      BY <3>1, Merges, DestStep
    <3> QED  BY <3>1, <3>2, MergesOn
  <2>9. CASE MergeRest
    <3>1. /\ cpc = "merge" /\ ~(i <= Len(Source) /\ j <= Len(Dest))
          /\ UNCHANGED <<devices, src, dst, i, j, calls>> /\ cpc' = "done"
          /\ diff' = diff \o Rest(Source, i, DeltaOpDelete) \o Rest(Dest, j, DeltaOpCreate)
      BY <2>9 DEF MergeRest, Merging
    <3>2. /\ Lists(Source, Dest)
          /\ Old = Elements(Source)
          /\ Mapped(devices[dst]) = Elements(Dest)
          /\ Merged(Source, Dest, i, j, diff)
      BY <3>1, Merges
    <3>3. /\ diff' \in Seq(DeltaEntry)
          /\ Ascending(diff')
          /\ Elements(diff') = Difference(Elements(Source), Elements(Dest))
      BY <3>1, <3>2, RestStep
    <3>4. CompareTypeOK'
      BY <3>1, <3>3 DEF CompareTypeOK, DeltaEntry
    <3>5. Prepared'
      BY <3>1 DEF Prepared
    <3>6. Old' = Old
      BY <3>1 DEF Old
    <3>7. DiffRight'
      BY <3>1, <3>2, <3>3, <3>6 DEF DiffRight
    <3> QED  BY <3>1, <3>4, <3>5, <3>7 DEF MergedSoFar
  <2>10. CASE UNCHANGED compareVars
    <3> USE <2>10 DEF compareVars
    <3>1. CompareTypeOK'
      BY DEF CompareTypeOK
    <3>2. Prepared'
      BY DEF Prepared
    <3>3. MergedSoFar'
      BY DEF MergedSoFar, Passed, Source, Dest, Old
    <3>4. DiffRight'
      BY DEF DiffRight, Old
    <3> QED  BY <3>1, <3>2, <3>3, <3>4
  <2> QED  BY <2>1, <2>2, <2>3, <2>4, <2>5, <2>6, <2>7, <2>8, <2>9, <2>10 DEF CompareNext
<1> QED  BY <1>1, <1>2, PTL DEF CompareSpec

\* Whatever the two devices, however they are written and however often they were
\* compared before, the entries are their difference, once each and in order.
THEOREM DiffRightCorrect == CompareSpec => []DiffRight
<1>1. MergeInv => DiffRight
  BY DEF MergeInv
<1> QED  BY <1>1, MergeInvariance, PTL

-----------------------------------------------------------------------------
(* Counting.                                                               *)

\* Whether a comparison is refused depends on what the devices map, and not on how
\* they are written: CompareInv is inductive.
THEOREM CompareInvariance == CompareSpec => []CompareInv
<1>1. CompareInit => NamedOnce /\ RefusesOnlyMiscounted
  BY DEF CompareInit, NamedOnce, RefusesOnlyMiscounted
<1>2. MergeInv /\ NamedOnce /\ RefusesOnlyMiscounted /\ [CompareNext]_compareVars
        => (NamedOnce /\ RefusesOnlyMiscounted)'
  <2> SUFFICES ASSUME MergeInv, NamedOnce, RefusesOnlyMiscounted,
                      [CompareNext]_compareVars
               PROVE  NamedOnce' /\ RefusesOnlyMiscounted'
    OBVIOUS
  <2>1. dst \in Id /\ devices \in [Id -> Device] /\ (cpc = "src" => src \in Id)
    BY DEF MergeInv, CompareTypeOK, Prepared
  <2>2. CASE ExpandFails
    <3>1. UNCHANGED <<devices, src, dst>>
      BY <2>2 DEF ExpandFails
    <3>2. NamedOnce'
      BY <3>1 DEF NamedOnce
    <3>3. PICK d \in {src, dst} \ {Nil} : d \in Id /\ ~CountMatches(devices[d])
      BY <2>1, <2>2, NilAssumption DEF ExpandFails
    <3>4. Cardinality(Mapped(devices[d])) # devices[d].mapped
      BY <2>1, <3>3, MappedCounted DEF NamedOnce, CountMatches
    <3>5. RefusesOnlyMiscounted'
      BY <3>1, <3>3, <3>4 DEF RefusesOnlyMiscounted
    <3> QED  BY <3>2, <3>5
  <2>3. CASE ExpandDst
    <3>1. NamedOnce'
      BY <2>1, <2>3, ExpandKeeps DEF ExpandDst, NamedOnce
    <3> QED  BY <2>3, <3>1 DEF ExpandDst, RefusesOnlyMiscounted
  <2>4. CASE ExpandSrc
    <3>1. NamedOnce'
      BY <2>1, <2>4, ExpandKeeps DEF ExpandSrc, NamedOnce
    <3> QED  BY <2>4, <3>1 DEF ExpandSrc, RefusesOnlyMiscounted
  <2>5. CASE Call \/ CreateAll \/ InSourceOnly \/ InBoth \/ InDestOnly \/ MergeRest
    <3>1. devices' = devices /\ cpc' # "failed"
      BY <2>5 DEF Call, CreateAll, InSourceOnly, InBoth, InDestOnly, MergeRest, Merging
    <3> QED  BY <3>1 DEF NamedOnce, RefusesOnlyMiscounted
  <2>6. CASE UNCHANGED compareVars
    BY <2>6 DEF compareVars, NamedOnce, RefusesOnlyMiscounted
  <2> QED  BY <2>2, <2>3, <2>4, <2>5, <2>6 DEF CompareNext
<1> QED  BY <1>1, <1>2, MergeInvariance, PTL DEF CompareSpec, CompareInv

\* A comparison fails only when the device says of itself another number than its
\* mappings are, in either way of writing them and after any earlier comparison.
THEOREM RefusesOnlyMiscountedCorrect == CompareSpec => []RefusesOnlyMiscounted
<1>1. CompareInv => RefusesOnlyMiscounted
  BY DEF CompareInv
<1> QED  BY <1>1, CompareInvariance, PTL

=============================================================================
