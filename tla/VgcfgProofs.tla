---------------------------- MODULE VgcfgProofs ----------------------------
(***************************************************************************)
(* For every text: the parser reports an error exactly for a number that   *)
(* does not fit, and enters and leaves the groups in pairs.                *)
(***************************************************************************)
EXTENDS VgcfgParser, SequenceTheorems, Numbers, TLAPS

-----------------------------------------------------------------------------
(* Which action fits where.                                                *)

\* The provers do not know that a literal is a string.
Name == STRING \cup {""}

Action ==
  [op : {"SetVarName", "AddValue", "SetIsList", "AddVariable", "BeginGroup", "EndGroup"},
   arg : Tokens \cup {Mark("")}]

\* How deep the current group is, whether a name is pending, with how many values, and
\* whether they are a list.
Situation == [depth : Nat, named : BOOLEAN, vals : Nat, list : BOOLEAN]

Between(d) == [depth |-> d, named |-> FALSE, vals |-> 0, list |-> FALSE]
Pending(d, n, l) == [depth |-> d, named |-> TRUE, vals |-> n, list |-> l]

\* An action that finds what it needs leads from one situation to another.
Fits(a, x, b) ==
  \/ /\ x.op = "SetVarName" /\ x.arg.val # ""
     /\ \E d \in Nat : a = Between(d) /\ b = Pending(d, 0, FALSE)
  \/ /\ x.op = "AddValue"
     /\ \E d, n \in Nat : a = Pending(d, n, FALSE) /\ b = Pending(d, n + 1, FALSE)
  \/ /\ x.op = "SetIsList"
     /\ \E d, n \in Nat : a = Pending(d, n, FALSE) /\ b = Pending(d, n, TRUE)
  \/ /\ x.op = "AddVariable"
     /\ \E d, n \in Nat : \E l \in BOOLEAN :
          a = Pending(d, n, l) /\ (l \/ n = 1) /\ b = Between(d)
  \/ /\ x.op = "BeginGroup"
     /\ \E d \in Nat : a = Pending(d, 0, FALSE) /\ b = Between(d + 1)
  \/ /\ x.op = "EndGroup"
     /\ \E d \in Nat : a = Between(d + 1) /\ b = Between(d)

\* So does a list of them.
Path(st, s, a, b) ==
  /\ st \in [0..Len(s) -> Situation]
  /\ st[0] = a /\ st[Len(s)] = b
  /\ \A k \in 1..Len(s) : Fits(st[k-1], s[k], st[k])

Leads(s, a, b) == \E st : Path(st, s, a, b)

LEMMA LeadsNone ==
  ASSUME NEW a \in Situation
  PROVE  Leads(<<>>, a, a)
<1>1. Path([k \in 0..0 |-> a], <<>>, a, a)
  BY DEF Path
<1> QED  BY <1>1 DEF Leads

LEMMA LeadsOne ==
  ASSUME NEW a \in Situation, NEW b \in Situation, NEW x \in Action, Fits(a, x, b)
  PROVE  Leads(<<x>>, a, b)
<1>1. Len(<<x>>) = 1 /\ <<x>>[1] = x
  OBVIOUS
<1> DEFINE st == [k \in 0..1 |-> IF k = 0 THEN a ELSE b]
<1>2. st \in [0..1 -> Situation] /\ st[0] = a /\ st[1] = b
  OBVIOUS
<1> HIDE DEF st
<1>3. \A k \in 1..1 : k = 1 /\ k - 1 = 0
  OBVIOUS
<1>4. Path(st, <<x>>, a, b)
  BY <1>1, <1>2, <1>3 DEF Path
<1> QED  BY <1>4 DEF Leads

LEMMA LeadsConcat ==
  ASSUME NEW s \in Seq(Action), NEW u \in Seq(Action), NEW a, NEW b, NEW c,
         Leads(s, a, b), Leads(u, b, c)
  PROVE  Leads(s \o u, a, c)
<1>1. PICK f : Path(f, s, a, b)
  BY DEF Leads
<1>2. PICK g : Path(g, u, b, c)
  BY DEF Leads
<1>3. /\ s \o u \in Seq(Action)
      /\ Len(s \o u) = Len(s) + Len(u)
      /\ Len(s) \in Nat /\ Len(u) \in Nat
      /\ \A k \in 1..(Len(s) + Len(u)) :
           (s \o u)[k] = IF k <= Len(s) THEN s[k] ELSE u[k - Len(s)]
  BY ConcatProperties, LenProperties
<1> DEFINE m == Len(s)
           n == Len(u)
           h == [k \in 0..(m + n) |-> IF k <= m THEN f[k] ELSE g[k - m]]
<1>4. /\ f \in [0..m -> Situation] /\ f[0] = a /\ f[m] = b
      /\ \A k \in 1..m : Fits(f[k-1], s[k], f[k])
  BY <1>1 DEF Path
<1>5. /\ g \in [0..n -> Situation] /\ g[0] = b /\ g[n] = c
      /\ \A k \in 1..n : Fits(g[k-1], u[k], g[k])
  BY <1>2 DEF Path
<1>6. m \in Nat /\ n \in Nat
  BY <1>3
<1> HIDE DEF m, n
<1>7. h \in [0..(m + n) -> Situation]
  <2>1. ASSUME NEW k \in 0..(m + n)
        PROVE  h[k] \in Situation
    <3>1. CASE k <= m
      BY <1>4, <1>6, <3>1
    <3>2. CASE k > m
      <4>1. k - m \in 0..n
        BY <1>6, <3>2
      <4> QED  BY <1>5, <1>6, <3>2, <4>1
    <3> QED  BY <1>6, <3>1, <3>2
  <2> QED  BY <2>1
<1>8. h[0] = a /\ h[m + n] = c
  <2>1. CASE n = 0
    BY <1>4, <1>5, <1>6, <2>1
  <2>2. CASE n # 0
    <3>1. m + n - m = n /\ ~(m + n <= m) /\ m + n \in 0..(m + n) /\ 0 \in 0..(m + n)
      BY <1>6, <2>2
    <3> QED  BY <1>4, <1>5, <1>6, <3>1
  <2> QED  BY <2>1, <2>2
<1>9. ASSUME NEW k \in 1..(m + n)
      PROVE  Fits(h[k-1], (s \o u)[k], h[k])
  <2>1. CASE k <= m
    <3>1. k \in 1..m /\ k \in 0..(m + n) /\ k - 1 \in 0..(m + n) /\ k - 1 <= m
      BY <1>6, <2>1
    <3>2. h[k] = f[k] /\ h[k-1] = f[k-1] /\ (s \o u)[k] = s[k]
      BY <1>3, <2>1, <3>1 DEF m, n
    <3> HIDE DEF h
    <3> QED  BY <1>4, <3>1, <3>2
  <2>2. CASE k > m
    <3>1. PICK l \in 1..n : k = m + l
      <4>1. k - m \in 1..n /\ k = m + (k - m)
        BY <1>6, <2>2
      <4> QED  BY <4>1
    <3>2. /\ k \in 0..(m + n) /\ k - 1 \in 0..(m + n) /\ k - m = l /\ k - 1 - m = l - 1
          /\ ~(k <= m) /\ (k - 1 <= m <=> l = 1) /\ (l = 1 => k - 1 = m)
      BY <1>6, <3>1
    <3>3. h[k] = g[l]
      BY <3>2
    <3>4. h[k-1] = g[l-1]
      <4>1. CASE l = 1
        <5>1. k - 1 = m /\ l - 1 = 0 /\ m \in 0..(m + n)
          BY <1>6, <3>2, <4>1
        <5>2. h[m] = f[m]
          BY <1>6, <5>1
        <5> QED  BY <1>4, <1>5, <5>1, <5>2
      <4>2. CASE l # 1
        BY <3>2, <4>2
      <4> QED  BY <4>1, <4>2
    <3>5. (s \o u)[k] = u[l]
      BY <1>3, <3>2 DEF m, n
    <3> HIDE DEF h
    <3> QED  BY <1>5, <3>3, <3>4, <3>5
  <2>3. k <= m \/ k > m
    BY <1>6
  <2> HIDE DEF h
  <2> QED  BY <2>1, <2>2, <2>3
<1>10. Path(h, s \o u, a, c)
  <2> HIDE DEF h
  <2> QED  BY <1>3, <1>7, <1>8, <1>9 DEF Path, m, n
<1> QED  BY <1>10 DEF Leads

\* What the first action of a list does, and what is left.
LEMMA LeadsTail ==
  ASSUME NEW s \in Seq(Action), s # <<>>, NEW a, NEW b, Leads(s, a, b)
  PROVE  \E c \in Situation : Fits(a, Head(s), c) /\ Leads(Tail(s), c, b)
<1>1. PICK f : Path(f, s, a, b)
  BY DEF Leads
<1>2. /\ Tail(s) \in Seq(Action) /\ Len(Tail(s)) = Len(s) - 1
      /\ \A k \in 1..Len(Tail(s)) : Tail(s)[k] = s[k+1]
      /\ Len(s) \in Nat \ {0} /\ Head(s) = s[1]
  BY HeadTailProperties, EmptySeq
<1> DEFINE m == Len(s)
           g == [k \in 0..(m - 1) |-> f[k + 1]]
<1>3. /\ f \in [0..m -> Situation] /\ f[0] = a /\ f[m] = b
      /\ \A k \in 1..m : Fits(f[k-1], s[k], f[k])
  BY <1>1 DEF Path
<1>4. m \in Nat \ {0}
  BY <1>2
<1> HIDE DEF m
<1>5. 1 \in 1..m /\ 1 \in 0..m /\ 1 - 1 = 0
  BY <1>4
<1>6. f[1] \in Situation /\ Fits(a, Head(s), f[1])
  BY <1>2, <1>3, <1>5
<1>7. g \in [0..(m - 1) -> Situation] /\ g[0] = f[1] /\ g[m - 1] = b
  <2>1. \A k \in 0..(m - 1) : k + 1 \in 0..m
    BY <1>4
  <2>2. 0 \in 0..(m - 1) /\ 0 + 1 = 1 /\ m - 1 \in 0..(m - 1) /\ m - 1 + 1 = m
    BY <1>4
  <2> QED  BY <1>3, <2>1, <2>2
<1>8. ASSUME NEW k \in 1..(m - 1)
      PROVE  Fits(g[k-1], Tail(s)[k], g[k])
  <2>1. /\ k + 1 \in 1..m /\ k \in 0..(m - 1) /\ k - 1 \in 0..(m - 1)
        /\ k - 1 + 1 = k /\ k + 1 - 1 = k
    BY <1>4
  <2>2. g[k] = f[k+1] /\ g[k-1] = f[k] /\ Tail(s)[k] = s[k+1]
    BY <1>2, <2>1 DEF m
  <2> HIDE DEF g
  <2>3. PICK l \in 1..m : l = k + 1 /\ l - 1 = k
    BY <2>1
  <2> QED  BY <1>3, <2>2, <2>3
<1>9. Path(g, Tail(s), f[1], b)
  <2> HIDE DEF g
  <2> QED  BY <1>2, <1>7, <1>8 DEF Path, m
<1> QED  BY <1>6, <1>9 DEF Leads

-----------------------------------------------------------------------------
(* What the rules record.                                                  *)

\* A text of names and what belongs between them.
Readable(t) ==
  /\ t \in Seq(Tokens)
  /\ \A i \in 1..Len(t) : t[i].kind = "name" => t[i].val # ""

\* Some action will meet a number that does not fit.
WillFail(s) == \E k \in 1..Len(s) : s[k].op = "AddValue" /\ s[k].arg = Huge

\* There is one in the text from i up to j.
HugeFrom(t, i, j) == \E k \in i..(j - 1) : t[k] = Huge

\* The actions leave the situation as it was between two items, at any depth.
Balanced(s) == \A d \in Nat : Leads(s, Between(d), Between(d))

\* A match of items from i on.
Right(t, i, m) ==
  /\ m.end \in i..(Len(t) + 1)
  /\ m.acts \in Seq(Action)
  /\ Balanced(m.acts)
  /\ WillFail(m.acts) <=> HugeFrom(t, i, m.end)

LEMMA ReadableType ==
  ASSUME NEW t, Readable(t)
  PROVE  /\ t \in Seq(Tokens) /\ Len(t) \in Nat
         /\ \A k \in 1..Len(t) : t[k] \in Tokens
<1>1. t \in Seq(Tokens)
  BY DEF Readable
<1> QED  BY <1>1, LenProperties, ElementOfSeq

\* Only what stands for such a number is one.
LEMMA OtherKinds ==
  ASSUME NEW x, x.kind # "huge"
  PROVE  x # Huge
<1>1. Huge.kind = "huge"
  BY DEF Huge, Mark, Token
<1> QED  BY <1>1

LEMMA MatchFields ==
  ASSUME NEW e, NEW s
  PROVE  Match(e, s).end = e /\ Match(e, s).acts = s
BY DEF Match

LEMMA TwoActions ==
  ASSUME NEW x \in Action, NEW y \in Action
  PROVE  <<x, y>> \in Seq(Action) /\ <<x, y>> = <<x>> \o <<y>>
<1>1. <<x>> \in Seq(Action) /\ <<y>> \in Seq(Action) /\ <<x, y>> \in Seq(Action)
  OBVIOUS
<1>2. /\ Len(<<x>>) = 1 /\ Len(<<y>>) = 1 /\ Len(<<x, y>>) = 2
      /\ <<x>>[1] = x /\ <<y>>[1] = y /\ <<x, y>>[1] = x /\ <<x, y>>[2] = y
  OBVIOUS
<1> DEFINE c == <<x>> \o <<y>>
<1>3. /\ c \in Seq(Action) /\ Len(c) = Len(<<x>>) + Len(<<y>>)
      /\ \A k \in 1..(Len(<<x>>) + Len(<<y>>)) :
           c[k] = IF k <= Len(<<x>>) THEN <<x>>[k] ELSE <<y>>[k - Len(<<x>>)]
  BY <1>1, ConcatProperties
<1> HIDE DEF c
<1>4. Len(c) = 2 /\ c[1] = x /\ c[2] = y
  BY <1>2, <1>3
<1>5. \A k \in 1..2 : c[k] = <<x, y>>[k]
  BY <1>2, <1>4
<1>6. c = <<x, y>>
  BY <1>1, <1>2, <1>3, <1>4, <1>5, SeqEqual
<1> QED  BY <1>1, <1>6 DEF c

LEMMA Situations ==
  ASSUME NEW d \in Nat
  PROVE  /\ Between(d) \in Situation
         /\ \A n \in Nat : \A l \in BOOLEAN : Pending(d, n, l) \in Situation
BY DEF Between, Pending, Situation

LEMMA WillFailConcat ==
  ASSUME NEW s \in Seq(Action), NEW u \in Seq(Action)
  PROVE  WillFail(s \o u) <=> WillFail(s) \/ WillFail(u)
<1>1. /\ s \o u \in Seq(Action)
      /\ Len(s \o u) = Len(s) + Len(u)
      /\ Len(s) \in Nat /\ Len(u) \in Nat
      /\ \A k \in 1..(Len(s) + Len(u)) :
           (s \o u)[k] = IF k <= Len(s) THEN s[k] ELSE u[k - Len(s)]
  BY ConcatProperties, LenProperties
<1>2. ASSUME WillFail(s \o u)
      PROVE  WillFail(s) \/ WillFail(u)
  <2>1. PICK k \in 1..(Len(s) + Len(u)) :
          (s \o u)[k].op = "AddValue" /\ (s \o u)[k].arg = Huge
    BY <1>1, <1>2 DEF WillFail
  <2>2. CASE k <= Len(s)
    <3>1. k \in 1..Len(s) /\ (s \o u)[k] = s[k]
      BY <1>1, <2>2
    <3> QED  BY <2>1, <3>1 DEF WillFail
  <2>3. CASE k > Len(s)
    <3>1. k - Len(s) \in 1..Len(u) /\ (s \o u)[k] = u[k - Len(s)]
      BY <1>1, <2>3
    <3> QED  BY <2>1, <3>1 DEF WillFail
  <2> QED  BY <1>1, <2>2, <2>3
<1>3. ASSUME WillFail(s)
      PROVE  WillFail(s \o u)
  <2>1. PICK k \in 1..Len(s) : s[k].op = "AddValue" /\ s[k].arg = Huge
    BY <1>3 DEF WillFail
  <2>2. k \in 1..Len(s \o u) /\ (s \o u)[k] = s[k]
    BY <1>1
  <2> QED  BY <2>1, <2>2 DEF WillFail
<1>4. ASSUME WillFail(u)
      PROVE  WillFail(s \o u)
  <2>1. PICK k \in 1..Len(u) : u[k].op = "AddValue" /\ u[k].arg = Huge
    BY <1>4 DEF WillFail
  <2>2. /\ Len(s) + k \in 1..(Len(s) + Len(u)) /\ ~(Len(s) + k <= Len(s))
        /\ Len(s) + k - Len(s) = k
    BY <1>1
  <2>3. PICK l \in 1..(Len(s) + Len(u)) : l = Len(s) + k
    BY <2>2
  <2>4. (s \o u)[l] = u[k]
    BY <1>1, <2>2, <2>3
  <2> QED  BY <1>1, <2>1, <2>4 DEF WillFail
<1> QED  BY <1>2, <1>3, <1>4

\* A single action.
LEMMA WillFailOne ==
  ASSUME NEW x \in Action
  PROVE  /\ <<x>> \in Seq(Action)
         /\ WillFail(<<x>>) <=> x.op = "AddValue" /\ x.arg = Huge
<1>1. Len(<<x>>) = 1 /\ <<x>>[1] = x /\ 1..1 = {1} /\ <<x>> \in Seq(Action)
  OBVIOUS
<1> QED  BY <1>1 DEF WillFail

LEMMA HugeSplit ==
  ASSUME NEW t, NEW i \in Nat, NEW j \in Nat, NEW k \in Nat, i <= j, j <= k
  PROVE  HugeFrom(t, i, k) <=> HugeFrom(t, i, j) \/ HugeFrom(t, j, k)
<1>1. i..(k - 1) = (i..(j - 1)) \cup (j..(k - 1))
  OBVIOUS
<1> QED  BY <1>1 DEF HugeFrom

LEMMA HugeOne ==
  ASSUME NEW t, NEW i \in Nat
  PROVE  HugeFrom(t, i, i + 1) <=> t[i] = Huge
<1>1. i..(i + 1 - 1) = {i}
  OBVIOUS
<1> QED  BY <1>1 DEF HugeFrom

\* The values of a list, or as many as there are.
LEMMA ValuesRight ==
  ASSUME NEW t, Readable(t), NEW i \in 1..(Len(t) + 1)
  PROVE  LET v == Values(t, i) IN
         /\ v.end \in i..(Len(t) + 1)
         /\ v.acts \in Seq(Action)
         /\ WillFail(v.acts) <=> HugeFrom(t, i, v.end)
         /\ \A d \in Nat : Leads(v.acts, Pending(d, 0, FALSE), Pending(d, v.end - i, FALSE))
<1>0. Len(t) \in Nat /\ t \in Seq(Tokens)
  BY ReadableType
<1> DEFINE E == {j \in i..(Len(t) + 1) : ~IsValue(t, j)}
           end == Min(E)
           v == Values(t, i)
           n == end - i
<1>1. Len(t) + 1 \in E
  BY <1>0 DEF IsValue, At
<1>2. end \in E /\ \A j \in E : end <= j
  <2>1. E \subseteq Nat /\ E # {}
    BY <1>0, <1>1
  <2> HIDE DEF E
  <2>2. \E j \in E : \A k \in E : j <= k
    BY <2>1, LeastNat
  <2> QED  BY <2>2 DEF Min
<1>3. end \in i..(Len(t) + 1) /\ end \in Nat /\ i \in Nat /\ n \in Nat
  BY <1>0, <1>2
<1>4. v.end = end /\ v.acts = [k \in 1..n |-> Act("AddValue", t[i + k - 1])]
  BY DEF Values, Match
<1> HIDE DEF v
<1>5. \A j \in i..(end - 1) : IsValue(t, j) /\ j \in 1..Len(t)
  <2> SUFFICES ASSUME NEW j \in i..(end - 1)
               PROVE  IsValue(t, j) /\ j \in 1..Len(t)
    OBVIOUS
  <2>1. j \in i..(Len(t) + 1) /\ ~(end <= j) /\ j \in 1..Len(t)
    BY <1>0, <1>3
  <2> QED  BY <1>2, <2>1
<1> HIDE DEF E, end
<1>6. \A k \in 1..n : /\ i + k - 1 \in i..(end - 1)
                      /\ t[i + k - 1] \in Tokens
                      /\ Act("AddValue", t[i + k - 1]) \in Action
  <2> SUFFICES ASSUME NEW k \in 1..n
               PROVE  /\ i + k - 1 \in i..(end - 1)
                      /\ t[i + k - 1] \in Tokens
                      /\ Act("AddValue", t[i + k - 1]) \in Action
    OBVIOUS
  <2>1. i + k - 1 \in i..(end - 1)
    BY <1>3
  <2>2. t[i + k - 1] \in Tokens
    BY <1>0, <1>5, <2>1, ElementOfSeq
  <2> QED  BY <2>1, <2>2 DEF Act, Action
<1>7. v.acts \in Seq(Action) /\ Len(v.acts) = n
  <2>1. v.acts \in [1..n -> Action]
    BY <1>4, <1>6
  <2> HIDE DEF n
  <2> QED  BY <1>3, <2>1
<1>8. WillFail(v.acts) <=> HugeFrom(t, i, end)
  <2>1. ASSUME NEW k \in 1..n, v.acts[k].arg = Huge
        PROVE  HugeFrom(t, i, end)
    <3>1. t[i + k - 1] = Huge
      BY <1>4, <2>1 DEF Act
    <3> QED  BY <1>6, <3>1 DEF HugeFrom
  <2>2. ASSUME NEW j \in i..(end - 1), t[j] = Huge
        PROVE  WillFail(v.acts)
    <3>1. PICK k \in 1..n : i + k - 1 = j
      <4>1. j - i + 1 \in 1..n /\ i + (j - i + 1) - 1 = j
        BY <1>3
      <4> QED  BY <4>1
    <3>2. v.acts[k].op = "AddValue" /\ v.acts[k].arg = Huge
      BY <1>4, <2>2, <3>1 DEF Act
    <3> QED  BY <1>7, <3>2 DEF WillFail
  <2> QED  BY <1>7, <2>1, <2>2 DEF WillFail, HugeFrom
<1>9. ASSUME NEW d \in Nat
      PROVE  Leads(v.acts, Pending(d, 0, FALSE), Pending(d, n, FALSE))
  <2> DEFINE st == [k \in 0..n |-> Pending(d, k, FALSE)]
  <2> HIDE DEF n
  <2>1. st \in [0..n -> Situation]
    <3>1. \A k \in 0..n : k \in Nat /\ FALSE \in BOOLEAN
      BY <1>3
    <3>2. \A k \in 0..n : Pending(d, k, FALSE) \in Situation
      BY <3>1, Situations
    <3> QED  BY <3>2
  <2>2. st[0] = Pending(d, 0, FALSE) /\ st[n] = Pending(d, n, FALSE)
    BY <1>3
  <2>3. ASSUME NEW k \in 1..n
        PROVE  Fits(st[k-1], v.acts[k], st[k])
    <3>1. k \in 0..n /\ k - 1 \in 0..n /\ k - 1 \in Nat /\ k - 1 + 1 = k
      BY <1>3
    <3>2. st[k-1] = Pending(d, k - 1, FALSE) /\ st[k] = Pending(d, (k - 1) + 1, FALSE)
      BY <3>1
    <3>3. v.acts[k].op = "AddValue"
      BY <1>4 DEF Act, n
    <3> HIDE DEF st
    <3> QED  BY <3>1, <3>2, <3>3 DEF Fits
  <2>4. Path(st, v.acts, Pending(d, 0, FALSE), Pending(d, n, FALSE))
    <3> HIDE DEF st
    <3> QED  BY <1>7, <2>1, <2>2, <2>3 DEF Path
  <2> QED  BY <2>4 DEF Leads
<1> QED  BY <1>3, <1>4, <1>7, <1>8, <1>9 DEF v, n

\* What a rule records for a variable's value.
LEMMA ListRight ==
  ASSUME NEW t, Readable(t), NEW i \in 1..(Len(t) + 1), LISTRule(t, i) # NoMatch
  PROVE  LET m == LISTRule(t, i) IN
         /\ m.end \in (i + 1)..(Len(t) + 1)
         /\ m.acts \in Seq(Action)
         /\ WillFail(m.acts) <=> HugeFrom(t, i, m.end)
         /\ \A d \in Nat : \E n \in Nat :
              Leads(m.acts, Pending(d, 0, FALSE), Pending(d, n, TRUE))
<1>0. Len(t) \in Nat
  BY ReadableType
<1> DEFINE v == Values(t, i + 1)
           x == Bare("SetIsList")
           m == LISTRule(t, i)
<1>1. /\ At(t, i, "[") /\ At(t, v.end, "]")
      /\ m = Match(v.end + 1, Append(v.acts, x))
  BY DEF LISTRule
<1>2. i \in 1..Len(t) /\ i + 1 \in 1..(Len(t) + 1)
  BY <1>0, <1>1 DEF At
<1>3. /\ v.end \in (i + 1)..(Len(t) + 1)
      /\ v.acts \in Seq(Action)
      /\ WillFail(v.acts) <=> HugeFrom(t, i + 1, v.end)
      /\ \A d \in Nat : Leads(v.acts, Pending(d, 0, FALSE), Pending(d, v.end - (i + 1), FALSE))
  BY <1>2, ValuesRight
<1>4. m.end = v.end + 1 /\ m.acts = Append(v.acts, x)
  BY <1>1 DEF Match
<1> HIDE DEF m, v
<1>5. v.end \in 1..Len(t)
  BY <1>0, <1>1, <1>2, <1>3 DEF At
<1>6. x \in Action /\ x.op = "SetIsList"
  BY DEF Action, Bare, Act
<1> HIDE DEF x
<1>7. m.acts = v.acts \o <<x>>
  BY <1>3, <1>4, <1>6, AppendIsConcat
<1>8. m.acts \in Seq(Action) /\ (WillFail(m.acts) <=> WillFail(v.acts))
  <2>1. <<x>> \in Seq(Action) /\ ~WillFail(<<x>>)
    BY <1>6, WillFailOne
  <2>2. v.acts \o <<x>> \in Seq(Action)
    BY <1>3, <2>1, ConcatProperties
  <2>3. WillFail(v.acts \o <<x>>) <=> WillFail(v.acts) \/ WillFail(<<x>>)
    BY <1>3, <2>1, WillFailConcat
  <2> QED  BY <1>7, <2>1, <2>2, <2>3
<1>9. HugeFrom(t, i, m.end) <=> HugeFrom(t, i + 1, v.end)
  <2>1. t[i] # Huge /\ t[v.end] # Huge
    <3>1. t[i].kind = "[" /\ t[v.end].kind = "]"
      BY <1>1 DEF At
    <3> QED  BY <3>1, OtherKinds
  <2>2. /\ i \in Nat /\ i + 1 \in Nat /\ v.end \in Nat /\ v.end + 1 \in Nat
        /\ i <= i + 1 /\ i + 1 <= v.end /\ v.end <= v.end + 1 /\ i <= v.end
    BY <1>0, <1>2, <1>3
  <2>3. HugeFrom(t, i, v.end + 1) <=> HugeFrom(t, i, v.end) \/ HugeFrom(t, v.end, v.end + 1)
    BY <2>2, HugeSplit
  <2>4. HugeFrom(t, i, v.end) <=> HugeFrom(t, i, i + 1) \/ HugeFrom(t, i + 1, v.end)
    BY <2>2, HugeSplit
  <2>5. ~HugeFrom(t, i, i + 1) /\ ~HugeFrom(t, v.end, v.end + 1)
    BY <2>1, <2>2, HugeOne
  <2> QED  BY <1>4, <2>3, <2>4, <2>5
<1>10. ASSUME NEW d \in Nat
       PROVE  \E n \in Nat : Leads(m.acts, Pending(d, 0, FALSE), Pending(d, n, TRUE))
  <2>1. PICK n \in Nat : n = v.end - (i + 1)
    <3>1. v.end - (i + 1) \in Nat
      BY <1>0, <1>2, <1>3
    <3> QED  BY <3>1
  <2>2. Fits(Pending(d, n, FALSE), x, Pending(d, n, TRUE))
    BY <1>6 DEF Fits
  <2>3. Pending(d, n, FALSE) \in Situation /\ Pending(d, n, TRUE) \in Situation
    BY Situations
  <2>4. Leads(<<x>>, Pending(d, n, FALSE), Pending(d, n, TRUE))
    BY <1>6, <2>2, <2>3, LeadsOne
  <2>5. Leads(v.acts, Pending(d, 0, FALSE), Pending(d, n, FALSE))
    BY <1>3, <2>1
  <2>6. <<x>> \in Seq(Action)
    BY <1>6, WillFailOne
  <2>7. Leads(v.acts \o <<x>>, Pending(d, 0, FALSE), Pending(d, n, TRUE))
    BY <1>3, <2>4, <2>5, <2>6, LeadsConcat
  <2> QED  BY <1>7, <2>7
<1>11. m.end \in (i + 1)..(Len(t) + 1)
  BY <1>0, <1>2, <1>4, <1>5, <1>3
<1> QED  BY <1>8, <1>9, <1>10, <1>11, <1>3 DEF m

LEMMA VariableRight ==
  ASSUME NEW t, Readable(t), NEW i \in 1..(Len(t) + 1), VARIABLERule(t, i) # NoMatch
  PROVE  LET m == VARIABLERule(t, i) IN m.end # i /\ Right(t, i, m)
<1>0. Len(t) \in Nat /\ t \in Seq(Tokens)
  BY ReadableType
<1> DEFINE value == IF IsValue(t, i + 2)
                    THEN Match(i + 3, <<Act("AddValue", t[i + 2])>>)
                    ELSE LISTRule(t, i + 2)
           set == Act("SetVarName", t[i])
           add == Bare("AddVariable")
           m == VARIABLERule(t, i)
<1>1. /\ At(t, i, "name") /\ At(t, i + 1, "=") /\ value # NoMatch
      /\ m = Match(value.end, <<set>> \o value.acts \o <<add>>)
  BY DEF VARIABLERule
<1>2. i \in 1..Len(t) /\ i + 1 \in 1..Len(t)
  <2>1. i <= Len(t) /\ i + 1 <= Len(t)
    BY <1>1 DEF At
  <2> QED  BY <1>0, <2>1
<1>a. t[i] \in Tokens /\ t[i].val # ""
  <2>1. t[i].kind = "name"
    BY <1>1 DEF At
  <2> QED  BY <1>2, <2>1, ReadableType DEF Readable
<1>3. /\ value.end \in (i + 2)..(Len(t) + 1)
      /\ value.acts \in Seq(Action)
      /\ WillFail(value.acts) <=> HugeFrom(t, i + 2, value.end)
      /\ \A d \in Nat : \E n \in Nat : \E l \in BOOLEAN :
           (l \/ n = 1) /\ Leads(value.acts, Pending(d, 0, FALSE), Pending(d, n, l))
  <2>1. CASE IsValue(t, i + 2)
    <3>1. i + 2 \in 1..Len(t) /\ t[i + 2] \in Tokens
      <4>1. i + 2 <= Len(t)
        BY <2>1 DEF IsValue, At
      <4>2. i + 2 \in 1..Len(t)
        BY <1>0, <1>2, <4>1
      <4> QED  BY <4>2, ReadableType
    <3> DEFINE x == Act("AddValue", t[i + 2])
    <3>2. value.end = i + 3 /\ value.acts = <<x>>
      BY <2>1 DEF Match
    <3>3. x \in Action /\ x.op = "AddValue" /\ x.arg = t[i + 2]
      BY <3>1 DEF Act, Action
    <3> HIDE DEF value, x
    <3>4. <<x>> \in Seq(Action) /\ (WillFail(<<x>>) <=> t[i + 2] = Huge)
      BY <3>3, WillFailOne
    <3>5. HugeFrom(t, i + 2, i + 3) <=> t[i + 2] = Huge
      <4>1. i + 2 \in Nat /\ i + 2 + 1 = i + 3
        BY <1>0, <1>2
      <4> QED  BY <4>1, HugeOne
    <3>6. ASSUME NEW d \in Nat
          PROVE  Leads(<<x>>, Pending(d, 0, FALSE), Pending(d, 1, FALSE))
      <4>a. \E e, n \in Nat : /\ Pending(d, 0, FALSE) = Pending(e, n, FALSE)
                               /\ Pending(d, 0 + 1, FALSE) = Pending(e, n + 1, FALSE)
        OBVIOUS
      <4>b. Fits(Pending(d, 0, FALSE), x, Pending(d, 0 + 1, FALSE))
        BY <3>3, <4>a DEF Fits
      <4>1. Fits(Pending(d, 0, FALSE), x, Pending(d, 1, FALSE))
        <5>1. 0 + 1 = 1
          OBVIOUS
        <5> QED  BY <4>b, <5>1
      <4>2. Pending(d, 0, FALSE) \in Situation /\ Pending(d, 1, FALSE) \in Situation
        BY Situations
      <4> QED  BY <3>3, <4>1, <4>2, LeadsOne
    <3>7. value.end \in (i + 2)..(Len(t) + 1)
      BY <1>0, <1>2, <3>1, <3>2
    <3>8. \A d \in Nat : \E n \in Nat : \E l \in BOOLEAN :
            (l \/ n = 1) /\ Leads(value.acts, Pending(d, 0, FALSE), Pending(d, n, l))
      BY <3>2, <3>6
    <3> QED  BY <3>2, <3>4, <3>5, <3>7, <3>8
  <2>2. CASE ~IsValue(t, i + 2)
    <3>1. value = LISTRule(t, i + 2) /\ LISTRule(t, i + 2) # NoMatch
      BY <1>1, <2>2
    <3>2. i + 2 \in 1..(Len(t) + 1)
      BY <1>0, <1>2
    <3> HIDE DEF value
    <3>3. /\ value.end \in (i + 2 + 1)..(Len(t) + 1)
          /\ value.acts \in Seq(Action)
          /\ WillFail(value.acts) <=> HugeFrom(t, i + 2, value.end)
          /\ \A d \in Nat : \E n \in Nat :
               Leads(value.acts, Pending(d, 0, FALSE), Pending(d, n, TRUE))
      BY <3>1, <3>2, ListRight
    <3>4. value.end \in (i + 2)..(Len(t) + 1)
      BY <1>0, <1>2, <3>3
    <3> QED  BY <3>3, <3>4
  <2> QED  BY <2>1, <2>2
<1>4. m.end = value.end /\ m.acts = <<set>> \o value.acts \o <<add>>
  BY <1>1 DEF Match
<1>5. /\ set \in Action /\ set.op = "SetVarName" /\ set.arg = t[i]
      /\ add \in Action /\ add.op = "AddVariable"
  BY <1>a DEF Act, Bare, Action
<1> HIDE DEF m, value, set, add
<1>6. /\ <<set>> \in Seq(Action) /\ ~WillFail(<<set>>)
      /\ <<add>> \in Seq(Action) /\ ~WillFail(<<add>>)
  BY <1>5, WillFailOne
<1>7. <<set>> \o value.acts \in Seq(Action) /\ m.acts \in Seq(Action)
  BY <1>3, <1>4, <1>6, ConcatProperties
<1>8. WillFail(m.acts) <=> WillFail(value.acts)
  <2>1. WillFail(m.acts) <=> WillFail(<<set>> \o value.acts) \/ WillFail(<<add>>)
    <3>1. PICK pre \in Seq(Action) : pre = <<set>> \o value.acts
      BY <1>7
    <3>2. WillFail(pre \o <<add>>) <=> WillFail(pre) \/ WillFail(<<add>>)
      BY <1>6, WillFailConcat
    <3> QED  BY <1>4, <3>1, <3>2
  <2>2. WillFail(<<set>> \o value.acts) <=> WillFail(<<set>>) \/ WillFail(value.acts)
    BY <1>3, <1>6, WillFailConcat
  <2> QED  BY <1>6, <2>1, <2>2
<1>9. HugeFrom(t, i, value.end) <=> HugeFrom(t, i + 2, value.end)
  <2>1. t[i] # Huge /\ t[i + 1] # Huge
    <3>1. t[i].kind = "name" /\ t[i + 1].kind = "="
      BY <1>1 DEF At
    <3> QED  BY <3>1, OtherKinds
  <2>a. i \in Nat /\ value.end \in Nat
    BY <1>0, <1>2, <1>3
  <2>2. \A k \in i..(value.end - 1) : k = i \/ k = i + 1 \/ k \in (i + 2)..(value.end - 1)
    BY <2>a
  <2>3. (i + 2)..(value.end - 1) \subseteq i..(value.end - 1)
    BY <2>a
  <2> QED  BY <2>1, <2>2, <2>3 DEF HugeFrom
<1>10. ASSUME NEW d \in Nat
       PROVE  Leads(m.acts, Between(d), Between(d))
  <2>1. PICK n \in Nat, l \in BOOLEAN :
          (l \/ n = 1) /\ Leads(value.acts, Pending(d, 0, FALSE), Pending(d, n, l))
    BY <1>3
  <2>2. /\ Between(d) \in Situation /\ Pending(d, 0, FALSE) \in Situation
        /\ Pending(d, n, l) \in Situation
    BY Situations
  <2>3. Fits(Between(d), set, Pending(d, 0, FALSE))
    BY <1>a, <1>5 DEF Fits
  <2>4. Fits(Pending(d, n, l), add, Between(d))
    BY <1>5, <2>1 DEF Fits
  <2>5. /\ Leads(<<set>>, Between(d), Pending(d, 0, FALSE))
        /\ Leads(<<add>>, Pending(d, n, l), Between(d))
    BY <1>5, <2>2, <2>3, <2>4, LeadsOne
  <2>6. Leads(<<set>> \o value.acts, Between(d), Pending(d, n, l))
    BY <1>3, <1>6, <2>1, <2>5, LeadsConcat
  <2> QED  BY <1>4, <1>6, <1>7, <2>5, <2>6, LeadsConcat
<1>11. m.end # i /\ m.end \in i..(Len(t) + 1)
  BY <1>0, <1>2, <1>3, <1>4
<1> QED  BY <1>3, <1>4, <1>7, <1>8, <1>9, <1>10, <1>11 DEF Right, Balanced, m

\* Matches that lie behind i are all an item uses, and when they are right, so is it.
LEMMA ItemRight ==
  ASSUME NEW t, Readable(t), NEW i \in 1..(Len(t) + 1), NEW items,
         \A j \in (i + 1)..(Len(t) + 1) : Right(t, j, items[j]),
         ItemRule(t, i, items) # NoMatch
  PROVE  LET m == ItemRule(t, i, items) IN m.end # i /\ Right(t, i, m)
<1>0. Len(t) \in Nat /\ t \in Seq(Tokens)
  BY ReadableType
<1>1. CASE VARIABLERule(t, i) # NoMatch
  <2>1. ItemRule(t, i, items) = VARIABLERule(t, i)
    BY <1>1 DEF ItemRule
  <2> QED  BY <1>1, <2>1, VariableRight
<1>2. CASE VARIABLERule(t, i) = NoMatch
  <2> DEFINE inner == items[i + 2]
             set == Act("SetVarName", t[i])
             begin == Bare("BeginGroup")
             close == Bare("EndGroup")
             m == ItemRule(t, i, items)
  <2>1. /\ At(t, i, "name") /\ At(t, i + 1, "{") /\ At(t, inner.end, "}")
        /\ m = Match(inner.end + 1, <<set, begin>> \o inner.acts \o <<close>>)
    BY <1>2 DEF ItemRule
  <2>2. i \in 1..Len(t) /\ i + 1 \in 1..Len(t) /\ i + 2 \in (i + 1)..(Len(t) + 1)
    <3>1. i <= Len(t) /\ i + 1 <= Len(t)
      BY <2>1 DEF At
    <3> QED  BY <1>0, <3>1
  <2>3. Right(t, i + 2, inner)
    BY <2>2
  <2>4. t[i] \in Tokens /\ t[i].val # ""
    <3>1. t[i].kind = "name"
      BY <2>1 DEF At
    <3> QED  BY <2>2, <3>1, ReadableType DEF Readable
  <2>5. m.end = inner.end + 1 /\ m.acts = <<set, begin>> \o inner.acts \o <<close>>
    <3> HIDE DEF m, inner, set, begin, close
    <3> QED  BY <2>1, MatchFields
  <2>6. /\ set \in Action /\ set.op = "SetVarName" /\ set.arg = t[i]
        /\ begin \in Action /\ begin.op = "BeginGroup"
        /\ close \in Action /\ close.op = "EndGroup"
    BY <2>4 DEF Act, Bare, Action
  <2>7. t[i] # Huge /\ t[i + 1] # Huge /\ t[inner.end] # Huge /\ inner.end <= Len(t)
    <3>1. /\ t[i].kind = "name" /\ t[i + 1].kind = "{" /\ t[inner.end].kind = "}"
          /\ inner.end <= Len(t)
      BY <2>1 DEF At
    <3> QED  BY <3>1, OtherKinds
  <2> HIDE DEF m, inner, set, begin, close
  <2>8. /\ <<set>> \in Seq(Action) /\ ~WillFail(<<set>>)
        /\ <<begin>> \in Seq(Action) /\ ~WillFail(<<begin>>)
        /\ <<close>> \in Seq(Action) /\ ~WillFail(<<close>>)
    BY <2>6, WillFailOne
  <2>9. PICK pre : /\ pre = <<set, begin>>
                   /\ pre \in Seq(Action) /\ pre = <<set>> \o <<begin>>
    <3>1. <<set, begin>> \in Seq(Action) /\ <<set, begin>> = <<set>> \o <<begin>>
      BY <2>6, TwoActions
    <3> QED  BY <3>1
  <2>10. /\ inner.end \in (i + 2)..(Len(t) + 1)
         /\ inner.acts \in Seq(Action)
         /\ Balanced(inner.acts)
         /\ WillFail(inner.acts) <=> HugeFrom(t, i + 2, inner.end)
    BY <2>3 DEF Right
  <2>11. PICK most : most = pre \o inner.acts /\ most \in Seq(Action)
    BY <2>9, <2>10, ConcatProperties
  <2>12. m.acts = most \o <<close>> /\ m.acts \in Seq(Action)
    <3>1. m.acts = most \o <<close>>
      BY <2>5, <2>9, <2>11
    <3> QED  BY <2>8, <2>11, <3>1, ConcatProperties
  <2>13. WillFail(m.acts) <=> WillFail(inner.acts)
    <3>1. ~WillFail(pre)
      <4>1. WillFail(<<set>> \o <<begin>>) <=> WillFail(<<set>>) \/ WillFail(<<begin>>)
        BY <2>8, WillFailConcat
      <4> QED  BY <2>8, <2>9, <4>1
    <3>2. WillFail(most) <=> WillFail(pre) \/ WillFail(inner.acts)
      BY <2>9, <2>10, <2>11, WillFailConcat
    <3>3. WillFail(most \o <<close>>) <=> WillFail(most) \/ WillFail(<<close>>)
      BY <2>8, <2>11, WillFailConcat
    <3> QED  BY <2>8, <2>12, <3>1, <3>2, <3>3
  <2>14. i \in Nat /\ inner.end \in Nat /\ i + 2 <= inner.end
    BY <1>0, <2>2, <2>10
  <2>15. HugeFrom(t, i, m.end) <=> HugeFrom(t, i + 2, inner.end)
    <3>1. PICK e \in Nat : e = inner.end
      BY <2>14
    <3>2. \A k \in i..(e + 1 - 1) : k = i \/ k = i + 1 \/ k = e \/ k \in (i + 2)..(e - 1)
      BY <2>14, <3>1
    <3>3. (i + 2)..(e - 1) \subseteq i..(e + 1 - 1)
      BY <2>14, <3>1
    <3>4. t[i] # Huge /\ t[i + 1] # Huge /\ t[e] # Huge
      BY <2>7, <3>1
    <3>5. HugeFrom(t, i, e + 1) <=> HugeFrom(t, i + 2, e)
      BY <3>2, <3>3, <3>4 DEF HugeFrom
    <3> QED  BY <2>5, <3>1, <3>5
  <2>16. ASSUME NEW d \in Nat
         PROVE  Leads(m.acts, Between(d), Between(d))
    <3>a. d + 1 \in Nat /\ 0 \in Nat /\ FALSE \in BOOLEAN
      OBVIOUS
    <3>1. /\ Between(d) \in Situation /\ Pending(d, 0, FALSE) \in Situation
          /\ d + 1 \in Nat /\ Between(d + 1) \in Situation
      BY <3>a, Situations
    <3>2. /\ Fits(Between(d), set, Pending(d, 0, FALSE))
          /\ Fits(Pending(d, 0, FALSE), begin, Between(d + 1))
          /\ Fits(Between(d + 1), close, Between(d))
      BY <2>4, <2>6 DEF Fits
    <3>3. /\ Leads(<<set>>, Between(d), Pending(d, 0, FALSE))
          /\ Leads(<<begin>>, Pending(d, 0, FALSE), Between(d + 1))
          /\ Leads(<<close>>, Between(d + 1), Between(d))
      BY <2>6, <3>1, <3>2, LeadsOne
    <3>4. Leads(pre, Between(d), Between(d + 1))
      BY <2>8, <2>9, <3>3, LeadsConcat
    <3>5. Leads(inner.acts, Between(d + 1), Between(d + 1))
      BY <2>10, <3>1 DEF Balanced
    <3>6. Leads(most, Between(d), Between(d + 1))
      BY <2>9, <2>10, <2>11, <3>4, <3>5, LeadsConcat
    <3> QED  BY <2>8, <2>11, <2>12, <3>3, <3>6, LeadsConcat
  <2>17. m.end # i /\ m.end \in i..(Len(t) + 1)
    BY <1>0, <2>5, <2>7, <2>14
  <2> QED  BY <2>10, <2>12, <2>13, <2>15, <2>16, <2>17 DEF Right, Balanced, m
<1> QED  BY <1>1, <1>2

\* What Items has at i, in terms of what it has behind i.
From(t, items, i) ==
  LET item == ItemRule(t, i, items)
      rest == items[item.end]
  IN IF item = NoMatch THEN Match(i, <<>>)
     ELSE Match(rest.end, item.acts \o rest.acts)

LEMMA FromRight ==
  ASSUME NEW t, Readable(t), NEW i \in 1..(Len(t) + 1), NEW items,
         \A j \in (i + 1)..(Len(t) + 1) : Right(t, j, items[j])
  PROVE  Right(t, i, From(t, items, i))
<1>0. Len(t) \in Nat /\ t \in Seq(Tokens)
  BY ReadableType
<1> DEFINE item == ItemRule(t, i, items)
           rest == items[item.end]
           m == From(t, items, i)
<1>1. CASE item = NoMatch
  <2>1. m.end = i /\ m.acts = <<>>
    BY <1>1 DEF From, Match
  <2>2. <<>> \in Seq(Action) /\ Len(<<>>) = 0 /\ i \in Nat
    BY <1>0, EmptySeq
  <2>3. ~WillFail(<<>>) /\ ~HugeFrom(t, i, i)
    BY <2>2 DEF WillFail, HugeFrom
  <2>4. Balanced(<<>>)
    BY LeadsNone, Situations DEF Balanced
  <2>5. i \in i..(Len(t) + 1)
    BY <1>0
  <2> HIDE DEF m
  <2>6. Right(t, i, m)
    BY <2>1, <2>2, <2>3, <2>4, <2>5 DEF Right
  <2> QED  BY <2>6 DEF m
<1>2. CASE item # NoMatch
  <2>1. item.end # i /\ Right(t, i, item)
    BY <1>2, ItemRight
  <2>2. m.end = rest.end /\ m.acts = item.acts \o rest.acts
    BY <1>2 DEF From, Match
  <2> HIDE DEF m, item
  <2>3. /\ item.end \in (i + 1)..(Len(t) + 1)
        /\ item.acts \in Seq(Action) /\ Balanced(item.acts)
        /\ WillFail(item.acts) <=> HugeFrom(t, i, item.end)
    <3>1. item.end \in i..(Len(t) + 1)
      BY <2>1 DEF Right
    <3>2. item.end \in (i + 1)..(Len(t) + 1)
      BY <1>0, <2>1, <3>1
    <3> QED  BY <2>1, <3>2 DEF Right
  <2>4. Right(t, item.end, rest)
    BY <2>3
  <2> HIDE DEF rest
  <2>5. /\ rest.end \in item.end..(Len(t) + 1)
        /\ rest.acts \in Seq(Action) /\ Balanced(rest.acts)
        /\ WillFail(rest.acts) <=> HugeFrom(t, item.end, rest.end)
    BY <2>4 DEF Right
  <2>6. m.acts \in Seq(Action) /\ (WillFail(m.acts) <=> WillFail(item.acts) \/ WillFail(rest.acts))
    BY <2>2, <2>3, <2>5, ConcatProperties, WillFailConcat
  <2>7. /\ i \in Nat /\ item.end \in Nat /\ rest.end \in Nat
        /\ i <= item.end /\ item.end <= rest.end /\ rest.end \in i..(Len(t) + 1)
    BY <1>0, <2>3, <2>5
  <2>8. HugeFrom(t, i, rest.end) <=> HugeFrom(t, i, item.end) \/ HugeFrom(t, item.end, rest.end)
    BY <2>7, HugeSplit
  <2>9. Balanced(m.acts)
    BY <2>2, <2>3, <2>5, LeadsConcat DEF Balanced
  <2>10. Right(t, i, m)
    BY <2>2, <2>3, <2>5, <2>6, <2>7, <2>8, <2>9 DEF Right
  <2> QED  BY <2>10 DEF m
<1> QED  BY <1>1, <1>2

\* It depends on nothing else.
LEMMA FromLocal ==
  ASSUME NEW t, Readable(t), NEW i \in 1..(Len(t) + 1), NEW f, NEW g,
         \A j \in (i + 1)..(Len(t) + 1) : Right(t, j, f[j]) /\ g[j] = f[j]
  PROVE  From(t, g, i) = From(t, f, i)
<1>0. Len(t) \in Nat
  BY ReadableType
<1>1. ItemRule(t, i, g) = ItemRule(t, i, f)
  <2>1. CASE At(t, i, "name") /\ At(t, i + 1, "{")
    <3>1. i + 1 <= Len(t)
      BY <2>1 DEF At
    <3>2. i + 2 \in (i + 1)..(Len(t) + 1)
      BY <1>0, <3>1
    <3>3. g[i + 2] = f[i + 2]
      BY <3>2
    <3> QED  BY <3>3 DEF ItemRule
  <2>2. CASE ~(At(t, i, "name") /\ At(t, i + 1, "{"))
    BY <2>2 DEF ItemRule
  <2> QED  BY <2>1, <2>2
<1>2. CASE ItemRule(t, i, f) = NoMatch
  BY <1>1, <1>2 DEF From
<1>3. CASE ItemRule(t, i, f) # NoMatch
  <2> DEFINE item == ItemRule(t, i, f)
  <2>1. item.end # i /\ Right(t, i, item)
    BY <1>3, ItemRight
  <2> HIDE DEF item
  <2>2. item.end \in i..(Len(t) + 1)
    BY <2>1 DEF Right
  <2>3. item.end \in (i + 1)..(Len(t) + 1)
    BY <1>0, <2>1, <2>2
  <2>4. g[item.end] = f[item.end]
    BY <2>3
  <2> QED  BY <1>1, <1>3, <2>4 DEF From, item
<1> QED  BY <1>2, <1>3

\* From the end of a text backwards.
LEMMA Backwards ==
  ASSUME NEW n \in Nat, NEW S, n \in S, \A i \in 1..(n - 1) : i + 1 \in S => i \in S
  PROVE  1..n \subseteq S
<1> SUFFICES ASSUME NEW i \in 1..n, i \notin S
             PROVE  FALSE
  OBVIOUS
<1> DEFINE T == {k \in Nat : k <= n /\ n - k \in 1..n /\ n - k \notin S}
<1>1. n - i \in T
  <2>1. n - i \in Nat /\ n - i <= n /\ n - (n - i) = i
    OBVIOUS
  <2> QED  BY <2>1
<1>2. T \subseteq Nat /\ T # {}
  BY <1>1
<1>3. PICK k \in T : \A l \in T : k <= l
  <2> HIDE DEF T
  <2> QED  BY <1>2, LeastNat
<1>4. k # 0
  <2>1. n - 0 = n
    OBVIOUS
  <2> QED  BY <1>3, <2>1
<1>5. k - 1 \in Nat /\ ~(k <= k - 1) /\ n - (k - 1) \in 1..n /\ k - 1 <= n
  BY <1>3, <1>4
<1>6. n - (k - 1) \in S
  BY <1>3, <1>5
<1>7. PICK j \in 1..(n - 1) : j = n - k /\ j + 1 = n - (k - 1)
  <2>1. n - k \in 1..(n - 1) /\ n - k + 1 = n - (k - 1)
    BY <1>3, <1>4
  <2> QED  BY <2>1
<1> QED  BY <1>3, <1>6, <1>7

\* Every position of the text has its match.
LEMMA ItemsRight ==
  ASSUME NEW t, Readable(t)
  PROVE  \A i \in 1..(Len(t) + 1) : Right(t, i, Items(t)[i])
<1> DEFINE n == Len(t) + 1
           Good(f, i) == \A j \in i..n : f[j] = From(t, f, j) /\ Right(t, j, f[j])
           Sol(f) == f = [i \in 1..n |-> From(t, f, i)]
<1>1. n \in Nat \ {0} /\ n \in 1..n
  BY ReadableType
<1>2. \E f : Good(f, 1)
  <2> DEFINE S == {i \in 1..n : \E f : Good(f, i)}
  <2>1. n \in S
    <3> DEFINE f == [j \in n..n |-> From(t, <<>>, n)]
    <3>1. \A j \in (n + 1)..(Len(t) + 1) : FALSE
      BY <1>1
    <3>2. f[n] = From(t, <<>>, n) /\ n..n = {n}
      BY <1>1
    <3> HIDE DEF f
    <3>3. From(t, <<>>, n) = From(t, f, n) /\ Right(t, n, From(t, f, n))
      BY <1>1, <3>1, FromRight, FromLocal
    <3>4. Good(f, n)
      BY <3>2, <3>3
    <3> QED  BY <1>1, <3>4
  <2>2. ASSUME NEW i \in 1..(n - 1), i + 1 \in S
        PROVE  i \in S
    <3>1. PICK f : Good(f, i + 1)
      BY <2>2
    <3> DEFINE g == [j \in i..n |-> IF j = i THEN From(t, f, i) ELSE f[j]]
    <3>2. /\ i \in 1..n /\ i \in i..n
          /\ \A j \in i..n : /\ j \in 1..n
                             /\ j = i \/ j \in (i + 1)..n
                             /\ \A k \in (j + 1)..n : k \in (i + 1)..n /\ k \in i..n /\ k # i
      BY <1>1
    <3>3. g[i] = From(t, f, i) /\ \A j \in i..n : j # i => g[j] = f[j]
      BY <3>2
    <3> HIDE DEF g
    <3>4. ASSUME NEW j \in i..n
          PROVE  g[j] = From(t, g, j) /\ Right(t, j, g[j])
      <4>1. \A k \in (j + 1)..n : Right(t, k, f[k]) /\ g[k] = f[k]
        BY <3>1, <3>2, <3>3
      <4>2. From(t, g, j) = From(t, f, j) /\ Right(t, j, From(t, f, j))
        BY <3>2, <4>1, FromLocal, FromRight
      <4>3. CASE j = i
        BY <3>3, <4>2, <4>3
      <4>4. CASE j # i
        <5>1. j \in (i + 1)..n
          BY <3>2, <4>4
        <5>2. f[j] = From(t, f, j)
          BY <3>1, <5>1
        <5> QED  BY <3>3, <4>2, <4>4, <5>2
      <4> QED  BY <4>3, <4>4
    <3>5. Good(g, i)
      BY <3>4
    <3> HIDE DEF Good
    <3> QED  BY <3>2, <3>5
  <2>3. 1 \in 1..n
    BY <1>1
  <2> HIDE DEF S, n
  <2>4. 1..n \subseteq S
    BY <1>1, <2>1, <2>2, Backwards
  <2> QED  BY <2>3, <2>4 DEF S
<1>3. \E f : Sol(f)
  <2>1. PICK f : Good(f, 1)
    BY <1>2
  <2> DEFINE g == [i \in 1..n |-> f[i]]
  <2>2. \A i \in 1..n : g[i] = f[i]
    OBVIOUS
  <2>3. ASSUME NEW i \in 1..n
        PROVE  g[i] = From(t, g, i)
    <3> HIDE DEF g
    <3>1. \A k \in (i + 1)..n : k \in 1..n
      BY <1>1
    <3>2. From(t, g, i) = From(t, f, i)
      BY <2>1, <2>2, <3>1, FromLocal
    <3> QED  BY <2>1, <2>2, <3>2
  <2>4. g = [i \in 1..n |-> g[i]]
    OBVIOUS
  <2> HIDE DEF g
  <2>5. Sol(g)
    BY <2>3, <2>4
  <2> HIDE DEF Sol
  <2> QED  BY <2>5
<1>4. Items(t) = CHOOSE f : Sol(f)
  BY DEF Items, From
<1>5. Sol(Items(t))
  <2> HIDE DEF Sol
  <2> QED  BY <1>3, <1>4
<1>6. \A i \in 1..n : Items(t)[i] = From(t, Items(t), i)
  <2>1. PICK f : f = Items(t)
    OBVIOUS
  <2>2. f = [i \in 1..n |-> From(t, f, i)]
    BY <1>5, <2>1
  <2>3. \A i \in 1..n : f[i] = From(t, f, i)
    BY <2>2
  <2> QED  BY <2>1, <2>3
<1> DEFINE S == {i \in 1..n : \A j \in i..n : Right(t, j, Items(t)[j])}
<1>7. n \in S
  <2>1. \A j \in (n + 1)..(Len(t) + 1) : FALSE
    BY <1>1
  <2>2. Right(t, n, From(t, Items(t), n))
    BY <1>1, <2>1, FromRight
  <2>3. Right(t, n, Items(t)[n]) /\ n..n = {n}
    BY <1>1, <1>6, <2>2
  <2> QED  BY <1>1, <2>3
<1>8. ASSUME NEW i \in 1..(n - 1), i + 1 \in S
      PROVE  i \in S
  <2>1. i \in 1..n /\ \A j \in i..n : j = i \/ j \in (i + 1)..n
    BY <1>1
  <2>2. \A j \in (i + 1)..n : Right(t, j, Items(t)[j])
    BY <1>8
  <2>3. Right(t, i, Items(t)[i])
    BY <1>6, <2>1, <2>2, FromRight
  <2> QED  BY <2>1, <2>2, <2>3
<1>9. 1..n \subseteq S
  <2> HIDE DEF S, n
  <2> QED  BY <1>1, <1>7, <1>8, Backwards
<1>10. \A i \in 1..n : i \in i..n
  BY <1>1
<1> QED  BY <1>9, <1>10

LEMMA TextRight ==
  ASSUME NEW t \in Texts
  PROVE  Right(t, 1, CONFIG(t))
<1>1. Readable(t)
  BY TextsAssumption DEF Readable
<1>2. 1 \in 1..(Len(t) + 1)
  BY <1>1, ReadableType
<1> QED  BY <1>1, <1>2, ItemsRight DEF CONFIG

-----------------------------------------------------------------------------
(* Paths of groups.                                                        *)

LEMMA FrontOfAppend ==
  ASSUME NEW s \in Seq(Name), NEW x \in Name
  PROVE  /\ Append(s, x) \in Seq(Name) /\ Append(s, x) # <<>>
         /\ Len(Append(s, x)) = Len(s) + 1 /\ Len(s) \in Nat
         /\ Front(Append(s, x)) = s
<1> DEFINE w == Append(s, x)
           n == Len(s)
<1>1. /\ w \in Seq(Name) /\ w # <<>> /\ Len(w) = n + 1
      /\ \A k \in 1..n : w[k] = s[k]
      /\ \A k \in 1..n : s[k] \in Name
      /\ n \in Nat
  BY AppendProperties, LenProperties, ElementOfSeq
<1> HIDE DEF w
<1>2. PICK f : f = SubSeq(w, 1, n)
  OBVIOUS
<1>3. Front(w) = f
  <2>1. Len(w) - 1 = n
    BY <1>1
  <2> QED  BY <1>2, <2>1 DEF Front
<1>4. f \in Seq(Name) /\ Len(f) = n /\ \A k \in 1..n : f[k] = w[k]
  <2>1. 1 \in Int /\ n \in Int /\ \A k \in 1..n : w[k] \in Name
    BY <1>1
  <2>2. /\ f \in Seq(Name)
        /\ Len(f) = IF 1 <= n THEN n - 1 + 1 ELSE 0
        /\ \A k \in 1..(n - 1 + 1) : f[k] = w[1 + k - 1]
    BY <1>2, <2>1, SubSeqProperties
  <2>3. \A k \in 1..n : k \in 1..(n - 1 + 1) /\ 1 + k - 1 = k
    BY <1>1
  <2> QED  BY <1>1, <2>2, <2>3
<1>5. f = s
  BY <1>1, <1>4, SeqEqual DEF n
<1> QED  BY <1>1, <1>3, <1>5 DEF w

LEMMA FrontType ==
  ASSUME NEW g \in Seq(Name), g # <<>>
  PROVE  Front(g) \in Seq(Name) /\ Len(Front(g)) = Len(g) - 1 /\ Len(g) \in Nat \ {0}
<1>1. Len(g) \in Nat \ {0} /\ \A k \in 1..Len(g) : g[k] \in Name
  BY LenProperties, ElementOfSeq, EmptySeq
<1> DEFINE n == Len(g) - 1
<1>2. 1 \in Int /\ n \in Nat /\ n \in Int /\ \A k \in 1..n : g[k] \in Name
  BY <1>1
<1>3. Front(g) = SubSeq(g, 1, n)
  BY DEF Front
<1> HIDE DEF n
<1>4. Front(g) \in Seq(Name) /\ Len(Front(g)) = IF 1 <= n THEN n - 1 + 1 ELSE 0
  BY <1>2, <1>3, SubSeqProperties
<1>5. Len(Front(g)) = n
  BY <1>2, <1>4
<1> QED  BY <1>1, <1>4, <1>5 DEF n

\* What does not lie below p has no part below p.
LEMMA FrontOutside ==
  ASSUME NEW p \in Seq(Name), p # <<>>, NEW g \in Seq(Name), g # <<>>, ~IsPrefix(p, g)
  PROVE  ~IsPrefix(p, Front(g))
<1> SUFFICES ASSUME IsPrefix(p, Front(g))
             PROVE  FALSE
  OBVIOUS
<1>1. Len(Front(g)) = Len(g) - 1 /\ Len(g) \in Nat /\ Len(p) \in Nat \ {0}
  BY FrontType, LenProperties, EmptySeq
<1>2. Len(p) <= Len(Front(g)) /\ SubSeq(p, 1, Len(p)) = SubSeq(Front(g), 1, Len(p))
  BY DEF IsPrefix
<1>3. SubSeq(Front(g), 1, Len(p)) = SubSeq(g, 1, Len(p))
  <2> DEFINE j == Len(g) - 1
             n == Len(p)
  <2>1. /\ 1 \in 1..Len(g) /\ j \in 1..Len(g) /\ 1 \in 1..(j - 1 + 1) /\ n \in 1..(j - 1 + 1)
        /\ 1 + 1 - 1 = 1 /\ 1 + n - 1 = n
    BY <1>1, <1>2
  <2>2. Front(g) = SubSeq(g, 1, j)
    BY DEF Front
  <2> HIDE DEF j, n
  <2>3. SubSeq(SubSeq(g, 1, j), 1, n) = SubSeq(g, 1 + 1 - 1, 1 + n - 1)
    BY <2>1, SubSeqOfSubSeq
  <2>4. SubSeq(Front(g), 1, n) = SubSeq(g, 1, n)
    BY <2>1, <2>2, <2>3
  <2> QED  BY <2>4 DEF n
<1> QED  BY <1>1, <1>2, <1>3 DEF IsPrefix

-----------------------------------------------------------------------------
(* The run of the actions.                                                 *)

TypeOK ==
  /\ text \in Texts
  /\ acts \in Seq(Action)
  /\ curgroup \in Seq(Name)
  /\ varname \in Name
  /\ varvalues \in Seq(Tokens \cup {Mark("")})
  /\ islist \in BOOLEAN
  /\ internalError \in BOOLEAN

\* The current group hangs in the tree.
InTree ==
  /\ DOMAIN root \subseteq Seq(Name)
  /\ <<>> \in DOMAIN root
  /\ curgroup \in DOMAIN root
  /\ \A g \in DOMAIN root \ {<<>>} : Front(g) \in DOMAIN root

\* The state of the parser is the one the actions were recorded for; of what an action
\* has failed to do only the depth, and that there is a name, are left.
Matches(a) ==
  /\ a.depth = Len(curgroup)
  /\ a.named => varname # ""
  /\ ~internalError => /\ a.named <=> varname # ""
                       /\ a.vals = Len(varvalues)
                       /\ a.list = islist

OnPath == \E a \in Situation : Leads(acts, a, Between(0)) /\ Matches(a)

\* An error there is, or will be, exactly if the text has a number that does not fit.
Foreseen == (internalError \/ WillFail(acts)) <=> HugeFrom(text, 1, CONFIG(text).end)

ParserInv ==
  /\ TypeOK
  /\ InTree
  /\ OnPath
  /\ Foreseen

LEMMA InitialInv == Init => ParserInv
<1> SUFFICES ASSUME Init
             PROVE  ParserInv
  OBVIOUS
<1>1. Right(text, 1, CONFIG(text)) /\ acts = CONFIG(text).acts /\ text \in Texts
  BY TextRight DEF Init
<1>2. /\ acts \in Seq(Action) /\ Balanced(acts)
      /\ WillFail(acts) <=> HugeFrom(text, 1, CONFIG(text).end)
  BY <1>1 DEF Right
<1>3. /\ <<>> \in Seq(Name) /\ <<>> \in Seq(Tokens \cup {Mark("")}) /\ Len(<<>>) = 0
      /\ "" \in Name
  BY EmptySeq DEF Name
<1>4. TypeOK
  BY <1>1, <1>2, <1>3 DEF Init, TypeOK
<1>5. InTree
  <2>1. DOMAIN root = {<<>>}
    BY DEF Init
  <2>2. curgroup = <<>>
    BY DEF Init
  <2> QED  BY <1>3, <2>1, <2>2 DEF InTree
<1>6. OnPath
  <2>1. 0 \in Nat
    OBVIOUS
  <2>2. Leads(acts, Between(0), Between(0)) /\ Between(0) \in Situation
    BY <1>2, <2>1, Situations DEF Balanced
  <2>3. Matches(Between(0))
    BY <1>3 DEF Init, Matches, Between
  <2> QED  BY <2>2, <2>3 DEF OnPath
<1>7. Foreseen
  BY <1>2 DEF Init, Foreseen
<1> QED  BY <1>4, <1>5, <1>6, <1>7 DEF ParserInv

\* What the situations around an action say.
LEMMA SetVarNameFits ==
  ASSUME NEW a, NEW x, NEW c, Fits(a, x, c), x.op = "SetVarName"
  PROVE  /\ x.arg.val # ""
         /\ a.depth = c.depth /\ a.named = FALSE /\ a.vals = 0 /\ a.list = FALSE
         /\ c.named = TRUE /\ c.vals = 0 /\ c.list = FALSE
<1>1. x.arg.val # "" /\ \E d \in Nat : a = Between(d) /\ c = Pending(d, 0, FALSE)
  BY DEF Fits
<1>2. PICK d \in Nat : a = Between(d) /\ c = Pending(d, 0, FALSE)
  BY <1>1
<1>3. /\ a.depth = c.depth /\ a.named = FALSE /\ a.vals = 0 /\ a.list = FALSE
      /\ c.named = TRUE /\ c.vals = 0 /\ c.list = FALSE
  BY <1>2 DEF Between, Pending
<1> QED  BY <1>1, <1>3

LEMMA AddValueFits ==
  ASSUME NEW a, NEW x, NEW c, Fits(a, x, c), x.op = "AddValue"
  PROVE  /\ a.named = TRUE /\ a.vals \in Nat /\ a.list = FALSE
         /\ c.depth = a.depth /\ c.named = TRUE /\ c.vals = a.vals + 1 /\ c.list = FALSE
<1>1. PICK d, n \in Nat : a = Pending(d, n, FALSE) /\ c = Pending(d, n + 1, FALSE)
  BY DEF Fits
<1> QED  BY <1>1 DEF Between, Pending

LEMMA SetIsListFits ==
  ASSUME NEW a, NEW x, NEW c, Fits(a, x, c), x.op = "SetIsList"
  PROVE  /\ a.named = TRUE
         /\ c.depth = a.depth /\ c.named = TRUE /\ c.vals = a.vals /\ c.list = TRUE
<1>1. PICK d, n \in Nat : a = Pending(d, n, FALSE) /\ c = Pending(d, n, TRUE)
  BY DEF Fits
<1> QED  BY <1>1 DEF Between, Pending

LEMMA AddVariableFits ==
  ASSUME NEW a, NEW x, NEW c, Fits(a, x, c), x.op = "AddVariable"
  PROVE  /\ a.named = TRUE /\ (a.list = TRUE \/ a.vals = 1)
         /\ c.depth = a.depth /\ c.named = FALSE /\ c.vals = 0 /\ c.list = FALSE
<1>1. PICK d \in Nat, n \in Nat, l \in BOOLEAN :
        a = Pending(d, n, l) /\ (l \/ n = 1) /\ c = Between(d)
  BY DEF Fits
<1> QED  BY <1>1 DEF Between, Pending

LEMMA BeginGroupFits ==
  ASSUME NEW a, NEW x, NEW c, Fits(a, x, c), x.op = "BeginGroup"
  PROVE  /\ a.named = TRUE /\ a.vals = 0 /\ a.list = FALSE /\ a.depth \in Nat
         /\ c.depth = a.depth + 1 /\ c.named = FALSE /\ c.vals = 0 /\ c.list = FALSE
<1>1. PICK d \in Nat : a = Pending(d, 0, FALSE) /\ c = Between(d + 1)
  BY DEF Fits
<1> QED  BY <1>1 DEF Between, Pending

LEMMA EndGroupFits ==
  ASSUME NEW a, NEW x, NEW c, Fits(a, x, c), x.op = "EndGroup"
  PROVE  /\ a.named = FALSE /\ a.vals = 0 /\ a.list = FALSE /\ c.depth \in Nat
         /\ a.depth = c.depth + 1 /\ c.named = FALSE /\ c.vals = 0 /\ c.list = FALSE
<1>1. PICK d \in Nat : a = Between(d + 1) /\ c = Between(d)
  BY DEF Fits
<1> QED  BY <1>1 DEF Between, Pending

LEMMA WillFailTail ==
  ASSUME NEW s \in Seq(Action), s # <<>>
  PROVE  WillFail(s) <=> (Head(s).op = "AddValue" /\ Head(s).arg = Huge) \/ WillFail(Tail(s))
<1>1. /\ Len(Tail(s)) = Len(s) - 1 /\ \A k \in 1..Len(Tail(s)) : Tail(s)[k] = s[k+1]
      /\ Len(s) \in Nat \ {0} /\ Head(s) = s[1]
  BY HeadTailProperties, EmptySeq, LenProperties
<1>2. ASSUME WillFail(s)
      PROVE  (Head(s).op = "AddValue" /\ Head(s).arg = Huge) \/ WillFail(Tail(s))
  <2>1. PICK k \in 1..Len(s) : s[k].op = "AddValue" /\ s[k].arg = Huge
    BY <1>2 DEF WillFail
  <2>2. CASE k = 1
    BY <1>1, <2>1, <2>2
  <2>3. CASE k # 1
    <3>1. PICK l \in 1..Len(Tail(s)) : k = l + 1
      <4>1. k - 1 \in 1..Len(Tail(s)) /\ k = k - 1 + 1
        BY <1>1, <2>3
      <4> QED  BY <4>1
    <3>2. Tail(s)[l] = s[k]
      BY <1>1, <3>1
    <3> QED  BY <2>1, <3>1, <3>2 DEF WillFail
  <2> QED  BY <2>2, <2>3
<1>3. ASSUME Head(s).op = "AddValue" /\ Head(s).arg = Huge
      PROVE  WillFail(s)
  <2>1. 1 \in 1..Len(s)
    BY <1>1
  <2> QED  BY <1>1, <1>3, <2>1 DEF WillFail
<1>4. ASSUME WillFail(Tail(s))
      PROVE  WillFail(s)
  <2>1. PICK k \in 1..Len(Tail(s)) : Tail(s)[k].op = "AddValue" /\ Tail(s)[k].arg = Huge
    BY <1>4 DEF WillFail
  <2>2. PICK l \in 1..Len(s) : l = k + 1
    <3>1. k + 1 \in 1..Len(s)
      BY <1>1
    <3> QED  BY <3>1
  <2>3. s[l] = Tail(s)[k]
    BY <1>1, <2>2
  <2> QED  BY <2>1, <2>3 DEF WillFail
<1> QED  BY <1>2, <1>3, <1>4

\* The next action finds the situation it was recorded for.
LEMMA Prepared ==
  ASSUME ParserInv, NEW op, Do(op)
  PROVE  /\ Head(acts) \in Action /\ Head(acts).op = op
         /\ acts' = Tail(acts) /\ acts' \in Seq(Action)
         /\ text' = text
         /\ WillFail(acts) <=> (op = "AddValue" /\ Head(acts).arg = Huge) \/ WillFail(Tail(acts))
         /\ \E a, c \in Situation : /\ Matches(a) /\ Fits(a, Head(acts), c)
                                    /\ Leads(Tail(acts), c, Between(0))
<1>1. acts \in Seq(Action) /\ acts # <<>> /\ acts' = Tail(acts) /\ Head(acts).op = op
  BY DEF ParserInv, TypeOK, Do
<1>2. PICK a \in Situation : Leads(acts, a, Between(0)) /\ Matches(a)
  BY DEF ParserInv, OnPath
<1>3. \E c \in Situation : Fits(a, Head(acts), c) /\ Leads(Tail(acts), c, Between(0))
  BY <1>1, <1>2, LeadsTail
<1>4. Head(acts) \in Action /\ Tail(acts) \in Seq(Action)
  BY <1>1, HeadTailProperties
<1>5. WillFail(acts) <=> (op = "AddValue" /\ Head(acts).arg = Huge) \/ WillFail(Tail(acts))
  BY <1>1, WillFailTail
<1> QED  BY <1>1, <1>2, <1>3, <1>4, <1>5 DEF Do

\* What an action has for an argument.
LEMMA Arguments ==
  ASSUME NEW x \in Action
  PROVE  /\ x.arg \in Tokens \cup {Mark("")}
         /\ x.arg.val \in Name
<1>1. x.arg \in Tokens \cup {Mark("")}
  BY DEF Action
<1>2. CASE x.arg \in Tokens
  BY <1>2 DEF Tokens, Name
<1>3. CASE x.arg = Mark("")
  <2>1. Mark("").val = ""
    BY DEF Mark, Token
  <2> QED  BY <1>1, <1>3, <2>1 DEF Name
<1> QED  BY <1>1, <1>2, <1>3

\* What is left to show of an action: that it leads to the next situation, keeps the
\* tree, and fails for the first time only with a number that does not fit.
LEMMA Onwards ==
  ASSUME ParserInv, NEW op, Do(op),
         NEW c \in Situation, Leads(Tail(acts), c, Between(0)), Matches(c)',
         TypeOK', InTree',
         internalError' <=> internalError \/ (op = "AddValue" /\ Head(acts).arg = Huge)
  PROVE  ParserInv'
<1>1. /\ acts' = Tail(acts) /\ text' = text
      /\ WillFail(acts) <=> (op = "AddValue" /\ Head(acts).arg = Huge) \/ WillFail(Tail(acts))
  BY Prepared
<1>2. OnPath'
  BY <1>1 DEF OnPath
<1>3. Foreseen'
  BY <1>1 DEF ParserInv, Foreseen
<1> QED  BY <1>2, <1>3 DEF ParserInv

LEMMA StepInv == ParserInv /\ [Next]_vars => ParserInv'
<1> SUFFICES ASSUME ParserInv, [Next]_vars
             PROVE  ParserInv'
  OBVIOUS
<1>0. TypeOK /\ InTree
  BY DEF ParserInv
<1>1. ASSUME SetVarName
      PROVE  ParserInv'
  <2>1. Do("SetVarName")
    BY <1>1 DEF SetVarName
  <2>2. /\ Head(acts) \in Action /\ Head(acts).op = "SetVarName"
        /\ acts' = Tail(acts) /\ acts' \in Seq(Action) /\ text' = text
    BY <2>1, Prepared
  <2>3. PICK a \in Situation, c \in Situation :
          Matches(a) /\ Fits(a, Head(acts), c) /\ Leads(Tail(acts), c, Between(0))
    BY <2>1, Prepared
  <2>4. /\ Head(acts).arg.val # "" /\ Head(acts).arg.val \in Name
        /\ a.depth = c.depth /\ a.named = FALSE /\ a.vals = 0 /\ a.list = FALSE
        /\ c.named = TRUE /\ c.vals = 0 /\ c.list = FALSE
    <3>1. Head(acts).arg.val \in Name
      BY <2>2, Arguments
    <3>2. /\ Head(acts).arg.val # ""
          /\ a.depth = c.depth /\ a.named = FALSE /\ a.vals = 0 /\ a.list = FALSE
          /\ c.named = TRUE /\ c.vals = 0 /\ c.list = FALSE
      BY <2>2, <2>3, SetVarNameFits
    <3> QED  BY <3>1, <3>2
  <2>5. CASE varname # "" /\ Fail
    <3>1. /\ root' = root /\ curgroup' = curgroup /\ varname' = varname
          /\ varvalues' = varvalues /\ islist' = islist /\ internalError' = TRUE
      BY <2>5 DEF Fail
    <3>2. internalError
      BY <2>3, <2>4, <2>5 DEF Matches
    <3>3. Matches(c)'
      BY <2>3, <2>4, <2>5, <3>1 DEF Matches
    <3>4. TypeOK' /\ InTree'
      BY <1>0, <2>2, <3>1 DEF TypeOK, InTree
    <3> QED  BY <2>1, <2>3, <3>1, <3>2, <3>3, <3>4, Onwards
  <2>6. CASE /\ varname = "" /\ varname' = Head(acts).arg.val
             /\ UNCHANGED <<root, curgroup, varvalues, islist, internalError>>
    <3>1. Matches(c)'
      BY <2>3, <2>4, <2>6 DEF Matches
    <3>2. TypeOK' /\ InTree'
      BY <1>0, <2>2, <2>4, <2>6 DEF TypeOK, InTree
    <3>3. internalError' = internalError /\ "SetVarName" # "AddValue"
      BY <2>6
    <3> QED  BY <2>1, <2>3, <3>1, <3>2, <3>3, Onwards
  <2> QED  BY <1>1, <2>5, <2>6 DEF SetVarName
<1>2. ASSUME AddValue
      PROVE  ParserInv'
  <2>1. Do("AddValue")
    BY <1>2 DEF AddValue
  <2>2. /\ Head(acts) \in Action /\ Head(acts).op = "AddValue"
        /\ acts' = Tail(acts) /\ acts' \in Seq(Action) /\ text' = text
    BY <2>1, Prepared
  <2>3. PICK a \in Situation, c \in Situation :
          Matches(a) /\ Fits(a, Head(acts), c) /\ Leads(Tail(acts), c, Between(0))
    BY <2>1, Prepared
  <2>4. /\ Head(acts).arg \in Tokens \cup {Mark("")}
        /\ a.named = TRUE /\ a.vals \in Nat /\ a.list = FALSE
        /\ c.depth = a.depth /\ c.named = TRUE /\ c.vals = a.vals + 1 /\ c.list = FALSE
    <3>1. Head(acts).arg \in Tokens \cup {Mark("")}
      BY <2>2, Arguments
    <3>2. /\ a.named = TRUE /\ a.vals \in Nat /\ a.list = FALSE
          /\ c.depth = a.depth /\ c.named = TRUE /\ c.vals = a.vals + 1 /\ c.list = FALSE
      BY <2>2, <2>3, AddValueFits
    <3> QED  BY <3>1, <3>2
  <2>5. CASE Head(acts).arg = Huge /\ Fail
    <3>1. /\ root' = root /\ curgroup' = curgroup /\ varname' = varname
          /\ varvalues' = varvalues /\ islist' = islist /\ internalError' = TRUE
      BY <2>5 DEF Fail
    <3>2. Matches(c)'
      BY <2>3, <2>4, <3>1 DEF Matches
    <3>3. TypeOK' /\ InTree'
      BY <1>0, <2>2, <3>1 DEF TypeOK, InTree
    <3> QED  BY <2>1, <2>3, <2>5, <3>1, <3>2, <3>3, Onwards
  <2>6. CASE /\ Head(acts).arg # Huge
             /\ varvalues' = Append(varvalues, Head(acts).arg)
             /\ UNCHANGED <<root, curgroup, varname, islist, internalError>>
    <3>1. /\ varvalues' \in Seq(Tokens \cup {Mark("")})
          /\ Len(varvalues') = Len(varvalues) + 1
      <4> DEFINE T == Tokens \cup {Mark("")}
      <4>1. varvalues \in Seq(T) /\ Head(acts).arg \in T
        BY <1>0, <2>4 DEF TypeOK
      <4> HIDE DEF T
      <4>2. /\ Append(varvalues, Head(acts).arg) \in Seq(T)
            /\ Len(Append(varvalues, Head(acts).arg)) = Len(varvalues) + 1
        BY <4>1, AppendProperties
      <4> QED  BY <2>6, <4>2 DEF T
    <3>2. Matches(c)'
      BY <2>3, <2>4, <2>6, <3>1 DEF Matches
    <3>3. TypeOK' /\ InTree'
      BY <1>0, <2>2, <2>6, <3>1 DEF TypeOK, InTree
    <3> QED  BY <2>1, <2>3, <2>6, <3>2, <3>3, Onwards
  <2> QED  BY <1>2, <2>5, <2>6 DEF AddValue
<1>3. ASSUME SetIsList
      PROVE  ParserInv'
  <2>1. Do("SetIsList")
    BY <1>3 DEF SetIsList
  <2>2. /\ Head(acts) \in Action /\ Head(acts).op = "SetIsList"
        /\ acts' = Tail(acts) /\ acts' \in Seq(Action) /\ text' = text
    BY <2>1, Prepared
  <2>3. PICK a \in Situation, c \in Situation :
          Matches(a) /\ Fits(a, Head(acts), c) /\ Leads(Tail(acts), c, Between(0))
    BY <2>1, Prepared
  <2>4. /\ a.named = TRUE
        /\ c.depth = a.depth /\ c.named = TRUE /\ c.vals = a.vals /\ c.list = TRUE
    BY <2>2, <2>3, SetIsListFits
  <2>5. islist' = TRUE /\ UNCHANGED <<root, curgroup, varname, varvalues, internalError>>
    BY <1>3 DEF SetIsList
  <2>6. Matches(c)'
    BY <2>3, <2>4, <2>5 DEF Matches
  <2>7. TypeOK' /\ InTree'
    BY <1>0, <2>2, <2>5 DEF TypeOK, InTree
  <2>8. internalError' = internalError /\ "SetIsList" # "AddValue"
    BY <2>5
  <2> QED  BY <2>1, <2>3, <2>6, <2>7, <2>8, Onwards
<1>4. ASSUME AddVariable
      PROVE  ParserInv'
  <2>1. Do("AddVariable")
    BY <1>4 DEF AddVariable
  <2>2. /\ Head(acts) \in Action /\ Head(acts).op = "AddVariable"
        /\ acts' = Tail(acts) /\ acts' \in Seq(Action) /\ text' = text
    BY <2>1, Prepared
  <2>3. PICK a \in Situation, c \in Situation :
          Matches(a) /\ Fits(a, Head(acts), c) /\ Leads(Tail(acts), c, Between(0))
    BY <2>1, Prepared
  <2>4. /\ a.named = TRUE /\ (a.list = TRUE \/ a.vals = 1)
        /\ c.depth = a.depth /\ c.named = FALSE /\ c.vals = 0 /\ c.list = FALSE
    BY <2>2, <2>3, AddVariableFits
  <2>5. CASE (varname = "" \/ (~islist /\ Len(varvalues) # 1)) /\ Fail
    <3>1. /\ root' = root /\ curgroup' = curgroup /\ varname' = varname
          /\ varvalues' = varvalues /\ islist' = islist /\ internalError' = TRUE
      BY <2>5 DEF Fail
    <3>2. internalError
      <4>1. varname # ""
        BY <2>3, <2>4 DEF Matches
      <4>2. ~islist /\ Len(varvalues) # 1
        BY <2>5, <4>1
      <4> QED  BY <1>0, <2>3, <2>4, <4>2 DEF Matches, TypeOK
    <3>3. Matches(c)'
      BY <2>3, <2>4, <3>1 DEF Matches
    <3>4. TypeOK' /\ InTree'
      BY <1>0, <2>2, <3>1 DEF TypeOK, InTree
    <3> QED  BY <2>1, <2>3, <3>1, <3>2, <3>3, <3>4, Onwards
  <2>6. CASE /\ root' = [root EXCEPT ![curgroup] =
                            (varname :> [list |-> islist, vals |-> varvalues]) @@ @]
             /\ varname' = "" /\ varvalues' = <<>> /\ islist' = FALSE
             /\ UNCHANGED <<curgroup, internalError>>
    <3>1. DOMAIN root' = DOMAIN root
      BY <2>6
    <3>2. Len(<<>>) = 0 /\ <<>> \in Seq(Tokens \cup {Mark("")}) /\ "" \in Name
      BY EmptySeq DEF Name
    <3>3. Matches(c)'
      BY <2>3, <2>4, <2>6, <3>2 DEF Matches
    <3>4. TypeOK'
      BY <1>0, <2>2, <2>6, <3>2 DEF TypeOK
    <3>5. InTree'
      BY <1>0, <2>6, <3>1 DEF InTree
    <3>6. internalError' = internalError /\ "AddVariable" # "AddValue"
      BY <2>6
    <3> QED  BY <2>1, <2>3, <3>3, <3>4, <3>5, <3>6, Onwards
  <2> QED  BY <1>4, <2>5, <2>6 DEF AddVariable
<1>5. ASSUME BeginGroup
      PROVE  ParserInv'
  <2>1. Do("BeginGroup")
    BY <1>5 DEF BeginGroup
  <2>2. /\ Head(acts) \in Action /\ Head(acts).op = "BeginGroup"
        /\ acts' = Tail(acts) /\ acts' \in Seq(Action) /\ text' = text
    BY <2>1, Prepared
  <2>3. PICK a \in Situation, c \in Situation :
          Matches(a) /\ Fits(a, Head(acts), c) /\ Leads(Tail(acts), c, Between(0))
    BY <2>1, Prepared
  <2>4. /\ a.named = TRUE /\ a.vals = 0 /\ a.list = FALSE /\ a.depth \in Nat
        /\ c.depth = a.depth + 1 /\ c.named = FALSE /\ c.vals = 0 /\ c.list = FALSE
    BY <2>2, <2>3, BeginGroupFits
  <2>5. varname # ""
    BY <2>3, <2>4 DEF Matches
  <2> DEFINE new == Append(curgroup, varname)
             others == {g \in DOMAIN root : ~IsPrefix(new, g)}
  <2>6. /\ root' = [g \in others \cup {new} |-> IF g = new THEN NoVars ELSE root[g]]
        /\ curgroup' = new /\ varname' = ""
        /\ UNCHANGED <<varvalues, islist, internalError>>
    BY <1>5, <2>5 DEF BeginGroup
  <2>7. DOMAIN root' = others \cup {new}
    BY <2>6
  <2>8. /\ curgroup \in Seq(Name) /\ varname \in Name /\ "" \in Name
        /\ DOMAIN root \subseteq Seq(Name)
    BY <1>0 DEF TypeOK, InTree, Name
  <2>9. /\ new \in Seq(Name) /\ new # <<>> /\ Len(new) = Len(curgroup) + 1
        /\ Len(curgroup) \in Nat /\ Front(new) = curgroup
    BY <2>8, FrontOfAppend
  <2> HIDE DEF new
  <2>10. <<>> \in others /\ curgroup \in others
    <3>1. ~(Len(new) <= Len(<<>>)) /\ ~(Len(new) <= Len(curgroup))
      BY <2>9
    <3>2. ~IsPrefix(new, <<>>) /\ ~IsPrefix(new, curgroup)
      BY <3>1 DEF IsPrefix
    <3> QED  BY <1>0, <3>2 DEF InTree
  <2>11. ASSUME NEW g \in DOMAIN root', g # <<>>
         PROVE  Front(g) \in DOMAIN root'
    <3>1. CASE g = new
      BY <2>7, <2>9, <2>10, <3>1
    <3>2. CASE g # new
      <4>1. g \in DOMAIN root /\ ~IsPrefix(new, g) /\ g \in Seq(Name)
        BY <2>7, <2>8, <2>11, <3>2
      <4>2. Front(g) \in DOMAIN root
        BY <1>0, <2>11, <4>1 DEF InTree
      <4>3. ~IsPrefix(new, Front(g))
        BY <2>9, <2>11, <4>1, FrontOutside
      <4> QED  BY <2>7, <4>2, <4>3
    <3> QED  BY <3>1, <3>2
  <2>12. InTree'
    <3>1. DOMAIN root' \subseteq Seq(Name)
      BY <2>7, <2>8, <2>9
    <3> HIDE DEF others
    <3>2. <<>> \in DOMAIN root' /\ curgroup' \in DOMAIN root'
      BY <2>6, <2>7, <2>10
    <3> QED  BY <2>11, <3>1, <3>2 DEF InTree
  <2> HIDE DEF others
  <2>13. TypeOK'
    BY <1>0, <2>2, <2>6, <2>8, <2>9 DEF TypeOK
  <2>14. Matches(c)'
    <3>1. c.depth = Len(curgroup')
      BY <2>3, <2>4, <2>6, <2>9 DEF Matches
    <3>2. varname' = "" /\ (~internalError' => 0 = Len(varvalues') /\ islist' = FALSE)
      BY <2>3, <2>4, <2>6 DEF Matches
    <3> QED  BY <2>4, <3>1, <3>2 DEF Matches
  <2>15. internalError' = internalError /\ "BeginGroup" # "AddValue"
    BY <2>6
  <2> QED  BY <2>1, <2>3, <2>12, <2>13, <2>14, <2>15, Onwards
<1>6. ASSUME EndGroup
      PROVE  ParserInv'
  <2>1. Do("EndGroup")
    BY <1>6 DEF EndGroup
  <2>2. /\ Head(acts) \in Action /\ Head(acts).op = "EndGroup"
        /\ acts' = Tail(acts) /\ acts' \in Seq(Action) /\ text' = text
    BY <2>1, Prepared
  <2>3. PICK a \in Situation, c \in Situation :
          Matches(a) /\ Fits(a, Head(acts), c) /\ Leads(Tail(acts), c, Between(0))
    BY <2>1, Prepared
  <2>4. /\ a.named = FALSE /\ a.vals = 0 /\ a.list = FALSE /\ c.depth \in Nat
        /\ a.depth = c.depth + 1 /\ c.named = FALSE /\ c.vals = 0 /\ c.list = FALSE
    BY <2>2, <2>3, EndGroupFits
  <2>5. Len(curgroup) = c.depth + 1 /\ curgroup \in Seq(Name)
    BY <1>0, <2>3, <2>4 DEF Matches, TypeOK
  <2>6. curgroup # <<>>
    BY <2>4, <2>5, EmptySeq
  <2>7. /\ curgroup' = Front(curgroup)
        /\ UNCHANGED <<root, varname, varvalues, islist, internalError>>
    BY <1>6, <2>6 DEF EndGroup
  <2>8. Front(curgroup) \in Seq(Name) /\ Len(Front(curgroup)) = Len(curgroup) - 1
    BY <2>5, <2>6, FrontType
  <2>9. InTree'
    <3>1. Front(curgroup) \in DOMAIN root
      BY <1>0, <2>6 DEF InTree
    <3> QED  BY <1>0, <2>7, <3>1 DEF InTree
  <2>10. TypeOK'
    BY <1>0, <2>2, <2>7, <2>8 DEF TypeOK
  <2>11. Matches(c)'
    <3>1. c.depth = Len(curgroup')
      BY <2>4, <2>5, <2>7, <2>8
    <3>2. ~internalError' => varname' = "" /\ 0 = Len(varvalues') /\ islist' = FALSE
      BY <2>3, <2>4, <2>7 DEF Matches
    <3> QED  BY <2>4, <3>1, <3>2 DEF Matches
  <2>12. internalError' = internalError /\ "EndGroup" # "AddValue"
    BY <2>7
  <2> QED  BY <2>1, <2>3, <2>9, <2>10, <2>11, <2>12, Onwards
<1>7. CASE UNCHANGED vars
  <2>1. /\ text' = text /\ acts' = acts /\ root' = root /\ curgroup' = curgroup
        /\ varname' = varname /\ varvalues' = varvalues /\ islist' = islist
        /\ internalError' = internalError
    BY <1>7 DEF vars
  <2> QED  BY <2>1 DEF ParserInv, TypeOK, InTree, OnPath, Matches, Foreseen
<1> QED  BY <1>1, <1>2, <1>3, <1>4, <1>5, <1>6, <1>7 DEF Next, Returned

\* In every state of every parse.
LEMMA AlwaysInv == Spec => []ParserInv
<1>1. Init => ParserInv
  BY InitialInv
<1>2. ParserInv /\ [Next]_vars => ParserInv'
  BY StepInv
<1> QED  BY <1>1, <1>2, PTL DEF Spec

\* Parse (vgcfg.go, parser.go) returns an error exactly if ParseInt refuses a number in
\* the part of the text the grammar recognises: no action fails but in the wake of such
\* a failure, and none covers it up.
THEOREM ErrorReportedCorrect == Spec => []ErrorReported
<1>1. ParserInv => ErrorReported
  <2> SUFFICES ASSUME ParserInv, Done
               PROVE  internalError <=> \E i \in 1..(CONFIG(text).end - 1) : text[i] = Huge
    BY DEF ErrorReported
  <2>1. ~WillFail(acts)
    <3>1. acts = <<>> /\ Len(<<>>) = 0
      BY EmptySeq DEF Done
    <3> QED  BY <3>1 DEF WillFail
  <2>2. internalError <=> HugeFrom(text, 1, CONFIG(text).end)
    BY <2>1 DEF ParserInv, TypeOK, Foreseen
  <2> QED  BY <2>2 DEF HugeFrom
<1> QED  BY <1>1, AlwaysInv, PTL

\* beginGroup and endGroup of the parser (parser.go) come in pairs even after an action
\* has failed: the current group hangs in the tree, and is the root in the end.
THEOREM GroupsBalancedCorrect == Spec => []GroupsBalanced
<1>1. ParserInv => GroupsBalanced
  <2> SUFFICES ASSUME ParserInv
               PROVE  GroupsBalanced
    OBVIOUS
  <2>1. ASSUME Done
        PROVE  curgroup = <<>>
    <3>1. PICK a \in Situation : Leads(acts, a, Between(0)) /\ Matches(a)
      BY DEF ParserInv, OnPath
    <3>2. acts = <<>> /\ Len(<<>>) = 0
      BY <2>1, EmptySeq DEF Done
    <3>3. a = Between(0)
      BY <3>1, <3>2 DEF Leads, Path
    <3>4. Len(curgroup) = 0
      BY <3>1, <3>3 DEF Matches, Between
    <3> QED  BY <3>4, EmptySeq DEF ParserInv, TypeOK
  <2>2. InTree
    BY DEF ParserInv
  <2> QED  BY <2>1, <2>2 DEF GroupsBalanced, InTree
<1> QED  BY <1>1, AlwaysInv, PTL

=============================================================================
