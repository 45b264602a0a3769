------------------------------ MODULE MCVgcfg ------------------------------
(***************************************************************************)
(* Texts vgcfgbackup can write, for TLC: a volume group with a thin pool,  *)
(* two thin volumes and a linear one.  A description says what is in the   *)
(* text; the properties compare what the programs find with it.            *)
(***************************************************************************)
EXTENDS VolumeGroup

\* Where in the text a variable stands whose value the grammar does not know.
Places == {"nowhere", "before", "in group", "in volume", "after"}

\* How the description of a thin volume is.
Conditions == {"whole", "no device", "listed device", "huge device"}

\* A description: place of the unreadable value; condition of lv0 and lv1; whether the
\* pool's description is whole, and lv1 is in it; whether the group has an extent size.
Descriptions ==
  [place : Places, lv0 : Conditions, lv1 : {"whole", "no device"}, pool : BOOLEAN,
   together : BOOLEAN, extent : BOOLEAN]

-----------------------------------------------------------------------------
(* The items of a description: variables and groups.                       *)

Item(kind, name, vals, items) ==
  [kind |-> kind, name |-> name, vals |-> vals, items |-> items]
Scalar(name, val) == <<Item("scalar", name, <<val>>, <<>>)>>
List(name, vals) == <<Item("list", name, vals, <<>>)>>
Unreadable(name) == <<Item("unreadable", name, <<>>, <<>>)>>
Group(name, items) == <<Item("group", name, <<>>, items)>>

When(cond, items) == IF cond THEN items ELSE <<>>

ThinLv(name, device, pool, cond, broken) ==
  Group(name,
    Scalar("id", StringVal("uuid"))
    \o List("status", <<StringVal("READ"), StringVal("VISIBLE")>>)
    \o List("flags", <<>>)
    \o When(broken, Unreadable("creation_host"))
    \o Group("segment1",
         Scalar("start_extent", IntegerVal("0"))
         \o Scalar("extent_count", IntegerVal("25"))
         \o Scalar("type", StringVal("thin"))
         \o Scalar("thin_pool", StringVal(pool))
         \o Scalar("transaction_id", IntegerVal("1"))
         \o When(cond = "whole", Scalar("device_id", IntegerVal(device)))
         \o When(cond = "listed device", List("device_id", <<IntegerVal(device)>>))
         \o When(cond = "huge device", Scalar("device_id", Huge))))

Pool(name, whole) ==
  Group(name,
    Scalar("id", StringVal("uuid"))
    \o Group("segment1",
         Scalar("start_extent", IntegerVal("0"))
         \o Scalar("extent_count", IntegerVal("50"))
         \o Scalar("type", StringVal("thin-pool"))
         \o Scalar("metadata", StringVal("pool_tmeta"))
         \o Scalar("pool", StringVal("pool_tdata"))
         \o When(whole, Scalar("chunk_size", IntegerVal("128")))))

Linear(name) ==
  Group(name, Scalar("id", StringVal("uuid"))
              \o Group("segment1", Scalar("type", StringVal("striped"))))

Contents(d) ==
  When(d.place = "before", Unreadable("description"))
  \o Scalar("version", IntegerVal("1"))
  \o Group("vg0",
       When(d.extent, Scalar("extent_size", IntegerVal("8192")))
       \o When(d.place = "in group", Unreadable("tags"))
       \o Group("logical_volumes",
            Pool("pool", d.pool)
            \o ThinLv("lv0", "1", "pool", d.lv0, d.place = "in volume")
            \o ThinLv("lv1", "2", IF d.together THEN "pool" ELSE "elsewhere", d.lv1, FALSE)
            \o Linear("pool_tmeta")))
  \o When(d.place = "after", Unreadable("creation_time"))

\* The text of items.
RECURSIVE Text(_)
Text(items) ==
  LET OfOne(x) ==
        <<Token("name", x.name)>> \o
        CASE x.kind = "scalar" -> <<Mark("=")>> \o x.vals
          [] x.kind = "list" -> <<Mark("="), Mark("[")>> \o x.vals \o <<Mark("]")>>
          [] x.kind = "unreadable" -> <<Mark("="), Mark("?")>>
          [] x.kind = "group" -> <<Mark("{")>> \o Text(x.items) \o <<Mark("}")>>
  IN FlattenSeq([i \in DOMAIN items |-> OfOne(items[i])])

\* Evaluated once.
Written == [d \in Descriptions |-> Text(Contents(d))]

MCTexts == {Written[d] : d \in Descriptions}

-----------------------------------------------------------------------------
(* What a description means.                                               *)

RECURSIVE Readable(_)
Readable(x) == x.kind # "unreadable" /\ \A i \in DOMAIN x.items : Readable(x.items[i])

RECURSIVE HasHuge(_)
HasHuge(x) ==
  Huge \in ToSet(x.vals) \/ \E i \in DOMAIN x.items : HasHuge(x.items[i])

\* What is recognised: the items at the top up to one with something unreadable in it.
Understood(d) ==
  LET items == Contents(d)
      bad == {i \in DOMAIN items : ~Readable(items[i])}
  IN SubSeq(items, 1, IF bad = {} THEN Len(items) ELSE Min(bad) - 1)

\* The groups among items, of which g is the group.
RECURSIVE Tree(_, _)
Tree(g, items) ==
  LET variables == {x \in ToSet(items) : x.kind # "group"}
      here == g :> [k \in {x.name : x \in variables} |->
                      LET x == CHOOSE y \in variables : y.name = k
                      IN [list |-> x.kind = "list", vals |-> x.vals]]
      Add(f, x) == IF x.kind = "group" THEN f @@ Tree(Append(g, x.name), x.items) ELSE f
  IN FoldLeft(Add, here, items)

\* The lookups of a volume can only work if the whole group is understood and no thin
\* volume and no pool lacks anything.
Usable(d) ==
  d.place \in {"nowhere", "after"} /\ d.lv0 = "whole" /\ d.lv1 = "whole" /\ d.pool

Device(name) == IF name = "lv0" THEN "1" ELSE "2"

-----------------------------------------------------------------------------

\* Parse builds exactly what the understood part of the text describes, every group
\* in its place and every value with its own variable, unless a number in it does not
\* fit; a group with anything unknown in it is missing as a whole (the recogniser takes
\* all its actions back), never in part.
ParsedAsWritten ==
  Done => \A d \in Descriptions :
    text = Written[d] =>
      IF \E i \in DOMAIN Understood(d) : HasHuge(Understood(d)[i])
      THEN internalError
      ELSE ~internalError /\ root = Tree(<<>>, Understood(d))

\* prepare of both programs finds the devices, the metadata and the sizes of the
\* volumes named, or nothing: from an incomplete description no volume at all, and two
\* volumes of different pools are not compared.
LookupsTrue ==
  Done /\ ~internalError =>
    \A d \in Descriptions : text = Written[d] =>
      \A lv, src \in {"lv0", "lv1"} :
        /\ Prepare(lv, src) =
             IF Usable(d) /\ (d.together \/ (lv = "lv0" /\ src = "lv0"))
             THEN {[lv |-> Device(lv), src |-> Device(src), metadata |-> "pool_tmeta",
                    chunk |-> "128",
                    size |-> <<"25", IF d.extent THEN "8192" ELSE "0">>]}
             ELSE {}
        /\ BaseChunk(src) =
             IF Usable(d) /\ (d.together \/ src = "lv0") THEN {"128"} ELSE {}

=============================================================================
