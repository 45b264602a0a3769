---------------------------- MODULE VolumeGroup ----------------------------
(***************************************************************************)
(* The queries of lvbackup/vgcfg/group.go on what the parser built (root   *)
(* of VgcfgParser.tla), and the lookups of both programs made of them      *)
(* (prepare of send.go and of recv.go).                                    *)
(***************************************************************************)
EXTENDS VgcfgParser, FiniteSets

SubGroups(g) == {h \in DOMAIN root : Len(h) = Len(g) + 1 /\ IsPrefix(g, h)}

SubGroup(g, name) == Append(g, name)

Exists(g) == g \in DOMAIN root

\* VarStringValue and VarIntegerValue: a list is neither.
Has(g, key, kind) ==
  key \in DOMAIN root[g] /\ ~root[g][key].list /\ root[g][key].vals[1].kind = kind

Var(g, key) == root[g][key].vals[1].val

\* VgName: the root has one group, the volume group.
VgNameOk == Cardinality(SubGroups(<<>>)) = 1

Vg == CHOOSE g \in SubGroups(<<>>) : TRUE

Segment1(g) == SubGroup(g, "segment1")

IsType(g, type) ==
  Exists(Segment1(g)) /\ Has(Segment1(g), "type", "string") /\ Var(Segment1(g), "type") = type

IsThinLv(g) == IsType(g, "thin")

IsThinPool(g) == IsType(g, "thin-pool")

\* None without a volume group.  A lookup that fails and one that finds nothing are
\* the same error to both programs.
LogicalVolumes ==
  IF VgNameOk
  THEN {g \in SubGroups(SubGroup(Vg, "logical_volumes")) : IsThinLv(g) \/ IsThinPool(g)}
  ELSE {}

\* ThinLvInfo and ThinPoolInfo are nil unless all these variables are there and of
\* the right type.
ThinLvInfoOk(g) ==
  /\ Has(g, "id", "string")
  /\ \A k \in {"start_extent", "extent_count", "transaction_id", "device_id"} :
       Has(Segment1(g), k, "integer")
  /\ Has(Segment1(g), "thin_pool", "string")

ThinPoolInfoOk(g) ==
  /\ Has(g, "id", "string")
  /\ \A k \in {"start_extent", "extent_count", "chunk_size"} :
       Has(Segment1(g), k, "integer")
  /\ \A k \in {"metadata", "pool"} : Has(Segment1(g), k, "string")

ThinLvs == {g \in LogicalVolumes : IsThinLv(g)}

ThinPools == {g \in LogicalVolumes : IsThinPool(g)}

\* Wrong on purpose: what a plausible bug would make of the next definition.
FindThinLvMutant(name) == {g \in ThinLvs : Last(g) = name /\ ThinLvInfoOk(g)}

\* FindThinLv: one description that is not complete spoils every lookup.
FindThinLv(name) ==
  {g \in ThinLvs : Last(g) = name /\ \A h \in ThinLvs : ThinLvInfoOk(h)}

FindThinPool(name) ==
  {g \in ThinPools : Last(g) = name /\ \A h \in ThinPools : ThinPoolInfoOk(h)}

\* ExtentSize of the root.
ExtentSize ==
  IF VgNameOk /\ Has(Vg, "extent_size", "integer") THEN Var(Vg, "extent_size") ELSE "0"

\* What prepare of the sender works with: the devices to compare, and the chunk
\* and volume size (number and size of the extents) that go into the header; nothing
\* if it returns an error.
Prepare(lvname, srcname) ==
  {[lv |-> Var(Segment1(lv), "device_id"), src |-> Var(Segment1(src), "device_id"),
    metadata |-> Var(Segment1(pool), "metadata"),
    chunk |-> Var(Segment1(pool), "chunk_size"),
    size |-> <<Var(Segment1(lv), "extent_count"), ExtentSize>>] :
   <<lv, src, pool>> \in
     {<<a, b, c>> \in FindThinLv(lvname) \X FindThinLv(srcname) \X ThinPools :
        /\ Var(Segment1(a), "thin_pool") = Var(Segment1(b), "thin_pool")
        /\ c \in FindThinPool(Var(Segment1(a), "thin_pool"))}}

\* What prepare of the receiver compares with the header.
BaseChunk(lvname) ==
  {Var(Segment1(pool), "chunk_size") :
     pool \in UNION {FindThinPool(Var(Segment1(lv), "thin_pool")) :
                       lv \in FindThinLv(lvname)}}

=============================================================================
