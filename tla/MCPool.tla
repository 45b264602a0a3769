------------------------------- MODULE MCPool -------------------------------
(***************************************************************************)
(* Instances of PoolSharing for TLC, and what a comment says of Delta.     *)
(***************************************************************************)
EXTENDS PoolSharing, SequencesExt

\* Processes are alike, and so are volumes.
Symmetry == Permutations(Proc) \cup Permutations(Lv)

\* Plain names; a volume with a hyphen and one with the same hyphen twice; a group
\* and a pool with one.  Then names whose paths lead to somebody else's devices: a
\* group and a pool with two hyphens beside those with one, and a group with a hyphen
\* at its end, where the path has two.
MCNamings ==
  LET Pairs(a, b) == {n \in [Lv -> {a, b}] : Range(n) = {a, b}}
      Named(vg, pool, pairs, volumes, pools) ==
        {[vg |-> vg, pool |-> pool, lv |-> n, volumes |-> volumes, pools |-> pools] :
           n \in pairs}
      Volume(vg, lv) == [vg |-> vg, lv |-> lv]
      Pool(vg, pool) == [vg |-> vg, pool |-> pool]
      g == <<"g">>  gh == <<"g", "-", "h">>  ghh == <<"g", "-", "-", "h">>
      p == <<"p">>  pq == <<"p", "-", "q">>  pqq == <<"p", "-", "-", "q">>
      plain == Pairs(<<"a">>, <<"d">>)
  IN Named(g, p, plain \cup Pairs(<<"b", "-", "c">>, <<"b", "-", "-", "c">>), {}, {})
       \cup Named(gh, p, plain, {}, {})
       \cup Named(g, pq, plain, {}, {})
       \cup Named(ghh, p, plain, {Volume(gh, <<"a">>)}, {Pool(gh, p)})
       \cup Named(g, pqq, plain, {}, {Pool(g, pq)})
       \cup Named(<<"g", "-">>, <<"h", "-", "p">>, Pairs(<<"h", "-", "a">>, <<"d">>),
                  {Volume(gh, <<"a">>)}, {Pool(gh, p)})

\* Which volumes are active at first, the level, and one volume in both places make no
\* difference to what paths lead to: they are varied for plain names only.
PlainNames ==
  {name.vg, name.pool} \cup Range(name.lv) = {<<"g">>, <<"p">>, <<"a">>, <<"d">>}

MCInit ==
  /\ Init
  /\ mounted \in {{}, active}
  /\ \/ PlainNames
     \/ /\ active = {}
        /\ \A p \in Proc : detect[p] /\ lvname[p] # srcname[p]

MCSpec == MCInit /\ [][Next]_vars

\* Comment of Delta: the release at the start is there "just ... in case of error":
\* it takes away what an lvdiff that failed left behind, and never the snapshot of
\* one that still needs it.
ReleasesOnlyLeftovers ==
  \A p \in Proc : pc[p] \in {"begin", "read"} => snap = p

=============================================================================
