----------------------------- MODULE MCTransfer -----------------------------
(***************************************************************************)
(* Instances of Transfer for TLC.                                          *)
(***************************************************************************)
EXTENDS TransferInv

CONSTANT Bases    \* which base volumes to start with: "equal", "near", "any"

\* Base volumes that differ from B in at most one chunk.
NearB == {vol \in [DOMAIN volB -> Value] :
            Cardinality({b \in DOMAIN volB : vol[b] # volB[b]}) <= 1}

\* Where paths lead: those of plain names, and of names one of which has hyphens.
PlainPaths == {[base |-> "own", new |-> "own"]}

AnyPaths == {p \in [base : PathEnd, new : PathEnd] : "own" \in {p.base, p.new}}

NewAstray == PlainPaths \cup {[base |-> "own", new |-> "other"]}

\* What the volumes contain and the options make no difference to where paths lead:
\* they are varied for plain names only.
MCInit ==
  /\ Init
  /\ \/ path \in PlainPaths
     \/ /\ level = 3 /\ chunk = Sectors /\ ~disableCheck
        /\ DOMAIN volA = DOMAIN volB /\ \A b \in DOMAIN volB : volB[b] = Zero
  /\ CASE Bases = "equal" -> base = volB
       [] Bases = "near" -> base \in NearB
       [] Bases = "any" -> TRUE

MCSpec == MCInit /\ [][Next]_vars

MCFairSpec == MCSpec /\ Fairness

\* The meta pairs of an instance.
NoMetas == {<<>>}
FewMetas == {<<>>, <<0>>, <<0, 2>>}

=============================================================================
