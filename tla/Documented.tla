----------------------------- MODULE Documented -----------------------------
(***************************************************************************)
(* What the README and the help texts say of lvdiff and lvpatch, where the *)
(* code does something else.                                               *)
(***************************************************************************)
EXTENDS MCTransfer

\* README, "lvdiff" and "lvpatch": "lvdiff ... sp0 vol0 > test.diff", and patching
\* test.diff to a volume identical with sp0 restores vol0.  So the first argument
\* (A in the code) is what the base has, the second (B) what the result has.
ReadmeExample ==
  rpc = "done" /\ CleanRun /\ base = volA /\ DOMAIN volA = DOMAIN volB
    => new = volB

\* Help of -d: "3 means scan all data blocks": at level 3 a base that differs from
\* B in a block the two volumes share is refused.
Level3ScansAll ==
  new # Absent /\ level = 3 /\ ~disableCheck /\ spc = "done" /\ ~cut
    => \A b \in DOMAIN blocks \cap DOMAIN base : base[b] = volB[b]

\* README: lvdiff "is a tool to dump the differential blocks of two" thin volumes;
\* whatever blocks these have, it does not crash.
LvdiffNeverPanics == spc # "panicked"

\* README, "lvpatch": "It will restore thin volume": when it reports success, the
\* new volume is A, given the right base of the right size.
SuccessMeansRestored ==
  rpc = "done" /\ writes = 0 /\ base = volB /\ DOMAIN volA = DOMAIN volB
    => new = volA

\* The same of volumes whose size changed since the base was taken; the header of
\* the stream has the size of A.
GrownVolumeRestored ==
  rpc = "done" /\ CleanRun /\ base = volB => new = volA

=============================================================================
