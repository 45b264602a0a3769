------------------------------ MODULE Transfer ------------------------------
(***************************************************************************)
(* lvdiff <A> <B> | lvpatch -l <base> <new>: both programs, running at the *)
(* same time over one pipe.  With a Capacity no stream fills, and lvpatch  *)
(* not taking a step before lvdiff has ended, the behaviours are those of  *)
(* a stream saved in a file; lvpatch may be run again on a saved stream.   *)
(***************************************************************************)
EXTENDS Lvdiff, Lvpatch

CONSTANT MaxRuns   \* how often lvpatch is run: bounds the model

ASSUME RunsAssumption == MaxRuns \in Nat \ {0}

VARIABLE runs      \* how often lvpatch was started

vars == <<pipeVars, senderVars, receiverVars, runs>>

Init ==
  /\ PipeInit
  /\ SenderInit
  /\ ReceiverInit
  /\ runs = 1

\* The user runs lvpatch again, with the same arguments and the saved stream,
\* after a run that failed.  What that run left behind is still there.
Rerun ==
  /\ spc \in SenderEnd
  /\ rpc \in {"failed", "killed"}
  /\ runs < MaxRuns
  /\ runs' = runs + 1
  /\ rpc' = "header"
  /\ rd' = 0
  /\ ropen' = TRUE
  /\ hdr' = NoHeader
  /\ baseBlocks' = <<>>
  /\ midline' = FALSE
  /\ dwWritten' = 0
  /\ UNCHANGED <<sent, wopen, cut, senderVars, targetVars, new>>

Ended == spc \in SenderEnd /\ rpc \in ReceiverEnd

\* Both programs have ended: nothing is left to happen, and this is no deadlock.
Terminated == Ended /\ UNCHANGED vars

Next ==
  \/ SenderNext /\ UNCHANGED <<receiverVars, runs>>
  \/ ReceiverNext /\ UNCHANGED <<senderVars, runs>>
  \/ CutPipe /\ UNCHANGED <<senderVars, receiverVars, runs>>
  \/ Rerun
  \/ Terminated

Spec == Init /\ [][Next]_vars

\* The operating system runs both programs; nothing obliges the environment.
Fairness ==
  /\ WF_vars(SenderStep /\ UNCHANGED <<receiverVars, runs>>)
  /\ WF_vars(ReceiverStep /\ UNCHANGED <<senderVars, runs>>)

FairSpec == Spec /\ Fairness

-----------------------------------------------------------------------------
\* The types of the variables, of the pipe and of both programs.
TypeOK == PipeTypeOK /\ SenderTypeOK /\ ReceiverTypeOK /\ runs \in Nat

-----------------------------------------------------------------------------
(* Safety.                                                                 *)

\* The user did not contradict the fields of the header with a --meta pair: both
\* programs agree on whether the stream has digest lines.
LevelsAgree == (HeaderLevel = 0) = (level = 0)

\* The pairs make lvpatch expect digest lines where there are none, so that it takes
\* the first sub-header for one and then chunk data for lines (recv.go:155 to 214).
LevelRaised == level = 0 /\ HeaderLevel # 0

\* lvdiff ended well, everything it wrote can be read, A was left alone, and the path
\* of the new volume leads to it.
CleanRun ==
  spc = "done" /\ ~cut /\ writes = 0 /\ LevelsAgree /\ path.new = "own"

\* The purpose of the pair of programs (README, "lvpatch"): when lvpatch reports
\* success on the stream of a clean run, and the base was what B is when the snapshot
\* was made and A has not grown, the new volume has the contents of A.
RestoredWhenDone ==
  rpc = "done" /\ CleanRun /\ copied = volB /\ DOMAIN volA = DOMAIN volB
    => new = volA

\* What a chunk of the new volume may have received: zeros for a deleted chunk,
\* otherwise something A contained since the delta was taken.
Sendable(b) == IF blocks[b] = DeltaOpDelete THEN {Zero} ELSE seen[b]

\* Whatever fails, breaks or is retried, and whoever writes to A or to the base
\* meanwhile, the new volume is at all times the base as it was copied, with a
\* prefix of the delta laid over it: chunks in ascending order, none skipped, none
\* with data of another chunk.  Only a --meta pair that makes lvpatch take chunk data
\* for lines takes that away.
PatchedPrefix ==
  new # Absent /\ ~LevelRaised =>
    \E P \in SUBSET Delta :
      /\ \A b \in P, c \in Delta : c < b => c \in P
      /\ \A b \in DOMAIN new :
           IF b \in P THEN new[b] \in Sendable(b) ELSE new[b] = copied[b]

\* The chunks the digests of a level cover.
CheckedChunks ==
  LET heads == RunHeads(DOMAIN blocks) IN
  CASE level = 0 -> {}
    [] level = 1 -> heads \cap {0}
    [] OTHER -> UNION {b..(b + DigestLength(DOMAIN blocks, level, b) - 1) :
                         b \in heads}

\* The chunks the digest lines of the stream are about.
Digested ==
  UNION {LET first == sent[i].off \div Sectors IN
         first..(first + Len(sent[i].digest) - 1) :
           i \in {i \in 1..Len(sent) : sent[i].type = "D"}}

\* A base that differs from B in a chunk the stream has a digest of is never copied,
\* unless lvpatch was told not to check or somebody wrote to the base after its
\* verification (recv.go:92 to 105); and whenever the digest lines are there to their
\* end, they cover what the level promises.  No more can be said: lvpatch takes the
\* end of the input for the end of the lines (recv.go:133, 179), so that a stream that
\* was cut among them, or that of an lvdiff which failed or panicked before it wrote
\* one, is checked by the lines that arrived or not at all.
VerifiedBase ==
  new # Absent /\ ~disableCheck /\ HeaderLevel # 0 /\ path.base = "own" =>
    /\ \A b \in Digested \ dirty : b \in DOMAIN copied /\ copied[b] = volB[b]
    /\ (\E i \in 1..Len(sent) : sent[i].type = "end") => CheckedChunks \subseteq Digested

\* The other way round: when nothing fails, lvpatch refuses no base that is right,
\* unless A has grown, a path leads elsewhere, or chunk data are taken for lines.  The
\* chunk sizes differ, or a chunk the level covers really is another one.
RefusesOnlyWrong ==
  /\ rpc = "failed" /\ Faults = {} /\ runs = 1 /\ baseWrites = 0
  /\ DOMAIN base = DOMAIN volB /\ DOMAIN volA \subseteq DOMAIN volB
  /\ path.base = "own" /\ path.new = "own" /\ ~LevelRaised
  => \/ chunk # Sectors
     \/ ~disableCheck /\ \E b \in CheckedChunks : At(base, b) # At(volB, b)

\* The parser of lvpatch stays in step with the writer: while it expects digest
\* lines it meets nothing else, and no line of another kind where it expects data.
FramingInStep ==
  LevelsAgree /\ Available =>
    /\ rpc = "base" /\ hdr.level # 0 => NextRecord.type \in {"D", "end"}
    /\ rpc \in {"check", "snapshot", "activate", "patch"} /\ hdr.chunk = chunk
         => NextRecord.type = "W"

\* "Delta blocks" of the header, counted before any chunk is read, is what the
\* progress bar is drawn against: it is never passed, unless chunk data are taken for
\* lines, and reached when everything was sent and read.
CountHonest ==
  /\ ~LevelRaised => dwWritten <= hdr.count
  /\ rpc = "done" /\ spc = "done" /\ ~cut /\ LevelsAgree
       => dwWritten = hdr.count

-----------------------------------------------------------------------------
(* Refinement.                                                             *)

R == INSTANCE Restore
       WITH source <- volA, held <- seen, backing <- volB, original <- base, volume <- new,
            copied <- copied, misled <- LevelRaised, complete <- CleanRun,
            success <- (rpc = "done")

\* Seen through its volumes the pair of programs does what Restore says, whatever
\* fails and whoever writes to A or to the base: the new volume comes into being as
\* a copy of the base, is never taken away or started over by a second lvpatch,
\* changes by whole chunks of A unless chunk data are taken for lines, stays as it is
\* after success, and success is reported once and, for a complete stream, not too
\* early.
Restores == R!Spec

-----------------------------------------------------------------------------
(* Liveness.                                                               *)

\* Both programs end, whatever fails: lvdiff does not wait for ever on a full
\* pipe nor lvpatch on an empty one, also when the other one ended early.
Termination == <>[]Ended

=============================================================================
