------------------------------- MODULE Lvdiff -------------------------------
(***************************************************************************)
(* lvdiff <volume_A> <volume_B>: streamSender.Run of lvbackup/send.go with *)
(* what it calls.  A (lvname) is the volume to restore elsewhere, B        *)
(* (srcname) the backing volume both sides are supposed to have.           *)
(*                                                                         *)
(* s.blocks is a slice sorted by origin block in which a block occurs at   *)
(* most once, so it is held as a function from origin block to operation,  *)
(* and the indices of the loops over it as a cursor over the blocks.       *)
(***************************************************************************)
EXTENDS HyperLayer, Digests, FiniteSets

CONSTANTS
  Levels,     \* values of the -d option
  Metas,      \* sequences of "Detect level" pairs among the --meta options
  MaxWrites   \* how often A is written while lvdiff runs: bounds the model

ASSUME LevelsAssumption == Levels \subseteq Int
ASSUME MetasAssumption  == Metas \subseteq Seq(Int)
ASSUME WritesAssumption == MaxWrites \in Nat

VARIABLES
  volA, volB, \* contents of the devices of lvname and srcname
  level,      \* detectLv
  meta,       \* levels the user set with --meta, in order
  spc,        \* where Run is
  blocks,     \* s.blocks
  cursor,     \* index of the loop of GenChecksum, then of the loop of Run
  hashes,     \* ret of GenChecksum, then what putBaseBlocks has left to put
  buf,        \* the chunk read and not yet put
  writes,     \* how often A was written since the metadata snapshot
  seen        \* history: what each chunk of A contained since that snapshot

senderVars == <<volA, volB, level, meta, spc, blocks, cursor, hashes, buf,
                writes, seen>>
inputVars == <<volA, volB, level, meta, writes, seen>>

SenderEnd == {"done", "failed", "panicked", "killed"}

\* The chunks either volume may have.
Chunks == DOMAIN volA \cup DOMAIN volB

\* What thin_delta promises of the metadata snapshot: a chunk it does not
\* list is provisioned in neither volume, "same" chunks share their data.
ThinDelta ==
  {f \in UNION {[S -> DeltaOpType] : S \in SUBSET Chunks} :
     /\ \A b \in Chunks \ DOMAIN f : At(volA, b) = Zero /\ At(volB, b) = Zero
     /\ \A b \in DOMAIN f :
          /\ f[b] # DeltaOpDelete => b \in DOMAIN volA
          /\ f[b] # DeltaOpCreate => b \in DOMAIN volB
          /\ f[b] = DeltaOpCreate => At(volB, b) = Zero
          /\ f[b] = DeltaOpDelete => At(volA, b) = Zero
          /\ f[b] = DeltaOpIgnore => volA[b] = volB[b]}

\* Wrong on purpose: what a plausible bug would make of the next definition.
DeltaMutant == {b \in DOMAIN blocks : blocks[b] \notin {DeltaOpIgnore, DeltaOpDelete}}

\* The entries that become W records.
Delta == {b \in DOMAIN blocks : blocks[b] # DeltaOpIgnore}

\* Wrong on purpose: what a plausible bug would make of the next definition.
BlockCountMutant == Cardinality(DOMAIN blocks)

\* cnt of ExpandBlocks, taken before the entries of the "same" chunks are added.
BlockCount == Cardinality(Delta)

\* The level lvpatch decodes: yaml lets the last of several equal keys win, and
\* putHeader writes the user's pairs after the fields of the header.
HeaderLevel == (<<level>> \o meta)[Len(meta) + 1]

NoChunk == [blk |-> 0, val |-> Zero]

SenderTypeOK ==
  /\ volA \in Volume /\ volB \in Volume
  /\ level \in Levels
  /\ meta \in Metas
  /\ spc \in {"prepare", "header", "activate", "checksum", "putbase", "putend",
              "blocks", "put"} \cup SenderEnd
  /\ DOMAIN blocks \subseteq Chunks
  /\ \A b \in DOMAIN blocks : blocks[b] \in DeltaOpType
  /\ cursor \in Nat
  /\ hashes \in Seq(DigestLine)
  /\ buf \in [blk : Nat, val : Value]
  /\ writes \in Nat
  /\ seen \in [DOMAIN volA -> SUBSET Value]

-----------------------------------------------------------------------------
SenderInit ==
  /\ volA \in Volume
  /\ volB \in Volume
  /\ level \in Levels
  /\ meta \in Metas
  /\ spc = "prepare"
  /\ blocks = [b \in {} |-> DeltaOpIgnore]
  /\ cursor = 0
  /\ hashes = <<>>
  /\ buf = NoChunk
  /\ writes = 0
  /\ seen = [b \in DOMAIN volA |-> {volA[b]}]

\* Wrong on purpose: what a plausible bug would make of the next definition.
SenderExitMutant(end) ==
  /\ spc' = end
  /\ wopen' = wopen

\* Run returns (or the process ends): standard output is closed.
SenderExit(end) ==
  /\ spc' = end
  /\ wopen' = FALSE

\* prepare: look up both volumes and the pool, take the delta.
Prepare ==
  /\ spc = "prepare"
  /\ spc' = "header"
  /\ blocks' \in ThinDelta
  /\ UNCHANGED <<inputVars, cursor, hashes, buf, pipeVars>>

\* A lookup, a command or the parsing of its output fails: Run prints the error
\* on standard output, where the stream should be.
PrepareFails ==
  /\ "lvm" \in Faults
  /\ spc = "prepare"
  /\ Write(ErrorText)
  /\ SenderExit("failed")
  /\ UNCHANGED <<inputVars, blocks, cursor, hashes, buf>>

PutHeader ==
  /\ spc = "header"
  /\ Write(Header(HeaderLevel, BlockCount, Sectors))
  /\ spc' = "activate"
  /\ UNCHANGED <<inputVars, blocks, cursor, hashes, buf, wopen>>

\* ActivateLv of srcname and of lvname.  Without checksums GenChecksum returns
\* at once, and putBaseBlocks writes nothing for its nil result.
Activate ==
  /\ spc = "activate"
  /\ spc' = IF level = 0 THEN "blocks" ELSE "checksum"
  /\ UNCHANGED <<inputVars, blocks, cursor, hashes, buf, pipeVars>>

ActivateFails ==
  /\ "lvm" \in Faults
  /\ spc = "activate"
  /\ SenderExit("failed")
  /\ UNCHANGED <<inputVars, blocks, cursor, hashes, buf, sent, rd, ropen, cut>>

-----------------------------------------------------------------------------
(* GenChecksum and putBaseBlocks.                                          *)

\* Wrong on purpose: what a plausible bug would make of the next definition.
HeadsLeftMutant == {b \in RunHeads(DOMAIN blocks) : b > cursor}

HeadsLeft == {b \in RunHeads(DOMAIN blocks) : b >= cursor}

\* A turn of the outer loop that digests a run.  A read past the end of the
\* device fails.  Level 1 stops after the first digest.
HashRun ==
  /\ spc = "checksum"
  /\ ~ChecksumPanics(DOMAIN blocks)
  /\ \E b \in HeadsLeft :
       LET n == DigestLength(DOMAIN blocks, level, b) IN
       /\ \A c \in HeadsLeft : b <= c
       /\ b..(b+n-1) \subseteq DOMAIN volB
       /\ hashes' = Append(hashes,
                      BaseLine(b * Sectors, [i \in 1..n |-> volB[b+i-1]]))
       /\ cursor' = b + n
       /\ spc' = IF level = 1 THEN "putbase" ELSE "checksum"
  /\ UNCHANGED <<inputVars, blocks, buf, pipeVars>>

ChecksumDone ==
  /\ spc = "checksum"
  /\ ~ChecksumPanics(DOMAIN blocks)
  /\ HeadsLeft = {}
  /\ spc' = "putbase"
  /\ UNCHANGED <<inputVars, blocks, cursor, hashes, buf, pipeVars>>

\* The panic, or a device that cannot be opened or read up to the end of a run.
ChecksumFails ==
  /\ spc = "checksum"
  /\ \/ /\ ChecksumPanics(DOMAIN blocks)
        /\ SenderExit("panicked")
     \/ /\ \/ "io" \in Faults
           \/ /\ ~ChecksumPanics(DOMAIN blocks)
              /\ \E b \in HeadsLeft :
                   /\ \A c \in HeadsLeft : b <= c
                   /\ ~(b..(b+DigestLength(DOMAIN blocks, level, b)-1) \subseteq DOMAIN volB)
        /\ SenderExit("failed")
  /\ UNCHANGED <<inputVars, blocks, cursor, hashes, buf, sent, rd, ropen, cut>>

\* One turn of the loop of putBaseBlocks.
PutBaseLine ==
  /\ spc = "putbase"
  /\ hashes # <<>>
  /\ Write(Head(hashes))
  /\ hashes' = Tail(hashes)
  /\ spc' = IF Len(hashes) = 1 THEN "putend" ELSE "putbase"
  /\ UNCHANGED <<inputVars, blocks, cursor, buf, wopen>>

\* After the loop: an empty line, if there was a line before it.
PutBaseEnd ==
  /\ \/ /\ spc = "putend"
        /\ Write(EmptyLine)
     \/ /\ spc = "putbase"
        /\ hashes = <<>>
        /\ UNCHANGED <<sent, rd, ropen, cut>>
  /\ spc' = "blocks"
  /\ cursor' = 0
  /\ UNCHANGED <<inputVars, blocks, hashes, buf, wopen>>

-----------------------------------------------------------------------------
(* The loop of Run over s.blocks.                                          *)

\* Wrong on purpose: what a plausible bug would make of the next definition.
PendingMutant == {b \in Delta : b > cursor}

Pending == {b \in Delta : b >= cursor}

\* A deleted chunk is sent as zeros, any other is read from A now.
ReadBlock ==
  /\ spc = "blocks"
  /\ \E b \in Pending :
       /\ \A c \in Pending : b <= c
       /\ buf' = [blk |-> b, val |-> IF blocks[b] = DeltaOpDelete
                                     THEN Zero ELSE volA[b]]
  /\ spc' = "put"
  /\ UNCHANGED <<inputVars, blocks, cursor, hashes, pipeVars>>

\* The device of A cannot be opened, or a chunk cannot be read in full.
ReadFails ==
  /\ "io" \in Faults
  /\ spc = "blocks"
  /\ SenderExit("failed")
  /\ UNCHANGED <<inputVars, blocks, cursor, hashes, buf, sent, rd, ropen, cut>>

PutBlock ==
  /\ spc = "put"
  /\ Write(BlockRecord(buf.blk, buf.val))
  /\ cursor' = buf.blk + 1
  /\ spc' = "blocks"
  /\ UNCHANGED <<inputVars, blocks, hashes, buf, wopen>>

SendDone ==
  /\ spc = "blocks"
  /\ Pending = {}
  /\ SenderExit("done")
  /\ UNCHANGED <<inputVars, blocks, cursor, hashes, buf, sent, rd, ropen, cut>>

-----------------------------------------------------------------------------
\* A write to a pipe nobody reads: SIGPIPE ends the process.
BrokenPipe ==
  /\ spc \in {"prepare", "header", "putbase", "putend", "put"}
  /\ spc = "prepare" => "lvm" \in Faults
  /\ spc = "putbase" => hashes # <<>>
  /\ ~ropen
  /\ SenderExit("killed")
  /\ UNCHANGED <<inputVars, blocks, cursor, hashes, buf, sent, rd, ropen, cut>>

SenderKilled ==
  /\ "kill" \in Faults
  /\ spc \notin SenderEnd
  /\ SenderExit("killed")
  /\ UNCHANGED <<inputVars, blocks, cursor, hashes, buf, sent, rd, ropen, cut>>

\* Somebody writes to A (it may be mounted) after the metadata snapshot.
WriteVolume ==
  /\ spc \notin SenderEnd \cup {"prepare"}
  /\ writes < MaxWrites
  /\ \E b \in DOMAIN volA, v \in Value :
       /\ v # volA[b]
       /\ volA' = [volA EXCEPT ![b] = v]
       /\ seen' = [seen EXCEPT ![b] = @ \cup {v}]
  /\ writes' = writes + 1
  /\ UNCHANGED <<volB, level, meta, spc, blocks, cursor, hashes, buf, pipeVars>>

SenderStep ==
  \/ Prepare \/ PrepareFails \/ PutHeader \/ Activate \/ ActivateFails
  \/ HashRun \/ ChecksumDone \/ ChecksumFails \/ PutBaseLine \/ PutBaseEnd
  \/ ReadBlock \/ ReadFails \/ PutBlock \/ SendDone \/ BrokenPipe

SenderNext == SenderStep \/ SenderKilled \/ WriteVolume

=============================================================================
