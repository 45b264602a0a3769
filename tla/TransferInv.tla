---------------------------- MODULE TransferInv ----------------------------
(***************************************************************************)
(* Inductive invariants of Transfer.  TLC checks them on the instances of  *)
(* MCTransfer; TransferProofs, OrderProofs and DigestProofs                *)
(* prove them for every value of the constants and draw the properties of  *)
(* Transfer from them.                                                     *)
(***************************************************************************)
EXTENDS Transfer

Sent == 1..Len(sent)
Is(i, type) == sent[i].type = type

-----------------------------------------------------------------------------
(* Types, and what keeps the applications of functions in their domains.   *)

BlocksFit ==
  \A b \in DOMAIN blocks :
    /\ blocks[b] # DeltaOpDelete => b \in DOMAIN volA
    /\ blocks[b] # DeltaOpCreate => b \in DOMAIN volB

NewExists ==
  rpc \in {"activate", "patch", "misread", "done"}
    => new \in Volume /\ copied \in Volume

TypeInv == TypeOK /\ BlocksFit /\ NewExists

-----------------------------------------------------------------------------
(* Framing: the grammar of a stream, and where in it each program stands.  *)

\* A stream starts with the header, or is one line of text.
HeaderFirst ==
  \A i \in Sent :
    /\ (Is(i, "head") \/ Is(i, "text")) <=> i = 1
    /\ Is(i, "head") => sent[i].level = HeaderLevel /\ sent[i].chunk = Sectors
    /\ Is(i, "text") => Len(sent) = 1 /\ spc \in SenderEnd

\* Digest lines come before chunks, with an empty line between them; without
\* checksums there is neither.
LinesBeforeBlocks ==
  /\ level = 0 => \A i \in Sent : ~Is(i, "D") /\ ~Is(i, "end")
  /\ level # 0 =>
       \A i \in Sent : Is(i, "W") => \E j \in 1..(i-1) : Is(j, "end")
  /\ \A i \in Sent : \A j \in 1..(i-1) : Is(j, "end") => Is(i, "W")

\* What a running lvdiff that can still write has written.
SenderPlace ==
  ropen /\ spc \notin SenderEnd =>
    /\ spc \in {"prepare", "header"} <=> sent = <<>>
    /\ spc \notin {"blocks", "put"} => \A i \in Sent : ~Is(i, "W") /\ ~Is(i, "end")
    /\ spc \in {"blocks", "put"} /\ level # 0 /\ DOMAIN blocks # {}
         => \E i \in Sent : Is(i, "end")

\* Whatever there is to send has a digest before it.
DigestsMade ==
  /\ spc \in {"checksum", "putbase", "putend"} => level # 0
  /\ spc \in {"prepare", "header", "activate"} => cursor = 0
  /\ spc = "checksum" => cursor = 0 \/ hashes # <<>>
  /\ spc = "putbase" /\ hashes = <<>> => DOMAIN blocks = {}
  /\ spc = "put" => DOMAIN blocks # {}

\* The writing end is closed when lvdiff has ended, and not before unless the
\* transport broke; a broken transport stops a running lvdiff.
Ends ==
  /\ spc \in SenderEnd => ~wopen
  /\ spc \notin SenderEnd /\ ropen => wopen
  /\ spc \in {"prepare", "header"} => sent = <<>>

\* What lvpatch has read when, if the header it holds is a real one.
ReceiverPlace ==
  /\ rpc = "header" => hdr = NoHeader /\ ~midline /\ \A i \in 1..rd : Is(i, "text")
  /\ hdr = NoHeader \/ (hdr.level = HeaderLevel /\ hdr.chunk = Sectors)
  /\ rpc \in {"snapshot", "activate", "patch", "misread", "done"} => hdr.chunk = chunk
  /\ midline => LevelRaised
  /\ rpc = "misread" => midline
  /\ hdr # NoHeader =>
       /\ rd >= 1 /\ Is(1, "head")
       /\ rpc = "base" => ~midline /\ \A i \in 2..rd : Is(i, "D")

\* After the digest lines lvpatch stands before a chunk or at the end.
PastLines ==
  hdr # NoHeader /\ LevelsAgree
    /\ rpc \in {"check", "snapshot", "activate", "patch", "done"} =>
      /\ ~midline
      /\ \/ hdr.level = 0
         \/ rd = Len(sent) /\ ~wopen
         \/ \E j \in 1..rd : Is(j, "end")

StreamInv == HeaderFirst /\ LinesBeforeBlocks /\ SenderPlace /\ DigestsMade /\ Ends

FramingInv == StreamInv /\ ReceiverPlace /\ PastLines

-----------------------------------------------------------------------------
(* Data: what the records say and what has become of the new volume.       *)

\* What lvdiff sends for a chunk when nobody writes to A.
Goal(b) == IF blocks[b] = DeltaOpDelete THEN Zero ELSE volA[b]

Prepared == spc \notin {"prepare", "failed", "killed", "panicked"}

\* The promise of thin_delta, as long as nobody writes to A.
DeltaFaithful ==
  Prepared /\ writes = 0 =>
    /\ \A b \in Chunks \ DOMAIN blocks : At(volA, b) = Zero /\ At(volB, b) = Zero
    /\ \A b \in DOMAIN blocks :
         /\ blocks[b] = DeltaOpDelete => At(volA, b) = Zero
         /\ blocks[b] = DeltaOpIgnore => volA[b] = volB[b]

\* Every chunk on its way is one of the delta, with the contents A had.
RecordsFaithful ==
  writes = 0 =>
    /\ \A i \in Sent : Is(i, "W") => \E b \in Delta : sent[i] = BlockRecord(b, Goal(b))
    /\ spc = "put" => buf.blk \in Delta /\ buf.val = Goal(buf.blk)

IsRecordOf(i, b) == Is(i, "W") /\ sent[i].off = b * Sectors

\* No chunk of the delta is skipped.
NoneSkipped ==
  ~cut /\ spc \in {"blocks", "put", "done"} =>
    /\ \A b \in Delta : b < cursor => \E i \in Sent : IsRecordOf(i, b)
    /\ spc = "put" => \A b \in Delta : b < buf.blk => b < cursor
    /\ spc = "done" => \A b \in Delta : b < cursor

\* The new volume is the base as copied but for the chunks read, which are those of A.
Patched ==
  /\ rpc \in {"base", "check", "snapshot"} /\ hdr # NoHeader /\ LevelsAgree
       => \A i \in 1..rd : ~Is(i, "W")
  /\ rpc \in {"activate", "patch", "done"} /\ LevelsAgree /\ writes = 0
       /\ path.new = "own" =>
       /\ DOMAIN new = DOMAIN copied
       /\ \A b \in DOMAIN copied :
            /\ b \notin Delta => new[b] = copied[b]
            /\ \A i \in 1..rd : IsRecordOf(i, b) => new[b] = Goal(b)
  /\ rpc = "done" /\ LevelsAgree => rd = Len(sent) /\ ~wopen

DataInv == DeltaFaithful /\ RecordsFaithful /\ NoneSkipped /\ Patched

-----------------------------------------------------------------------------
(* Order: what makes the new volume a prefix of the delta, and counts it.  *)
(* In contrast to Data nothing is assumed of A or of the pipe, and of the  *)
(* level only that lvpatch does not take chunk data for lines.             *)

\* Who broke the pipe, and that lvdiff writes nothing afterwards.
Broken ==
  /\ cut /\ spc \notin SenderEnd => ~ropen
  /\ ~wopen => cut \/ spc \in SenderEnd
  /\ ~ropen => cut \/ rpc \in ReceiverEnd
  /\ rpc \in ReceiverEnd => ~ropen

\* The history variable seen has what A contains, and the zeros of deleted chunks.
SeenHolds ==
  /\ \A b \in DOMAIN volA : volA[b] \in seen[b]
  /\ \A b \in DOMAIN blocks \cap DOMAIN volA :
       blocks[b] = DeltaOpDelete => Zero \in seen[b]

\* A chunk on its way is one of the delta, with something A contained in it; those
\* before it in the delta are before it in the stream, and it is there once.
RecordsInOrder ==
  \A i \in Sent : Is(i, "W") =>
    \E b \in Delta :
      /\ IsRecordOf(i, b) /\ sent[i].val \in Sendable(b)
      /\ \A c \in Delta : c < b => \E j \in 1..(i-1) : IsRecordOf(j, c)
      /\ \A j \in 1..(i-1) : ~IsRecordOf(j, b)

SenderInOrder ==
  /\ spc \notin {"blocks", "put"} \cup SenderEnd => \A i \in Sent : ~Is(i, "W")
  /\ spc \in {"blocks", "put"} =>
       \A b \in Delta : b >= cursor => \A i \in Sent : ~IsRecordOf(i, b)
  /\ spc = "put" =>
       buf.blk \in Delta /\ buf.blk >= cursor /\ buf.val \in Sendable(buf.blk)

\* "Delta blocks" is the count of the delta, in the stream and as read.
CountSent ==
  /\ \A i \in Sent : Is(i, "head") => sent[i].count = BlockCount
  /\ hdr = NoHeader \/ hdr.count = BlockCount

\* The chunks lvpatch has read, and those of them it wrote into the new volume.
Got == {b \in Delta : \E i \in 1..rd : IsRecordOf(i, b)}

Laid == IF path.new = "own" THEN Got ELSE {}

Overlaid(P) ==
  \A b \in DOMAIN new : IF b \in P THEN new[b] \in Sendable(b) ELSE new[b] = copied[b]

\* A run of lvpatch has counted and written the chunks it read; the snapshot it
\* started from is made after the delta.
GotWritten ==
  /\ rpc \notin {"patch", "misread"} \cup ReceiverEnd => dwWritten = 0
  /\ new # Absent => spc # "prepare"
  /\ ~LevelRaised =>
       /\ rpc \in {"check", "snapshot", "activate"} /\ hdr # NoHeader => Got = {}
       /\ rpc \in {"patch", "done"} => dwWritten = Cardinality(Got)
       /\ rpc \in {"activate", "patch"} => Overlaid(Laid)
       /\ dwWritten <= hdr.count

OrderInv ==
  /\ Broken /\ SeenHolds
  /\ RecordsInOrder /\ SenderInOrder /\ CountSent
  /\ GotWritten /\ PatchedPrefix

-----------------------------------------------------------------------------
(* Digests: what is verified, and what is refused.                         *)

Covers(h) == h..(h + DigestLength(DOMAIN blocks, level, h) - 1)

\* The digest line of a run that starts at h.
Line(h) ==
  BaseLine(h * Sectors,
           [i \in 1..DigestLength(DOMAIN blocks, level, h) |-> volB[h+i-1]])

\* Where the digests of a level start.
Wanted ==
  {h \in RunHeads(DOMAIN blocks) : level # 0 /\ (level = 1 => h = 0)}

IsLine(line) == \E h \in Wanted : line = Line(h) /\ Covers(h) \subseteq DOMAIN volB

\* All digests made, on their way and read are of runs that the level asks for.
LinesTrue ==
  /\ \A k \in 1..Len(hashes) : IsLine(hashes[k])
  /\ \A i \in Sent : Is(i, "D") => IsLine(sent[i])
  /\ \A k \in 1..Len(baseBlocks) : IsLine(baseBlocks[k])

Hashed(h) == \E k \in 1..Len(hashes) : hashes[k] = Line(h)
Posted(h) == \E i \in Sent : sent[i] = Line(h)

\* And none is missing.
LinesComplete ==
  /\ spc = "checksum" =>
       /\ \A h \in Wanted : h < cursor => Hashed(h)
       /\ level = 1 => cursor = 0
  /\ spc \in {"prepare", "header", "activate", "putend", "blocks", "put", "done"}
       => hashes = <<>>
  /\ ~cut /\ spc \in {"putbase", "putend", "blocks", "put", "done"}
       => \A h \in Wanted : Hashed(h) \/ Posted(h)

\* lvpatch has the digest lines it read, and no others.
LinesRead ==
  /\ rpc = "header" => baseBlocks = <<>>
  /\ baseBlocks # <<>> => hdr # NoHeader
  /\ rpc \in {"base", "check"} /\ hdr.level # 0 =>
       \A i \in 1..rd : Is(i, "D") => \E k \in 1..Len(baseBlocks) : baseBlocks[k] = sent[i]

\* What VerifiedBase says of the copy holds of the base when the copy is made.
Verified ==
  rpc = "snapshot" /\ new = Absent
    /\ ~disableCheck /\ HeaderLevel # 0 /\ path.base = "own" =>
      \A b \in Digested \ dirty : b \in DOMAIN base /\ base[b] = volB[b]

\* The empty line stands behind all of them.
EndBehindLines == (\E i \in Sent : Is(i, "end")) => \A h \in Wanted : Posted(h)

\* lvpatch is run again on the saved stream of an lvdiff that has ended; the first run
\* meets no volume of the new name.
RunsApart ==
  /\ runs >= 1
  /\ runs > 1 => spc \in SenderEnd
  /\ runs = 1 /\ rpc \in {"header", "base", "check", "snapshot"} => new = Absent

\* With no failures but its own verdicts the first lvpatch gets a header, and finds
\* room for every chunk the base has.
NothingFails ==
  Faults = {} /\ runs = 1 =>
    /\ ~cut /\ \A i \in Sent : ~Is(i, "text")
    /\ ~ropen => rpc \in ReceiverEnd
    /\ rpc \notin ReceiverEnd /\ spc \in SenderEnd => sent # <<>>
    /\ rpc # "header" => hdr # NoHeader
    /\ rpc \in {"activate", "patch", "misread"} => DOMAIN new = DOMAIN base

DigestInv ==
  /\ LinesTrue /\ LinesComplete /\ LinesRead /\ EndBehindLines
  /\ RunsApart /\ Verified /\ VerifiedBase
  /\ NothingFails /\ RefusesOnlyWrong

=============================================================================
