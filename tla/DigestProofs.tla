---------------------------- MODULE DigestProofs ----------------------------
(***************************************************************************)
(* Proofs about Transfer, for every value of the constants: the digests    *)
(* lvdiff makes are those lvpatch compares, none that was written is lost  *)
(* in the parser, and the verdict of lvpatch on its base is right in both  *)
(* directions.                                                             *)
(***************************************************************************)
EXTENDS OrderProofs

-----------------------------------------------------------------------------
(* Runs of chunks.                                                         *)

\* Heads are numbers, and a digest covers one chunk or two neighbours.
LEMMA HeadFacts ==
  ASSUME SenderTypeOK
  PROVE  /\ Wanted \subseteq Nat /\ RunHeads(DOMAIN blocks) \subseteq Nat
         /\ \A h \in Nat :
              LET n == DigestLength(DOMAIN blocks, level, h)
              IN  /\ n \in {1, 2}
                  /\ n = 2 => h + 1 \in DOMAIN blocks
                  /\ level # 3 => n = 1
<1>1. RunHeads(DOMAIN blocks) \subseteq Nat
  BY BlocksNat DEF RunHeads
<1>2. Wanted \subseteq RunHeads(DOMAIN blocks)
  BY DEF Wanted
<1> QED
  BY <1>1, <1>2 DEF DigestLength

\* Digests end before the next head.
LEMMA HeadsApart ==
  ASSUME SenderTypeOK, NEW g \in Wanted, NEW h \in Wanted, g < h
  PROVE  g + DigestLength(DOMAIN blocks, level, g) <= h
<1>1. g \in Nat /\ h \in Nat /\ g \in DOMAIN blocks /\ h \in RunHeads(DOMAIN blocks)
  BY HeadFacts DEF Wanted, RunHeads
<1> DEFINE n == DigestLength(DOMAIN blocks, level, g)
<1>2. n \in {1, 2} /\ (n = 2 => g + 1 \in DOMAIN blocks)
  BY <1>1, HeadFacts
<1> HIDE DEF n
<1>3. n = 2 => h # g + 1
  BY <1>1 DEF RunHeads
<1> QED
  BY <1>1, <1>2, <1>3 DEF n

\* The chunks a level covers are those of its digests.
LEMMA CheckedChunksCovered ==
  ASSUME SenderTypeOK
  PROVE  \A b : b \in CheckedChunks <=> \E h \in Wanted : b \in Covers(h)
<1>1. CASE level = 0
  BY <1>1 DEF CheckedChunks, Wanted
<1>2. CASE level = 1
  <2>1. CheckedChunks = RunHeads(DOMAIN blocks) \cap {0}
    BY <1>2 DEF CheckedChunks
  <2>2. \A h \in Wanted : h = 0 /\ h \in RunHeads(DOMAIN blocks)
    BY <1>2 DEF Wanted
  <2>3. 0 \in RunHeads(DOMAIN blocks) => 0 \in Wanted
    BY <1>2 DEF Wanted
  <2>4. Covers(0) = {0}
    BY <1>2 DEF Covers, DigestLength
  <2> QED
    BY <2>1, <2>2, <2>3, <2>4
<1>3. CASE level # 0 /\ level # 1
  <2>1. CheckedChunks = UNION {b..(b + DigestLength(DOMAIN blocks, level, b) - 1) :
                                 b \in RunHeads(DOMAIN blocks)}
    BY <1>3 DEF CheckedChunks
  <2>2. Wanted = RunHeads(DOMAIN blocks)
    BY <1>3 DEF Wanted
  <2> QED
    BY <2>1, <2>2 DEF Covers
<1> QED
  BY <1>1, <1>2, <1>3

\* The fields of a digest line.
LEMMA LineFields ==
  ASSUME SenderTypeOK, NEW h \in Nat
  PROVE  LET n == DigestLength(DOMAIN blocks, level, h)
         IN  /\ Line(h).type = "D" /\ Line(h).off = h * Sectors
             /\ Line(h).len = n * Sectors
             /\ Line(h).digest = [i \in 1..n |-> volB[h+i-1]]
<1> DEFINE n == DigestLength(DOMAIN blocks, level, h)
           digest == [i \in 1..n |-> volB[h+i-1]]
<1>1. n \in Nat
  BY HeadFacts
<1> HIDE DEF n
<1>2. Len(digest) = n
  BY <1>1
<1>3. Line(h) = BaseLine(h * Sectors, digest)
  BY DEF Line, n
<1> HIDE DEF digest
<1>4. /\ Line(h).type = "D" /\ Line(h).off = h * Sectors
      /\ Line(h).len = n * Sectors /\ Line(h).digest = digest
  BY <1>2, <1>3 DEF BaseLine
<1> QED
  BY <1>4 DEF n, digest

\* The chunks a digest line is about.
LEMMA LineChunks ==
  ASSUME SenderTypeOK, NEW h \in Nat
  PROVE  LET first == Line(h).off \div Sectors
         IN  first..(first + Len(Line(h).digest) - 1) = Covers(h)
<1> DEFINE n == DigestLength(DOMAIN blocks, level, h)
           digest == [i \in 1..n |-> volB[h+i-1]]
<1>1. n \in Nat
  BY HeadFacts
<1>2. Line(h).off = h * Sectors /\ Line(h).digest = digest
  BY LineFields
<1>3. Covers(h) = h..(h+n-1)
  BY DEF Covers
<1> HIDE DEF n
<1>4. Len(digest) = n
  BY <1>1
<1> HIDE DEF digest
<1>5. Line(h).off \div Sectors = h
  BY <1>2, OffsetOfChunk, SectorsAssumption
<1> QED
  BY <1>2, <1>3, <1>4, <1>5

\* A chunk the digest lines of the stream are about is covered by one of them.
LEMMA DigestedMeans ==
  ASSUME SenderTypeOK, LinesTrue, NEW b \in Digested
  PROVE  \E i \in Sent, h \in Wanted : Is(i, "D") /\ sent[i] = Line(h) /\ b \in Covers(h)
<1>1. PICK i \in Sent :
        /\ Is(i, "D")
        /\ b \in LET first == sent[i].off \div Sectors
                 IN  first..(first + Len(sent[i].digest) - 1)
  BY DEF Digested, Sent, Is
<1>2. PICK h \in Wanted : sent[i] = Line(h)
  BY <1>1 DEF LinesTrue, IsLine
<1>3. b \in Covers(h)
  BY <1>1, <1>2, LineChunks, HeadFacts
<1> QED
  BY <1>1, <1>2, <1>3

\* Behind the empty line stands nothing the level asks for.
LEMMA EndCovers ==
  SenderTypeOK /\ EndBehindLines
    => ((\E i \in Sent : Is(i, "end")) => CheckedChunks \subseteq Digested)
<1> SUFFICES ASSUME SenderTypeOK, EndBehindLines, \E i \in Sent : Is(i, "end"),
                    NEW b \in CheckedChunks
             PROVE  b \in Digested
  OBVIOUS
<1>1. PICK h \in Wanted : b \in Covers(h)
  BY CheckedChunksCovered
<1>2. PICK i \in Sent : sent[i] = Line(h)
  BY <1>1 DEF EndBehindLines, Posted
<1>3. sent[i].type = "D"
  BY <1>2, LineFields, HeadFacts
<1>4. b \in LET first == sent[i].off \div Sectors
           IN  first..(first + Len(sent[i].digest) - 1)
  BY <1>1, <1>2, LineChunks, HeadFacts
<1> QED
  BY <1>3, <1>4 DEF Digested, Sent

\* Digest lines that go make fewer chunks.
LEMMA DigestedLess ==
  ASSUME \A i \in Sent' : Is(i, "D")' => i \in Sent /\ sent'[i] = sent[i]
  PROVE  Digested' \subseteq Digested
BY DEF Digested, Sent, Is

\* A digest matches exactly if the base has the chunks of B there.
LEMMA MatchesMeans ==
  ASSUME SenderTypeOK, chunk = Sectors, NEW h \in Nat
  PROVE  Matches(Line(h)) <=> \A b \in Covers(h) : b \in DOMAIN base /\ base[b] = volB[b]
<1> DEFINE n == DigestLength(DOMAIN blocks, level, h)
<1>1. n \in Nat
  BY HeadFacts
<1>2. /\ Line(h).off = h * Sectors /\ Line(h).len = n * Sectors
      /\ Line(h).digest = [i \in 1..n |-> volB[h+i-1]]
  BY LineFields
<1>3. Covers(h) = h..(h+n-1)
  BY DEF Covers
<1> HIDE DEF n
<1>4. Line(h).off \div chunk = h /\ Line(h).len \div chunk = n
  BY <1>1, <1>2, OffsetOfChunk, SectorsAssumption
<1>5. Matches(Line(h)) <=>
        /\ h..(h+n-1) \subseteq DOMAIN base
        /\ [i \in 1..n |-> volB[h+i-1]] = [i \in 1..n |-> base[h+i-1]]
  BY <1>2, <1>4 DEF Matches
<1>6. [i \in 1..n |-> volB[h+i-1]] = [i \in 1..n |-> base[h+i-1]]
        <=> \A i \in 1..n : volB[h+i-1] = base[h+i-1]
  <2> DEFINE f == [i \in 1..n |-> volB[h+i-1]]
             g == [i \in 1..n |-> base[h+i-1]]
  <2>1. ASSUME f = g, NEW i \in 1..n PROVE volB[h+i-1] = base[h+i-1]
    <3>1. f[i] = g[i]
      BY <2>1
    <3> QED
      BY <3>1
  <2> QED
    BY <2>1
<1>7. (\A i \in 1..n : volB[h+i-1] = base[h+i-1])
        <=> \A b \in h..(h+n-1) : base[b] = volB[b]
  <2>1. \A b \in h..(h+n-1) : b - h + 1 \in 1..n /\ h + (b - h + 1) - 1 = b
    BY <1>1
  <2>2. \A i \in 1..n : h+i-1 \in h..(h+n-1)
    BY <1>1
  <2> QED
    BY <2>1, <2>2
<1> QED
  BY <1>3, <1>5, <1>6, <1>7

\* Nothing of this changes once the delta is taken.
LEMMA LinesSame ==
  ASSUME UNCHANGED <<volB, blocks, level>>
  PROVE  /\ Wanted' = Wanted /\ CheckedChunks' = CheckedChunks
         /\ \A h : Line(h)' = Line(h)
         /\ \A line : IsLine(line)' <=> IsLine(line)
<1>1. Wanted' = Wanted /\ CheckedChunks' = CheckedChunks
  BY DEF Wanted, CheckedChunks
<1>2. \A h : Line(h)' = Line(h) /\ Covers(h)' = Covers(h)
  BY DEF Line, Covers
<1> QED
  BY <1>1, <1>2 DEF IsLine

-----------------------------------------------------------------------------
(* lvdiff makes the digests and writes them.                               *)

\* A turn of the loop of GenChecksum digests the next run the level asks for.
LEMMA HashRunAdds ==
  ASSUME SenderTypeOK, DigestsMade, LinesComplete, HashRun
  PROVE  \E b \in Wanted :
           /\ hashes' = Append(hashes, Line(b)) /\ Covers(b) \subseteq DOMAIN volB
           /\ cursor' = b + DigestLength(DOMAIN blocks, level, b)
           /\ \A h \in Wanted : h >= cursor => b <= h
           /\ spc' = IF level = 1 THEN "putbase" ELSE "checksum"
<1>1. PICK b \in HeadsLeft :
        LET n == DigestLength(DOMAIN blocks, level, b)
        IN  /\ \A c \in HeadsLeft : b <= c
            /\ b..(b+n-1) \subseteq DOMAIN volB
            /\ hashes' = Append(hashes,
                           BaseLine(b * Sectors, [i \in 1..n |-> volB[b+i-1]]))
            /\ cursor' = b + n
            /\ spc' = IF level = 1 THEN "putbase" ELSE "checksum"
  BY DEF HashRun
<1>2. b \in RunHeads(DOMAIN blocks) /\ level # 0
  BY DEF HeadsLeft, HashRun, DigestsMade
<1>3. level = 1 => b = 0
  <2> SUFFICES ASSUME level = 1 PROVE b = 0
    OBVIOUS
  <2>1. cursor = 0 /\ 0 \in DOMAIN blocks
    BY <1>2 DEF HashRun, LinesComplete, ChecksumPanics, RunHeads
  <2>2. 0 \in HeadsLeft
    BY <2>1 DEF HeadsLeft, RunHeads
  <2>3. b \in Nat /\ b <= 0
    BY <1>1, <1>2, <2>2, HeadFacts
  <2> QED
    BY <2>3
<1>4. b \in Wanted
  BY <1>2, <1>3 DEF Wanted
<1>5. \A h \in Wanted : h >= cursor => b <= h
  BY <1>1 DEF Wanted, HeadsLeft
<1> QED
  BY <1>1, <1>4, <1>5 DEF Line, Covers

\* Before the delta is taken there is nothing.
LEMMA PrepareFirst ==
  ASSUME PipeTypeOK, StreamInv, ReceiverPlace, LinesComplete, LinesRead, Prepare
  PROVE  /\ sent = <<>> /\ sent' = <<>> /\ Sent' = {} /\ hdr = NoHeader
         /\ hashes = <<>> /\ hashes' = <<>> /\ baseBlocks = <<>>
<1>1. sent = <<>> /\ sent' = <<>> /\ hashes = <<>> /\ hashes' = <<>>
  BY DEF Prepare, pipeVars, StreamInv, Ends, LinesComplete
<1>2. ~(rd >= 1)
  BY <1>1 DEF PipeTypeOK
<1> QED
  BY <1>1, <1>2 DEF ReceiverPlace, LinesRead, Sent

\* What lvdiff writes but the digests.
LEMMA OtherLines ==
  ASSUME PipeTypeOK, SenderTypeOK, SenderNext, ~PutBaseLine
  PROVE  /\ \A i \in Sent' : Is(i, "D")' => i \in Sent /\ sent'[i] = sent[i]
         /\ \A i \in Sent : i \in Sent' /\ sent'[i] = sent[i]
<1>1. CASE \E rec : Write(rec) /\ rec.type # "D"
  <2>1. PICK rec : Write(rec) /\ rec.type # "D"
    BY <1>1
  <2> QED
    BY <2>1, WriteAppends DEF Sent, Is
<1>2. CASE sent' = sent
  BY <1>2 DEF Sent, Is
<1>3. CASE PrepareFails \/ PutHeader \/ (PutBaseEnd /\ spc = "putend") \/ PutBlock
  BY <1>1, <1>3 DEF PrepareFails, PutHeader, PutBaseEnd, PutBlock, ErrorText, Header,
                    EmptyLine, BlockRecord
<1>4. CASE ~(PrepareFails \/ PutHeader \/ (PutBaseEnd /\ spc = "putend") \/ PutBlock)
  BY <1>2, <1>4 DEF SenderNext, SenderStep, Prepare, Activate, ActivateFails, HashRun,
     ChecksumDone, ChecksumFails, PutBaseEnd, ReadBlock, ReadFails, SendDone,
     BrokenPipe, SenderKilled, WriteVolume, pipeVars
<1> QED
  BY <1>3, <1>4

\* Only two actions change the digests lvdiff holds.
LEMMA OtherHashes ==
  ASSUME SenderNext, ~HashRun, ~PutBaseLine
  PROVE  UNCHANGED hashes
BY DEF SenderNext, SenderStep, Prepare, PrepareFails, PutHeader, Activate, ActivateFails,
   ChecksumDone, ChecksumFails, PutBaseEnd, ReadBlock, ReadFails, PutBlock, SendDone,
   BrokenPipe, SenderKilled, WriteVolume

LEMMA PutBaseLineMoves ==
  ASSUME PipeTypeOK, SenderTypeOK, PutBaseLine
  PROVE  /\ hashes # <<>> /\ Len(hashes) \in Nat /\ Len(hashes') = Len(hashes) - 1
         /\ \A k \in 1..Len(hashes') : hashes'[k] = hashes[k+1] /\ k + 1 \in 1..Len(hashes)
         /\ 1 \in 1..Len(hashes)
         /\ Len(sent) + 1 \in Sent' /\ sent'[Len(sent) + 1] = hashes[1]
         /\ \A i \in Sent : i \in Sent' /\ sent'[i] = sent[i]
         /\ \A i \in Sent' : i \in Sent \/ i = Len(sent) + 1
<1>1. hashes \in Seq(DigestLine) /\ hashes # <<>> /\ hashes' = Tail(hashes)
      /\ Write(Head(hashes))
  BY DEF PutBaseLine, SenderTypeOK
<1>2. /\ Len(hashes) \in Nat /\ Len(hashes') = Len(hashes) - 1
      /\ \A k \in 1..Len(hashes') : hashes'[k] = hashes[k+1]
      /\ Head(hashes) = hashes[1] /\ Len(hashes) >= 1
  BY <1>1
<1>3. /\ Len(sent) \in Nat /\ Len(sent') = Len(sent) + 1
      /\ \A i \in 1..Len(sent) : sent'[i] = sent[i]
      /\ sent'[Len(sent) + 1] = Head(hashes)
  BY <1>1, WriteAppends
<1> QED
  BY <1>1, <1>2, <1>3 DEF Sent

LEMMA LinesTrueSender ==
  ASSUME TypeInv, StreamInv, ReceiverPlace, LinesTrue, LinesComplete, LinesRead,
         SenderNext, UNCHANGED baseBlocks
  PROVE  LinesTrue'
<1> USE DEF TypeInv, TypeOK
<1>1. CASE Prepare
  <2>1. Sent' = {} /\ Len(hashes') = 0 /\ Len(baseBlocks') = 0
    BY <1>1, PrepareFirst
  <2> QED
    BY <2>1 DEF LinesTrue
<1>2. CASE ~Prepare
  <2>0. /\ UNCHANGED <<volB, blocks, level>>
        /\ \A line : IsLine(line)' <=> IsLine(line)
    BY <1>2, SenderInputs, SenderEffect, LinesSame
  <2>1. \A k \in 1..Len(baseBlocks') : IsLine(baseBlocks'[k])
    BY DEF LinesTrue
  <2>2. CASE PutBaseLine
    <3>1. \A k \in 1..Len(hashes') : IsLine(hashes'[k])
      BY <2>2, PutBaseLineMoves DEF LinesTrue
    <3>2. \A i \in Sent' : Is(i, "D")' => IsLine(sent'[i])
      BY <2>2, PutBaseLineMoves DEF LinesTrue, Is
    <3> QED
      BY <2>0, <2>1, <3>1, <3>2 DEF LinesTrue
  <2>3. CASE ~PutBaseLine
    <3>1. \A i \in Sent' : Is(i, "D")' => IsLine(sent'[i])
      BY <2>3, OtherLines DEF LinesTrue, Is
    <3>2. \A k \in 1..Len(hashes') : IsLine(hashes'[k])
      <4>1. CASE HashRun
        <5>1. PICK b \in Wanted :
                hashes' = Append(hashes, Line(b)) /\ Covers(b) \subseteq DOMAIN volB
          BY <4>1, HashRunAdds DEF StreamInv
        <5>2. IsLine(Line(b))
          BY <5>1 DEF IsLine
        <5>3. /\ Len(hashes) \in Nat /\ Len(hashes') = Len(hashes) + 1
              /\ \A k \in 1..Len(hashes) : hashes'[k] = hashes[k]
              /\ hashes'[Len(hashes) + 1] = Line(b)
          BY <5>1 DEF SenderTypeOK
        <5>4. \A k \in 1..Len(hashes') : k \in 1..Len(hashes) \/ k = Len(hashes) + 1
          BY <5>3
        <5> QED
          BY <5>2, <5>3, <5>4 DEF LinesTrue
      <4>2. CASE ~HashRun
        BY <2>3, <4>2, OtherHashes DEF LinesTrue
      <4> QED
        BY <4>1, <4>2
    <3> QED
      BY <2>0, <2>1, <3>1, <3>2 DEF LinesTrue
  <2> QED
    BY <2>2, <2>3
<1> QED
  BY <1>1, <1>2

\* A step that leaves the digests and what was written of them alone.
LEMMA LinesKept ==
  ASSUME UNCHANGED <<volB, blocks, level, hashes>>,
         \A i \in Sent : i \in Sent' /\ sent'[i] = sent[i],
         NEW h
  PROVE  Hashed(h) \/ Posted(h) => (Hashed(h) \/ Posted(h))'
<1>1. Line(h)' = Line(h)
  BY LinesSame
<1> QED
  BY <1>1 DEF Hashed, Posted

LEMMA LinesCompleteSender ==
  ASSUME TypeInv, StreamInv, ReceiverPlace, LinesComplete, LinesRead, SenderNext
  PROVE  LinesComplete'
<1> USE DEF TypeInv, TypeOK
<1>0. cut' = cut
  BY SenderEffect
<1>1. CASE Prepare
  <2>1. spc' = "header" /\ hashes' = <<>>
    BY <1>1, PrepareFirst DEF Prepare
  <2> QED
    BY <2>1 DEF LinesComplete
<1>2. CASE ~Prepare
  <2>0. /\ UNCHANGED <<volB, blocks, level>>
        /\ Wanted' = Wanted /\ \A h : Line(h)' = Line(h)
        /\ Wanted \subseteq Nat
    BY <1>2, SenderInputs, SenderEffect, LinesSame, HeadFacts
  <2>1. CASE HashRun
    <3>1. PICK b \in Wanted :
            /\ hashes' = Append(hashes, Line(b))
            /\ cursor' = b + DigestLength(DOMAIN blocks, level, b)
            /\ \A h \in Wanted : h >= cursor => b <= h
            /\ spc' = IF level = 1 THEN "putbase" ELSE "checksum"
      BY <2>1, HashRunAdds DEF StreamInv
    <3>2. spc = "checksum"
      BY <2>1 DEF HashRun
    <3>3. /\ Len(hashes) \in Nat /\ Len(hashes') = Len(hashes) + 1
          /\ \A k \in 1..Len(hashes) : hashes'[k] = hashes[k]
          /\ hashes'[Len(hashes) + 1] = Line(b)
      BY <3>1 DEF SenderTypeOK
    <3>4. \A h \in Wanted : Hashed(h) \/ h = b => Hashed(h)'
      <4> SUFFICES ASSUME NEW h \in Wanted, Hashed(h) \/ h = b PROVE Hashed(h)'
        OBVIOUS
      <4>1. CASE Hashed(h)
        <5>1. PICK k \in 1..Len(hashes) : hashes[k] = Line(h)
          BY <4>1 DEF Hashed
        <5>2. k \in 1..Len(hashes') /\ hashes'[k] = Line(h)
          BY <3>3, <5>1
        <5> QED
          BY <2>0, <5>2 DEF Hashed
      <4>2. CASE h = b
        <5>1. Len(hashes) + 1 \in 1..Len(hashes')
          BY <3>3
        <5> QED
          BY <2>0, <3>3, <4>2, <5>1 DEF Hashed
      <4> QED
        BY <4>1, <4>2
    <3>5. \A h \in Wanted : h < cursor' => Hashed(h) \/ h = b
      <4> SUFFICES ASSUME NEW h \in Wanted, h < cursor', h # b, ~(h < cursor)
                   PROVE  FALSE
        BY <3>2 DEF LinesComplete
      <4>1. b < h
        BY <2>0, <3>1 DEF SenderTypeOK
      <4>2. b + DigestLength(DOMAIN blocks, level, b) <= h
        BY <4>1, HeadsApart
      <4>3. cursor' \in Nat
        BY <2>0, <3>1, HeadFacts
      <4> QED
        BY <2>0, <3>1, <4>2, <4>3
    <3>6. level = 1 => \A h \in Wanted : h = b
      BY DEF Wanted
    <3> QED
      BY <1>0, <2>0, <3>1, <3>4, <3>5, <3>6 DEF LinesComplete
  <2>2. CASE ChecksumDone
    <3>1. /\ spc = "checksum" /\ spc' = "putbase" /\ HeadsLeft = {}
          /\ UNCHANGED <<hashes, sent>>
      BY <2>2 DEF ChecksumDone, pipeVars
    <3>2. \A h \in Wanted : h < cursor
      BY <2>0, <3>1 DEF HeadsLeft, Wanted, SenderTypeOK
    <3>3. \A h \in Wanted : Hashed(h)'
      BY <2>0, <3>1, <3>2 DEF LinesComplete, Hashed
    <3> QED
      BY <2>0, <3>1, <3>3 DEF LinesComplete
  <2>3. CASE PutBaseLine
    <3>1. spc = "putbase" /\ spc' = (IF Len(hashes) = 1 THEN "putend" ELSE "putbase")
      BY <2>3 DEF PutBaseLine
    <3>2. spc' = "putend" => hashes' = <<>>
      <4>1. Tail(hashes) \in Seq(DigestLine) /\ hashes' = Tail(hashes)
        BY <2>3 DEF PutBaseLine, SenderTypeOK
      <4>2. spc' = "putend" => Len(hashes') = 0
        BY <2>3, <3>1, PutBaseLineMoves
      <4> QED
        BY <4>1, <4>2
    <3>3. ASSUME NEW h \in Wanted, Hashed(h) \/ Posted(h)
          PROVE  (Hashed(h) \/ Posted(h))'
      <4>1. CASE Posted(h)
        BY <2>0, <2>3, <4>1, PutBaseLineMoves DEF Posted
      <4>2. CASE Hashed(h)
        <5>1. PICK k \in 1..Len(hashes) : hashes[k] = Line(h)
          BY <4>2 DEF Hashed
        <5>2. CASE k = 1
          <6>1. Posted(h)'
            BY <2>0, <2>3, <5>1, <5>2, PutBaseLineMoves DEF Posted
          <6> QED
            BY <6>1
        <5>3. CASE k # 1
          <6>1. PICK j \in 1..Len(hashes') : j + 1 = k
            <7>1. k - 1 \in 1..Len(hashes') /\ k - 1 + 1 = k
              BY <2>3, <5>1, <5>3, PutBaseLineMoves
            <7> QED
              BY <7>1
          <6>2. hashes'[j] = Line(h)
            BY <2>3, <5>1, <6>1, PutBaseLineMoves
          <6> QED
            BY <2>0, <6>1, <6>2 DEF Hashed
        <5> QED
          BY <5>2, <5>3
      <4> QED
        BY <3>3, <4>1, <4>2
    <3> QED
      BY <1>0, <2>0, <3>1, <3>2, <3>3 DEF LinesComplete
  <2>4. CASE ~HashRun /\ ~ChecksumDone /\ ~PutBaseLine
    <3>1. \A h : Hashed(h) \/ Posted(h) => (Hashed(h) \/ Posted(h))'
      BY <2>0, <2>4, OtherHashes, OtherLines, LinesKept
    <3>2. UNCHANGED hashes
      BY <2>4, OtherHashes
    <3>3. \/ spc' \in SenderEnd \ {"done"}
          \/ spc' \in {"blocks", "put", "done"} /\ spc \in {"putend", "blocks", "put"}
          \/ spc' = "blocks" /\ spc = "putbase" /\ hashes = <<>>
          \/ spc' = "blocks" /\ spc = "activate" /\ level = 0
          \/ spc' = "checksum" /\ spc = "activate" /\ cursor' = 0
          \/ spc' = "activate" /\ spc = "header"
          \/ spc' = spc /\ cursor' = cursor
      <4>1. CASE Activate
        BY <4>1 DEF Activate, StreamInv, DigestsMade
      <4>2. CASE ~Activate
        BY <1>2, <2>4, <4>2 DEF SenderNext, SenderStep, PrepareFails, PutHeader,
           ActivateFails, ChecksumFails, PutBaseEnd, ReadBlock, ReadFails,
           PutBlock, SendDone, BrokenPipe, SenderKilled, WriteVolume, SenderExit,
           SenderEnd
      <4> QED
        BY <4>1, <4>2
    <3>4. CASE spc' \in SenderEnd \ {"done"}
      BY <3>4 DEF LinesComplete, SenderEnd
    <3>5. CASE \/ spc' \in {"blocks", "put", "done"} /\ spc \in {"putend", "blocks", "put"}
               \/ spc' = "blocks" /\ spc = "putbase" /\ hashes = <<>>
      BY <1>0, <2>0, <3>1, <3>2, <3>5 DEF LinesComplete
    <3>6. CASE spc' = "blocks" /\ spc = "activate" /\ level = 0
      BY <2>0, <3>2, <3>6 DEF LinesComplete, Wanted
    <3>7. CASE spc' = "checksum" /\ spc = "activate" /\ cursor' = 0
      BY <2>0, <3>7 DEF LinesComplete
    <3>8. CASE spc' = "activate" /\ spc = "header"
      BY <3>2, <3>8 DEF LinesComplete
    <3>9. CASE spc' = spc /\ cursor' = cursor
      <4>1. \A h : Hashed(h) => Hashed(h)'
        BY <2>0, <3>2 DEF Hashed
      <4> QED
        BY <1>0, <2>0, <3>1, <3>2, <3>9, <4>1 DEF LinesComplete
    <3> QED
      BY <3>3, <3>4, <3>5, <3>6, <3>7, <3>8, <3>9
  <2> QED
    BY <2>1, <2>2, <2>3, <2>4
<1> QED
  BY <1>1, <1>2

-----------------------------------------------------------------------------
(* lvpatch reads the digests.                                              *)

LEMMA LinesReadQuiet ==
  ASSUME PipeTypeOK, LinesRead, UNCHANGED <<rpc, hdr, rd, baseBlocks>>,
         \A i \in 1..rd : sent'[i] = sent[i]
  PROVE  LinesRead'
BY DEF LinesRead, Is, PipeTypeOK

LEMMA LinesReceiver ==
  ASSUME TypeInv, FramingInv, LinesTrue, LinesComplete, LinesRead,
         ReceiverNext, UNCHANGED senderVars
  PROVE  LinesTrue' /\ LinesComplete' /\ LinesRead'
<1> USE DEF TypeInv, TypeOK, FramingInv
<1>0. /\ rd \in Nat /\ Len(sent) \in Nat /\ rd <= Len(sent)
      /\ UNCHANGED <<sent, cut, spc, cursor, hashes, volB, blocks, level>>
      /\ Wanted' = Wanted /\ \A h : Line(h)' = Line(h)
      /\ \A line : IsLine(line)' <=> IsLine(line)
  BY ReceiverEffect, LinesSame DEF PipeTypeOK, senderVars
<1>1. LinesComplete'
  BY <1>0 DEF LinesComplete, Hashed, Posted, Sent
<1>2. /\ \A k \in 1..Len(hashes') : IsLine(hashes'[k])
      /\ \A i \in Sent' : Is(i, "D")' => IsLine(sent'[i])
  BY <1>0 DEF LinesTrue, Sent, Is
<1>3. UNCHANGED baseBlocks => LinesTrue'
  BY <1>0, <1>2 DEF LinesTrue
<1>4. CASE ReadHeader
  <2>1. /\ UNCHANGED baseBlocks /\ rpc = "header" /\ baseBlocks = <<>>
        /\ rpc' \in {"header", "base"}
    BY <1>4 DEF ReadHeader, LinesRead
  <2>2. rpc' = "base" /\ hdr'.level # 0 => rd' = 1 /\ sent[1].type = "head"
    <3>1. CASE Available /\ Consume /\ NextRecord.type = "head"
      <4>1. PICK n \in Sent : n = rd + 1
        BY <1>0, <3>1 DEF Available, Sent
      <4>2. Is(n, "head") /\ rd' = n
        BY <3>1, <4>1 DEF NextRecord, Is, Consume
      <4> QED
        BY <4>2 DEF StreamInv, HeaderFirst, Is
    <3>2. CASE ~(Available /\ Consume /\ NextRecord.type = "head")
      <4>1. hdr' = hdr /\ hdr = NoHeader
        BY <1>4, <3>2 DEF ReadHeader, ReceiverPlace
      <4> QED
        BY <4>1 DEF NoHeader, Header
    <3> QED
      BY <3>1, <3>2
  <2> QED
    BY <1>0, <1>1, <1>3, <2>1, <2>2 DEF LinesRead, Is
<1>5. CASE ReadBaseBlocks
  <2>1. rpc = "base" /\ rpc' \in {"base", "check"} /\ UNCHANGED hdr
    BY <1>5 DEF ReadBaseBlocks
  <2>2. CASE UNCHANGED <<baseBlocks, rd>>
    <3>1. LinesRead'
      BY <1>0, <2>1, <2>2 DEF LinesRead, Is
    <3> QED
      BY <1>1, <1>3, <2>2, <3>1
  <2>3. CASE Available /\ hdr.level # 0 /\ rd' = rd + 1
    <3>1. PICK n \in Sent : n = rd + 1
      BY <1>0, <2>3 DEF Available, Sent
    <3>2. /\ NextRecord = sent[n]
          /\ baseBlocks' = IF Is(n, "D") THEN Append(baseBlocks, sent[n]) ELSE baseBlocks
      BY <1>0, <1>5, <2>3, <3>1 DEF ReadBaseBlocks, NextRecord, Is, NoBaseBlocks, AtEOF,
                                    Available
    <3>3. \A i \in 1..rd' : i \in 1..rd \/ i = n
      BY <1>0, <2>3, <3>1
    <3>4. hdr # NoHeader
      BY <2>3 DEF NoHeader, Header
    <3>5. CASE Is(n, "D")
      <4>1. /\ Len(baseBlocks) \in Nat /\ Len(baseBlocks') = Len(baseBlocks) + 1
            /\ \A k \in 1..Len(baseBlocks) : baseBlocks'[k] = baseBlocks[k]
            /\ baseBlocks'[Len(baseBlocks) + 1] = sent[n]
        BY <3>2, <3>5 DEF ReceiverTypeOK
      <4>2. \A k \in 1..Len(baseBlocks') :
              k \in 1..Len(baseBlocks) \/ k = Len(baseBlocks) + 1
        BY <4>1
      <4>3. \A k \in 1..Len(baseBlocks) : k \in 1..Len(baseBlocks')
        BY <4>1
      <4>4. Len(baseBlocks) + 1 \in 1..Len(baseBlocks')
        BY <4>1
      <4>5. LinesTrue'
        BY <1>0, <1>2, <3>5, <4>1, <4>2 DEF LinesTrue
      <4>6. \A i \in 1..rd' : Is(i, "D") =>
              \E k \in 1..Len(baseBlocks') : baseBlocks'[k] = sent[i]
        BY <2>1, <2>3, <3>3, <4>1, <4>3, <4>4 DEF LinesRead
      <4>7. LinesRead'
        BY <1>0, <2>1, <3>4, <4>6 DEF LinesRead, Is
      <4> QED
        BY <1>1, <4>5, <4>7
    <3>6. CASE ~Is(n, "D")
      <4>1. LinesRead'
        BY <1>0, <2>1, <2>3, <3>2, <3>3, <3>6 DEF LinesRead, Is
      <4> QED
        BY <1>1, <1>3, <3>2, <3>6, <4>1
    <3> QED
      BY <3>5, <3>6
  <2> QED
    BY <1>5, <2>2, <2>3 DEF ReadBaseBlocks, NoBaseBlocks, Consume
<1>6. CASE ~ReadHeader /\ ~ReadBaseBlocks
  <2>1. /\ UNCHANGED <<hdr, baseBlocks>>
        /\ rpc' \notin {"header", "base", "check"} \/ UNCHANGED <<rpc, rd>>
    BY <1>6 DEF ReceiverNext, ReceiverStep, Verify, VerifyFails, CreateSnapshot,
       CreateSnapshotFails, OpenNew, OpenNewFails, PatchBlock, PatchFails, PatchDone,
       MisreadLine, MisreadData, MisreadWrite, MisreadFails, ReceiverKilled, WriteBase,
       ReceiverExit, ReceiverEnd, pipeVars, targetVars
  <2>2. LinesRead'
    BY <1>0, <2>1 DEF LinesRead, Is
  <2> QED
    BY <1>1, <1>3, <2>1, <2>2
<1> QED
  BY <1>4, <1>5, <1>6

\* When lvpatch turns to its base it has every digest that was written.
LEMMA AllRead ==
  ASSUME TypeInv, FramingInv, LinesRead,
         rpc = "check", hdr # NoHeader, HeaderLevel # 0, NEW i \in Sent, Is(i, "D")
  PROVE  \E k \in 1..Len(baseBlocks) : baseBlocks[k] = sent[i]
<1> USE DEF TypeInv, TypeOK, FramingInv
<1>0. rd \in Nat /\ Len(sent) \in Nat /\ rd <= Len(sent)
  BY DEF PipeTypeOK
<1>1. level # 0 /\ hdr.level # 0
  BY DEF StreamInv, LinesBeforeBlocks, ReceiverPlace
<1>2. LevelsAgree
  BY <1>1 DEF LevelsAgree
<1>3. i \in 1..rd
  <2>1. CASE rd = Len(sent)
    BY <2>1 DEF Sent
  <2>2. CASE \E j \in 1..rd : Is(j, "end")
    <3>1. PICK j \in 1..rd : Is(j, "end")
      BY <2>2
    <3>2. ~(j \in 1..(i-1))
      BY <3>1 DEF StreamInv, LinesBeforeBlocks, Is
    <3> QED
      BY <1>0, <3>2 DEF Sent
  <2> QED
    BY <1>1, <1>2, <2>1, <2>2 DEF PastLines
<1> QED
  BY <1>1, <1>3 DEF LinesRead

-----------------------------------------------------------------------------
(* The empty line stands behind all digest lines.                          *)

\* A step that writes no empty line and leaves the digest lines alone.
LEMMA EndQuiet ==
  ASSUME EndBehindLines, UNCHANGED <<volB, blocks, level>>,
         \A i \in Sent' : Is(i, "end")' => i \in Sent /\ sent'[i] = sent[i],
         \A i \in Sent : i \in Sent' /\ sent'[i] = sent[i]
  PROVE  EndBehindLines'
<1>1. Wanted' = Wanted /\ \A h : Line(h)' = Line(h)
  BY LinesSame
<1>2. (\E i \in Sent' : Is(i, "end")') => \E i \in Sent : Is(i, "end")
  BY DEF Is
<1>3. \A h : Posted(h) => Posted(h)'
  BY <1>1 DEF Posted
<1> QED
  BY <1>1, <1>2, <1>3 DEF EndBehindLines

LEMMA EndSender ==
  ASSUME TypeInv, FramingInv, Broken, LinesComplete, LinesRead, EndBehindLines, SenderNext
  PROVE  EndBehindLines'
<1> USE DEF TypeInv, TypeOK, FramingInv
<1>1. CASE Prepare
  <2>1. Sent' = {}
    BY <1>1, PrepareFirst
  <2> QED
    BY <2>1 DEF EndBehindLines
<1>2. CASE ~Prepare
  <2>1. UNCHANGED <<volB, blocks, level>>
    BY <1>2, SenderInputs, SenderEffect
  <2>2. CASE PutBaseEnd /\ spc = "putend"
    <3>1. ropen /\ sent' = Append(sent, EmptyLine)
      BY <2>2 DEF PutBaseEnd, Write
    <3>2. ~cut /\ hashes = <<>>
      BY <2>2, <3>1 DEF Broken, SenderEnd, LinesComplete
    <3>3. \A h \in Wanted : Posted(h)
      BY <2>2, <3>2 DEF LinesComplete, Hashed
    <3>4. Wanted' = Wanted /\ \A h : Line(h)' = Line(h)
      BY <2>1, LinesSame
    <3>5. \A i \in Sent : i \in Sent' /\ sent'[i] = sent[i]
      BY <3>1 DEF Sent, PipeTypeOK
    <3>6. \A h : Posted(h) => Posted(h)'
      BY <3>4, <3>5 DEF Posted
    <3> QED
      BY <3>3, <3>4, <3>6 DEF EndBehindLines
  <2>3. CASE \E rec : Write(rec) /\ rec.type # "end"
    <3>1. PICK rec : Write(rec) /\ rec.type # "end"
      BY <2>3
    <3>2. /\ \A i \in Sent' : Is(i, "end")' => i \in Sent /\ sent'[i] = sent[i]
          /\ \A i \in Sent : i \in Sent' /\ sent'[i] = sent[i]
      BY <3>1, WriteAppends DEF Sent, Is
    <3> QED
      BY <2>1, <3>2, EndQuiet
  <2>4. CASE sent' = sent
    <3>1. Sent' = Sent
      BY <2>4 DEF Sent
    <3> QED
      BY <2>1, <2>4, <3>1, EndQuiet
  <2>5. CASE PrepareFails \/ PutHeader \/ PutBlock
    BY <2>3, <2>5 DEF PrepareFails, PutHeader, PutBlock, ErrorText, Header, BlockRecord
  <2>6. CASE PutBaseLine
    <3>1. Head(hashes) \in DigestLine
      BY <2>6, HeadTailProperties DEF PutBaseLine, SenderTypeOK
    <3>2. Write(Head(hashes)) /\ Head(hashes).type # "end"
      BY <2>6, <3>1 DEF PutBaseLine, DigestLine
    <3> QED
      BY <2>3, <3>2
  <2>7. CASE ~(PrepareFails \/ PutHeader \/ (PutBaseEnd /\ spc = "putend") \/ PutBlock
                 \/ PutBaseLine)
    <3>1. sent' = sent
      BY <1>2, <2>7 DEF SenderNext, SenderStep, Activate, ActivateFails, HashRun,
         ChecksumDone, ChecksumFails, PutBaseEnd, ReadBlock, ReadFails, SendDone,
         BrokenPipe, SenderKilled, WriteVolume, pipeVars
    <3> QED
      BY <2>4, <3>1
  <2> QED
    BY <2>2, <2>5, <2>6, <2>7
<1> QED
  BY <1>1, <1>2

LEMMA EndReceiver ==
  ASSUME EndBehindLines, ReceiverNext, UNCHANGED senderVars
  PROVE  EndBehindLines'
<1>1. UNCHANGED <<sent, volB, blocks, level>>
  BY ReceiverEffect DEF senderVars
<1>2. Wanted' = Wanted /\ \A h : Line(h)' = Line(h)
  BY <1>1, LinesSame
<1> QED
  BY <1>1, <1>2 DEF EndBehindLines, Posted, Sent, Is

\* Where the stream is cut, lines behind which an empty line is left are left, too.
LEMMA EndCut ==
  ASSUME TypeInv, StreamInv, EndBehindLines, CutPipe, UNCHANGED senderVars
  PROVE  EndBehindLines'
<1> USE DEF TypeInv, TypeOK
<1>1. /\ Len(sent') \in Nat /\ Len(sent) \in Nat /\ Len(sent') <= Len(sent)
      /\ \A i \in 1..Len(sent') : sent'[i] = sent[i]
  BY CutLeavesPrefix
<1>2. /\ Wanted' = Wanted /\ \A h : Line(h)' = Line(h)
      /\ Wanted \subseteq Nat
  BY LinesSame, HeadFacts DEF senderVars
<1> SUFFICES ASSUME NEW j \in Sent', Is(j, "end")', NEW h \in Wanted
             PROVE  Posted(h)'
  BY <1>2 DEF EndBehindLines
<1>3. j \in Sent /\ Is(j, "end")
  BY <1>1 DEF Sent, Is
<1>4. PICK i \in Sent : sent[i] = Line(h)
  BY <1>3 DEF EndBehindLines, Posted
<1>5. sent[i].type = "D"
  BY <1>2, <1>4, LineFields
<1>6. ~(j \in 1..(i-1))
  BY <1>3, <1>4, <1>5 DEF StreamInv, LinesBeforeBlocks, Is
<1>7. i \in Sent'
  BY <1>1, <1>6 DEF Sent
<1>8. sent'[i] = Line(h)'
  BY <1>1, <1>2, <1>4, <1>7 DEF Sent
<1> QED
  BY <1>7, <1>8 DEF Posted

-----------------------------------------------------------------------------
(* The verdict on the base: nothing wrong passes.                          *)

\* When the snapshot is about to be made, and after it, no digest line is written.
LEMMA LinesOver ==
  ASSUME TypeInv, FramingInv, Broken, RunsApart, SenderNext,
         HeaderLevel # 0, rpc = "snapshot" \/ new # Absent
  PROVE  \A i \in Sent' : Is(i, "D")' => i \in Sent /\ sent'[i] = sent[i]
<1> USE DEF TypeInv, TypeOK, FramingInv
<1> SUFFICES ~PutBaseLine
  BY OtherLines
<1> SUFFICES ASSUME PutBaseLine PROVE FALSE
  OBVIOUS
<1>1. spc = "putbase" /\ ropen
  BY DEF PutBaseLine, Write
<1>2. level # 0 /\ wopen /\ LevelsAgree
  BY <1>1 DEF StreamInv, DigestsMade, Ends, SenderEnd, LevelsAgree
<1>3. rpc \notin ReceiverEnd
  BY <1>1 DEF Broken
<1>4. rpc \notin {"header", "base", "check"}
  <2>1. runs = 1
    BY <1>1 DEF RunsApart, SenderEnd
  <2> QED
    BY <2>1 DEF RunsApart
<1>5. rpc # "misread"
  BY <1>2 DEF ReceiverPlace, LevelRaised
<1>6. rpc \in {"snapshot", "activate", "patch"}
  BY <1>3, <1>4, <1>5 DEF ReceiverTypeOK, ReceiverEnd
<1>7. hdr # NoHeader
  BY <1>6, DeltaTaken
<1>8. hdr.level # 0
  BY <1>7 DEF ReceiverPlace
<1>9. PICK j \in 1..rd : Is(j, "end")
  BY <1>2, <1>6, <1>7, <1>8 DEF PastLines
<1>10. j \in Sent
  BY DEF Sent, PipeTypeOK
<1> QED
  BY <1>1, <1>9, <1>10 DEF StreamInv, SenderPlace, SenderEnd

LEMMA VerifiedQuiet ==
  ASSUME TypeInv', EndBehindLines', Verified, VerifiedBase,
         UNCHANGED <<rpc, new, disableCheck, path, dirty, base, copied, volB, level, meta>>,
         HeaderLevel # 0 /\ (rpc = "snapshot" \/ new # Absent)
           => Digested' \subseteq Digested
  PROVE  Verified' /\ VerifiedBase'
<1> USE DEF TypeInv, TypeOK
<1>1. HeaderLevel' = HeaderLevel
  BY DEF HeaderLevel
<1>2. ((\E i \in Sent : Is(i, "end")) => CheckedChunks \subseteq Digested)'
  BY EndCovers, PTL
<1>3. Verified'
  BY <1>1 DEF Verified
<1>4. VerifiedBase'
  BY <1>1, <1>2 DEF VerifiedBase, Sent, Is
<1> QED
  BY <1>3, <1>4

LEMMA VerifiedReceiver ==
  ASSUME TypeInv, FramingInv, LinesTrue, LinesRead, EndBehindLines,
         Verified, VerifiedBase, ReceiverNext, UNCHANGED senderVars
  PROVE  Verified' /\ VerifiedBase'
<1> USE DEF TypeInv, TypeOK, FramingInv
<1>0. /\ UNCHANGED <<sent, volB, blocks, level, meta, path>>
      /\ HeaderLevel' = HeaderLevel
      /\ Digested' = Digested /\ CheckedChunks' = CheckedChunks
  BY ReceiverEffect, PathKept, LinesSame DEF senderVars, HeaderLevel, Digested
<1>1. (\E i \in Sent' : Is(i, "end")') => CheckedChunks' \subseteq Digested'
  BY <1>0, EndCovers DEF Sent, Is
<1>2. CASE Verify
  <2>1. /\ rpc = "check" /\ hdr.chunk = chunk
        /\ disableCheck \/ baseBlocks = <<>> \/ path.base = "other" \/ CheckBase
        /\ UNCHANGED <<base, disableCheck, copied, new>>
        /\ new # Absent => dirty' = dirty
    BY <1>2 DEF Verify
  <2>2. hdr # NoHeader
    BY <2>1, DstSectorsAssumption DEF ReceiverTypeOK, NoHeader, Header
  <2>3. chunk = Sectors
    BY <2>1, <2>2 DEF ReceiverPlace
  <2>4. Verified'
    <3> SUFFICES ASSUME ~disableCheck, HeaderLevel # 0, path.base = "own",
                        NEW b \in Digested
                 PROVE  b \in DOMAIN base /\ base[b] = volB[b]
      BY <1>0, <2>1 DEF Verified
    <3>1. PICK i \in Sent, h \in Wanted :
            Is(i, "D") /\ sent[i] = Line(h) /\ b \in Covers(h)
      BY DigestedMeans
    <3>2. PICK k \in 1..Len(baseBlocks) : baseBlocks[k] = Line(h)
      BY <2>1, <2>2, <3>1, AllRead
    <3>3. baseBlocks # <<>>
      BY <3>2
    <3>4. Matches(Line(h))
      BY <2>1, <3>2, <3>3 DEF CheckBase
    <3> QED
      BY <2>3, <3>1, <3>4, HeadFacts, MatchesMeans
  <2>5. VerifiedBase'
    BY <1>0, <1>1, <2>1 DEF VerifiedBase, Sent, Is
  <2> QED
    BY <2>4, <2>5
<1>3. CASE CreateSnapshot
  <2>1. /\ rpc = "snapshot" /\ new = Absent /\ copied' = base /\ rpc' = "activate"
        /\ UNCHANGED <<disableCheck, dirty>>
    BY <1>3 DEF CreateSnapshot
  <2>2. Verified'
    BY <2>1 DEF Verified
  <2>3. VerifiedBase'
    BY <1>0, <1>1, <2>1 DEF Verified, VerifiedBase, Sent, Is
  <2> QED
    BY <2>2, <2>3
<1>4. CASE WriteBase
  <2>1. PICK c \in DOMAIN base, v \in Value :
          /\ base' = [base EXCEPT ![c] = v]
          /\ dirty' = IF new = Absent THEN dirty \cup {c} ELSE dirty
    BY <1>4 DEF WriteBase
  <2>2. UNCHANGED <<rpc, new, disableCheck, copied>>
    BY <1>4 DEF WriteBase
  <2>3. \A b \in DOMAIN base : b # c => base'[b] = base[b]
    BY <2>1
  <2>4. DOMAIN base' = DOMAIN base
    BY <2>1
  <2>5. Verified'
    BY <1>0, <2>1, <2>2, <2>3, <2>4 DEF Verified
  <2>6. VerifiedBase'
    BY <1>0, <1>1, <2>1, <2>2 DEF VerifiedBase, Sent, Is
  <2> QED
    BY <2>5, <2>6
<1>5. CASE ~Verify /\ ~CreateSnapshot /\ ~WriteBase
  <2>1. /\ UNCHANGED <<disableCheck, dirty, base, copied>>
        /\ rpc' # "snapshot"
    BY <1>5 DEF ReceiverNext, ReceiverStep, ReadHeader, ReadBaseBlocks, VerifyFails,
       CreateSnapshotFails, OpenNew, OpenNewFails, PatchBlock, PatchFails, PatchDone,
       MisreadLine, MisreadData, MisreadWrite, MisreadFails, ReceiverKilled,
       ReceiverExit, ReceiverEnd, targetVars
  <2>2. new = Absent => new' = Absent
    <3>1. rpc \in {"patch", "misread"} => new # Absent
      BY AbsentAssumption DEF NewExists
    <3> QED
      BY <1>5, <3>1 DEF ReceiverNext, ReceiverStep, ReadHeader, ReadBaseBlocks,
         VerifyFails, CreateSnapshotFails, OpenNew, OpenNewFails, PatchBlock,
         PatchFails, PatchDone, MisreadLine, MisreadData, MisreadWrite, MisreadFails,
         ReceiverKilled
  <2> QED
    BY <1>0, <1>1, <2>1, <2>2 DEF Verified, VerifiedBase, Sent, Is
<1> QED
  BY <1>2, <1>3, <1>4, <1>5

-----------------------------------------------------------------------------
(* The verdict on the base: nothing right is refused.                      *)

\* Only lvpatch changes the new volume, and only in its first run from nothing.
LEMMA RunsApartNext ==
  ASSUME TypeInv, RunsApart, [Next]_vars
  PROVE  RunsApart'
<1> USE DEF RunsApart, TypeInv, TypeOK
<1>1. CASE SenderNext /\ UNCHANGED <<receiverVars, runs>>
  BY <1>1, SenderRuns DEF receiverVars
<1>2. CASE ReceiverNext /\ UNCHANGED <<senderVars, runs>>
  <2> USE DEF targetVars, ReceiverExit, ReceiverEnd
  <2>1. rpc' \in {"header", "base", "check", "snapshot"}
          => new' = new /\ rpc \in {"header", "base", "check", "snapshot"}
    <3>1. CASE ReadHeader \/ ReadBaseBlocks \/ Verify \/ VerifyFails
      BY <3>1 DEF ReadHeader, ReadBaseBlocks, Verify, VerifyFails
    <3>2. CASE CreateSnapshot \/ CreateSnapshotFails \/ OpenNew \/ OpenNewFails
      BY <3>2 DEF CreateSnapshot, CreateSnapshotFails, OpenNew, OpenNewFails
    <3>3. CASE PatchBlock \/ PatchFails \/ PatchDone \/ ReceiverKilled \/ WriteBase
      BY <3>3 DEF PatchBlock, PatchFails, PatchDone, ReceiverKilled, WriteBase
    <3>4. CASE MisreadLine \/ MisreadData \/ MisreadWrite \/ MisreadFails
      BY <3>4 DEF MisreadLine, MisreadData, MisreadWrite, MisreadFails
    <3> QED
      BY <1>2, <3>1, <3>2, <3>3, <3>4 DEF ReceiverNext, ReceiverStep
  <2> QED
    BY <1>2, <2>1 DEF senderVars
<1>3. CASE CutPipe /\ UNCHANGED <<senderVars, receiverVars, runs>>
  BY <1>3 DEF senderVars, receiverVars
<1>4. CASE Rerun
  BY <1>4 DEF Rerun, senderVars
<1>5. CASE UNCHANGED vars
  BY <1>5 DEF vars, senderVars, receiverVars
<1> QED
  BY <1>1, <1>2, <1>3, <1>4, <1>5 DEF Next, Terminated

\* Without faults lvdiff ends neither early nor with a text.
LEMMA NothingFailsSender ==
  ASSUME TypeInv, FramingInv, NothingFails, SenderNext,
         UNCHANGED <<rpc, hdr, new, base, runs>>
  PROVE  NothingFails'
<1> SUFFICES ASSUME Faults = {}, runs = 1 PROVE NothingFails'
  BY DEF NothingFails
<1> USE DEF TypeInv, TypeOK, FramingInv
<1>1. UNCHANGED <<cut, ropen>> /\ ~cut
  BY SenderEffect DEF NothingFails
<1>2. ~PrepareFails
  BY DEF PrepareFails
<1>3. \A i \in Sent' : ~Is(i, "text")'
  <2>1. CASE \E rec : Write(rec) /\ rec.type # "text"
    <3>1. PICK rec : Write(rec) /\ rec.type # "text"
      BY <2>1
    <3> QED
      BY <3>1, WriteAppends DEF NothingFails, Sent, Is
  <2>2. CASE sent' = sent
    BY <2>2 DEF NothingFails, Sent, Is
  <2>3. CASE PutHeader \/ (PutBaseEnd /\ spc = "putend") \/ PutBlock
    BY <2>1, <2>3 DEF PutHeader, PutBaseEnd, PutBlock, Header, EmptyLine, BlockRecord
  <2>4. CASE PutBaseLine
    <3>1. Head(hashes) \in DigestLine
      BY <2>4, HeadTailProperties DEF PutBaseLine, SenderTypeOK
    <3>2. Write(Head(hashes)) /\ Head(hashes).type # "text"
      BY <2>4, <3>1 DEF PutBaseLine, DigestLine
    <3> QED
      BY <2>1, <3>2
  <2>5. CASE ~(PutHeader \/ (PutBaseEnd /\ spc = "putend") \/ PutBlock \/ PutBaseLine)
    BY <1>2, <2>2, <2>5 DEF SenderNext, SenderStep, Prepare, Activate, ActivateFails,
       HashRun, ChecksumDone, ChecksumFails, PutBaseEnd, ReadBlock, ReadFails, SendDone,
       BrokenPipe, SenderKilled, WriteVolume, pipeVars
  <2> QED
    BY <2>3, <2>4, <2>5
<1>4. rpc \notin ReceiverEnd /\ spc' \in SenderEnd => sent' # <<>>
  <2> SUFFICES ASSUME rpc \notin ReceiverEnd, spc' \in SenderEnd PROVE sent' # <<>>
    OBVIOUS
  <2>1. ropen /\ spc \notin SenderEnd
    BY SenderRuns DEF NothingFails
  <2>2. spc \notin {"prepare", "header"} /\ sent' = sent
    BY <1>2, <2>1 DEF SenderNext, SenderStep, Prepare, PutHeader, Activate,
       ActivateFails, HashRun, ChecksumDone, ChecksumFails, PutBaseLine, PutBaseEnd,
       ReadBlock, ReadFails, PutBlock, SendDone, BrokenPipe, SenderKilled, WriteVolume,
       SenderEnd
  <2> QED
    BY <2>1, <2>2 DEF StreamInv, SenderPlace
<1> QED
  BY <1>1, <1>3, <1>4 DEF NothingFails

LEMMA NothingFailsReceiver ==
  ASSUME TypeInv, TypeInv', FramingInv, Broken, NothingFails, ReceiverNext,
         UNCHANGED <<senderVars, runs>>
  PROVE  NothingFails'
<1> SUFFICES ASSUME Faults = {}, runs = 1 PROVE NothingFails'
  BY DEF NothingFails
<1> USE DEF TypeInv, TypeOK, FramingInv, ReceiverEnd
<1>1. /\ UNCHANGED <<sent, cut, spc>> /\ rpc \notin ReceiverEnd /\ ~cut'
      /\ ~ropen' => rpc' \in ReceiverEnd
      /\ \A i \in Sent' : ~Is(i, "text")'
      /\ spc' \in SenderEnd => sent' # <<>> /\ sent # <<>>
  BY ReceiverEffect, ReceiverRuns DEF NothingFails, senderVars, Sent, Is
<1>2. CASE ReadHeader
  <2>1. rpc = "header" /\ UNCHANGED <<new, base>> /\ rpc' \in {"header", "base"}
    BY <1>2 DEF ReadHeader, targetVars
  <2>2. rpc' = "base" => hdr' # NoHeader
    <3>1. rd = 0
      <4>1. rd >= 1 => 1 \in 1..rd /\ 1 \in Sent
        BY DEF PipeTypeOK, Sent
      <4> QED
        BY <2>1, <4>1 DEF ReceiverPlace, NothingFails, PipeTypeOK
    <3>2. ~AtEOF
      <4>1. rd = Len(sent) => sent = <<>>
        BY <3>1 DEF PipeTypeOK
      <4> QED
        BY <1>1, <4>1 DEF AtEOF, Broken, NothingFails
    <3>3. CASE Available /\ NextRecord.type = "head" /\ hdr' = NextRecord
      <4>1. PICK n \in Sent : n = rd + 1
        BY <3>1, <3>3 DEF Available, Sent, PipeTypeOK
      <4>2. Is(n, "head") /\ hdr' = sent[n]
        BY <3>3, <4>1 DEF NextRecord, Is
      <4>3. hdr'.chunk = Sectors
        BY <4>2 DEF StreamInv, HeaderFirst
      <4> QED
        BY <4>3, SectorsAssumption DEF NoHeader, Header
    <3>4. CASE rpc' = rpc
      BY <2>1, <3>4
    <3> QED
      BY <1>2, <3>2, <3>3, <3>4 DEF ReadHeader
  <2> QED
    BY <1>1, <2>1, <2>2 DEF NothingFails
<1>3. CASE ReadBaseBlocks \/ Verify
  <2>1. /\ rpc \in {"base", "check"} /\ rpc' \in {"base", "check", "snapshot"}
        /\ UNCHANGED <<new, base, hdr>>
    BY <1>3 DEF ReadBaseBlocks, Verify, targetVars
  <2>2. hdr' # NoHeader
    BY <2>1 DEF NothingFails
  <2> QED
    BY <1>1, <2>1, <2>2 DEF NothingFails
<1>4. CASE CreateSnapshot \/ OpenNew \/ MisreadLine \/ MisreadData
  <2>1. CASE CreateSnapshot
    <3>1. rpc = "snapshot" /\ rpc' = "activate" /\ new' = base /\ UNCHANGED <<base, hdr>>
      BY <2>1 DEF CreateSnapshot
    <3> QED
      BY <1>1, <3>1 DEF NothingFails
  <2>2. CASE OpenNew
    <3>1. rpc = "activate" /\ rpc' = "patch" /\ UNCHANGED <<new, base, hdr>>
      BY <2>2 DEF OpenNew, targetVars
    <3> QED
      BY <1>1, <3>1 DEF NothingFails
  <2>3. CASE MisreadLine \/ MisreadData
    <3>1. /\ rpc \in {"patch", "misread"} /\ rpc' = "misread"
          /\ UNCHANGED <<new, base, hdr>>
      BY <2>3 DEF MisreadLine, MisreadData, targetVars
    <3> QED
      BY <1>1, <3>1 DEF NothingFails
  <2> QED
    BY <1>4, <2>1, <2>2, <2>3
<1>5. CASE PatchBlock \/ MisreadWrite
  <2>1. rpc \in {"patch", "misread"} /\ rpc' = "patch" /\ UNCHANGED <<base, hdr>>
        /\ DOMAIN new' = DOMAIN new
    BY <1>5 DEF PatchBlock, MisreadWrite, Written, targetVars
  <2> QED
    BY <1>1, <2>1 DEF NothingFails
<1>6. CASE WriteBase
  <2>1. UNCHANGED <<rpc, new, hdr>> /\ DOMAIN base' = DOMAIN base
    BY <1>6 DEF WriteBase
  <2> QED
    BY <1>1, <2>1 DEF NothingFails
<1>7. CASE VerifyFails \/ CreateSnapshotFails \/ OpenNewFails \/ PatchFails \/ PatchDone
             \/ MisreadFails
  <2>1. rpc' \in ReceiverEnd /\ UNCHANGED hdr /\ rpc # "header"
    BY <1>7 DEF VerifyFails, CreateSnapshotFails, OpenNewFails, PatchFails, PatchDone,
       MisreadFails, ReceiverExit
  <2> QED
    BY <1>1, <2>1 DEF NothingFails
<1>8. ~ReceiverKilled
  BY DEF ReceiverKilled
<1> QED
  BY <1>2, <1>3, <1>4, <1>5, <1>6, <1>7, <1>8 DEF ReceiverNext, ReceiverStep

\* Without faults lvpatch fails for a wrong chunk size or a wrong chunk of its base,
\* when it looks for them.
LEMMA VerdictRight ==
  ASSUME TypeInv, FramingInv, LinesTrue, NothingFails, Faults = {}, runs = 1,
         VerifyFails, DOMAIN base = DOMAIN volB, chunk = Sectors, path.base = "own"
  PROVE  ~disableCheck /\ \E b \in CheckedChunks : At(base, b) # At(volB, b)
<1> USE DEF TypeInv, TypeOK, FramingInv
<1>1. rpc = "check" /\ (hdr.chunk # chunk \/ (~disableCheck /\ ~CheckBase))
  BY DEF VerifyFails
<1>2. hdr.chunk = chunk
  BY <1>1 DEF NothingFails, ReceiverPlace
<1>3. PICK k \in 1..Len(baseBlocks) : ~Matches(baseBlocks[k])
  BY <1>1, <1>2 DEF CheckBase
<1>4. PICK h \in Wanted : baseBlocks[k] = Line(h) /\ Covers(h) \subseteq DOMAIN volB
  BY DEF LinesTrue, IsLine
<1>5. h \in Nat /\ ~Matches(Line(h))
  BY <1>3, <1>4, HeadFacts
<1>6. PICK b \in Covers(h) : ~(b \in DOMAIN base /\ base[b] = volB[b])
  BY <1>5, MatchesMeans
<1>7. b \in CheckedChunks
  BY <1>6, CheckedChunksCovered
<1>8. At(base, b) # At(volB, b)
  BY <1>4, <1>6 DEF At
<1> QED
  BY <1>1, <1>2, <1>7, <1>8

\* A base of the size of B has room for all of the delta.
LEMMA NothingElseFails ==
  ASSUME TypeInv, FramingInv, RecordsInOrder, RunsApart, NothingFails,
         Faults = {}, runs = 1, ReceiverNext, rpc' = "failed",
         path.new = "own", ~LevelRaised,
         DOMAIN base = DOMAIN volB, DOMAIN volA \subseteq DOMAIN volB
  PROVE  VerifyFails
<1> USE DEF TypeInv, TypeOK, FramingInv
<1>1. rpc # "failed"
  BY ReceiverRuns DEF ReceiverEnd
<1>2. ~CreateSnapshotFails
  BY DEF CreateSnapshotFails, RunsApart
<1>3. ~OpenNewFails /\ ~ReceiverKilled
  BY DEF OpenNewFails, ReceiverKilled
<1>4. ~PatchFails
  <2> SUFFICES ASSUME PatchFails PROVE FALSE
    OBVIOUS
  <2>1. /\ rpc = "patch" /\ Available /\ ~midline /\ NextRecord.type = "W"
        /\ Target(NextRecord) \notin DOMAIN new
    BY DEF PatchFails
  <2>2. PICK b \in Delta : Target(NextRecord) = b
    BY <2>1, NextChunk
  <2>3. b \in DOMAIN volB
    BY <2>2 DEF Delta, SenderTypeOK, Chunks
  <2>4. DOMAIN new = DOMAIN base
    BY <2>1 DEF NothingFails
  <2> QED
    BY <2>1, <2>2, <2>3, <2>4
<1>5. ~MisreadFails
  BY DEF MisreadFails, ReceiverPlace
<1> QED
  BY <1>1, <1>2, <1>3, <1>4, <1>5 DEF ReceiverNext, ReceiverStep, ReadHeader,
     ReadBaseBlocks, Verify, CreateSnapshot, OpenNew, PatchBlock, PatchDone,
     MisreadLine, MisreadData, MisreadWrite, WriteBase, ReceiverExit

LEMMA RefusesOnlyWrongReceiver ==
  ASSUME TypeInv, FramingInv, RecordsInOrder, LinesTrue, RunsApart, NothingFails,
         ReceiverNext, UNCHANGED <<senderVars, runs>>
  PROVE  RefusesOnlyWrong'
<1>1. /\ UNCHANGED <<volA, volB, blocks, level, runs, path>>
      /\ CheckedChunks' = CheckedChunks /\ LevelRaised' = LevelRaised
  BY LinesSame, RaisedBefore, PathKept DEF senderVars
<1> SUFFICES ASSUME rpc' = "failed", Faults = {}, runs = 1, baseWrites' = 0,
                    DOMAIN base' = DOMAIN volB, DOMAIN volA \subseteq DOMAIN volB,
                    chunk' = Sectors, path.base = "own", path.new = "own", ~LevelRaised
             PROVE  ~disableCheck' /\ \E b \in CheckedChunks : At(base', b) # At(volB, b)
  BY <1>1 DEF RefusesOnlyWrong, At
<1>2. UNCHANGED <<chunk, disableCheck>> /\ DOMAIN base' = DOMAIN base
  BY DEF ReceiverNext, ReceiverStep, ReadHeader, ReadBaseBlocks, Verify, VerifyFails,
     CreateSnapshot, CreateSnapshotFails, OpenNew, OpenNewFails, PatchBlock, PatchFails,
     PatchDone, MisreadLine, MisreadData, MisreadWrite, MisreadFails, ReceiverKilled,
     WriteBase, targetVars
<1>3. VerifyFails
  BY <1>2, NothingElseFails
<1>4. UNCHANGED base
  BY <1>3 DEF VerifyFails, targetVars
<1> QED
  BY <1>2, <1>3, <1>4, VerdictRight

LEMMA RefusesOnlyWrongQuiet ==
  ASSUME RefusesOnlyWrong, DOMAIN volA' = DOMAIN volA,
         UNCHANGED <<rpc, runs, baseWrites, base, chunk, disableCheck, path>>,
         UNCHANGED <<volB, blocks, level, meta>>
  PROVE  RefusesOnlyWrong'
<1>1. CheckedChunks' = CheckedChunks /\ LevelRaised' = LevelRaised
  BY LinesSame, RaisedBefore
<1> QED
  BY <1>1 DEF RefusesOnlyWrong, At

-----------------------------------------------------------------------------
(* The theorems.                                                           *)

LEMMA DigestInit == Init => DigestInv
<1> SUFFICES ASSUME Init PROVE DigestInv
  OBVIOUS
<1>1. /\ Sent = {} /\ Len(hashes) = 0 /\ hashes = <<>> /\ Len(baseBlocks) = 0
      /\ baseBlocks = <<>> /\ spc = "prepare" /\ rpc = "header" /\ new = Absent
      /\ rd = 0 /\ ~cut /\ ropen /\ runs = 1
  BY DEF Init, PipeInit, SenderInit, ReceiverInit, Sent
<1>2. LinesTrue /\ LinesComplete /\ LinesRead /\ EndBehindLines
  BY <1>1 DEF LinesTrue, LinesComplete, LinesRead, EndBehindLines
<1>3. RunsApart /\ Verified /\ VerifiedBase /\ NothingFails /\ RefusesOnlyWrong
  BY <1>1 DEF RunsApart, Verified, VerifiedBase, NothingFails, RefusesOnlyWrong, SenderEnd
<1> QED
  BY <1>2, <1>3 DEF DigestInv

LEMMA DigestSender ==
  ASSUME TypeInv, TypeInv', FramingInv, OrderInv, DigestInv,
         SenderNext, UNCHANGED <<receiverVars, runs>>
  PROVE  DigestInv'
<1> USE DEF TypeInv, TypeOK, OrderInv, DigestInv
<1>1. /\ UNCHANGED <<rpc, hdr, new, base, copied, chunk, disableCheck, path, dirty>>
      /\ UNCHANGED <<baseBlocks, baseWrites, runs>>
  BY DEF receiverVars, targetVars
<1>2. /\ UNCHANGED <<level, meta, rd, cut, volB>> /\ (Prepare \/ UNCHANGED blocks)
      /\ spc \notin SenderEnd
      /\ \A i \in 1..rd : sent'[i] = sent[i]
  <2>1. /\ UNCHANGED <<level, meta, rd, cut, volB>> /\ (Prepare \/ UNCHANGED blocks)
        /\ spc \notin SenderEnd
    BY SenderEffect, SenderInputs, SenderRuns
  <2>2. CASE sent' = sent
    BY <2>1, <2>2
  <2>3. CASE \E rec : Write(rec)
    <3>1. /\ \A i \in 1..Len(sent) : sent'[i] = sent[i]
          /\ rd \in Nat /\ Len(sent) \in Nat /\ rd <= Len(sent)
      BY <2>3, WriteAppends DEF PipeTypeOK
    <3> QED
      BY <2>1, <3>1
  <2> QED
    BY <2>1, <2>2, <2>3, SenderEffect
<1>3. LinesTrue' /\ LinesComplete' /\ LinesRead'
  BY <1>1, <1>2, LinesTrueSender, LinesCompleteSender, LinesReadQuiet DEF FramingInv
<1>4. EndBehindLines' /\ Verified' /\ VerifiedBase'
  <2>1. EndBehindLines'
    BY EndSender
  <2>2. HeaderLevel # 0 /\ (rpc = "snapshot" \/ new # Absent)
          => Digested' \subseteq Digested
    BY LinesOver, DigestedLess
  <2> QED
    BY <1>1, <1>2, <2>1, <2>2, VerifiedQuiet
<1>5. NothingFails' /\ RunsApart'
  BY <1>1, NothingFailsSender, SenderRuns DEF RunsApart
<1>6. RefusesOnlyWrong'
  <2>1. CASE Prepare
    <3>1. hdr = NoHeader
      BY <2>1, PrepareFirst DEF FramingInv
    <3>2. Faults = {} /\ runs = 1 => rpc # "failed"
      BY <3>1 DEF NothingFails
    <3> QED
      BY <1>1, <3>2 DEF RefusesOnlyWrong
  <2>2. CASE UNCHANGED blocks
    <3>1. DOMAIN volA' = DOMAIN volA
      BY DEF SenderNext, SenderStep, Prepare, PrepareFails, PutHeader, Activate,
         ActivateFails, HashRun, ChecksumDone, ChecksumFails, PutBaseLine, PutBaseEnd,
         ReadBlock, ReadFails, PutBlock, SendDone, BrokenPipe, SenderKilled,
         WriteVolume, inputVars
    <3> QED
      BY <1>1, <1>2, <2>2, <3>1, RefusesOnlyWrongQuiet
  <2> QED
    BY <1>2, <2>1, <2>2
<1> QED
  BY <1>3, <1>4, <1>5, <1>6

LEMMA DigestCut ==
  ASSUME TypeInv, TypeInv', FramingInv, OrderInv, DigestInv,
         CutPipe, UNCHANGED <<senderVars, receiverVars, runs>>
  PROVE  DigestInv'
<1> USE DEF TypeInv, TypeOK, OrderInv, DigestInv
<1>1. /\ UNCHANGED <<rpc, hdr, new, base, copied, chunk, disableCheck, path, dirty>>
      /\ UNCHANGED <<baseBlocks, baseWrites, runs>>
      /\ UNCHANGED <<volA, volB, level, meta, spc, blocks, cursor, hashes>>
  BY DEF receiverVars, targetVars, senderVars
<1>2. /\ cut' /\ rd' = rd /\ Faults # {}
      /\ \A i \in Sent' : i \in Sent /\ sent'[i] = sent[i]
      /\ \A i \in 1..rd : sent'[i] = sent[i]
  <2>1. /\ Len(sent') \in Nat /\ Len(sent) \in Nat /\ rd' = rd /\ rd \in Nat
        /\ rd <= Len(sent') /\ Len(sent') <= Len(sent)
        /\ \A i \in 1..Len(sent') : sent'[i] = sent[i]
    BY CutLeavesPrefix DEF PipeTypeOK
  <2>2. cut' /\ Faults # {}
    BY DEF CutPipe
  <2> QED
    BY <2>1, <2>2 DEF Sent
<1>3. /\ Wanted' = Wanted /\ \A h : Line(h)' = Line(h)
      /\ \A line : IsLine(line)' <=> IsLine(line)
  BY <1>1, LinesSame
<1>4. LinesTrue'
  BY <1>1, <1>2, <1>3 DEF LinesTrue, Is
<1>5. LinesComplete'
  BY <1>1, <1>2, <1>3 DEF LinesComplete, Hashed
<1>6. LinesRead'
  BY <1>1, <1>2, LinesReadQuiet
<1>7. EndBehindLines' /\ Verified' /\ VerifiedBase'
  <2>1. EndBehindLines'
    BY EndCut DEF FramingInv
  <2>2. Digested' \subseteq Digested
    BY <1>2, DigestedLess
  <2> QED
    BY <1>1, <2>1, <2>2, VerifiedQuiet
<1>8. NothingFails' /\ RunsApart' /\ RefusesOnlyWrong'
  BY <1>1, <1>2 DEF NothingFails, RunsApart, RefusesOnlyWrong
<1> QED
  BY <1>4, <1>5, <1>6, <1>7, <1>8

LEMMA DigestRerun ==
  ASSUME TypeInv, DigestInv, RunsApart', Rerun
  PROVE  DigestInv'
<1> USE DEF DigestInv
<1>1. /\ UNCHANGED <<sent, cut, volA, volB, blocks, level, meta, spc, cursor, hashes>>
      /\ UNCHANGED <<base, disableCheck, path, dirty, copied, new>>
      /\ rpc' = "header" /\ rd' = 0 /\ baseBlocks' = <<>> /\ runs' = runs + 1
  BY DEF Rerun, senderVars, targetVars
<1>2. /\ Wanted' = Wanted /\ CheckedChunks' = CheckedChunks
      /\ \A h : Line(h)' = Line(h)
      /\ \A line : IsLine(line)' <=> IsLine(line)
  BY <1>1, LinesSame
<1>3. LinesTrue'
  BY <1>1, <1>2 DEF LinesTrue, Is, Sent
<1>4. LinesComplete'
  BY <1>1, <1>2 DEF LinesComplete, Hashed, Posted, Sent
<1>5. LinesRead'
  BY <1>1 DEF LinesRead
<1>6. EndBehindLines'
  BY <1>1, <1>2 DEF EndBehindLines, Posted, Sent, Is
<1>7. Verified' /\ VerifiedBase'
  <2>1. Digested' = Digested /\ HeaderLevel' = HeaderLevel
    BY <1>1 DEF Digested, HeaderLevel
  <2> QED
    BY <1>1, <1>2, <2>1 DEF Verified, VerifiedBase, Sent, Is
<1>8. runs' # 1
  BY <1>1 DEF TypeInv, TypeOK, RunsApart
<1>9. NothingFails' /\ RefusesOnlyWrong'
  BY <1>1, <1>8 DEF NothingFails, RefusesOnlyWrong
<1> QED
  BY <1>3, <1>4, <1>5, <1>6, <1>7, <1>9

LEMMA DigestStutter ==
  ASSUME DigestInv, RunsApart', UNCHANGED vars
  PROVE  DigestInv'
<1> USE DEF DigestInv
<1>1. /\ UNCHANGED <<sent, rd, wopen, ropen, cut>>
      /\ UNCHANGED <<volA, volB, blocks, level, meta, spc, cursor, hashes>>
      /\ UNCHANGED <<base, disableCheck, path, dirty, copied, new, chunk>>
      /\ UNCHANGED <<baseWrites, runs>>
      /\ UNCHANGED <<rpc, hdr, baseBlocks>>
  BY DEF vars, pipeVars, senderVars, receiverVars, targetVars
<1>2. /\ Wanted' = Wanted /\ CheckedChunks' = CheckedChunks
      /\ \A h : Line(h)' = Line(h)
      /\ \A line : IsLine(line)' <=> IsLine(line)
  BY <1>1, LinesSame
<1>3. LinesTrue'
  BY <1>1, <1>2 DEF LinesTrue, Is, Sent
<1>4. LinesComplete'
  BY <1>1, <1>2 DEF LinesComplete, Hashed, Posted, Sent
<1>5. LinesRead'
  BY <1>1 DEF LinesRead, Is
<1>6. EndBehindLines'
  BY <1>1, <1>2 DEF EndBehindLines, Posted, Sent, Is
<1>7. Verified' /\ VerifiedBase'
  <2>1. Digested' = Digested /\ HeaderLevel' = HeaderLevel
    BY <1>1 DEF Digested, HeaderLevel
  <2> QED
    BY <1>1, <1>2, <2>1 DEF Verified, VerifiedBase, Sent, Is
<1>8. NothingFails'
  BY <1>1 DEF NothingFails, Sent, Is
<1>9. RefusesOnlyWrong'
  BY <1>1, RefusesOnlyWrongQuiet
<1> QED
  BY <1>3, <1>4, <1>5, <1>6, <1>7, <1>8, <1>9

LEMMA DigestNext ==
  TypeInv /\ FramingInv /\ OrderInv /\ DigestInv /\ [Next]_vars => DigestInv'
<1> SUFFICES ASSUME TypeInv, FramingInv, OrderInv, DigestInv, [Next]_vars
             PROVE  DigestInv'
  OBVIOUS
<1>0. TypeInv' /\ RunsApart'
  BY TypeNext, RunsApartNext DEF DigestInv
<1>1. CASE SenderNext /\ UNCHANGED <<receiverVars, runs>>
  BY <1>0, <1>1, DigestSender
<1>2. CASE ReceiverNext /\ UNCHANGED <<senderVars, runs>>
  <2>1. LinesTrue' /\ LinesComplete' /\ LinesRead'
    BY <1>2, LinesReceiver DEF DigestInv
  <2>2. EndBehindLines' /\ Verified' /\ VerifiedBase'
    <3>1. EndBehindLines'
      BY <1>2, EndReceiver DEF DigestInv
    <3> QED
      BY <1>2, <3>1, VerifiedReceiver DEF DigestInv
  <2>3. NothingFails'
    BY <1>0, <1>2, NothingFailsReceiver DEF DigestInv, OrderInv
  <2>4. RefusesOnlyWrong'
    BY <1>2, RefusesOnlyWrongReceiver DEF DigestInv, OrderInv
  <2> QED
    BY <1>0, <2>1, <2>2, <2>3, <2>4 DEF DigestInv
<1>3. CASE CutPipe /\ UNCHANGED <<senderVars, receiverVars, runs>>
  BY <1>0, <1>3, DigestCut
<1>4. CASE Rerun
  BY <1>0, <1>4, DigestRerun
<1>5. CASE UNCHANGED vars
  BY <1>0, <1>5, DigestStutter
<1> QED
  BY <1>1, <1>2, <1>3, <1>4, <1>5 DEF Next, Terminated

\* Every digest on its way is one lvdiff was to make, with the contents B has there;
\* none is missing before the empty line, and none that was written is lost in the
\* parser of lvpatch; a run without faults has nothing to stumble over but its base.
THEOREM DigestInvariance == Spec => []DigestInv
<1> QED
  BY DigestInit, DigestNext, OrderInvariance, FramingInvariance, TypeInvariance, PTL
  DEF Spec

\* No snapshot is made of a base that differs from B in a chunk the stream has a
\* digest of, but for what somebody wrote to it after it was verified; and if the
\* empty line is there, the digests are those of all chunks the level covers.  A
\* stream that ends among its digest lines is verified by those it has, that of an
\* lvdiff that panicked before it wrote one by none.
THEOREM VerifiedBaseCorrect == Spec => []VerifiedBase
<1>1. DigestInv => VerifiedBase
  BY DEF DigestInv
<1> QED
  BY <1>1, DigestInvariance, PTL

\* And a base that has the size of B is refused only for its chunk size or for a
\* chunk that really differs, when nothing else fails, the paths lead to the volumes
\* named, and no chunk data are taken for lines.
THEOREM RefusesOnlyWrongCorrect == Spec => []RefusesOnlyWrong
<1>1. DigestInv => RefusesOnlyWrong
  BY DEF DigestInv
<1> QED
  BY <1>1, DigestInvariance, PTL

=============================================================================
