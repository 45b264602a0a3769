---------------------------- MODULE OrderProofs ----------------------------
(***************************************************************************)
(* Proofs about Transfer, for every value of the constants: whatever fails *)
(* and whoever writes to A, the new volume is the base with a prefix of    *)
(* the delta laid over it, and the count in the header is never passed,    *)
(* unless a --meta pair makes lvpatch take chunk data for lines.           *)
(***************************************************************************)
EXTENDS TransferProofs

-----------------------------------------------------------------------------
(* Who may still write and who may still read.                             *)

\* lvdiff closes the pipe when it ends and does nothing afterwards.
LEMMA SenderRuns ==
  ASSUME SenderNext
  PROVE  /\ spc \notin SenderEnd
         /\ wopen' = wopen \/ spc' \in SenderEnd
         /\ spc' = "prepare" => spc = "prepare"
<1> USE DEF inputVars, pipeVars, SenderEnd, SenderExit
<1>1. CASE Prepare \/ Activate \/ HashRun \/ ChecksumDone \/ ReadBlock \/ WriteVolume
  BY <1>1 DEF Prepare, Activate, HashRun, ChecksumDone, ReadBlock, WriteVolume
<1>2. CASE PrepareFails \/ PutHeader \/ PutBaseLine \/ PutBlock \/ PutBaseEnd
  BY <1>2 DEF PrepareFails, PutHeader, PutBaseLine, PutBlock, PutBaseEnd
<1>3. CASE ActivateFails \/ ChecksumFails \/ ReadFails \/ SendDone \/ BrokenPipe
             \/ SenderKilled
  BY <1>3 DEF ActivateFails, ChecksumFails, ReadFails, SendDone, BrokenPipe,
              SenderKilled
<1> QED
  BY <1>1, <1>2, <1>3 DEF SenderNext, SenderStep

\* lvpatch closes the pipe when it ends and does nothing afterwards.
LEMMA ReceiverRuns ==
  ASSUME ReceiverNext
  PROVE  /\ rpc \notin ReceiverEnd
         /\ rpc' \in ReceiverEnd => ~ropen'
         /\ ropen' = ropen \/ rpc' \in ReceiverEnd
<1> USE DEF pipeVars, Consume, ReceiverEnd, ReceiverExit
<1>1. CASE ReadHeader \/ ReadBaseBlocks
  BY <1>1 DEF ReadHeader, ReadBaseBlocks
<1>2. CASE Verify \/ VerifyFails \/ CreateSnapshot \/ CreateSnapshotFails
  BY <1>2 DEF Verify, VerifyFails, CreateSnapshot, CreateSnapshotFails
<1>3. CASE OpenNew \/ OpenNewFails \/ PatchBlock \/ PatchFails
  BY <1>3 DEF OpenNew, OpenNewFails, PatchBlock, PatchFails
<1>4. CASE PatchDone \/ ReceiverKilled \/ WriteBase
  BY <1>4 DEF PatchDone, ReceiverKilled, WriteBase
<1>5. CASE MisreadLine \/ MisreadData \/ MisreadWrite \/ MisreadFails
  BY <1>5 DEF MisreadLine, MisreadData, MisreadWrite, MisreadFails
<1> QED
  BY <1>1, <1>2, <1>3, <1>4, <1>5 DEF ReceiverNext, ReceiverStep

LEMMA BrokenNext == Broken /\ [Next]_vars => Broken'
<1> SUFFICES ASSUME Broken, [Next]_vars PROVE Broken'
  OBVIOUS
<1> USE DEF Broken
<1>1. CASE SenderNext /\ UNCHANGED <<receiverVars, runs>>
  <2>1. UNCHANGED <<ropen, cut>>
    BY <1>1 DEF SenderNext, SenderStep, Prepare, PrepareFails, PutHeader, Activate,
       ActivateFails, HashRun, ChecksumDone, ChecksumFails, PutBaseLine, PutBaseEnd,
       ReadBlock, ReadFails, PutBlock, SendDone, BrokenPipe, SenderKilled, WriteVolume,
       Write, pipeVars
  <2> QED
    BY <1>1, <2>1, SenderRuns DEF receiverVars
<1>2. CASE ReceiverNext /\ UNCHANGED <<senderVars, runs>>
  BY <1>2, ReceiverRuns, ReceiverEffect DEF senderVars
<1>3. CASE CutPipe /\ UNCHANGED <<senderVars, receiverVars, runs>>
  BY <1>3 DEF CutPipe
<1>4. CASE Rerun
  BY <1>4 DEF Rerun, senderVars, ReceiverEnd
<1>5. CASE UNCHANGED vars
  BY <1>5 DEF vars, pipeVars, senderVars, receiverVars
<1> QED
  BY <1>1, <1>2, <1>3, <1>4, <1>5 DEF Next, Terminated

-----------------------------------------------------------------------------
(* What may be sent for a chunk.                                           *)

\* Once taken the delta stays, and what may be sent for a chunk becomes more.
Grows == UNCHANGED blocks /\ \A b \in Delta : Sendable(b) \subseteq Sendable(b)'

LEMMA GrowsQuiet == UNCHANGED <<blocks, seen>> => Grows
BY DEF Grows, Sendable

LEMMA SeenHoldsSender ==
  ASSUME SenderTypeOK, BlocksFit, SeenHolds, SenderNext
  PROVE  SeenHolds' /\ (Prepare \/ Grows)
<1>1. CASE Prepare
  <2>1. UNCHANGED <<volA, seen>> /\ blocks' \in ThinDelta
    BY <1>1 DEF Prepare, inputVars
  <2>2. \A b \in DOMAIN blocks' : blocks'[b] = DeltaOpDelete => At(volA, b) = Zero
    BY <2>1 DEF ThinDelta
  <2> QED
    BY <1>1, <2>1, <2>2 DEF SeenHolds, At
<1>2. CASE WriteVolume
  <2>1. PICK c \in DOMAIN volA, v \in Value :
          /\ volA' = [volA EXCEPT ![c] = v]
          /\ seen' = [seen EXCEPT ![c] = @ \cup {v}]
    BY <1>2 DEF WriteVolume
  <2>2. UNCHANGED blocks
    BY <1>2 DEF WriteVolume
  <2>3. DOMAIN seen = DOMAIN volA /\ DOMAIN volA' = DOMAIN volA
    BY <2>1 DEF SenderTypeOK
  <2>4. \A b \in DOMAIN volA : seen[b] \subseteq seen'[b]
    BY <2>1, <2>3
  <2>5. \A b \in DOMAIN volA : volA'[b] \in seen'[b]
    BY <2>1, <2>3, <2>4 DEF SeenHolds
  <2>6. SeenHolds'
    BY <2>2, <2>3, <2>4, <2>5 DEF SeenHolds
  <2>7. Grows
    BY <2>2, <2>4 DEF Grows, Sendable, BlocksFit, Delta
  <2> QED
    BY <2>6, <2>7
<1>3. CASE ~Prepare /\ ~WriteVolume
  <2>1. UNCHANGED <<volA, seen, blocks>>
    BY <1>3 DEF SenderNext, SenderStep, PrepareFails, PutHeader, Activate,
       ActivateFails, HashRun, ChecksumDone, ChecksumFails, PutBaseLine, PutBaseEnd,
       ReadBlock, ReadFails, PutBlock, SendDone, BrokenPipe, SenderKilled, inputVars
  <2> QED
    BY <2>1, GrowsQuiet DEF SeenHolds
<1> QED
  BY <1>1, <1>2, <1>3

-----------------------------------------------------------------------------
(* The chunks in the stream.                                               *)

\* What RecordsInOrder says of the record at i, if the stream is what s says.
InOrder(s, i) ==
  \E b \in Delta :
    /\ s[i].type = "W" /\ s[i].off = b * Sectors
    /\ s[i].val \in Sendable(b)
    /\ \A c \in Delta : c < b =>
         \E j \in 1..(i-1) : s[j].type = "W" /\ s[j].off = c * Sectors
    /\ \A j \in 1..(i-1) : ~(s[j].type = "W" /\ s[j].off = b * Sectors)

LEMMA InOrderMeans ==
  /\ RecordsInOrder <=> \A i \in Sent : Is(i, "W") => InOrder(sent, i)
  /\ RecordsInOrder' <=> \A i \in Sent' : Is(i, "W")' => InOrder(sent, i)'
BY DEF RecordsInOrder, InOrder, IsRecordOf, Is

\* A record keeps its place while the stream grows behind it or loses its end, and
\* more may be sent.
LEMMA InOrderStays ==
  ASSUME NEW i \in Nat, InOrder(sent, i), Grows,
         i >= 1, \A j \in 1..i : sent'[j] = sent[j]
  PROVE  InOrder(sent, i)'
<1>1. PICK b \in Delta :
        /\ sent[i].type = "W" /\ sent[i].off = b * Sectors
        /\ sent[i].val \in Sendable(b)
        /\ \A c \in Delta : c < b =>
             \E j \in 1..(i-1) : sent[j].type = "W" /\ sent[j].off = c * Sectors
        /\ \A j \in 1..(i-1) : ~(sent[j].type = "W" /\ sent[j].off = b * Sectors)
  BY DEF InOrder
<1>2. sent'[i] = sent[i] /\ \A j \in 1..(i-1) : sent'[j] = sent[j]
  OBVIOUS
<1>3. Delta' = Delta /\ sent[i].val \in Sendable(b)'
  BY <1>1 DEF Grows, Delta
<1> QED
  BY <1>1, <1>2, <1>3 DEF InOrder

LEMMA RecordsInOrderSender ==
  ASSUME TypeInv, StreamInv, NoneSkipped, Broken, SeenHolds,
         RecordsInOrder, SenderInOrder, SenderNext
  PROVE  RecordsInOrder'
<1> USE DEF TypeInv, TypeOK
<1>0. Len(sent) \in Nat
  BY DEF PipeTypeOK
<1>1. CASE Prepare
  <2>1. Sent' = {}
    BY <1>1 DEF Prepare, pipeVars, StreamInv, Ends, Sent
  <2> QED
    BY <2>1 DEF RecordsInOrder
<1>2. CASE PutBlock
  <2> DEFINE rec == BlockRecord(buf.blk, buf.val)
  <2>0. PICK n \in Nat : n = Len(sent)
    BY <1>0
  <2>1. /\ spc = "put" /\ ropen /\ Write(rec)
        /\ Grows
    BY <1>2, GrowsQuiet DEF PutBlock, Write, inputVars
  <2>2. /\ Len(sent') = n + 1 /\ Sent = 1..n
        /\ \A i \in 1..n : sent'[i] = sent[i]
        /\ sent'[n + 1] = rec
    BY <2>0, <2>1, WriteAppends DEF Sent
  <2>3. PICK k \in Delta : k = buf.blk /\ k >= cursor /\ buf.val \in Sendable(k)
    BY <2>1 DEF SenderInOrder
  <2>4. ~cut
    BY <2>1 DEF Broken, SenderEnd
  <2>5. \A c \in Delta : c < k => \E j \in Sent : IsRecordOf(j, c)
    BY <2>1, <2>3, <2>4 DEF NoneSkipped
  <2>6. \A j \in Sent : ~IsRecordOf(j, k)
    BY <2>1, <2>3 DEF SenderInOrder
  <2>7. InOrder(sent, n + 1)'
    <3>1. \A j \in 1..n : sent'[j] = sent[j]
      BY <2>2
    <3>2. /\ rec.type = "W" /\ rec.off = k * Sectors /\ rec.val = buf.val
      BY <2>3 DEF BlockRecord
    <3>3. 1..(n + 1 - 1) = Sent
      BY <2>2
    <3>4. Delta' = Delta /\ buf.val \in Sendable(k)'
      BY <2>1, <2>3 DEF Grows, Delta
    <3> HIDE DEF rec
    <3>5. \A c \in Delta : c < k =>
            \E j \in 1..(n + 1 - 1) : sent'[j].type = "W" /\ sent'[j].off = c * Sectors
      BY <2>2, <2>5, <3>1, <3>3 DEF IsRecordOf, Is
    <3>6. \A j \in 1..(n + 1 - 1) :
            ~(sent'[j].type = "W" /\ sent'[j].off = k * Sectors)
      BY <2>2, <2>6, <3>1, <3>3 DEF IsRecordOf, Is
    <3> QED
      BY <2>2, <3>2, <3>4, <3>5, <3>6 DEF InOrder
  <2>8. \A i \in 1..n : sent'[i].type = "W" => InOrder(sent, i)'
    <3> TAKE i \in 1..n
    <3> HAVE sent'[i].type = "W"
    <3>1. InOrder(sent, i)
      BY <2>2, InOrderMeans DEF Is
    <3>2. i \in Nat /\ i >= 1 /\ \A j \in 1..i : sent'[j] = sent[j]
      BY <2>2
    <3> QED
      BY <2>1, <3>1, <3>2, InOrderStays
  <2>9. Sent' = 1..n \cup {n + 1}
    BY <2>2 DEF Sent
  <2> QED
    BY <2>7, <2>8, <2>9, InOrderMeans DEF Is
<1>3. CASE ~Prepare /\ ~PutBlock
  <2>1. \A i \in Sent' : Is(i, "W")' => i \in Sent /\ sent'[i] = sent[i]
    BY <1>3, OtherWrites
  <2>2. \A i \in Sent : sent'[i] = sent[i]
    BY SenderEffect, WriteAppends DEF Sent
  <2>3. Grows
    BY <1>3, SeenHoldsSender
  <2>4. \A i \in Sent' : Is(i, "W")' => InOrder(sent, i)'
    <3> TAKE i \in Sent'
    <3> HAVE Is(i, "W")'
    <3>1. i \in Sent /\ InOrder(sent, i)
      BY <2>1, InOrderMeans DEF Is
    <3>2. i \in Nat /\ i >= 1 /\ \A j \in 1..i : sent'[j] = sent[j]
      BY <1>0, <2>2, <3>1 DEF Sent
    <3> QED
      BY <2>3, <3>1, <3>2, InOrderStays
  <2> QED
    BY <2>4, InOrderMeans
<1> QED
  BY <1>1, <1>2, <1>3

LEMMA SenderInOrderSender ==
  ASSUME TypeInv, StreamInv, SeenHolds, SenderInOrder, SenderNext
  PROVE  SenderInOrder'
<1> USE DEF TypeInv, TypeOK
<1>0. /\ Len(sent) \in Nat
      /\ Delta \subseteq Nat /\ cursor \in Nat
  BY BlocksNat DEF PipeTypeOK, Delta, SenderTypeOK
<1>1. CASE Prepare
  <2>1. Sent' = {} /\ spc' = "header"
    BY <1>1 DEF Prepare, pipeVars, StreamInv, Ends, Sent
  <2> QED
    BY <2>1 DEF SenderInOrder
<1>2. CASE Activate \/ PutBaseEnd
  <2>1. /\ spc \in {"activate", "putend", "putbase"}
        /\ spc' \in {"blocks", "checksum"}
        /\ ~Prepare /\ ~PutBlock
    BY <1>2 DEF Activate, PutBaseEnd, Prepare, PutBlock
  <2>2. \A i \in Sent' : ~Is(i, "W")'
    BY <2>1, OtherWrites DEF SenderInOrder, SenderEnd, Is
  <2> QED
    BY <2>1, <2>2 DEF SenderInOrder, IsRecordOf
<1>3. CASE ReadBlock
  <2>1. PICK b \in Pending :
          buf' = [blk |-> b, val |-> IF blocks[b] = DeltaOpDelete
                                     THEN Zero ELSE volA[b]]
    BY <1>3 DEF ReadBlock
  <2>2. /\ spc = "blocks" /\ spc' = "put"
        /\ UNCHANGED <<sent, blocks, cursor, seen>>
    BY <1>3 DEF ReadBlock, inputVars, pipeVars
  <2>3. buf'.blk = b /\ b \in Delta /\ b >= cursor
    BY <2>1 DEF Pending
  <2>4. buf'.val \in Sendable(b)
    <3>1. blocks[b] # DeltaOpDelete => b \in DOMAIN volA /\ volA[b] \in seen[b]
      BY <2>3 DEF BlocksFit, SeenHolds, Delta
    <3> QED
      BY <2>1, <3>1 DEF Sendable
  <2>5. Delta' = Delta /\ Sent' = Sent /\ Sendable(b)' = Sendable(b)
    BY <2>2 DEF Delta, Sent, Sendable
  <2> QED
    BY <2>2, <2>3, <2>4, <2>5 DEF SenderInOrder, IsRecordOf, Is
<1>4. CASE PutBlock
  <2>1. /\ spc = "put" /\ spc' = "blocks" /\ cursor' = buf.blk + 1
        /\ Write(BlockRecord(buf.blk, buf.val))
        /\ UNCHANGED blocks
    BY <1>4 DEF PutBlock
  <2>2. PICK k \in Delta : k = buf.blk /\ k >= cursor
    BY <2>1 DEF SenderInOrder
  <2>3. ASSUME NEW b \in Delta, b >= k + 1, NEW i \in Sent'
        PROVE  ~(sent'[i].type = "W" /\ sent'[i].off = b * Sectors)
    <3>0. b \in Nat /\ k \in Nat /\ b >= cursor /\ b # k
      BY <1>0, <2>2, <2>3
    <3>1. CASE i \in Sent
      <4>1. ~IsRecordOf(i, b)
        BY <2>1, <3>0, <3>1 DEF SenderInOrder
      <4> QED
        BY <2>1, <3>1, <4>1, WriteAppends DEF Sent, IsRecordOf, Is
    <3>2. CASE i = Len(sent) + 1
      <4>1. sent'[i].off = k * Sectors
        BY <2>1, <2>2, <3>2, WriteAppends DEF BlockRecord
      <4> QED
        BY <3>0, <4>1, OffsetsDiffer
    <3> QED
      BY <2>1, <3>1, <3>2, WriteAppends DEF Sent
  <2> QED
    BY <2>1, <2>2, <2>3 DEF SenderInOrder, Delta, IsRecordOf, Is
<1>5. CASE WriteVolume
  <2>1. UNCHANGED <<spc, buf, cursor, sent, blocks>> /\ Delta' = Delta /\ Sent' = Sent
    BY <1>5 DEF WriteVolume, pipeVars, Delta, Sent
  <2>2. Grows
    BY <1>5, SeenHoldsSender DEF WriteVolume, Prepare
  <2> QED
    BY <2>1, <2>2 DEF SenderInOrder, Grows, IsRecordOf, Is
<1>6. CASE ~(Prepare \/ Activate \/ PutBaseEnd \/ ReadBlock \/ PutBlock \/ WriteVolume)
  <2>1. /\ spc \notin {"blocks", "put"} \cup SenderEnd
        /\ spc' \notin {"blocks", "put"}
        \/ spc' \in SenderEnd
    BY <1>6 DEF SenderNext, SenderStep, PrepareFails, PutHeader,
       ActivateFails, HashRun, ChecksumDone, ChecksumFails, PutBaseLine,
       ReadFails, SendDone, BrokenPipe, SenderKilled, SenderExit, SenderEnd
  <2>2. spc' \notin {"blocks", "put"}
    BY <2>1 DEF SenderEnd
  <2>3. spc' \notin SenderEnd => \A i \in Sent' : ~Is(i, "W")'
    BY <1>6, <2>1, OtherWrites DEF SenderInOrder, Is
  <2> QED
    BY <2>2, <2>3 DEF SenderInOrder
<1> QED
  BY <1>1, <1>2, <1>3, <1>4, <1>5, <1>6

-----------------------------------------------------------------------------
(* The count.                                                              *)

\* The delta is finite, so its chunks can be counted.
LEMMA DeltaFinite ==
  ASSUME SenderTypeOK
  PROVE  IsFiniteSet(Delta) /\ BlockCount \in Nat /\ Delta \subseteq Nat
<1>1. IsFiniteSet(Chunks)
  BY VolumeDomain, FS_Union DEF SenderTypeOK, Chunks
<1>2. Delta \in SUBSET Chunks
  BY DEF SenderTypeOK, Delta
<1> QED
  BY <1>1, <1>2, FS_Subset, FS_CardinalityType, BlocksNat DEF BlockCount

LEMMA CountSentSender ==
  ASSUME TypeInv, FramingInv, CountSent, SenderNext, UNCHANGED hdr
  PROVE  CountSent'
<1> USE DEF TypeInv, TypeOK, FramingInv
<1>1. CASE Prepare
  <2>1. sent = <<>> /\ Sent' = {}
    BY <1>1 DEF Prepare, pipeVars, StreamInv, Ends, Sent
  <2>2. hdr = NoHeader
    <3>1. ~(rd >= 1)
      BY <2>1 DEF PipeTypeOK
    <3> QED
      BY <3>1 DEF ReceiverPlace
  <2> QED
    BY <2>1, <2>2 DEF CountSent
<1>2. CASE ~Prepare
  <2>1. BlockCount' = BlockCount
    BY <1>2, SenderInputs DEF BlockCount, Delta
  <2>2. CASE sent' = sent
    BY <2>1, <2>2 DEF CountSent, Sent, Is
  <2>3. CASE \E rec : Write(rec) /\ (rec.type = "head" => rec.count = BlockCount)
    <3>1. PICK rec : Write(rec) /\ (rec.type = "head" => rec.count = BlockCount)
      BY <2>3
    <3> QED
      BY <2>1, <3>1, WriteAppends DEF CountSent, Sent, Is
  <2>4. CASE PrepareFails \/ PutHeader \/ (PutBaseEnd /\ spc = "putend") \/ PutBlock
    BY <2>3, <2>4 DEF PrepareFails, PutHeader, PutBaseEnd, PutBlock, ErrorText, Header,
                      EmptyLine, BlockRecord
  <2>5. CASE PutBaseLine
    <3>1. Head(hashes) \in DigestLine
      BY <2>5, HeadTailProperties DEF PutBaseLine, SenderTypeOK
    <3>2. Write(Head(hashes)) /\ Head(hashes).type # "head"
      BY <2>5, <3>1 DEF PutBaseLine, DigestLine
    <3> QED
      BY <2>3, <3>2
  <2>6. CASE ~(PrepareFails \/ PutHeader \/ (PutBaseEnd /\ spc = "putend") \/ PutBlock
                 \/ PutBaseLine)
    <3>1. sent' = sent
      BY <1>2, <2>6 DEF SenderNext, SenderStep, Activate, ActivateFails, HashRun,
         ChecksumDone, ChecksumFails, PutBaseEnd, ReadBlock, ReadFails, SendDone,
         BrokenPipe, SenderKilled, WriteVolume, pipeVars
    <3> QED
      BY <2>2, <3>1
  <2> QED
    BY <2>4, <2>5, <2>6
<1> QED
  BY <1>1, <1>2

-----------------------------------------------------------------------------
(* The new volume while others take steps.                                 *)

LEMMA GotQuiet ==
  ASSUME PipeTypeOK, ReceiverTypeOK, StreamInv, ReceiverPlace, GotWritten,
         PatchedPrefix,
         UNCHANGED <<rd, rpc, hdr, dwWritten, new, copied, path, level, meta>>,
         \A i \in 1..rd : sent'[i] = sent[i],
         spc' = "prepare" => spc = "prepare",
         Prepare \/ Grows
  PROVE  GotWritten' /\ PatchedPrefix'
<1>0. LevelRaised' = LevelRaised
  BY DEF LevelRaised, HeaderLevel
<1>1. CASE Prepare
  <2>1. rpc \notin {"snapshot", "activate", "patch", "done"} /\ new = Absent
    BY <1>1, DeltaTaken DEF GotWritten, Prepare
  <2>2. hdr = NoHeader
    <3>1. sent = <<>>
      BY <1>1 DEF Prepare, StreamInv, Ends
    <3>2. ~(rd >= 1)
      BY <3>1 DEF PipeTypeOK
    <3> QED
      BY <3>2 DEF ReceiverPlace
  <2> QED
    BY <1>0, <1>1, <2>1, <2>2 DEF GotWritten, PatchedPrefix
<1>2. CASE Grows
  <2>1. Delta' = Delta
    BY <1>2 DEF Grows, Delta
  <2>2. Got' = Got
    <3>1. \A b \in Delta, i \in 1..rd : IsRecordOf(i, b)' = IsRecordOf(i, b)
      BY DEF IsRecordOf, Is
    <3> QED
      BY <2>1, <3>1 DEF Got
  <2>3. \A P \in SUBSET Delta :
          (\A b \in DOMAIN new : IF b \in P THEN new[b] \in Sendable(b)
                                            ELSE new[b] = copied[b])
          => (\A b \in DOMAIN new : IF b \in P THEN new[b] \in Sendable(b)'
                                               ELSE new[b] = copied[b])
    BY <1>2 DEF Grows
  <2>4. Laid' = Laid /\ Laid \in SUBSET Delta
    BY <2>2 DEF Got, Laid
  <2>5. Overlaid(Laid) => Overlaid(Laid)'
    BY <2>3, <2>4 DEF Overlaid
  <2>6. PatchedPrefix'
    BY <1>0, <2>1, <2>3 DEF PatchedPrefix
  <2> QED
    BY <1>0, <2>2, <2>5, <2>6 DEF GotWritten
<1> QED
  BY <1>1, <1>2

-----------------------------------------------------------------------------
(* The new volume while lvpatch takes steps.                               *)

\* The chunks with a record among the first n.
First(n) == {b \in Delta : \E i \in 1..n : IsRecordOf(i, b)}

\* They are a prefix of the delta.
LEMMA FirstIsPrefix ==
  ASSUME PipeTypeOK, SenderTypeOK, RecordsInOrder, NEW n \in 0..Len(sent)
  PROVE  \A b \in First(n), c \in Delta : c < b => c \in First(n)
<1> SUFFICES ASSUME NEW b \in First(n), NEW c \in Delta, c < b
             PROVE  c \in First(n)
  OBVIOUS
<1>0. Len(sent) \in Nat /\ Delta \subseteq Nat
  BY BlocksNat DEF PipeTypeOK, Delta
<1>1. PICK i \in 1..n : IsRecordOf(i, b)
  BY DEF First
<1>2. i \in Sent /\ Is(i, "W")
  BY <1>0, <1>1 DEF Sent, IsRecordOf
<1>3. PICK d \in Delta :
        /\ IsRecordOf(i, d)
        /\ \A x \in Delta : x < d => \E j \in 1..(i-1) : IsRecordOf(j, x)
  BY <1>2 DEF RecordsInOrder
<1>4. d = b
  <2>1. d * Sectors = b * Sectors
    BY <1>1, <1>3 DEF IsRecordOf
  <2>2. b \in Nat /\ d \in Nat
    BY <1>0 DEF First
  <2> QED
    BY <2>1, <2>2, OffsetsDiffer
<1>5. PICK j \in 1..(i-1) : IsRecordOf(j, c)
  BY <1>3, <1>4
<1>6. j \in 1..n
  BY <1>0, <1>1
<1> QED
  BY <1>5, <1>6 DEF First

\* The chunk lvpatch is about to write is the next one of the delta.
LEMMA NextChunk ==
  ASSUME TypeInv, FramingInv, RecordsInOrder,
         rpc = "patch", Available, ~midline, NextRecord.type = "W"
  PROVE  \E b \in Delta :
           /\ Target(NextRecord) = b /\ NextRecord.val \in Sendable(b)
           /\ b \notin First(rd) /\ First(rd) = Got
           /\ First(rd + 1) = First(rd) \cup {b}
<1> USE DEF TypeInv, TypeOK, FramingInv
<1>0. /\ rd \in Nat /\ rd + 1 \in Sent /\ NextRecord = sent[rd + 1]
      /\ Delta \subseteq Nat
  BY BlocksNat DEF PipeTypeOK, Available, NextRecord, Sent, Delta
<1>1. PICK b \in Delta :
        /\ IsRecordOf(rd + 1, b) /\ sent[rd + 1].val \in Sendable(b)
        /\ \A j \in 1..rd : ~IsRecordOf(j, b)
  <2>1. PICK n \in Sent : n = rd + 1 /\ n - 1 = rd
    BY <1>0
  <2>2. Is(n, "W")
    BY <1>0, <2>1 DEF Is
  <2>3. PICK b \in Delta : /\ IsRecordOf(n, b) /\ sent[n].val \in Sendable(b)
                          /\ \A j \in 1..(n-1) : ~IsRecordOf(j, b)
    BY <2>2 DEF RecordsInOrder
  <2> QED
    BY <2>1, <2>3
<1>2. chunk = Sectors
  BY DeltaTaken
<1>3. Target(NextRecord) = b
  BY <1>0, <1>1, <1>2, OffsetOfChunk, SectorsAssumption DEF Target, IsRecordOf
<1>4. b \notin First(rd) /\ First(rd) = Got
  BY <1>0, <1>1 DEF First, Got
<1>5. \A c \in Delta : IsRecordOf(rd + 1, c) => c = b
  BY <1>0, <1>1, OffsetsDiffer DEF IsRecordOf
<1>6. First(rd + 1) = First(rd) \cup {b}
  <2>1. 1..(rd + 1) = 1..rd \cup {rd + 1}
    BY <1>0
  <2> QED
    BY <1>1, <1>5, <2>1 DEF First
<1> QED
  BY <1>0, <1>1, <1>3, <1>4, <1>6

\* A chunk of the delta is laid over the volume behind those before it.
LEMMA OverlayNext ==
  ASSUME Overlaid(Got), NEW b \in Delta, NEW v \in Sendable(b)
  PROVE  LET w == [new EXCEPT ![b] = v]
         IN  \A c \in DOMAIN w : IF c \in Got \cup {b} THEN w[c] \in Sendable(c)
                                                       ELSE w[c] = copied[c]
BY DEF Overlaid

\* Consumed lines are no chunks.
LEMMA GotNothing ==
  ASSUME PipeTypeOK, HeaderFirst, ReceiverPlace, rpc = "base", hdr # NoHeader,
         NEW n \in rd..Len(sent),
         \A i \in (rd+1)..n : ~Is(i, "W")
  PROVE  First(n) = {}
<1>1. rd \in Nat /\ Len(sent) \in Nat /\ rd >= 1 /\ rd <= Len(sent)
  BY DEF PipeTypeOK, ReceiverPlace
<1>2. \A i \in 1..rd : ~Is(i, "W")
  BY <1>1 DEF ReceiverPlace, Is
<1> QED
  BY <1>1, <1>2 DEF First, IsRecordOf

\* The new volume comes into being after the delta, and nothing is counted before it
\* is opened.
LEMMA NothingEarly ==
  ASSUME TypeInv, StreamInv, ReceiverPlace, GotWritten, ReceiverNext,
         UNCHANGED senderVars
  PROVE  /\ rpc' \notin {"patch", "misread"} \cup ReceiverEnd => dwWritten' = 0
         /\ new' # Absent => spc' # "prepare"
<1> USE DEF TypeInv, TypeOK, ReceiverEnd
<1>1. /\ rpc' \notin {"patch", "misread"} \cup ReceiverEnd
           => dwWritten' = dwWritten /\ rpc \notin {"patch", "misread"} \cup ReceiverEnd
      /\ new' = new \/ rpc \in {"snapshot", "patch", "misread"}
  <2> USE DEF targetVars, ReceiverExit
  <2>1. CASE ReadHeader \/ ReadBaseBlocks \/ Verify \/ VerifyFails
    BY <2>1 DEF ReadHeader, ReadBaseBlocks, Verify, VerifyFails
  <2>2. CASE CreateSnapshot \/ CreateSnapshotFails \/ OpenNew \/ OpenNewFails
    BY <2>2 DEF CreateSnapshot, CreateSnapshotFails, OpenNew, OpenNewFails
  <2>3. CASE PatchBlock \/ PatchFails \/ PatchDone \/ ReceiverKilled
    BY <2>3 DEF PatchBlock, PatchFails, PatchDone, ReceiverKilled
  <2>4. CASE MisreadLine \/ MisreadData \/ MisreadWrite \/ MisreadFails
    BY <2>4 DEF MisreadLine, MisreadData, MisreadWrite, MisreadFails
  <2>5. CASE WriteBase
    BY <2>5 DEF WriteBase
  <2> QED
    BY <2>1, <2>2, <2>3, <2>4, <2>5 DEF ReceiverNext, ReceiverStep
<1>2. rpc = "snapshot" => spc # "prepare"
  <2>1. rpc = "snapshot" => hdr # NoHeader
    BY DeltaTaken
  <2>2. rpc = "snapshot" => sent # <<>>
    BY <2>1 DEF ReceiverPlace, PipeTypeOK
  <2> QED
    BY <2>2 DEF StreamInv, Ends
<1>3. rpc \in {"patch", "misread"} => new # Absent
  BY AbsentAssumption DEF NewExists
<1> QED
  BY <1>1, <1>2, <1>3 DEF GotWritten, senderVars

\* The header lvpatch holds is the one of the stream, or none.
LEMMA CountSentReceiver ==
  ASSUME TypeInv, CountSent, ReceiverNext, UNCHANGED senderVars
  PROVE  CountSent'
<1> USE DEF TypeInv, TypeOK
<1>0. /\ UNCHANGED <<sent, blocks>> /\ BlockCount' = BlockCount
      /\ rd \in Nat /\ Len(sent) \in Nat
  BY ReceiverEffect DEF PipeTypeOK, senderVars, Delta, BlockCount
<1>1. CASE hdr' = hdr
  BY <1>0, <1>1 DEF CountSent, Sent, Is
<1>2. CASE Available /\ NextRecord.type = "head" /\ hdr' = NextRecord
  <2>1. PICK n \in Sent : n = rd + 1
    BY <1>0, <1>2 DEF Available, Sent
  <2>2. Is(n, "head") /\ hdr' = sent[n]
    BY <1>2, <2>1 DEF NextRecord, Is
  <2> QED
    BY <1>0, <2>2 DEF CountSent, Sent, Is
<1>3. hdr' = hdr \/ (Available /\ NextRecord.type = "head" /\ hdr' = NextRecord)
  <2>1. CASE ReadHeader
    BY <2>1 DEF ReadHeader
  <2>2. CASE ReadBaseBlocks \/ Verify \/ VerifyFails \/ CreateSnapshot
    BY <2>2 DEF ReadBaseBlocks, Verify, VerifyFails, CreateSnapshot
  <2>3. CASE CreateSnapshotFails \/ OpenNew \/ OpenNewFails \/ PatchBlock
    BY <2>3 DEF CreateSnapshotFails, OpenNew, OpenNewFails, PatchBlock
  <2>4. CASE PatchFails \/ PatchDone \/ ReceiverKilled \/ WriteBase
    BY <2>4 DEF PatchFails, PatchDone, ReceiverKilled, WriteBase
  <2>5. CASE MisreadLine \/ MisreadData \/ MisreadWrite \/ MisreadFails
    BY <2>5 DEF MisreadLine, MisreadData, MisreadWrite, MisreadFails
  <2> QED
    BY <2>1, <2>2, <2>3, <2>4, <2>5 DEF ReceiverNext, ReceiverStep
<1> QED
  BY <1>1, <1>2, <1>3

\* The rest of GotWritten, where no chunk data are taken for lines.
LEMMA GotReceiver ==
  ASSUME TypeInv, TypeInv', FramingInv, FramingInv', RecordsInOrder, CountSent,
         GotWritten, PatchedPrefix, ReceiverNext, UNCHANGED senderVars
  PROVE  GotWritten' /\ PatchedPrefix'
<1> USE DEF TypeInv, TypeOK, FramingInv, ReceiverEnd
<1>0. /\ rd \in Nat /\ Len(sent) \in Nat /\ rd <= Len(sent)
      /\ UNCHANGED <<sent, wopen, blocks, seen, spc>>
      /\ Delta' = Delta /\ BlockCount' = BlockCount
      /\ LevelRaised' = LevelRaised
      /\ \A n \in Nat : First(n)' = First(n)
      /\ \A b : Sendable(b)' = Sendable(b)
  BY ReceiverEffect DEF PipeTypeOK, senderVars, Delta, BlockCount, First, IsRecordOf, Is,
     Sendable, LevelRaised, HeaderLevel
<1>1. Got = First(rd) /\ Got' = First(rd')
  BY <1>0 DEF Got, First, IsRecordOf, Is, PipeTypeOK
<1>2. /\ rpc' \notin {"patch", "misread"} \cup ReceiverEnd => dwWritten' = 0
      /\ new' # Absent => spc' # "prepare"
  BY NothingEarly
<1>3. UNCHANGED <<new, copied>> => PatchedPrefix'
  BY <1>0 DEF PatchedPrefix
<1> SUFFICES ASSUME ~LevelRaised
             PROVE  GotWritten' /\ PatchedPrefix'
  BY <1>0, <1>2 DEF GotWritten, PatchedPrefix
<1>4. ~midline /\ ~midline'
  BY <1>0 DEF ReceiverPlace
<1>5. rd' = rd /\ path' = path => Laid' = Laid
  BY <1>0, <1>1 DEF Laid
<1>6. CASE ReadHeader
  <2>1. /\ UNCHANGED <<new, copied, dwWritten>>
        /\ rpc = "header" /\ rpc' \in {"header", "base"} /\ dwWritten = 0
    BY <1>6 DEF ReadHeader, targetVars, GotWritten
  <2>2. hdr'.count \in Nat
    BY DEF ReceiverTypeOK, HeaderRecord
  <2> QED
    BY <1>0, <1>2, <1>3, <2>1, <2>2 DEF GotWritten
<1>7. CASE ReadBaseBlocks
  <2>1. /\ UNCHANGED <<new, copied, hdr, dwWritten>>
        /\ rpc = "base" /\ rpc' \in {"base", "check"}
    BY <1>7 DEF ReadBaseBlocks, targetVars
  <2>2. rpc' = "check" /\ hdr # NoHeader => Got' = {}
    <3> SUFFICES ASSUME rpc' = "check", hdr # NoHeader PROVE First(rd') = {}
      BY <1>1
    <3>1. CASE rd' = rd
      BY <1>0, <2>1, <3>1, GotNothing DEF StreamInv
    <3>2. CASE Available /\ rd' = rd + 1 /\ NextRecord.type # "W"
      <4>1. PICK n \in rd..Len(sent) : n = rd + 1
        BY <1>0, <3>2 DEF Available
      <4>2. \A i \in (rd+1)..n : ~Is(i, "W")
        BY <1>0, <3>2, <4>1 DEF NextRecord, Is
      <4> QED
        BY <2>1, <3>2, <4>1, <4>2, GotNothing DEF StreamInv
    <3> QED
      BY <1>4, <1>7, <3>1, <3>2 DEF ReadBaseBlocks, Consume
  <2> QED
    BY <1>0, <1>2, <1>3, <2>1, <2>2 DEF GotWritten
<1>8. CASE Verify
  <2>1. /\ rpc = "check" /\ rpc' = "snapshot"
        /\ UNCHANGED <<rd, new, copied, hdr, dwWritten>>
    BY <1>8 DEF Verify, pipeVars
  <2> QED
    BY <1>0, <1>1, <1>2, <1>3, <2>1 DEF GotWritten
<1>9. CASE CreateSnapshot
  <2>1. /\ rpc = "snapshot" /\ rpc' = "activate" /\ new' = copied'
        /\ UNCHANGED <<rd, hdr, dwWritten, path>>
    BY <1>9 DEF CreateSnapshot, pipeVars
  <2>2. hdr # NoHeader
    BY <2>1, DeltaTaken
  <2>3. Got' = {}
    BY <1>1, <2>1, <2>2 DEF GotWritten
  <2>4. Overlaid(Laid)'
    BY <2>1, <2>3 DEF Overlaid, Laid
  <2>5. PatchedPrefix'
    <3>1. {} \in SUBSET Delta'
      OBVIOUS
    <3> QED
      BY <2>1, <3>1 DEF PatchedPrefix
  <2> QED
    BY <1>0, <1>2, <2>1, <2>3, <2>4, <2>5 DEF GotWritten
<1>10. CASE OpenNew
  <2>1. /\ rpc = "activate" /\ rpc' = "patch"
        /\ UNCHANGED <<rd, new, copied, hdr, dwWritten, path>>
    BY <1>10 DEF OpenNew, pipeVars, targetVars
  <2>2. hdr # NoHeader
    BY <2>1, DeltaTaken
  <2>3. Got = {} /\ Got' = {} /\ dwWritten = 0
    BY <1>1, <2>1, <2>2 DEF GotWritten
  <2>4. Overlaid(Laid)'
    BY <1>0, <1>5, <2>1 DEF GotWritten, Overlaid
  <2> QED
    BY <1>0, <1>2, <1>3, <2>1, <2>3, <2>4, FS_EmptySet DEF GotWritten
<1>11. ASSUME rpc = "patch", Available, path.new = "own",
             NEW b \in Delta, NEW v \in Sendable(b), First(rd + 1) = Got \cup {b},
             copied' = copied, new' = [new EXCEPT ![b] = v]
      PROVE  PatchedPrefix' /\ \A c \in DOMAIN new' :
               IF c \in Got \cup {b} THEN new'[c] \in Sendable(c) ELSE new'[c] = copied'[c]
  <2>1. Overlaid(Got)
    BY <1>11 DEF GotWritten, Laid
  <2>2. \A c \in DOMAIN new' :
          IF c \in Got \cup {b} THEN new'[c] \in Sendable(c) ELSE new'[c] = copied'[c]
    BY <1>11, <2>1, OverlayNext
  <2>3. Got \cup {b} \in SUBSET Delta
    BY DEF Got
  <2>4. \A x \in Got \cup {b}, c \in Delta : c < x => c \in Got \cup {b}
    <3>1. rd + 1 \in 0..Len(sent)
      BY <1>0, <1>11 DEF Available
    <3> QED
      BY <1>11, <3>1, FirstIsPrefix
  <2>5. PatchedPrefix'
    BY <1>0, <2>2, <2>3, <2>4 DEF PatchedPrefix
  <2> QED
    BY <2>2, <2>5
<1>12. CASE PatchBlock
  <2>1. /\ rpc = "patch" /\ rpc' = "patch" /\ rd' = rd + 1
        /\ Available /\ ~midline /\ NextRecord.type = "W"
        /\ dwWritten' = dwWritten + 1
        /\ UNCHANGED <<copied, hdr, path>>
        /\ new' = Written(Target(NextRecord), NextRecord.val)
    BY <1>12 DEF PatchBlock, targetVars, Consume
  <2>2. PICK b \in Delta :
          /\ Target(NextRecord) = b /\ NextRecord.val \in Sendable(b)
          /\ b \notin First(rd) /\ First(rd) = Got
          /\ First(rd + 1) = First(rd) \cup {b}
    BY <2>1, NextChunk
  <2>3. PatchedPrefix' /\ Overlaid(Laid)'
    <3>1. CASE path.new = "own"
      <4>1. Laid' = Got \cup {b}
        BY <1>1, <2>1, <2>2, <3>1 DEF Laid
      <4>2. new' = [new EXCEPT ![b] = NextRecord.val]
        BY <2>1, <2>2, <3>1 DEF Written
      <4> QED
        BY <1>0, <1>11, <2>1, <2>2, <3>1, <4>1, <4>2 DEF Overlaid
    <3>2. CASE path.new # "own"
      <4>1. Laid = {} /\ Laid' = {} /\ new' = new
        BY <2>1, <3>2 DEF Laid, Written
      <4> QED
        BY <1>0, <1>3, <2>1, <4>1 DEF GotWritten, Overlaid
    <3> QED
      BY <3>1, <3>2
  <2>4. dwWritten' = Cardinality(Got') /\ dwWritten' <= hdr'.count
    <3>1. Got' = Got \cup {b} /\ b \notin Got
      BY <1>1, <2>1, <2>2
    <3>2. IsFiniteSet(Delta) /\ Got \in SUBSET Delta /\ Got' \in SUBSET Delta
      BY <1>0, DeltaFinite DEF Got
    <3>3. Cardinality(Got') = Cardinality(Got) + 1
      BY <3>1, <3>2, FS_Subset, FS_AddElement
    <3>4. Cardinality(Got') <= BlockCount
      BY <3>2, FS_Subset DEF BlockCount
    <3>5. hdr'.count = BlockCount
      BY <2>1, DeltaTaken DEF CountSent
    <3>6. dwWritten' = Cardinality(Got) + 1
      BY <2>1 DEF GotWritten
    <3>7. dwWritten' = Cardinality(Got')
      BY <3>3, <3>6, Zenon
    <3>8. dwWritten' <= hdr'.count
      BY <3>4, <3>5, <3>7, Zenon
    <3> QED
      BY <3>7, <3>8, Zenon
  <2> QED
    BY <1>0, <1>2, <2>1, <2>3, <2>4 DEF GotWritten
<1>13. CASE PatchFails
  <2>1. /\ rpc = "patch" /\ rpc' = "failed"
        /\ Available /\ ~midline /\ NextRecord.type = "W"
        /\ UNCHANGED <<dwWritten, copied, hdr>>
        /\ \/ new' = new
           \/ new' = Written(Target(NextRecord), NextRecord.val)
    BY <1>13 DEF PatchFails, ReceiverExit, targetVars, Consume
  <2>2. PatchedPrefix'
    <3>1. CASE new' = new
      BY <1>3, <2>1, <3>1
    <3>2. CASE new' # new
      <4>1. PICK b \in Delta :
              /\ Target(NextRecord) = b /\ NextRecord.val \in Sendable(b)
              /\ First(rd) = Got
              /\ First(rd + 1) = First(rd) \cup {b}
        BY <2>1, NextChunk
      <4>2. path.new = "own" /\ new' = [new EXCEPT ![b] = NextRecord.val]
        BY <2>1, <3>2, <4>1 DEF Written
      <4> QED
        BY <1>11, <2>1, <4>1, <4>2
    <3> QED
      BY <3>1, <3>2
  <2> QED
    BY <1>0, <1>2, <2>1, <2>2 DEF GotWritten
<1>14. CASE VerifyFails \/ CreateSnapshotFails \/ OpenNewFails \/ ReceiverKilled
  <2>1. /\ rpc' \in {"failed", "killed"}
        /\ UNCHANGED <<new, copied, hdr, dwWritten>>
    BY <1>14 DEF VerifyFails, CreateSnapshotFails, OpenNewFails, ReceiverKilled,
                 ReceiverExit, targetVars
  <2> QED
    BY <1>0, <1>2, <1>3, <2>1 DEF GotWritten
<1>15. CASE PatchDone
  <2>1. /\ rpc = "patch" /\ rpc' = "done"
        /\ UNCHANGED <<rd, new, copied, hdr, dwWritten>>
    BY <1>4, <1>15 DEF PatchDone, ReceiverExit, targetVars, ReceiverPlace
  <2>2. Got' = Got
    BY <1>1, <2>1
  <2> QED
    BY <1>0, <1>2, <1>3, <2>1, <2>2 DEF GotWritten
<1>16. CASE WriteBase
  <2>1. UNCHANGED <<rpc, rd, new, copied, hdr, dwWritten, path>>
    BY <1>16 DEF WriteBase, pipeVars
  <2>2. Got' = Got /\ Laid' = Laid
    BY <1>1, <1>5, <2>1
  <2> QED
    BY <1>0, <1>2, <1>3, <2>1, <2>2 DEF GotWritten, Overlaid
<1>17. ~(MisreadLine \/ MisreadData \/ MisreadWrite \/ MisreadFails)
  BY <1>4
  DEF MisreadLine, MisreadData, MisreadWrite, MisreadFails, ReceiverPlace
<1> QED
  BY <1>6, <1>7, <1>8, <1>9, <1>10, <1>12, <1>13, <1>14, <1>15, <1>16, <1>17
  DEF ReceiverNext, ReceiverStep

-----------------------------------------------------------------------------
(* The theorems.                                                           *)

LEMMA OrderInit == Init => OrderInv
<1> SUFFICES ASSUME Init PROVE OrderInv
  OBVIOUS
<1>1. Sent = {} /\ spc = "prepare" /\ rpc = "header" /\ hdr = NoHeader
      /\ dwWritten = 0 /\ new = Absent
  BY DEF Init, PipeInit, SenderInit, ReceiverInit, Sent
<1>2. Broken /\ SeenHolds
  BY <1>1 DEF Init, PipeInit, SenderInit, Broken, SeenHolds, SenderEnd, ReceiverEnd
<1>3. RecordsInOrder /\ SenderInOrder /\ CountSent
  BY <1>1 DEF RecordsInOrder, SenderInOrder, CountSent
<1>4. GotWritten /\ PatchedPrefix
  BY <1>1 DEF GotWritten, PatchedPrefix, NoHeader, Header
<1> QED
  BY <1>2, <1>3, <1>4 DEF OrderInv

LEMMA OrderNext ==
  TypeInv /\ FramingInv /\ DataInv /\ OrderInv /\ [Next]_vars => OrderInv'
<1> SUFFICES ASSUME TypeInv, FramingInv, DataInv, OrderInv, [Next]_vars
             PROVE  OrderInv'
  OBVIOUS
<1>0. /\ TypeInv' /\ FramingInv' /\ Broken'
      /\ rd \in Nat /\ Len(sent) \in Nat /\ rd <= Len(sent)
  BY TypeNext, FramingNext, BrokenNext DEF OrderInv, TypeInv, TypeOK, PipeTypeOK
<1> USE DEF TypeInv, TypeOK, FramingInv, DataInv, OrderInv
<1>1. CASE SenderNext /\ UNCHANGED <<receiverVars, runs>>
  <2>1. /\ UNCHANGED <<rd, rpc, hdr, dwWritten, new, copied, path, level, meta>>
        /\ \A i \in 1..rd : sent'[i] = sent[i]
    BY <1>0, <1>1, SenderEffect, WriteAppends DEF receiverVars, targetVars
  <2>2. SeenHolds' /\ (Prepare \/ Grows)
    BY <1>1, SeenHoldsSender
  <2>3. RecordsInOrder' /\ SenderInOrder' /\ CountSent'
    BY <1>1, <2>1, RecordsInOrderSender, SenderInOrderSender, CountSentSender
  <2>4. GotWritten' /\ PatchedPrefix'
    BY <1>1, <2>1, <2>2, SenderRuns, GotQuiet
  <2> QED
    BY <1>0, <2>2, <2>3, <2>4
<1>2. CASE ReceiverNext /\ UNCHANGED <<senderVars, runs>>
  <2>1. UNCHANGED <<sent, volA, blocks, seen, spc, cursor, buf>>
    BY <1>2, ReceiverEffect DEF senderVars
  <2>2. SeenHolds' /\ SenderInOrder' /\ RecordsInOrder'
    BY <2>1 DEF SeenHolds, SenderInOrder, RecordsInOrder, Sendable, Delta, IsRecordOf,
                Is, Sent
  <2> QED
    BY <1>0, <1>2, <2>2, GotReceiver, CountSentReceiver
<1>3. CASE CutPipe /\ UNCHANGED <<senderVars, receiverVars, runs>>
  <2>1. /\ UNCHANGED <<volA, blocks, seen, spc, cursor, buf>>
        /\ UNCHANGED <<rd, rpc, hdr, dwWritten, new, copied, path, level, meta>>
        /\ \A i \in Sent' : i \in Sent /\ i \in Nat /\ i >= 1
                            /\ \A j \in 1..i : sent'[j] = sent[j]
        /\ \A i \in 1..rd : sent'[i] = sent[i]
    BY <1>0, <1>3, CutLeavesPrefix DEF senderVars, receiverVars, targetVars, Sent
  <2>2. Grows /\ BlockCount' = BlockCount
    BY <2>1, GrowsQuiet DEF BlockCount, Delta
  <2>3. RecordsInOrder'
    <3>1. \A i \in Sent' : Is(i, "W")' => InOrder(sent, i)'
      BY <2>1, <2>2, InOrderMeans, InOrderStays DEF Is
    <3> QED
      BY <3>1, InOrderMeans
  <2>4. SeenHolds' /\ SenderInOrder' /\ CountSent'
    BY <2>1, <2>2 DEF SeenHolds, SenderInOrder, CountSent, Sendable, Delta, IsRecordOf, Is
  <2>5. GotWritten' /\ PatchedPrefix'
    BY <2>1, <2>2, GotQuiet
  <2> QED
    BY <1>0, <2>3, <2>4, <2>5
<1>4. CASE Rerun
  <2>1. /\ UNCHANGED <<sent, volA, blocks, seen, spc, cursor, buf, new, copied>>
        /\ LevelRaised' = LevelRaised
        /\ rpc' = "header" /\ hdr' = NoHeader /\ dwWritten' = 0
    BY <1>4 DEF Rerun, senderVars, targetVars, LevelRaised, HeaderLevel
  <2>2. SeenHolds' /\ SenderInOrder' /\ RecordsInOrder' /\ CountSent'
    BY <2>1 DEF SeenHolds, SenderInOrder, RecordsInOrder, CountSent, Sendable,
                BlockCount, Delta, IsRecordOf, Is, Sent
  <2>3. GotWritten'
    BY <2>1 DEF GotWritten, NoHeader, Header
  <2>4. Delta' = Delta /\ \A b : Sendable(b)' = Sendable(b)
    BY <2>1 DEF Delta, Sendable
  <2>5. PatchedPrefix'
    BY <2>1, <2>4 DEF PatchedPrefix
  <2> QED
    BY <1>0, <2>2, <2>3, <2>5
<1>5. CASE UNCHANGED vars
  <2>1. /\ UNCHANGED <<sent, rd, volA, blocks, seen, spc, cursor, buf>>
        /\ UNCHANGED <<rpc, hdr, dwWritten, new, copied, path, level, meta>>
    BY <1>5 DEF vars, pipeVars, senderVars, receiverVars, targetVars
  <2>2. SeenHolds' /\ SenderInOrder' /\ RecordsInOrder' /\ CountSent'
    BY <2>1 DEF SeenHolds, SenderInOrder, RecordsInOrder, CountSent, Sendable,
                BlockCount, Delta, IsRecordOf, Is, Sent
  <2>3. GotWritten' /\ PatchedPrefix'
    BY <2>1, GotQuiet, GrowsQuiet
  <2> QED
    BY <1>0, <2>2, <2>3
<1> QED
  BY <1>1, <1>2, <1>3, <1>4, <1>5 DEF Next, Terminated

\* The chunks are in the stream in the order of the delta, each once and none left
\* out, wherever the stream is cut and whoever writes to A; and lvpatch has counted
\* and laid over the base those it read, and no others, unless a --meta pair makes it
\* take chunk data for lines.
THEOREM OrderInvariance == Spec => []OrderInv
<1> QED
  BY OrderInit, OrderNext, DataInvariance, FramingInvariance, TypeInvariance, PTL
  DEF Spec

\* The new volume is at all times the base it was copied from with a prefix of the
\* delta laid over it: a crash, a failed write or a cut leaves no hole and no chunk
\* with the data of another.  Of the --meta pairs only one that raises the level from
\* 0 is excluded: then anything may be written.
THEOREM PatchedPrefixCorrect == Spec => []PatchedPrefix
<1>1. OrderInv => PatchedPrefix
  BY DEF OrderInv
<1> QED
  BY <1>1, OrderInvariance, PTL

LEMMA OrderImplies == TypeInv /\ FramingInv /\ DataInv /\ OrderInv => CountHonest
<1> SUFFICES ASSUME TypeInv, FramingInv, DataInv, OrderInv PROVE CountHonest
  OBVIOUS
<1> USE DEF TypeInv, TypeOK, FramingInv, DataInv, OrderInv
<1>1. ASSUME rpc = "done", spc = "done", ~cut, LevelsAgree
      PROVE  dwWritten = hdr.count
  <2>1. hdr # NoHeader
    BY <1>1, DeltaTaken
  <2>2. ~midline /\ rd = Len(sent)
    BY <1>1, <2>1 DEF PastLines, Patched
  <2>3. \A b \in Delta : \E i \in Sent : IsRecordOf(i, b)
    BY <1>1 DEF NoneSkipped
  <2>4. Got = Delta
    BY <2>2, <2>3 DEF Got, Sent
  <2>5. dwWritten = Cardinality(Delta)
    BY <1>1, <2>4 DEF GotWritten, LevelsAgree, LevelRaised
  <2>6. hdr.count = BlockCount
    BY <2>1 DEF CountSent
  <2> QED
    BY <2>5, <2>6 DEF BlockCount
<1> QED
  BY <1>1 DEF CountHonest, GotWritten

\* The progress bar never passes the count of the header, unless chunk data are taken
\* for lines, and reaches it when everything was sent and read.
THEOREM CountHonestCorrect == Spec => []CountHonest
<1> QED
  BY OrderImplies, OrderInvariance, DataInvariance, FramingInvariance, TypeInvariance,
     PTL

-----------------------------------------------------------------------------
\* What is known of every state.
Inv == TypeInv /\ FramingInv /\ DataInv /\ OrderInv /\ RestoredWhenDone

LEMMA InvUse ==
  ASSUME Inv
  PROVE  /\ PipeTypeOK /\ SenderTypeOK /\ ReceiverTypeOK /\ BlocksFit /\ NewExists
         /\ StreamInv /\ ReceiverPlace /\ Patched
         /\ Broken /\ SeenHolds /\ RecordsInOrder
BY DEF Inv, TypeInv, TypeOK, FramingInv, DataInv, OrderInv

LEMMA RestoresInit == Init => R!Init
BY DEF Init, SenderInit, ReceiverInit, R!Init, CleanRun

\* Who is misled is so from the beginning.
LEMMA RaisedBefore ==
  ASSUME UNCHANGED <<level, meta>>
  PROVE  LevelRaised' = LevelRaised /\ LevelsAgree' = LevelsAgree
BY DEF LevelRaised, LevelsAgree, HeaderLevel

-----------------------------------------------------------------------------
\* Once lvpatch has reported success no stream becomes complete: lvpatch only
\* reports it at the end of what was sent.
LEMMA CompleteBefore ==
  ASSUME Inv, SenderNext, rpc = "done"
  PROVE  CleanRun = FALSE /\ CleanRun' = FALSE
<1>1. spc \notin SenderEnd /\ UNCHANGED <<cut, level, meta>>
  BY SenderRuns, SenderEffect, InvUse
<1>2. ~CleanRun
  BY <1>1 DEF CleanRun, SenderEnd
<1>3. LevelsAgree => ~wopen
  BY InvUse DEF Patched
<1>4. LevelsAgree => cut
  BY <1>1, <1>3, InvUse DEF Broken
<1>5. LevelsAgree' = LevelsAgree
  BY <1>1 DEF LevelsAgree, HeaderLevel
<1> QED
  BY <1>1, <1>2, <1>4, <1>5 DEF CleanRun

\* lvdiff says more, or ends, or A is written meanwhile.
LEMMA RestoresSender ==
  ASSUME Inv, SenderNext, UNCHANGED receiverVars
  PROVE  [R!Next]_(R!vars)
<1>1. UNCHANGED <<volB, base, new, copied, rpc>> /\ LevelRaised' = LevelRaised
  BY SenderInputs, SenderEffect, RaisedBefore, InvUse DEF receiverVars, targetVars
<1>2. CASE WriteVolume
  <2>1. PICK b \in DOMAIN volA, v \in Value :
          /\ volA' = [volA EXCEPT ![b] = v]
          /\ seen' = [seen EXCEPT ![b] = @ \cup {v}]
    BY <1>2 DEF WriteVolume
  <2>2. volA'[b] = v
    BY <2>1
  <2>3. CleanRun = FALSE /\ CleanRun' = FALSE
    BY <1>2 DEF WriteVolume, CleanRun, SenderEnd
  <2>4. R!WriteSource
    BY <1>1, <2>1, <2>2, <2>3 DEF R!WriteSource
  <2> QED
    BY <2>4 DEF R!Next
<1>3. CASE ~WriteVolume
  <2>1. UNCHANGED <<volA, seen>>
    BY <1>3 DEF SenderNext, SenderStep, Prepare, PrepareFails, PutHeader, Activate,
       ActivateFails, HashRun, ChecksumDone, ChecksumFails, PutBaseLine, PutBaseEnd,
       ReadBlock, ReadFails, PutBlock, SendDone, BrokenPipe, SenderKilled, inputVars
  <2>2. CASE rpc = "done"
    BY <1>1, <2>1, <2>2, CompleteBefore DEF R!vars
  <2>3. CASE rpc # "done"
    <3>1. CleanRun' \in BOOLEAN
      BY DEF CleanRun
    <3>2. R!Transmit
      BY <1>1, <2>1, <2>3, <3>1 DEF R!Transmit, R!inputs
    <3> QED
      BY <3>2 DEF R!Next
  <2> QED
    BY <2>2, <2>3
<1> QED
  BY <1>2, <1>3

-----------------------------------------------------------------------------
\* The chunk lvpatch is about to write is one the source contains or contained.
LEMMA NextContents ==
  ASSUME Inv, rpc = "patch", Available, ~midline, NextRecord.type = "W"
  PROVE  NextRecord.val \in R!Contents(Target(NextRecord))
<1>1. PICK b \in Delta : Target(NextRecord) = b /\ NextRecord.val \in Sendable(b)
  BY NextChunk, InvUse DEF Inv
<1>2. b \in DOMAIN blocks
  BY DEF Delta
<1>3. CASE blocks[b] = DeltaOpDelete
  BY <1>1, <1>2, <1>3, InvUse DEF Sendable, SeenHolds, R!Contents
<1>4. CASE blocks[b] # DeltaOpDelete
  BY <1>1, <1>2, <1>4, InvUse DEF Sendable, BlocksFit, R!Contents
<1> QED
  BY <1>1, <1>3, <1>4

\* Where the paths lead does not change.
LEMMA PathKept ==
  ASSUME ReceiverNext
  PROVE  path' = path
<1> USE DEF targetVars
<1>1. CASE ReadHeader \/ ReadBaseBlocks \/ Verify \/ VerifyFails \/ CreateSnapshot
  BY <1>1 DEF ReadHeader, ReadBaseBlocks, Verify, VerifyFails, CreateSnapshot
<1>2. CASE CreateSnapshotFails \/ OpenNew \/ OpenNewFails \/ PatchBlock \/ PatchFails
  BY <1>2 DEF CreateSnapshotFails, OpenNew, OpenNewFails, PatchBlock, PatchFails
<1>3. CASE PatchDone \/ ReceiverKilled \/ WriteBase
  BY <1>3 DEF PatchDone, ReceiverKilled, WriteBase
<1>4. CASE MisreadLine \/ MisreadData \/ MisreadWrite \/ MisreadFails
  BY <1>4 DEF MisreadLine, MisreadData, MisreadWrite, MisreadFails
<1> QED
  BY <1>1, <1>2, <1>3, <1>4 DEF ReceiverNext, ReceiverStep

\* lvpatch works on the new volume, or the base is written meanwhile.
LEMMA RestoresReceiver ==
  ASSUME Inv, Inv', ReceiverNext, UNCHANGED senderVars
  PROVE  [R!Next]_(R!vars)
<1>0. path' = path
  BY ReceiverEffect, PathKept
<1>1. /\ UNCHANGED <<volA, seen, volB>> /\ CleanRun' = CleanRun
      /\ LevelRaised' = LevelRaised
  BY <1>0, ReceiverEffect, RaisedBefore DEF senderVars, CleanRun
<1>2. CASE CreateSnapshot
  <2>1. R!Snapshot
    BY <1>1, <1>2 DEF CreateSnapshot, R!Snapshot, R!inputs
  <2> QED
    BY <2>1 DEF R!Next
<1>3. ASSUME rpc = "patch", rpc' # "done", UNCHANGED <<base, copied>>,
             Available, ~midline, NextRecord.type = "W",
             Target(NextRecord) \in DOMAIN new,
             new' = [new EXCEPT ![Target(NextRecord)] = NextRecord.val]
      PROVE  R!Next
  <2>1. NextRecord.val \in R!Contents(Target(NextRecord))
    BY <1>3, NextContents
  <2>2. new # Absent
    BY <1>3, InvUse, AbsentAssumption DEF NewExists
  <2>3. R!Patch
    BY <1>1, <1>3, <2>1, <2>2 DEF R!Patch, R!inputs
  <2> QED
    BY <2>3 DEF R!Next
<1>4. CASE PatchBlock
  <2>1. /\ rpc = "patch" /\ rpc' = "patch" /\ UNCHANGED <<base, copied>>
        /\ Available /\ ~midline /\ NextRecord.type = "W"
        /\ path.new = "own" => Target(NextRecord) \in DOMAIN new
        /\ new' = Written(Target(NextRecord), NextRecord.val)
    BY <1>4 DEF PatchBlock, targetVars
  <2>2. CASE path.new = "own"
    BY <1>3, <2>1, <2>2 DEF Written
  <2>3. CASE path.new # "own"
    BY <1>1, <2>1, <2>3 DEF Written, R!vars
  <2> QED
    BY <2>2, <2>3
<1>5. CASE PatchFails
  <2>1. /\ rpc = "patch" /\ rpc' = "failed" /\ UNCHANGED <<base, copied>>
        /\ Available /\ ~midline /\ NextRecord.type = "W"
    BY <1>5 DEF PatchFails, ReceiverExit, targetVars
  <2>2. CASE new' = new
    BY <1>1, <2>1, <2>2 DEF R!vars
  <2>3. CASE new' # new
    <3>1. /\ Target(NextRecord) \in DOMAIN new
          /\ new' = Written(Target(NextRecord), NextRecord.val)
      BY <1>5, <2>3 DEF PatchFails
    <3>2. new' = [new EXCEPT ![Target(NextRecord)] = NextRecord.val]
      BY <2>3, <3>1 DEF Written
    <3> QED
      BY <1>3, <2>1, <3>1, <3>2
  <2> QED
    BY <2>2, <2>3
<1>6. CASE PatchDone
  <2>1. /\ rpc \in {"patch", "misread"} /\ rpc' = "done"
        /\ UNCHANGED <<base, new, copied>>
    BY <1>6 DEF PatchDone, ReceiverExit, targetVars
  <2>2. new # Absent
    BY <2>1, InvUse, AbsentAssumption DEF NewExists
  <2>3. RestoredWhenDone'
    BY DEF Inv
  <2>4. CleanRun /\ copied = volB /\ DOMAIN volA = DOMAIN volB => new = volA
    BY <1>1, <2>1, <2>3 DEF RestoredWhenDone
  <2>5. R!Report
    BY <1>1, <2>1, <2>2, <2>4 DEF R!Report, R!inputs
  <2> QED
    BY <2>5 DEF R!Next
<1>7. CASE WriteBase
  <2>1. PICK b \in DOMAIN base, v \in Value : base' = [base EXCEPT ![b] = v]
    BY <1>7 DEF WriteBase
  <2>2. base'[b] = v
    BY <2>1
  <2>3. R!Write
    BY <1>1, <1>7, <2>1, <2>2 DEF WriteBase, R!Write, R!inputs
  <2> QED
    BY <2>3 DEF R!Next
<1>8. CASE ReadHeader \/ ReadBaseBlocks \/ Verify \/ VerifyFails \/ CreateSnapshotFails
             \/ OpenNew \/ OpenNewFails \/ ReceiverKilled
             \/ MisreadLine \/ MisreadData
  <2>1. rpc # "done" /\ rpc' # "done" /\ UNCHANGED <<base, new, copied>>
    BY <1>8 DEF ReadHeader, ReadBaseBlocks, Verify, VerifyFails, CreateSnapshotFails,
       OpenNew, OpenNewFails, ReceiverKilled, MisreadLine, MisreadData, ReceiverExit,
       ReceiverEnd, targetVars
  <2> QED
    BY <1>1, <2>1 DEF R!vars
<1>9. CASE MisreadWrite \/ MisreadFails
  <2>1. /\ rpc = "misread" /\ rpc' # "done" /\ UNCHANGED <<base, copied>>
        /\ new' \in IF path.new = "own" THEN [DOMAIN new -> Value] ELSE {new}
    BY <1>9 DEF MisreadWrite, MisreadFails, ReceiverExit, targetVars
  <2>2. CASE new' = new
    BY <1>1, <2>1, <2>2 DEF R!vars
  <2>3. CASE new' # new
    <3>1. new' \in [DOMAIN new -> Value]
      BY <2>1, <2>3
    <3>2. new' = [b \in DOMAIN new |-> new'[b]]
      BY <3>1
    <3>3. LevelRaised /\ new # Absent
      BY <2>1, InvUse, AbsentAssumption DEF ReceiverPlace, NewExists
    <3>4. R!Garble
      BY <1>1, <2>1, <3>2, <3>3 DEF R!Garble, R!inputs
    <3> QED
      BY <3>4 DEF R!Next
  <2> QED
    BY <2>2, <2>3
<1> QED
  BY <1>2, <1>4, <1>5, <1>6, <1>7, <1>8, <1>9 DEF ReceiverNext, ReceiverStep

-----------------------------------------------------------------------------
LEMMA RestoresNext == Inv /\ Inv' /\ [Next]_vars => [R!Next]_(R!vars)
<1> SUFFICES ASSUME Inv, Inv', [Next]_vars PROVE [R!Next]_(R!vars)
  OBVIOUS
<1>1. CASE SenderNext /\ UNCHANGED <<receiverVars, runs>>
  BY <1>1, RestoresSender
<1>2. CASE ReceiverNext /\ UNCHANGED <<senderVars, runs>>
  BY <1>2, RestoresReceiver
<1>3. CASE CutPipe /\ UNCHANGED <<senderVars, receiverVars, runs>>
  <2>1. rpc # "done"
    BY <1>3, InvUse DEF CutPipe, Broken, ReceiverEnd
  <2>2. CleanRun' \in BOOLEAN
    BY DEF CleanRun
  <2>3. R!Transmit
    BY <1>3, <2>1, <2>2, RaisedBefore
    DEF senderVars, receiverVars, targetVars, R!Transmit, R!inputs
  <2> QED
    BY <2>3 DEF R!Next
<1>4. CASE Rerun
  BY <1>4, RaisedBefore DEF Rerun, senderVars, targetVars, CleanRun, R!vars
<1>5. CASE UNCHANGED vars
  BY <1>5, RaisedBefore
  DEF vars, pipeVars, senderVars, receiverVars, targetVars, CleanRun, R!vars
<1> QED
  BY <1>1, <1>2, <1>3, <1>4, <1>5 DEF Next, Terminated

\* What lvdiff and lvpatch do to the volumes is what Restore says, whatever fails,
\* is cut, is run again, and whoever writes to A or to the base; a --meta pair that
\* raises the level from 0 is what misleads there.
THEOREM RestoresCorrect == Spec => Restores
<1>1. Spec => []Inv
  BY TypeInvariance, FramingInvariance, DataInvariance, OrderInvariance,
     RestoredCorrect, PTL DEF Inv
<1> QED
  BY <1>1, RestoresInit, RestoresNext, PTL DEF Spec, Restores, R!Spec

=============================================================================
