--------------------------- MODULE TransferProofs ---------------------------
(***************************************************************************)
(* Proofs about Transfer, for every value of the constants: the two        *)
(* programs agree on the framing of the stream, and a volume that lvpatch  *)
(* reports as patched has the contents of A.                               *)
(***************************************************************************)
EXTENDS TransferInv, FiniteSetTheorems, SequenceTheorems, TLAPS

-----------------------------------------------------------------------------
(* The operators the actions are built from.                               *)

\* The chunks of a volume are numbered from 0.
LEMMA VolumeDomain ==
  ASSUME NEW v \in Volume
  PROVE  /\ DOMAIN v \subseteq Nat
         /\ IsFiniteSet(DOMAIN v)
         /\ \A b \in DOMAIN v : v[b] \in Value
<1>1. PICK n \in Sizes : v \in [0..(n-1) -> Value]
  BY DEF Volume
<1>2. DOMAIN v = 0..(n-1) /\ n \in Nat
  BY <1>1, SizesAssumption
<1>3. IsFiniteSet(0..(n-1))
  BY <1>2, FS_Interval
<1> QED
  BY <1>1, <1>2, <1>3

\* Writing a chunk of a volume gives a volume.
LEMMA VolumeExcept ==
  ASSUME NEW v \in Volume, NEW b \in DOMAIN v, NEW x \in Value
  PROVE  [v EXCEPT ![b] = x] \in Volume
<1>1. PICK n \in Sizes : v \in [0..(n-1) -> Value]
  BY DEF Volume
<1>2. [v EXCEPT ![b] = x] \in [0..(n-1) -> Value]
  BY <1>1
<1> QED
  BY <1>2 DEF Volume

\* The records lvdiff puts on the pipe are records.
LEMMA HeaderType ==
  ASSUME SenderTypeOK
  PROVE  Header(HeaderLevel, BlockCount, Sectors) \in HeaderRecord
<1>1. HeaderLevel \in Int
  <2>1. <<level>> \in Seq(Int) /\ meta \in Seq(Int)
    BY LevelsAssumption, MetasAssumption DEF SenderTypeOK
  <2>2. /\ Len(<<level>> \o meta) = 1 + Len(meta)
        /\ <<level>> \o meta \in Seq(Int)
    BY <2>1, ConcatProperties
  <2>3. Len(meta) + 1 \in 1..Len(<<level>> \o meta)
    BY <2>1, <2>2
  <2> QED
    BY <2>2, <2>3, ElementOfSeq DEF HeaderLevel
<1>2. IsFiniteSet(Chunks)
  BY VolumeDomain, FS_Union DEF SenderTypeOK, Chunks
<1>3. Delta \in SUBSET Chunks
  BY DEF SenderTypeOK, Delta
<1>4. Cardinality(Delta) \in Nat
  BY <1>2, <1>3, FS_Subset, FS_CardinalityType
<1> QED
  BY <1>1, <1>4, SectorsAssumption DEF BlockCount, Header, HeaderRecord

LEMMA BlockRecordType ==
  ASSUME NEW b \in Nat, NEW x \in Value
  PROVE  BlockRecord(b, x) \in DataRecord
BY SectorsAssumption DEF BlockRecord, DataRecord

LEMMA BaseLineType ==
  ASSUME NEW b \in Nat, NEW digest \in Seq(Value)
  PROVE  BaseLine(b * Sectors, digest) \in DigestLine
<1>1. Len(digest) \in Nat
  OBVIOUS
<1> QED
  BY <1>1, SectorsAssumption DEF BaseLine, DigestLine

\* A write to the pipe keeps its type.
LEMMA WriteType ==
  ASSUME PipeTypeOK, NEW rec \in Record, Write(rec), wopen' \in BOOLEAN
  PROVE  PipeTypeOK'
<1>1. sent' \in Seq(Record) /\ Len(sent') = Len(sent) + 1
  BY DEF PipeTypeOK, Write
<1> QED
  BY <1>1 DEF PipeTypeOK, Write

LEMMA ConsumeType ==
  ASSUME PipeTypeOK, Available, Consume, ropen' \in BOOLEAN
  PROVE  PipeTypeOK' /\ NextRecord \in Record
BY DEF PipeTypeOK, Available, Consume, NextRecord

-----------------------------------------------------------------------------
(* The steps of lvdiff.                                                    *)

\* What thin_delta promises of the chunks of a delta.
LEMMA ThinDeltaType ==
  ASSUME NEW f \in ThinDelta
  PROVE  /\ DOMAIN f \subseteq Chunks
         /\ \A b \in DOMAIN f : f[b] \in DeltaOpType
         /\ \A b \in DOMAIN f : f[b] # DeltaOpDelete => b \in DOMAIN volA
         /\ \A b \in DOMAIN f : f[b] # DeltaOpCreate => b \in DOMAIN volB
<1>1. PICK S \in SUBSET Chunks : f \in [S -> DeltaOpType]
  BY DEF ThinDelta
<1>2. DOMAIN f = S
  BY <1>1
<1>3. \A b \in DOMAIN f : /\ f[b] # DeltaOpDelete => b \in DOMAIN volA
                          /\ f[b] # DeltaOpCreate => b \in DOMAIN volB
  BY DEF ThinDelta
<1> QED
  BY <1>1, <1>2, <1>3

\* The chunks of the entries are numbers.
LEMMA BlocksNat ==
  ASSUME SenderTypeOK
  PROVE  DOMAIN blocks \subseteq Nat /\ Chunks \subseteq Nat
BY VolumeDomain DEF SenderTypeOK, Chunks

LEMMA SenderStepType ==
  ASSUME PipeTypeOK, SenderTypeOK, BlocksFit, SenderNext
  PROVE  PipeTypeOK' /\ SenderTypeOK' /\ BlocksFit'
<1> USE DEF SenderEnd
<1>1. CASE Prepare
  <2>1. /\ DOMAIN blocks' \subseteq Chunks
        /\ \A b \in DOMAIN blocks' : blocks'[b] \in DeltaOpType
        /\ BlocksFit'
    BY <1>1, ThinDeltaType DEF Prepare, BlocksFit, inputVars
  <2> QED
    BY <1>1, <2>1 DEF Prepare, inputVars, pipeVars, PipeTypeOK, SenderTypeOK,
                      Chunks
<1>2. CASE PrepareFails
  <2>1. PipeTypeOK'
    <3>1. ErrorText \in Record
      BY DEF ErrorText, Record
    <3> QED
      BY <1>2, <3>1, WriteType DEF PrepareFails, SenderExit
  <2> QED
    BY <1>2, <2>1 DEF PrepareFails, inputVars, SenderExit, SenderTypeOK, Chunks,
                      BlocksFit
<1>3. CASE PutHeader
  <2>1. PipeTypeOK'
    BY <1>3, HeaderType, WriteType DEF PutHeader, Record, PipeTypeOK
  <2> QED
    BY <1>3, <2>1 DEF PutHeader, inputVars, SenderTypeOK, Chunks, BlocksFit
<1>4. CASE Activate
  BY <1>4 DEF Activate, inputVars, pipeVars, PipeTypeOK, SenderTypeOK, Chunks,
              BlocksFit
<1>5. CASE HashRun
  <2>1. PICK b \in HeadsLeft :
          LET n == DigestLength(DOMAIN blocks, level, b)
          IN  /\ b..(b+n-1) \subseteq DOMAIN volB
              /\ hashes' = Append(hashes,
                             BaseLine(b * Sectors, [i \in 1..n |-> volB[b+i-1]]))
              /\ cursor' = b + n
              /\ spc' = IF level = 1 THEN "putbase" ELSE "checksum"
    BY <1>5 DEF HashRun
  <2> DEFINE n == DigestLength(DOMAIN blocks, level, b)
             digest == [i \in 1..n |-> volB[b+i-1]]
  <2>2. b \in Nat /\ n \in Nat
    BY BlocksNat DEF HeadsLeft, RunHeads, DigestLength
  <2> HIDE DEF n
  <2>3. digest \in Seq(Value)
    <3>1. b..(b+n-1) \subseteq DOMAIN volB
      BY <2>1 DEF n
    <3>2. \A c \in DOMAIN volB : volB[c] \in Value
      BY VolumeDomain DEF SenderTypeOK
    <3>3. \A i \in 1..n : volB[b+i-1] \in Value
      BY <2>2, <3>1, <3>2
    <3>4. digest \in [1..n -> Value]
      BY <3>3
    <3> HIDE DEF digest
    <3>5. digest \in UNION {[1..m -> Value] : m \in Nat}
      BY <2>2, <3>4
    <3>6. Seq(Value) = UNION {[1..m -> Value] : m \in Nat}
      BY SeqDef, Zenon
    <3> QED
      BY <3>5, <3>6, Zenon
  <2>4. hashes' \in Seq(DigestLine)
    <3>1. hashes' = Append(hashes, BaseLine(b * Sectors, digest))
      BY <2>1 DEF n
    <3>2. BaseLine(b * Sectors, digest) \in DigestLine
      BY <2>2, <2>3, BaseLineType
    <3> QED
      BY <3>1, <3>2 DEF SenderTypeOK
  <2>5. cursor' \in Nat
    BY <2>1, <2>2 DEF n
  <2> QED
    BY <1>5, <2>1, <2>4, <2>5
    DEF HashRun, inputVars, pipeVars, PipeTypeOK, SenderTypeOK, Chunks, BlocksFit
<1>6. CASE ChecksumDone
  BY <1>6 DEF ChecksumDone, inputVars, pipeVars, PipeTypeOK, SenderTypeOK, Chunks,
              BlocksFit
<1>7. CASE PutBaseLine
  <2>1. Head(hashes) \in DigestLine /\ Tail(hashes) \in Seq(DigestLine)
    BY <1>7, HeadTailProperties DEF PutBaseLine, SenderTypeOK
  <2>2. PipeTypeOK'
    BY <1>7, <2>1, WriteType DEF PutBaseLine, Record, PipeTypeOK
  <2> QED
    BY <1>7, <2>1, <2>2 DEF PutBaseLine, inputVars, SenderTypeOK, Chunks, BlocksFit
<1>8. CASE PutBaseEnd
  <2>1. PipeTypeOK'
    <3>1. EmptyLine \in Record
      BY DEF EmptyLine, Record
    <3>2. CASE Write(EmptyLine)
      BY <1>8, <3>1, <3>2, WriteType DEF PutBaseEnd, PipeTypeOK
    <3>3. CASE UNCHANGED <<sent, rd, ropen, cut>>
      BY <1>8, <3>3 DEF PutBaseEnd, PipeTypeOK
    <3> QED
      BY <1>8, <3>2, <3>3 DEF PutBaseEnd
  <2> QED
    BY <1>8, <2>1 DEF PutBaseEnd, inputVars, SenderTypeOK, Chunks, BlocksFit
<1>9. CASE ReadBlock
  <2>1. PICK b \in Pending :
          buf' = [blk |-> b, val |-> IF blocks[b] = DeltaOpDelete
                                     THEN Zero ELSE volA[b]]
    BY <1>9 DEF ReadBlock
  <2>2. b \in DOMAIN blocks /\ b \in Nat
    BY BlocksNat DEF Pending, Delta
  <2>3. blocks[b] # DeltaOpDelete => volA[b] \in Value
    BY <2>2, VolumeDomain DEF BlocksFit, SenderTypeOK
  <2>4. buf' \in [blk : Nat, val : Value]
    BY <2>1, <2>2, <2>3, ValueAssumption
  <2> QED
    BY <1>9, <2>4 DEF ReadBlock, inputVars, pipeVars, PipeTypeOK, SenderTypeOK,
                      Chunks, BlocksFit
<1>10. CASE PutBlock
  <2>1. PipeTypeOK'
    BY <1>10, BlockRecordType, WriteType
    DEF PutBlock, Record, PipeTypeOK, SenderTypeOK
  <2> QED
    BY <1>10, <2>1 DEF PutBlock, inputVars, SenderTypeOK, Chunks, BlocksFit
<1>11. CASE ActivateFails \/ ChecksumFails \/ ReadFails \/ SendDone
              \/ BrokenPipe \/ SenderKilled
  <2>1. /\ spc' \in SenderEnd
        /\ wopen' = FALSE
        /\ UNCHANGED <<inputVars, blocks, cursor, hashes, buf, sent, rd, ropen, cut>>
    BY <1>11 DEF ActivateFails, ChecksumFails, ReadFails, SendDone, BrokenPipe,
                 SenderKilled, SenderExit
  <2> QED
    BY <2>1 DEF inputVars, PipeTypeOK, SenderTypeOK, Chunks, BlocksFit
<1>12. CASE WriteVolume
  <2>1. PICK b \in DOMAIN volA, v \in Value :
          /\ volA' = [volA EXCEPT ![b] = v]
          /\ seen' = [seen EXCEPT ![b] = @ \cup {v}]
    BY <1>12 DEF WriteVolume
  <2>2. volA' \in Volume /\ DOMAIN volA' = DOMAIN volA
    BY <2>1, VolumeExcept DEF SenderTypeOK
  <2>3. seen' \in [DOMAIN volA' -> SUBSET Value]
    BY <2>1, <2>2 DEF SenderTypeOK
  <2> QED
    BY <1>12, <2>2, <2>3
    DEF WriteVolume, pipeVars, PipeTypeOK, SenderTypeOK, Chunks, BlocksFit
<1> QED
  BY <1>1, <1>2, <1>3, <1>4, <1>5, <1>6, <1>7, <1>8, <1>9, <1>10, <1>11, <1>12
  DEF SenderNext, SenderStep

-----------------------------------------------------------------------------
(* The steps of lvpatch, of the transport and of the user.                 *)

\* A consumed record is of the kind its type field says.
LEMMA RecordKinds ==
  ASSUME NEW rec \in Record
  PROVE  /\ rec.type = "head" => rec \in HeaderRecord
         /\ rec.type = "D" => rec \in DigestLine
         /\ rec.type = "W" => rec \in DataRecord
BY DEF Record, HeaderRecord, DigestLine, DataRecord

\* Whatever is written into a volume, it remains one.
LEMMA Garbled ==
  ASSUME NEW vol \in Volume, NEW w \in [DOMAIN vol -> Value]
  PROVE  w \in Volume
BY DEF Volume

LEMMA ReceiverStepType ==
  ASSUME PipeTypeOK, ReceiverTypeOK, NewExists, ReceiverNext
  PROVE  PipeTypeOK' /\ ReceiverTypeOK' /\ NewExists'
<1> USE DEF ReceiverEnd
<1>1. CASE ReadHeader
  <2>1. PipeTypeOK'
    BY <1>1, ConsumeType DEF ReadHeader, PipeTypeOK
  <2>2. hdr' \in HeaderRecord
    <3>1. CASE Available /\ NextRecord.type = "head" /\ hdr' = NextRecord
      BY <3>1, RecordKinds DEF PipeTypeOK, Available, NextRecord
    <3>2. CASE hdr' = hdr
      BY <3>2 DEF ReceiverTypeOK
    <3> QED
      BY <1>1, <3>1, <3>2 DEF ReadHeader
  <2> QED
    BY <1>1, <2>1, <2>2 DEF ReadHeader, targetVars, ReceiverTypeOK, NewExists
<1>2. CASE ReadBaseBlocks
  <2>1. PipeTypeOK'
    BY <1>2, ConsumeType DEF ReadBaseBlocks, PipeTypeOK
  <2>2. baseBlocks' \in Seq(DigestLine)
    <3>1. CASE Available /\ NextRecord.type = "D"
      <4>1. NextRecord \in DigestLine
        BY <3>1, RecordKinds DEF PipeTypeOK, Available, NextRecord
      <4> QED
        BY <1>2, <4>1 DEF ReadBaseBlocks, ReceiverTypeOK
    <3>2. CASE baseBlocks' = baseBlocks
      BY <3>2 DEF ReceiverTypeOK
    <3> QED
      BY <1>2, <3>1, <3>2 DEF ReadBaseBlocks
  <2> QED
    BY <1>2, <2>1, <2>2 DEF ReadBaseBlocks, targetVars, ReceiverTypeOK, NewExists
<1>3. CASE Verify \/ OpenNew
  BY <1>3 DEF Verify, OpenNew, targetVars, pipeVars, PipeTypeOK, ReceiverTypeOK,
              NewExists
<1>4. CASE CreateSnapshot
  BY <1>4 DEF CreateSnapshot, targetVars, pipeVars, PipeTypeOK, ReceiverTypeOK,
              NewExists
<1>5. CASE PatchBlock
  <2>1. PipeTypeOK' /\ NextRecord \in DataRecord
    BY <1>5, ConsumeType, RecordKinds DEF PatchBlock, PipeTypeOK
  <2>2. new \in Volume
    BY <1>5 DEF PatchBlock, NewExists
  <2>3. new' \in Volume
    BY <1>5, <2>1, <2>2, VolumeExcept DEF PatchBlock, Written, DataRecord
  <2> QED
    BY <1>5, <2>1, <2>3 DEF PatchBlock, targetVars, ReceiverTypeOK, NewExists
<1>6. CASE PatchFails
  <2>1. PipeTypeOK' /\ NextRecord \in DataRecord
    BY <1>6, ConsumeType, RecordKinds DEF PatchFails, ReceiverExit, PipeTypeOK
  <2>2. new \in Volume
    BY <1>6 DEF PatchFails, NewExists
  <2>3. new' \in Volume
    BY <1>6, <2>1, <2>2, VolumeExcept DEF PatchFails, Written, DataRecord
  <2> QED
    BY <1>6, <2>1, <2>3
    DEF PatchFails, ReceiverExit, targetVars, ReceiverTypeOK, NewExists
<1>7. CASE VerifyFails \/ CreateSnapshotFails \/ OpenNewFails \/ PatchDone
             \/ ReceiverKilled
  BY <1>7 DEF VerifyFails, CreateSnapshotFails, OpenNewFails, PatchDone,
              ReceiverKilled, ReceiverExit, targetVars, PipeTypeOK, ReceiverTypeOK,
              NewExists
<1>8. CASE WriteBase
  <2>1. PICK b \in DOMAIN base, v \in Value :
          /\ base' = [base EXCEPT ![b] = v]
          /\ dirty' = IF new = Absent THEN dirty \cup {b} ELSE dirty
    BY <1>8 DEF WriteBase
  <2>2. base' \in Volume /\ DOMAIN base' = DOMAIN base
    BY <2>1, VolumeExcept DEF ReceiverTypeOK
  <2>3. dirty' \subseteq DOMAIN base'
    BY <2>1, <2>2 DEF ReceiverTypeOK
  <2> QED
    BY <1>8, <2>2, <2>3
    DEF WriteBase, pipeVars, PipeTypeOK, ReceiverTypeOK, NewExists
<1>9. CASE MisreadLine
  BY <1>9 DEF MisreadLine, targetVars, pipeVars, PipeTypeOK, ReceiverTypeOK, NewExists
<1>10. CASE MisreadData
  <2>1. PipeTypeOK'
    BY <1>10, ConsumeType DEF MisreadData, PipeTypeOK
  <2> QED
    BY <1>10, <2>1 DEF MisreadData, targetVars, ReceiverTypeOK, NewExists
<1>11. CASE MisreadWrite
  <2>1. new' \in Volume
    BY <1>11, Garbled DEF MisreadWrite, NewExists
  <2> QED
    BY <1>11, <2>1
    DEF MisreadWrite, targetVars, pipeVars, PipeTypeOK, ReceiverTypeOK, NewExists
<1>12. CASE MisreadFails
  <2>1. new' \in Volume
    BY <1>12, Garbled DEF MisreadFails, NewExists
  <2> QED
    BY <1>12, <2>1
    DEF MisreadFails, ReceiverExit, targetVars, PipeTypeOK, ReceiverTypeOK, NewExists
<1> QED
  BY <1>1, <1>2, <1>3, <1>4, <1>5, <1>6, <1>7, <1>8, <1>9, <1>10, <1>11, <1>12
  DEF ReceiverNext, ReceiverStep

LEMMA CutPipeType ==
  ASSUME PipeTypeOK, CutPipe
  PROVE  PipeTypeOK'
<1>1. PICK n \in rd..Len(sent) : sent' = SubSeq(sent, 1, n)
  BY DEF CutPipe
<1>2. n \in Nat /\ rd \in Nat /\ rd <= n /\ n <= Len(sent)
  BY <1>1 DEF PipeTypeOK
<1>3. sent' \in Seq(Record) /\ Len(sent') = n
  <2>1. \A i \in 1..n : sent[i] \in Record
    BY <1>2, ElementOfSeq DEF PipeTypeOK
  <2> QED
    BY <1>1, <1>2, <2>1, SubSeqProperties
<1>4. rd' \in 0..Len(sent')
  BY <1>2, <1>3 DEF CutPipe
<1>5. wopen' \in BOOLEAN /\ ropen' \in BOOLEAN /\ cut' \in BOOLEAN
  BY DEF CutPipe
<1> QED
  BY <1>3, <1>4, <1>5 DEF PipeTypeOK

LEMMA NoHeaderType == NoHeader \in HeaderRecord
BY DEF NoHeader, Header, HeaderRecord

-----------------------------------------------------------------------------
(* The theorem.                                                            *)

LEMMA TypeInit == Init => TypeInv
<1> SUFFICES ASSUME Init PROVE TypeInv
  OBVIOUS
<1>1. PipeTypeOK
  <2>1. <<>> \in Seq(Record) /\ Len(<<>>) = 0
    BY EmptySeq
  <2>2. sent \in Seq(Record) /\ rd \in 0..Len(sent)
    BY <2>1 DEF Init, PipeInit
  <2>3. wopen \in BOOLEAN /\ ropen \in BOOLEAN /\ cut \in BOOLEAN
    BY DEF Init, PipeInit
  <2> QED
    BY <2>2, <2>3 DEF PipeTypeOK
<1>2. SenderTypeOK /\ BlocksFit
  <2>1. \A b \in DOMAIN volA : volA[b] \in Value
    BY VolumeDomain DEF Init, SenderInit
  <2>2. seen \in [DOMAIN volA -> SUBSET Value]
    BY <2>1 DEF Init, SenderInit
  <2>3. buf \in [blk : Nat, val : Value]
    BY ValueAssumption DEF Init, SenderInit, NoChunk
  <2> QED
    BY <2>2, <2>3 DEF Init, SenderInit, SenderTypeOK, BlocksFit
<1>3. ReceiverTypeOK /\ NewExists
  <2>1. <<>> \in Seq(DigestLine)
    BY EmptySeq
  <2> QED
    BY <2>1, NoHeaderType
    DEF Init, ReceiverInit, ReceiverTypeOK, NewExists, ReceiverEnd
<1> QED
  BY <1>1, <1>2, <1>3 DEF TypeInv, TypeOK, Init

LEMMA TypeNext == TypeInv /\ [Next]_vars => TypeInv'
<1> SUFFICES ASSUME TypeInv, [Next]_vars PROVE TypeInv'
  OBVIOUS
<1> USE DEF TypeInv, TypeOK
<1>1. CASE SenderNext /\ UNCHANGED <<receiverVars, runs>>
  BY <1>1, SenderStepType DEF receiverVars, targetVars, ReceiverTypeOK, NewExists
<1>2. CASE ReceiverNext /\ UNCHANGED <<senderVars, runs>>
  BY <1>2, ReceiverStepType DEF senderVars, SenderTypeOK, BlocksFit, Chunks
<1>3. CASE CutPipe /\ UNCHANGED <<senderVars, receiverVars, runs>>
  BY <1>3, CutPipeType DEF senderVars, receiverVars, targetVars, SenderTypeOK,
                           ReceiverTypeOK, BlocksFit, NewExists, Chunks
<1>4. CASE Rerun
  <2>1. PipeTypeOK'
    BY <1>4 DEF Rerun, PipeTypeOK
  <2>2. SenderTypeOK' /\ BlocksFit'
    BY <1>4 DEF Rerun, senderVars, SenderTypeOK, BlocksFit, Chunks
  <2>3. ReceiverTypeOK' /\ NewExists'
    <3>1. <<>> \in Seq(DigestLine)
      BY EmptySeq
    <3> QED
      BY <1>4, <3>1, NoHeaderType DEF Rerun, targetVars, ReceiverTypeOK, NewExists
  <2> QED
    BY <1>4, <2>1, <2>2, <2>3 DEF Rerun
<1>5. CASE UNCHANGED vars
  BY <1>5 DEF vars, pipeVars, senderVars, receiverVars, targetVars, PipeTypeOK,
              SenderTypeOK, ReceiverTypeOK, BlocksFit, NewExists, Chunks
<1> QED
  BY <1>1, <1>2, <1>3, <1>4, <1>5 DEF Next, Terminated

\* Every variable keeps its type, and no step of either program applies a volume
\* or a delta outside its domain.
THEOREM TypeInvariance == Spec => []TypeInv
<1> QED
  BY TypeInit, TypeNext, PTL DEF Spec

\* The type invariant of Transfer.
THEOREM TypeCorrect == Spec => []TypeOK
<1>1. TypeInv => TypeOK
  BY DEF TypeInv
<1> QED
  BY <1>1, TypeInvariance, PTL

-----------------------------------------------------------------------------
(* How the pipe changes.                                                   *)

\* A write appends one record.
LEMMA WriteAppends ==
  ASSUME PipeTypeOK, NEW rec, Write(rec)
  PROVE  /\ Len(sent) \in Nat /\ Len(sent') = Len(sent) + 1
         /\ \A i \in 1..Len(sent) : sent'[i] = sent[i]
         /\ sent'[Len(sent) + 1] = rec
         /\ sent' # <<>>
<1>1. sent \in Seq(Record) /\ sent' = Append(sent, rec)
  BY DEF PipeTypeOK, Write
<1>2. Len(sent) \in Nat /\ Len(sent') = Len(sent) + 1
  BY <1>1
<1>3. \A i \in 1..Len(sent) : sent'[i] = sent[i]
  BY <1>1
<1>4. sent'[Len(sent) + 1] = rec
  BY <1>1
<1> QED
  BY <1>1, <1>2, <1>3, <1>4

\* A broken transport leaves a prefix that has what was read.
LEMMA CutLeavesPrefix ==
  ASSUME PipeTypeOK, CutPipe
  PROVE  /\ Len(sent') \in Nat /\ Len(sent) \in Nat
         /\ rd' = rd /\ rd <= Len(sent') /\ Len(sent') <= Len(sent)
         /\ \A i \in 1..Len(sent') : sent'[i] = sent[i]
         /\ sent = <<>> => sent' = <<>>
         /\ ~wopen' /\ ~ropen'
<1>1. PICK n \in rd..Len(sent) : sent' = SubSeq(sent, 1, n)
  BY DEF CutPipe
<1>2. n \in Nat /\ rd \in Nat /\ rd <= n /\ n <= Len(sent) /\ Len(sent) \in Nat
  BY <1>1 DEF PipeTypeOK
<1>3. /\ Len(sent') = n
      /\ \A i \in 1..n : sent'[i] = sent[i]
  <2>1. \A i \in 1..n : sent[i] \in Record
    BY <1>2, ElementOfSeq DEF PipeTypeOK
  <2>2. /\ Len(SubSeq(sent, 1, n)) = n
        /\ \A i \in 1..n : SubSeq(sent, 1, n)[i] = sent[i]
    BY <1>2, <2>1, SubSeqProperties
  <2> QED
    BY <1>1, <2>2
<1>4. sent = <<>> => sent' = <<>>
  <2>1. sent = <<>> => n = 0
    BY <1>2
  <2>2. n = 0 => SubSeq(sent, 1, n) = <<>>
    BY SubSeqEmpty
  <2> QED
    BY <1>1, <2>1, <2>2
<1>5. rd' = rd /\ ~wopen' /\ ~ropen'
  BY DEF CutPipe
<1> QED
  BY <1>2, <1>3, <1>4, <1>5

\* What a step of lvdiff may do to what lvpatch sees.
LEMMA SenderEffect ==
  ASSUME PipeTypeOK, SenderNext
  PROVE  /\ UNCHANGED <<level, meta, rd, ropen, cut>>
         /\ wopen' = wopen \/ ~wopen'
         /\ \/ sent' = sent
            \/ spc \notin SenderEnd /\ ropen /\ \E rec : Write(rec)
<1> USE DEF inputVars, pipeVars, Write, SenderEnd, SenderExit
<1>1. CASE Prepare \/ Activate \/ HashRun \/ ChecksumDone \/ ReadBlock \/ WriteVolume
  BY <1>1 DEF Prepare, Activate, HashRun, ChecksumDone, ReadBlock, WriteVolume
<1>2. CASE PrepareFails \/ PutHeader \/ PutBaseLine \/ PutBlock
  BY <1>2 DEF PrepareFails, PutHeader, PutBaseLine, PutBlock
<1>3. CASE PutBaseEnd
  BY <1>3 DEF PutBaseEnd
<1>4. CASE ActivateFails \/ ChecksumFails \/ ReadFails \/ SendDone \/ BrokenPipe
             \/ SenderKilled
  BY <1>4 DEF ActivateFails, ChecksumFails, ReadFails, SendDone, BrokenPipe,
              SenderKilled
<1> QED
  BY <1>1, <1>2, <1>3, <1>4 DEF SenderNext, SenderStep

-----------------------------------------------------------------------------
(* The grammar of the stream.                                              *)

\* A record written by a running lvdiff keeps the stream in the grammar, if it is
\* the right one: this is what the five writes have to show.
LEMMA StreamWrite ==
  ASSUME PipeTypeOK, HeaderFirst, LinesBeforeBlocks, NEW rec, Write(rec),
         UNCHANGED <<level, meta>>,
         spc \in SenderEnd => spc' \in SenderEnd,
         \A i \in Sent : ~Is(i, "text"),
         rec.type \in {"head", "text"} <=> sent = <<>>,
         rec.type = "head" => rec.level = HeaderLevel /\ rec.chunk = Sectors,
         rec.type = "text" => spc' \in SenderEnd,
         rec.type \in {"D", "end"} => level # 0 /\ \A i \in Sent : ~Is(i, "end"),
         rec.type = "W" => level = 0 \/ \E i \in Sent : Is(i, "end"),
         rec.type \in {"head", "text", "D", "end", "W"}
  PROVE  HeaderFirst' /\ LinesBeforeBlocks'
<1> DEFINE n == Len(sent)
<1>1. /\ n \in Nat /\ Len(sent') = n + 1
      /\ \A i \in 1..n : sent'[i] = sent[i]
      /\ sent'[n+1] = rec
  BY WriteAppends
<1>2. sent = <<>> <=> n = 0
  BY DEF PipeTypeOK
<1>3. HeaderLevel' = HeaderLevel
  BY DEF HeaderLevel
<1> HIDE DEF n
<1>4. ASSUME NEW i \in 1..(n+1)
      PROVE  /\ (sent'[i].type = "head" \/ sent'[i].type = "text") <=> i = 1
             /\ sent'[i].type = "head" =>
                  sent'[i].level = HeaderLevel /\ sent'[i].chunk = Sectors
             /\ sent'[i].type = "text" => n = 0 /\ spc' \in SenderEnd
  <2>1. CASE i \in 1..n
    <3>1. sent'[i] = sent[i] /\ i \in Sent
      BY <1>1, <2>1 DEF Sent, n
    <3> QED
      BY <2>1, <3>1 DEF HeaderFirst, Is
  <2>2. CASE i = n + 1
    BY <1>1, <1>2, <2>2
  <2> QED
    BY <1>1, <2>1, <2>2
<1>5. HeaderFirst'
  BY <1>1, <1>3, <1>4 DEF HeaderFirst, Sent, Is, n
<1>6. ASSUME NEW i \in 1..(n+1)
      PROVE  /\ level = 0 => sent'[i].type # "D" /\ sent'[i].type # "end"
             /\ level # 0 /\ sent'[i].type = "W" =>
                  \E j \in 1..(i-1) : sent'[j].type = "end"
             /\ \A j \in 1..(i-1) : sent'[j].type = "end" => sent'[i].type = "W"
  <2>1. CASE i \in 1..n
    <3>1. sent'[i] = sent[i] /\ i \in Sent
      BY <1>1, <2>1 DEF Sent, n
    <3>2. \A j \in 1..(i-1) : sent'[j] = sent[j]
      BY <1>1, <2>1
    <3> QED
      BY <2>1, <3>1, <3>2 DEF LinesBeforeBlocks, Is
  <2>2. CASE i = n + 1
    <3>1. \A j \in 1..(i-1) : sent'[j] = sent[j] /\ j \in Sent
      BY <1>1, <2>2 DEF Sent, n
    <3>2. sent'[i] = rec
      BY <1>1, <2>2
    <3>3. Sent = 1..(i-1)
      BY <1>1, <2>2 DEF Sent, n
    <3>4. rec.type \in {"head", "text"} => 1..(i-1) = {}
      BY <1>1, <1>2, <2>2
    <3> QED
      BY <3>1, <3>2, <3>3, <3>4 DEF Is
  <2> QED
    BY <1>1, <2>1, <2>2
<1>7. LinesBeforeBlocks'
  BY <1>1, <1>6 DEF LinesBeforeBlocks, Sent, Is, n
<1> QED
  BY <1>5, <1>7

LEMMA StreamInit == Init => StreamInv
<1> SUFFICES ASSUME Init PROVE StreamInv
  OBVIOUS
<1>1. Sent = {}
  BY DEF Init, PipeInit, Sent
<1> QED
  BY <1>1 DEF Init, PipeInit, SenderInit, StreamInv, HeaderFirst, LinesBeforeBlocks,
              SenderPlace, DigestsMade, Ends, SenderEnd

\* Steps that write nothing keep the grammar.
LEMMA StreamQuiet ==
  ASSUME HeaderFirst, LinesBeforeBlocks, UNCHANGED <<sent, level, meta>>,
         spc \in SenderEnd => spc' \in SenderEnd
  PROVE  HeaderFirst' /\ LinesBeforeBlocks'
<1>1. HeaderFirst'
  BY DEF HeaderFirst, Sent, Is, HeaderLevel
<1>2. LinesBeforeBlocks'
  BY DEF LinesBeforeBlocks, Sent, Is
<1> QED
  BY <1>1, <1>2

LEMMA StreamSender ==
  ASSUME PipeTypeOK, SenderTypeOK, StreamInv, SenderNext
  PROVE  StreamInv'
<1> USE DEF SenderEnd
<1>1. CASE Prepare
  <2>1. HeaderFirst' /\ LinesBeforeBlocks'
    BY <1>1, StreamQuiet DEF StreamInv, Prepare, inputVars, pipeVars
  <2> QED
    BY <1>1, <2>1 DEF Prepare, inputVars, pipeVars, StreamInv, SenderPlace,
                      DigestsMade, Ends, Sent, Is
<1>2. CASE PrepareFails
  <2>1. sent = <<>> /\ Sent = {}
    BY <1>2 DEF PrepareFails, StreamInv, Ends, Sent
  <2>2. HeaderFirst' /\ LinesBeforeBlocks'
    BY <1>2, <2>1, StreamWrite
    DEF PrepareFails, SenderExit, inputVars, ErrorText, StreamInv
  <2> QED
    BY <1>2, <2>2 DEF PrepareFails, SenderExit, inputVars, StreamInv, SenderPlace,
                      DigestsMade, Ends
<1>3. CASE PutHeader
  <2>1. sent = <<>> /\ Sent = {}
    BY <1>3 DEF PutHeader, StreamInv, Ends, Sent
  <2>2. HeaderFirst' /\ LinesBeforeBlocks'
    BY <1>3, <2>1, StreamWrite DEF PutHeader, inputVars, Header, StreamInv
  <2>3. SenderPlace'
    <3>1. Len(sent) = 0
      BY <2>1
    <3>2. PICK rec : Write(rec) /\ rec.type = "head"
      BY <1>3 DEF PutHeader, Header
    <3>3. Len(sent') = 1 /\ sent'[1] = rec /\ sent' # <<>>
      BY <3>1, <3>2, WriteAppends
    <3>4. \A i \in Sent' : sent'[i].type = "head"
      BY <3>2, <3>3 DEF Sent
    <3> QED
      BY <1>3, <3>3, <3>4 DEF PutHeader, SenderPlace, Is
  <2> QED
    BY <1>3, <2>2, <2>3 DEF PutHeader, Write, inputVars, StreamInv, DigestsMade, Ends
<1>4. CASE Activate
  <2>1. HeaderFirst' /\ LinesBeforeBlocks'
    BY <1>4, StreamQuiet DEF StreamInv, Activate, inputVars, pipeVars
  <2> QED
    BY <1>4, <2>1 DEF Activate, inputVars, pipeVars, StreamInv, SenderPlace,
                      DigestsMade, Ends, Sent, Is
<1>5. CASE HashRun
  <2>1. HeaderFirst' /\ LinesBeforeBlocks'
    BY <1>5, StreamQuiet DEF StreamInv, HashRun, inputVars, pipeVars
  <2>2. hashes' # <<>>
    <3>1. PICK rec : hashes' = Append(hashes, rec)
      BY <1>5 DEF HashRun
    <3> QED
      BY <3>1 DEF SenderTypeOK
  <2> QED
    BY <1>5, <2>1, <2>2 DEF HashRun, inputVars, pipeVars, StreamInv, SenderPlace,
                            DigestsMade, Ends, Sent, Is
<1>6. CASE ChecksumDone
  <2>1. HeaderFirst' /\ LinesBeforeBlocks'
    BY <1>6, StreamQuiet DEF StreamInv, ChecksumDone, inputVars, pipeVars
  <2>2. hashes = <<>> => DOMAIN blocks = {}
    <3> SUFFICES ASSUME hashes = <<>>, DOMAIN blocks # {} PROVE FALSE
      OBVIOUS
    <3>1. cursor = 0
      BY <1>6 DEF ChecksumDone, StreamInv, DigestsMade
    <3>2. 0 \in DOMAIN blocks
      BY <1>6 DEF ChecksumDone, ChecksumPanics
    <3>3. 0 \in HeadsLeft
      BY <3>1, <3>2 DEF HeadsLeft, RunHeads
    <3> QED
      BY <1>6, <3>3 DEF ChecksumDone
  <2> QED
    BY <1>6, <2>1, <2>2 DEF ChecksumDone, inputVars, pipeVars, StreamInv,
                            SenderPlace, DigestsMade, Ends, Sent, Is
<1>7. CASE PutBaseLine
  <2> DEFINE rec == Head(hashes)
  <2>1. rec.type = "D"
    <3>1. rec \in DigestLine
      BY <1>7, HeadTailProperties DEF PutBaseLine, SenderTypeOK
    <3> QED
      BY <3>1 DEF DigestLine
  <2>2. /\ ropen /\ sent # <<>> /\ level # 0
        /\ \A i \in Sent : ~Is(i, "W") /\ ~Is(i, "end") /\ ~Is(i, "text")
    BY <1>7 DEF PutBaseLine, Write, StreamInv, SenderPlace, HeaderFirst, DigestsMade
  <2> HIDE DEF rec
  <2>3. Write(rec) /\ UNCHANGED <<level, meta, wopen, blocks, cursor>>
    BY <1>7 DEF PutBaseLine, inputVars, rec
  <2>4. HeaderFirst' /\ LinesBeforeBlocks'
    BY <1>7, <2>1, <2>2, <2>3, StreamWrite DEF PutBaseLine, StreamInv
  <2>5. SenderPlace'
    <3>1. \A i \in Sent' : ~Is(i, "W")' /\ ~Is(i, "end")'
      BY <2>1, <2>2, <2>3, WriteAppends DEF Sent, Is
    <3> QED
      BY <1>7, <2>3, <3>1, WriteAppends DEF PutBaseLine, SenderPlace
  <2>6. DigestsMade'
    <3>1. Len(hashes) # 1 => hashes' # <<>>
      <4>1. Len(hashes') = Len(hashes) - 1 /\ hashes \in Seq(DigestLine)
        BY <1>7, HeadTailProperties DEF PutBaseLine, SenderTypeOK
      <4> QED
        BY <4>1
    <3> QED
      BY <1>7, <2>2, <2>3, <3>1 DEF PutBaseLine, DigestsMade
  <2> QED
    BY <1>7, <2>3, <2>4, <2>5, <2>6 DEF PutBaseLine, Write, StreamInv, Ends
<1>8. CASE PutBaseEnd /\ spc = "putend"
  <2>1. /\ ropen /\ sent # <<>> /\ level # 0
        /\ \A i \in Sent : ~Is(i, "W") /\ ~Is(i, "end") /\ ~Is(i, "text")
    BY <1>8 DEF PutBaseEnd, Write, StreamInv, SenderPlace, HeaderFirst, DigestsMade
  <2>2. Write(EmptyLine) /\ UNCHANGED <<level, meta, wopen, blocks>>
    BY <1>8 DEF PutBaseEnd, inputVars
  <2>3. HeaderFirst' /\ LinesBeforeBlocks'
    BY <1>8, <2>1, <2>2, StreamWrite DEF PutBaseEnd, EmptyLine, StreamInv
  <2>4. SenderPlace'
    <3>1. EmptyLine.type = "end"
      BY DEF EmptyLine
    <3>2. Len(sent) + 1 \in Sent' /\ sent'[Len(sent) + 1].type = "end"
      BY <2>2, <3>1, WriteAppends DEF Sent
    <3>3. sent' # <<>> /\ spc' = "blocks"
      BY <1>8, <2>2, WriteAppends DEF PutBaseEnd
    <3> QED
      BY <3>2, <3>3 DEF SenderPlace, Is
  <2> QED
    BY <1>8, <2>2, <2>3, <2>4 DEF PutBaseEnd, Write, StreamInv, DigestsMade, Ends
<1>9. CASE PutBaseEnd /\ spc = "putbase"
  <2>1. HeaderFirst' /\ LinesBeforeBlocks'
    BY <1>9, StreamQuiet DEF StreamInv, PutBaseEnd, inputVars
  <2>2. DOMAIN blocks = {}
    BY <1>9 DEF PutBaseEnd, StreamInv, DigestsMade
  <2> QED
    BY <1>9, <2>1, <2>2 DEF PutBaseEnd, inputVars, StreamInv, SenderPlace,
                            DigestsMade, Ends, Sent, Is
<1>10. CASE ReadBlock
  <2>1. HeaderFirst' /\ LinesBeforeBlocks'
    BY <1>10, StreamQuiet DEF StreamInv, ReadBlock, inputVars, pipeVars
  <2>2. DOMAIN blocks # {}
    BY <1>10 DEF ReadBlock, Pending, Delta
  <2> QED
    BY <1>10, <2>1, <2>2 DEF ReadBlock, inputVars, pipeVars, StreamInv, SenderPlace,
                             DigestsMade, Ends, Sent, Is
<1>11. CASE PutBlock
  <2> DEFINE rec == BlockRecord(buf.blk, buf.val)
  <2>1. rec.type = "W"
    BY DEF BlockRecord
  <2>2. /\ ropen /\ sent # <<>>
        /\ level = 0 \/ \E i \in Sent : Is(i, "end")
        /\ \A i \in Sent : ~Is(i, "text")
    BY <1>11 DEF PutBlock, Write, StreamInv, SenderPlace, HeaderFirst, DigestsMade
  <2> HIDE DEF rec
  <2>3. Write(rec) /\ UNCHANGED <<level, meta, wopen, blocks>>
    BY <1>11 DEF PutBlock, inputVars, rec
  <2>4. HeaderFirst' /\ LinesBeforeBlocks'
    BY <1>11, <2>1, <2>2, <2>3, StreamWrite DEF PutBlock, StreamInv
  <2>5. SenderPlace'
    <3>1. level # 0 => \E i \in Sent' : Is(i, "end")'
      BY <2>2, <2>3, WriteAppends DEF Sent, Is
    <3> QED
      BY <1>11, <2>3, <3>1, WriteAppends DEF PutBlock, SenderPlace
  <2> QED
    BY <1>11, <2>3, <2>4, <2>5 DEF PutBlock, Write, StreamInv, DigestsMade, Ends
<1>12. CASE ActivateFails \/ ChecksumFails \/ ReadFails \/ SendDone
              \/ BrokenPipe \/ SenderKilled
  <2>1. /\ spc' \in SenderEnd
        /\ ~wopen'
        /\ UNCHANGED <<level, meta, sent>>
    BY <1>12 DEF ActivateFails, ChecksumFails, ReadFails, SendDone, BrokenPipe,
                 SenderKilled, SenderExit, inputVars
  <2>2. HeaderFirst' /\ LinesBeforeBlocks'
    BY <2>1, StreamQuiet DEF StreamInv
  <2> QED
    BY <2>1, <2>2 DEF StreamInv, SenderPlace, DigestsMade, Ends
<1>13. CASE WriteVolume
  <2>1. HeaderFirst' /\ LinesBeforeBlocks'
    BY <1>13, StreamQuiet DEF StreamInv, WriteVolume, pipeVars
  <2> QED
    BY <1>13, <2>1 DEF WriteVolume, pipeVars, StreamInv, SenderPlace, DigestsMade,
                       Ends, Sent, Is
<1> QED
  BY <1>1, <1>2, <1>3, <1>4, <1>5, <1>6, <1>7, <1>8, <1>9, <1>10, <1>11, <1>12, <1>13
  DEF SenderNext, SenderStep, PutBaseEnd

\* What a step of lvpatch may do to what lvdiff sees.
LEMMA ReceiverEffect ==
  ASSUME ReceiverNext
  PROVE  /\ UNCHANGED <<sent, wopen, cut>>
         /\ ropen' = ropen \/ ~ropen'
<1> USE DEF pipeVars, Consume, ReceiverExit
<1>1. CASE ReadHeader \/ ReadBaseBlocks
  BY <1>1 DEF ReadHeader, ReadBaseBlocks
<1>2. CASE Verify \/ VerifyFails \/ CreateSnapshot \/ CreateSnapshotFails
  BY <1>2 DEF Verify, VerifyFails, CreateSnapshot, CreateSnapshotFails
<1>3. CASE OpenNew \/ OpenNewFails \/ PatchBlock \/ PatchFails
  BY <1>3 DEF OpenNew, OpenNewFails, PatchBlock, PatchFails
<1>4. CASE PatchDone \/ ReceiverKilled \/ WriteBase
  BY <1>4 DEF PatchDone, ReceiverKilled, WriteBase
<1>5. CASE MisreadLine \/ MisreadData \/ MisreadWrite \/ MisreadFails
  BY <1>5 DEF MisreadLine, MisreadData, MisreadWrite, MisreadFails
<1> QED
  BY <1>1, <1>2, <1>3, <1>4, <1>5 DEF ReceiverNext, ReceiverStep

LEMMA StreamCut ==
  ASSUME PipeTypeOK, StreamInv, CutPipe, UNCHANGED senderVars
  PROVE  StreamInv'
<1> USE DEF senderVars
<1>1. /\ Len(sent') \in Nat /\ Len(sent) \in Nat /\ Len(sent') <= Len(sent)
      /\ \A i \in 1..Len(sent') : sent'[i] = sent[i]
      /\ sent = <<>> => sent' = <<>>
      /\ ~wopen' /\ ~ropen'
  BY CutLeavesPrefix
<1>2. \A i \in Sent' : i \in Sent /\ sent'[i] = sent[i]
  BY <1>1 DEF Sent
<1>3. HeaderFirst'
  <2>1. \A i \in Sent' : Len(sent) = 1 => Len(sent') = 1
    BY <1>1 DEF Sent
  <2> QED
    BY <1>2, <2>1 DEF StreamInv, HeaderFirst, Is, HeaderLevel
<1>4. LinesBeforeBlocks'
  <2>1. \A i \in Sent' : \A j \in 1..(i-1) : sent'[j] = sent[j]
    BY <1>1 DEF Sent
  <2> QED
    BY <1>2, <2>1 DEF StreamInv, LinesBeforeBlocks, Is
<1> QED
  BY <1>1, <1>3, <1>4 DEF StreamInv, SenderPlace, DigestsMade, Ends

LEMMA StreamNext ==
  ASSUME TypeInv, StreamInv, [Next]_vars
  PROVE  StreamInv'
<1> USE DEF TypeInv, TypeOK
<1>1. CASE SenderNext /\ UNCHANGED <<receiverVars, runs>>
  BY <1>1, StreamSender
<1>2. CASE ReceiverNext /\ UNCHANGED <<senderVars, runs>>
  <2>1. HeaderFirst' /\ LinesBeforeBlocks'
    BY <1>2, ReceiverEffect, StreamQuiet DEF StreamInv, senderVars
  <2> QED
    BY <1>2, <2>1, ReceiverEffect
    DEF senderVars, StreamInv, SenderPlace, DigestsMade, Ends, Sent, Is
<1>3. CASE CutPipe /\ UNCHANGED <<senderVars, receiverVars, runs>>
  BY <1>3, StreamCut
<1>4. CASE Rerun
  <2>1. HeaderFirst' /\ LinesBeforeBlocks'
    BY <1>4, StreamQuiet DEF Rerun, StreamInv, senderVars
  <2> QED
    BY <1>4, <2>1
    DEF Rerun, senderVars, StreamInv, SenderPlace, DigestsMade, Ends, SenderEnd
<1>5. CASE UNCHANGED vars
  <2>1. HeaderFirst' /\ LinesBeforeBlocks'
    BY <1>5, StreamQuiet DEF vars, pipeVars, senderVars, StreamInv
  <2> QED
    BY <1>5, <2>1 DEF vars, pipeVars, senderVars, StreamInv, SenderPlace,
                      DigestsMade, Ends, Sent, Is
<1> QED
  BY <1>1, <1>2, <1>3, <1>4, <1>5 DEF Next, Terminated

-----------------------------------------------------------------------------
(* Where in the stream lvpatch stands.                                     *)

\* A level that is not zero: nothing but digest lines, then an end, precedes data.
LEMMA NoDataBeforeEnd ==
  ASSUME StreamInv, level # 0, NEW i \in Sent, Is(i, "W")
  PROVE  \E j \in 1..(i-1) : Is(j, "end")
BY DEF StreamInv, LinesBeforeBlocks

\* Behind the digest lines there is nothing but chunks.
LEMMA OnlyDataPastLines ==
  ASSUME PipeTypeOK, StreamInv, LevelsAgree, PastLines, ReceiverPlace,
         hdr # NoHeader,
         rpc \in {"check", "snapshot", "activate", "patch", "done"},
         NEW i \in (rd+1)..Len(sent)
  PROVE  Is(i, "W")
<1>1. i \in Sent /\ i >= 2 /\ rd \in Nat
  BY DEF PipeTypeOK, ReceiverPlace, Sent
<1>2. ~Is(i, "head") /\ ~Is(i, "text")
  BY <1>1 DEF StreamInv, HeaderFirst
<1>3. sent[i] \in Record
  BY <1>1, ElementOfSeq DEF PipeTypeOK, Sent
<1>4. CASE hdr.level = 0
  <2>1. level = 0
    BY <1>4 DEF ReceiverPlace, LevelsAgree
  <2>2. ~Is(i, "D") /\ ~Is(i, "end")
    BY <1>1, <2>1 DEF StreamInv, LinesBeforeBlocks
  <2> QED
    BY <1>2, <1>3, <2>2
    DEF Record, HeaderRecord, DigestLine, DataRecord, Is
<1>5. CASE rd = Len(sent)
  BY <1>1, <1>5
<1>6. CASE \E j \in 1..rd : Is(j, "end")
  <2>1. PICK j \in 1..(i-1) : Is(j, "end")
    BY <1>1, <1>6
  <2> QED
    BY <1>1, <2>1 DEF StreamInv, LinesBeforeBlocks
<1> QED
  BY <1>4, <1>5, <1>6 DEF PastLines

\* lvpatch stands where it stood while others take steps.
LEMMA PlaceQuiet ==
  ASSUME PipeTypeOK, ReceiverPlace, PastLines,
         UNCHANGED <<level, meta, rd, rpc, hdr, midline, chunk>>,
         \A i \in 1..rd : sent'[i] = sent[i],
         rd = Len(sent) /\ ~wopen => rd = Len(sent') /\ ~wopen'
  PROVE  ReceiverPlace' /\ PastLines'
<1>1. rd \in Nat
  BY DEF PipeTypeOK
<1>2. ReceiverPlace'
  BY <1>1 DEF ReceiverPlace, Is, HeaderLevel, LevelRaised
<1>3. PastLines'
  BY <1>1 DEF PastLines, Is, LevelsAgree, HeaderLevel
<1> QED
  BY <1>2, <1>3

LEMMA PlaceReceiver ==
  ASSUME PipeTypeOK, ReceiverTypeOK, StreamInv, ReceiverPlace, PastLines,
         ReceiverNext, UNCHANGED senderVars
  PROVE  ReceiverPlace' /\ PastLines'
<1> USE DEF senderVars, ReceiverEnd
<1>0. rd \in Nat /\ Len(sent) \in Nat /\ rd <= Len(sent)
  BY DEF PipeTypeOK
<1>1. CASE ReadHeader /\ Available /\ NextRecord.type = "head"
  <2>1. rd + 1 \in Sent /\ Is(rd + 1, "head")
    BY <1>0, <1>1 DEF Available, NextRecord, Sent, Is
  <2>2. rd + 1 = 1 /\ sent[1].level = HeaderLevel /\ sent[1].chunk = Sectors
    BY <2>1 DEF StreamInv, HeaderFirst
  <2>3. /\ hdr' = sent[1] /\ rpc' = "base" /\ rd' = 1
        /\ UNCHANGED <<sent, midline, chunk>>
    BY <1>0, <1>1, <2>2
    DEF ReadHeader, Available, AtEOF, NextRecord, Consume, targetVars
  <2>4. ~midline
    BY <1>1 DEF ReadHeader, ReceiverPlace
  <2>5. Is(1, "head")
    BY <2>1, <2>2
  <2> QED
    BY <2>2, <2>3, <2>4, <2>5 DEF ReceiverPlace, PastLines, Is, HeaderLevel, LevelRaised
<1>2. CASE ReadHeader /\ Available /\ NextRecord.type = "text"
  <2>1. rd + 1 \in Sent /\ Is(rd + 1, "text")
    BY <1>0, <1>2 DEF Available, NextRecord, Sent, Is
  <2>2. rd + 1 = 1
    BY <2>1 DEF StreamInv, HeaderFirst
  <2>3. /\ rpc = "header" /\ rpc' = "header" /\ rd' = 1
        /\ UNCHANGED <<sent, hdr, midline, chunk>>
    BY <1>0, <1>2, <2>2
    DEF ReadHeader, Available, AtEOF, NextRecord, Consume, targetVars
  <2> QED
    BY <2>1, <2>2, <2>3 DEF ReceiverPlace, PastLines, Is, HeaderLevel, LevelRaised
<1>3. CASE ReadHeader /\ ~Available
  <2>1. /\ rpc = "header" /\ rpc' = "base"
        /\ UNCHANGED <<sent, hdr, midline, chunk>>
    BY <1>3 DEF ReadHeader, targetVars
  <2> QED
    BY <2>1 DEF ReceiverPlace, PastLines, Is, HeaderLevel, LevelRaised
<1>4. CASE ReadBaseBlocks /\ rpc' = "check" /\ UNCHANGED <<midline, sent, rd, wopen>>
  <2>1. /\ rpc = "base"
        /\ hdr.level = 0 \/ AtEOF
        /\ UNCHANGED <<hdr, chunk>>
    BY <1>0, <1>4 DEF ReadBaseBlocks, NoBaseBlocks, targetVars, Consume
  <2> QED
    BY <1>4, <2>1
    DEF ReceiverPlace, PastLines, AtEOF, Is, HeaderLevel, LevelsAgree, LevelRaised
<1>5. CASE ReadBaseBlocks /\ hdr.level # 0 /\ Available /\ Consume
  <2> DEFINE n == rd + 1
  <2>1. /\ rpc = "base" /\ rd' = n /\ n \in Sent /\ Is(n, NextRecord.type)
        /\ midline' = (NextRecord.type = "W")
        /\ rpc' = IF NextRecord.type = "D" THEN "base" ELSE "check"
        /\ UNCHANGED <<sent, hdr, chunk>>
    BY <1>0, <1>5
    DEF ReadBaseBlocks, NoBaseBlocks, Available, NextRecord, Consume, targetVars, Sent,
        Is
  <2>2. hdr # NoHeader
    BY <1>5 DEF NoHeader, Header
  <2>3. rd >= 1 /\ Is(1, "head") /\ \A i \in 2..rd : Is(i, "D")
    BY <2>1, <2>2 DEF ReceiverPlace
  <2>4. hdr.level = HeaderLevel /\ hdr.chunk = Sectors
    BY <2>2 DEF ReceiverPlace
  <2>5. \A i \in 1..rd : ~Is(i, "end")
    BY <1>0, <2>3 DEF Is
  <2>6. Is(n, "W") => LevelRaised
    <3>1. HeaderLevel # 0
      BY <1>5, <2>4
    <3>2. Is(n, "W") /\ level # 0 => \E j \in 1..(n-1) : Is(j, "end")
      BY <2>1, NoDataBeforeEnd
    <3> QED
      BY <1>0, <2>5, <3>1, <3>2 DEF LevelRaised
  <2>7. ~Is(n, "head") /\ ~Is(n, "text")
    BY <1>0, <2>1, <2>3 DEF StreamInv, HeaderFirst
  <2>8. CASE Is(n, "D")
    <3>1. rpc' = "base" /\ ~midline'
      BY <2>1, <2>8 DEF Is
    <3>2. \A i \in 2..n : Is(i, "D")
      BY <1>0, <2>3, <2>8
    <3> QED
      BY <1>0, <2>1, <2>2, <2>3, <2>4, <3>1, <3>2
      DEF ReceiverPlace, PastLines, Is, HeaderLevel, LevelRaised
  <2>9. CASE ~Is(n, "D")
    <3>1. rpc' = "check"
      BY <2>1, <2>9 DEF Is
    <3>2. ReceiverPlace'
      <4>1. midline' => LevelRaised'
        BY <2>1, <2>6 DEF Is, LevelRaised, HeaderLevel
      <4>2. rpc' # "header" /\ rpc' # "base" /\ rpc' # "misread"
        BY <3>1
      <4> QED
        BY <1>0, <2>1, <2>2, <2>3, <2>4, <3>1, <4>1, <4>2
        DEF ReceiverPlace, Is, HeaderLevel
    <3>3. LevelsAgree => Is(n, "end")
      <4>1. sent[n] \in Record
        BY <2>1, ElementOfSeq DEF PipeTypeOK, Sent
      <4> QED
        BY <2>6, <2>7, <2>9, <4>1
        DEF Record, HeaderRecord, DigestLine, DataRecord, Is, LevelRaised, LevelsAgree
    <3>4. LevelsAgree => ~midline'
      BY <2>1, <2>6 DEF Is, LevelRaised, LevelsAgree
    <3>5. n \in 1..n
      BY <1>0
    <3> QED
      BY <2>1, <3>1, <3>2, <3>3, <3>4, <3>5
      DEF PastLines, Is, LevelsAgree, HeaderLevel
  <2> QED
    BY <2>8, <2>9
<1>6. CASE Verify
  BY <1>6 DEF Verify, targetVars, pipeVars, ReceiverPlace, PastLines, Is, HeaderLevel,
              LevelsAgree, LevelRaised
<1>7. CASE CreateSnapshot \/ OpenNew
  BY <1>7 DEF CreateSnapshot, OpenNew, targetVars, pipeVars, ReceiverPlace, PastLines,
              Is, HeaderLevel, LevelsAgree, LevelRaised
<1>8. CASE PatchBlock
  <2>1. /\ rpc = "patch" /\ rd' = rd + 1 /\ rd < Len(sent)
        /\ UNCHANGED <<sent, wopen, rpc, hdr, midline, chunk>>
    BY <1>8 DEF PatchBlock, Available, Consume, targetVars
  <2>2. ReceiverPlace'
    BY <1>0, <2>1 DEF ReceiverPlace, Is, HeaderLevel, LevelRaised
  <2>3. PastLines'
    BY <1>0, <2>1 DEF PastLines, Is, LevelsAgree, HeaderLevel
  <2> QED
    BY <2>2, <2>3
<1>9. CASE PatchDone
  <2>1. /\ rpc \in {"patch", "misread"} /\ rpc' = "done"
        /\ UNCHANGED <<sent, rd, wopen, hdr, midline, chunk>>
    BY <1>9 DEF PatchDone, ReceiverExit, targetVars
  <2>2. rpc = "misread" /\ LevelsAgree => hdr = NoHeader
    BY DEF ReceiverPlace, LevelRaised, LevelsAgree
  <2> QED
    BY <2>1, <2>2
    DEF ReceiverPlace, PastLines, Is, HeaderLevel, LevelsAgree, LevelRaised
<1>10. CASE VerifyFails \/ CreateSnapshotFails \/ OpenNewFails \/ PatchFails
              \/ ReceiverKilled \/ MisreadFails
  <2>1. /\ rpc' \in {"failed", "killed"}
        /\ rd' = rd \/ rd' = rd + 1
        /\ UNCHANGED <<sent, hdr, midline>>
        /\ rpc # "base" \/ rpc' = "killed"
    BY <1>10 DEF VerifyFails, CreateSnapshotFails, OpenNewFails, PatchFails,
                 ReceiverKilled, MisreadFails, ReceiverExit, Consume
  <2> QED
    BY <1>0, <2>1 DEF ReceiverPlace, PastLines, Is, HeaderLevel, LevelRaised
<1>11. CASE WriteBase
  BY <1>11 DEF WriteBase, pipeVars, ReceiverPlace, PastLines, Is, HeaderLevel,
               LevelsAgree, LevelRaised
<1>12. CASE MisreadLine \/ MisreadData \/ MisreadWrite
  <2>1. /\ rpc \in {"patch", "misread"} /\ midline
        /\ rpc' \in {"patch", "misread"}
        /\ rpc' = "misread" => midline'
        /\ rd' \in rd..Len(sent)
        /\ UNCHANGED <<sent, hdr, chunk>>
    BY <1>0, <1>12 DEF MisreadLine, MisreadData, MisreadWrite, Consume, Available,
                       ReceiverPlace, targetVars, pipeVars
  <2>2. LevelRaised
    BY <2>1 DEF ReceiverPlace
  <2> QED
    BY <1>0, <2>1, <2>2
    DEF ReceiverPlace, PastLines, Is, HeaderLevel, LevelsAgree, LevelRaised
<1> QED
  <2>1. CASE ReadHeader
    BY <1>1, <1>2, <1>3, <2>1 DEF ReadHeader, AtEOF, Available
  <2>2. CASE ReadBaseBlocks
    BY <1>4, <1>5, <2>2 DEF ReadBaseBlocks, NoBaseBlocks
  <2> QED
    BY <1>6, <1>7, <1>8, <1>9, <1>10, <1>11, <1>12, <2>1, <2>2
    DEF ReceiverNext, ReceiverStep

LEMMA FramingInit == Init => FramingInv
<1> SUFFICES ASSUME Init PROVE FramingInv
  OBVIOUS
<1>1. /\ rpc = "header" /\ hdr = NoHeader /\ rd = 0 /\ ~midline
  BY DEF Init, PipeInit, ReceiverInit
<1> QED
  BY <1>1, StreamInit DEF FramingInv, ReceiverPlace, PastLines

LEMMA FramingNext == TypeInv /\ FramingInv /\ [Next]_vars => FramingInv'
<1> SUFFICES ASSUME TypeInv, FramingInv, [Next]_vars PROVE FramingInv'
  OBVIOUS
<1> USE DEF TypeInv, TypeOK, FramingInv
<1>1. StreamInv'
  BY StreamNext
<1>2. rd \in Nat /\ Len(sent) \in Nat /\ rd <= Len(sent)
  BY DEF PipeTypeOK
<1>3. CASE SenderNext /\ UNCHANGED <<receiverVars, runs>>
  <2>1. /\ UNCHANGED <<level, meta, rd>>
        /\ \/ sent' = sent
           \/ spc \notin SenderEnd /\ ropen /\ \E rec : Write(rec)
        /\ wopen' = wopen \/ ~wopen'
    BY <1>3, SenderEffect
  <2>2. CASE sent' = sent
    BY <1>1, <1>3, <2>1, <2>2, PlaceQuiet DEF receiverVars, targetVars
  <2>3. CASE spc \notin SenderEnd /\ ropen /\ \E rec : Write(rec)
    <3>1. \A i \in 1..rd : sent'[i] = sent[i]
      BY <1>2, <2>3, WriteAppends
    <3>2. wopen
      BY <2>3 DEF StreamInv, Ends
    <3> QED
      BY <1>1, <1>3, <2>1, <3>1, <3>2, PlaceQuiet DEF receiverVars, targetVars
  <2> QED
    BY <2>1, <2>2, <2>3
<1>4. CASE ReceiverNext /\ UNCHANGED <<senderVars, runs>>
  BY <1>1, <1>4, PlaceReceiver
<1>5. CASE CutPipe /\ UNCHANGED <<senderVars, receiverVars, runs>>
  <2>1. /\ rd' = rd /\ ~wopen'
        /\ \A i \in 1..rd : sent'[i] = sent[i]
        /\ rd = Len(sent) => rd = Len(sent')
    BY <1>2, <1>5, CutLeavesPrefix
  <2> QED
    BY <1>1, <1>5, <2>1, PlaceQuiet DEF senderVars, receiverVars, targetVars
<1>6. CASE Rerun
  <2>1. rpc' = "header" /\ rd' = 0 /\ hdr' = NoHeader /\ ~midline'
    BY <1>6 DEF Rerun
  <2> QED
    BY <1>1, <2>1 DEF ReceiverPlace, PastLines
<1>7. CASE UNCHANGED vars
  BY <1>1, <1>7, PlaceQuiet DEF vars, pipeVars, senderVars, receiverVars, targetVars
<1> QED
  BY <1>3, <1>4, <1>5, <1>6, <1>7 DEF Next, Terminated

\* The grammar of the stream that lvdiff writes, and where in it each program
\* stands, whatever fails and wherever the stream is cut.
THEOREM FramingInvariance == Spec => []FramingInv
<1> QED
  BY FramingInit, FramingNext, TypeInvariance, PTL DEF Spec

LEMMA FramingImplies == TypeInv /\ FramingInv => FramingInStep
<1> SUFFICES ASSUME TypeInv, FramingInv, LevelsAgree, Available
             PROVE  /\ rpc = "base" /\ hdr.level # 0
                          => NextRecord.type \in {"D", "end"}
                    /\ rpc \in {"check", "snapshot", "activate", "patch"}
                         /\ hdr.chunk = chunk => NextRecord.type = "W"
  BY DEF FramingInStep
<1> USE DEF TypeInv, TypeOK, FramingInv
<1>1. rd + 1 \in Sent /\ NextRecord = sent[rd + 1] /\ rd \in Nat
  BY DEF PipeTypeOK, Available, NextRecord, Sent
<1>2. ASSUME rpc = "base", hdr.level # 0
      PROVE  NextRecord.type \in {"D", "end"}
  <2>1. hdr # NoHeader
    BY <1>2 DEF NoHeader, Header
  <2>2. rd >= 1 /\ Is(1, "head") /\ \A i \in 2..rd : Is(i, "D")
    BY <1>2, <2>1 DEF ReceiverPlace
  <2>3. ~Is(rd + 1, "head") /\ ~Is(rd + 1, "text")
    BY <1>1, <2>2 DEF StreamInv, HeaderFirst
  <2>4. level # 0
    BY <1>2, <2>1 DEF ReceiverPlace, LevelsAgree
  <2>5. ~Is(rd + 1, "W")
    <3>1. \A i \in 1..rd : ~Is(i, "end")
      BY <1>1, <2>2 DEF Is
    <3> QED
      BY <1>1, <2>4, <3>1, NoDataBeforeEnd
  <2>6. sent[rd + 1] \in Record
    BY <1>1, ElementOfSeq DEF PipeTypeOK, Sent
  <2> QED
    BY <1>1, <2>3, <2>5, <2>6
    DEF Record, HeaderRecord, DigestLine, DataRecord, Is
<1>3. ASSUME rpc \in {"check", "snapshot", "activate", "patch"}, hdr.chunk = chunk
      PROVE  NextRecord.type = "W"
  <2>1. hdr # NoHeader
    BY <1>3, DstSectorsAssumption DEF ReceiverTypeOK, NoHeader, Header
  <2>2. rd + 1 \in (rd+1)..Len(sent)
    BY <1>1 DEF Sent, PipeTypeOK
  <2> QED
    BY <1>1, <1>3, <2>1, <2>2, OnlyDataPastLines DEF Is
<1> QED
  BY <1>2, <1>3

\* The parser of lvpatch and the writer of lvdiff stay in step, in whatever order
\* they run and whatever fails, if the user's --meta pairs do not change whether
\* the level in the header is 0.
THEOREM FramingCorrect == Spec => []FramingInStep
<1> QED
  BY FramingImplies, FramingInvariance, TypeInvariance, PTL

-----------------------------------------------------------------------------
(* The data.                                                               *)

\* The chunk a record addresses is the one it was read from.
LEMMA OffsetOfChunk ==
  ASSUME NEW b \in Nat, NEW S \in Nat \ {0}
  PROVE  (b * S) \div S = b
OBVIOUS

LEMMA OffsetsDiffer ==
  ASSUME NEW b \in Nat, NEW c \in Nat, b * Sectors = c * Sectors
  PROVE  b = c
BY OffsetOfChunk, SectorsAssumption

\* lvdiff changes no volume, and its delta only when it takes it.
LEMMA SenderInputs ==
  ASSUME SenderTypeOK, SenderNext
  PROVE  /\ UNCHANGED volB
         /\ writes' = 0 => writes = 0 /\ UNCHANGED volA
         /\ Prepare \/ UNCHANGED blocks
<1> USE DEF inputVars, SenderTypeOK
<1>1. CASE Prepare \/ Activate \/ HashRun \/ ChecksumDone \/ ReadBlock
  BY <1>1 DEF Prepare, Activate, HashRun, ChecksumDone, ReadBlock
<1>2. CASE PrepareFails \/ PutHeader \/ PutBaseLine \/ PutBlock \/ PutBaseEnd
  BY <1>2 DEF PrepareFails, PutHeader, PutBaseLine, PutBlock, PutBaseEnd
<1>3. CASE ActivateFails \/ ChecksumFails \/ ReadFails \/ SendDone \/ BrokenPipe
             \/ SenderKilled
  BY <1>3 DEF ActivateFails, ChecksumFails, ReadFails, SendDone, BrokenPipe,
              SenderKilled
<1>4. CASE WriteVolume
  BY <1>4 DEF WriteVolume
<1> QED
  BY <1>1, <1>2, <1>3, <1>4 DEF SenderNext, SenderStep

\* The delta tells chunks apart that A and B share from those they do not.
LEMMA DeltaFaithfulSender ==
  ASSUME SenderTypeOK, DeltaFaithful, SenderNext
  PROVE  DeltaFaithful'
<1> SUFFICES ASSUME Prepared', writes' = 0 PROVE DeltaFaithful'
  BY DEF DeltaFaithful
<1>1. writes = 0 /\ UNCHANGED <<volA, volB>>
  BY SenderInputs
<1>2. CASE Prepare
  <2>1. blocks' \in ThinDelta
    BY <1>2 DEF Prepare
  <2>2. /\ \A b \in Chunks \ DOMAIN blocks' : At(volA, b) = Zero /\ At(volB, b) = Zero
        /\ \A b \in DOMAIN blocks' :
             /\ blocks'[b] = DeltaOpDelete => At(volA, b) = Zero
             /\ blocks'[b] = DeltaOpIgnore => volA[b] = volB[b]
    BY <2>1 DEF ThinDelta
  <2> QED
    BY <1>1, <2>2 DEF DeltaFaithful, Chunks, At
<1>3. CASE UNCHANGED blocks /\ ~Prepare
  <2>1. Prepared
    BY <1>3 DEF SenderNext, SenderStep, Prepared, PrepareFails, SenderExit, PutHeader,
            Activate, ActivateFails, HashRun, ChecksumDone, ChecksumFails, PutBaseLine,
            PutBaseEnd, ReadBlock, ReadFails, PutBlock, SendDone, BrokenPipe,
            SenderKilled, WriteVolume, SenderEnd
  <2> QED
    BY <1>1, <1>3, <2>1 DEF DeltaFaithful, Chunks, At
<1> QED
  BY <1>2, <1>3, SenderInputs

\* Only putBlock writes a "W" record.
LEMMA OtherWrites ==
  ASSUME PipeTypeOK, SenderTypeOK, SenderNext, ~PutBlock
  PROVE  \A i \in Sent' : Is(i, "W")' => i \in Sent /\ sent'[i] = sent[i]
<1>1. CASE \E rec : Write(rec) /\ rec.type # "W"
  <2>1. PICK rec : Write(rec) /\ rec.type # "W"
    BY <1>1
  <2> QED
    BY <2>1, WriteAppends DEF Sent, Is
<1>2. CASE sent' = sent
  BY <1>2 DEF Sent, Is
<1>3. CASE PrepareFails \/ PutHeader \/ (PutBaseEnd /\ spc = "putend")
  BY <1>1, <1>3 DEF PrepareFails, PutHeader, PutBaseEnd, ErrorText, Header, EmptyLine
<1>4. CASE PutBaseLine
  <2>1. Head(hashes) \in DigestLine
    BY <1>4, HeadTailProperties DEF PutBaseLine, SenderTypeOK
  <2>2. Write(Head(hashes)) /\ Head(hashes).type # "W"
    BY <1>4, <2>1 DEF PutBaseLine, DigestLine
  <2> QED
    BY <1>1, <2>2
<1>5. CASE Prepare \/ Activate \/ HashRun \/ ChecksumDone \/ ReadBlock \/ WriteVolume
             \/ (PutBaseEnd /\ spc = "putbase")
  BY <1>2, <1>5 DEF Prepare, Activate, HashRun, ChecksumDone, ReadBlock, WriteVolume,
                    PutBaseEnd, pipeVars
<1>6. CASE ActivateFails \/ ChecksumFails \/ ReadFails \/ SendDone \/ BrokenPipe
             \/ SenderKilled
  BY <1>2, <1>6 DEF ActivateFails, ChecksumFails, ReadFails, SendDone, BrokenPipe,
                    SenderKilled
<1> QED
  BY <1>3, <1>4, <1>5, <1>6 DEF SenderNext, SenderStep, PutBaseEnd

LEMMA RecordsFaithfulSender ==
  ASSUME PipeTypeOK, SenderTypeOK, StreamInv, RecordsFaithful, SenderNext
  PROVE  RecordsFaithful'
<1> SUFFICES ASSUME writes' = 0 PROVE RecordsFaithful'
  BY DEF RecordsFaithful
<1>1. writes = 0 /\ UNCHANGED volA /\ (Prepare \/ UNCHANGED blocks)
  BY SenderInputs
<1>2. CASE Prepare
  <2>1. sent = <<>> /\ sent' = sent
    BY <1>2 DEF Prepare, pipeVars, StreamInv, Ends
  <2>2. Sent' = {}
    BY <2>1 DEF Sent
  <2> QED
    BY <1>2, <2>2 DEF Prepare, RecordsFaithful
<1>3. CASE PutBlock
  <2>1. /\ buf.blk \in Delta /\ buf.val = Goal(buf.blk)
        /\ Write(BlockRecord(buf.blk, Goal(buf.blk)))
        /\ UNCHANGED blocks /\ spc' = "blocks"
    BY <1>1, <1>3 DEF PutBlock, RecordsFaithful
  <2>2. ASSUME NEW i \in Sent', Is(i, "W")'
        PROVE  \E b \in Delta : sent'[i] = BlockRecord(b, Goal(b))
    <3>1. CASE i \in Sent
      <4>1. sent'[i] = sent[i]
        BY <2>1, <3>1, WriteAppends DEF Sent
      <4> QED
        BY <1>1, <2>2, <3>1, <4>1 DEF RecordsFaithful, Is
    <3>2. CASE i = Len(sent) + 1
      <4>1. sent'[i] = BlockRecord(buf.blk, Goal(buf.blk))
        BY <2>1, <3>2, WriteAppends
      <4> QED
        BY <2>1, <4>1
    <3> QED
      BY <2>1, <3>1, <3>2, WriteAppends DEF Sent
  <2> QED
    BY <1>1, <2>1, <2>2 DEF RecordsFaithful, Delta, Goal
<1>4. CASE ~Prepare /\ ~PutBlock
  <2>1. \A i \in Sent' : Is(i, "W")' => i \in Sent /\ sent'[i] = sent[i]
    BY <1>4, OtherWrites
  <2>2. \A i \in Sent' : Is(i, "W")' =>
          \E b \in Delta : sent'[i] = BlockRecord(b, Goal(b))
    BY <1>1, <2>1 DEF RecordsFaithful, Is
  <2>3. spc' = "put" => buf'.blk \in Delta /\ buf'.val = Goal(buf'.blk)
    <3>1. CASE ReadBlock
      <4>1. PICK b \in Pending :
              buf' = [blk |-> b, val |-> IF blocks[b] = DeltaOpDelete
                                         THEN Zero ELSE volA[b]]
        BY <3>1 DEF ReadBlock
      <4> QED
        BY <4>1 DEF Pending, Goal
    <3>2. CASE ~ReadBlock
      <4>1. spc' = "put" => spc = "put" /\ UNCHANGED buf
        BY <1>4, <3>2
        DEF SenderNext, SenderStep, PrepareFails, SenderExit, PutHeader, Activate,
            ActivateFails, HashRun, ChecksumDone, ChecksumFails, PutBaseLine,
            PutBaseEnd, ReadFails, SendDone, BrokenPipe, SenderKilled,
            WriteVolume, SenderEnd
      <4> QED
        BY <1>1, <4>1 DEF RecordsFaithful
    <3> QED
      BY <3>1, <3>2
  <2> QED
    BY <1>1, <1>4, <2>2, <2>3 DEF RecordsFaithful, Delta, Goal
<1> QED
  BY <1>2, <1>3, <1>4

LEMMA NoneSkippedSender ==
  ASSUME PipeTypeOK, SenderTypeOK, StreamInv, NoneSkipped, SenderNext
  PROVE  NoneSkipped'
<1> SUFFICES ASSUME ~cut', spc' \in {"blocks", "put", "done"} PROVE NoneSkipped'
  BY DEF NoneSkipped
<1>1. Delta \subseteq Nat /\ cursor \in Nat /\ ~cut
  BY BlocksNat, SenderEffect DEF Delta, SenderTypeOK
<1>2. CASE Activate \/ PutBaseEnd
  <2>1. cursor' = 0 /\ spc' \notin {"put", "done"} /\ UNCHANGED blocks
    BY <1>2 DEF Activate, PutBaseEnd, StreamInv, DigestsMade
  <2> QED
    BY <1>1, <2>1 DEF NoneSkipped, Delta
<1>3. CASE ReadBlock
  <2>1. PICK b \in Pending :
          /\ \A c \in Pending : b <= c
          /\ buf'.blk = b
    BY <1>3 DEF ReadBlock
  <2>2. \A c \in Delta : c < b => c < cursor
    BY <1>1, <2>1 DEF Pending
  <2>3. /\ spc = "blocks" /\ spc' = "put"
        /\ UNCHANGED <<sent, blocks, cursor>>
    BY <1>3 DEF ReadBlock, pipeVars
  <2> QED
    BY <1>1, <2>1, <2>2, <2>3 DEF NoneSkipped, Delta, Sent, IsRecordOf, Is
<1>4. CASE PutBlock
  <2>1. /\ spc = "put" /\ spc' = "blocks" /\ cursor' = buf.blk + 1
        /\ Write(BlockRecord(buf.blk, buf.val))
        /\ UNCHANGED blocks
        /\ buf.blk \in Nat
    BY <1>4 DEF PutBlock, SenderTypeOK
  <2>2. ASSUME NEW b \in Delta, b < buf.blk + 1
        PROVE  \E i \in Sent' : sent'[i].type = "W" /\ sent'[i].off = b * Sectors
    <3>1. CASE b < buf.blk
      <4>1. PICK i \in Sent : IsRecordOf(i, b)
        BY <1>1, <2>1, <3>1 DEF NoneSkipped
      <4>2. i \in Sent' /\ sent'[i] = sent[i]
        BY <2>1, WriteAppends DEF Sent
      <4> QED
        BY <4>1, <4>2 DEF IsRecordOf, Is
    <3>2. CASE b = buf.blk
      <4>1. /\ Len(sent) + 1 \in Sent'
            /\ sent'[Len(sent) + 1] = BlockRecord(b, buf.val)
        BY <2>1, <3>2, WriteAppends DEF Sent
      <4> QED
        BY <4>1 DEF BlockRecord
    <3> QED
      BY <1>1, <2>1, <2>2, <3>1, <3>2
  <2> QED
    BY <2>1, <2>2 DEF NoneSkipped, Delta, IsRecordOf, Is
<1>5. CASE SendDone
  <2>1. /\ spc = "blocks" /\ Pending = {} /\ spc' = "done"
        /\ UNCHANGED <<sent, blocks, cursor>>
    BY <1>5 DEF SendDone, SenderExit
  <2>2. \A b \in Delta : b < cursor
    BY <1>1, <2>1 DEF Pending
  <2> QED
    BY <1>1, <2>1, <2>2 DEF NoneSkipped, Delta, Sent, IsRecordOf, Is
<1>6. CASE WriteVolume
  BY <1>1, <1>6 DEF WriteVolume, pipeVars, NoneSkipped, Delta, Sent, IsRecordOf, Is
<1>7. ~(Prepare \/ PrepareFails \/ PutHeader \/ ActivateFails \/ HashRun
          \/ ChecksumDone \/ ChecksumFails \/ PutBaseLine \/ ReadFails \/ BrokenPipe
          \/ SenderKilled)
  BY DEF Prepare, PrepareFails, PutHeader, ActivateFails, HashRun, ChecksumDone,
         ChecksumFails, PutBaseLine, ReadFails, BrokenPipe, SenderKilled, SenderExit
<1> QED
  BY <1>2, <1>3, <1>4, <1>5, <1>6, <1>7 DEF SenderNext, SenderStep

\* lvpatch has read something before it makes the new volume, so lvdiff is past
\* taking its delta.
LEMMA DeltaTaken ==
  ASSUME PipeTypeOK, ReceiverTypeOK, StreamInv, ReceiverPlace,
         rpc \in {"snapshot", "activate", "patch", "done"}
  PROVE  hdr # NoHeader /\ chunk = Sectors /\ ~Prepare
<1>1. hdr # NoHeader
  BY DstSectorsAssumption DEF ReceiverPlace, ReceiverTypeOK, NoHeader, Header
<1>2. chunk = Sectors
  BY <1>1 DEF ReceiverPlace
<1>3. Len(sent) # 0
  BY <1>1 DEF PipeTypeOK, ReceiverPlace
<1>4. sent # <<>>
  BY <1>3
<1> QED
  BY <1>1, <1>2, <1>4 DEF Prepare, StreamInv, Ends

\* The new volume is not disturbed by the steps of others.
LEMMA PatchedQuiet ==
  ASSUME PipeTypeOK, ReceiverTypeOK, StreamInv, ReceiverPlace, Patched,
         UNCHANGED <<level, meta, rd, rpc, hdr, chunk, copied, new, path>>,
         \A i \in 1..rd : sent'[i] = sent[i],
         writes' = 0 => writes = 0 /\ UNCHANGED volA,
         Prepare \/ UNCHANGED blocks,
         rd = Len(sent) /\ ~wopen => rd = Len(sent') /\ ~wopen'
  PROVE  Patched'
<1>1. LevelsAgree' = LevelsAgree
  BY DEF LevelsAgree, HeaderLevel
<1>2. \A i \in 1..rd : Is(i, "W")' = Is(i, "W")
  BY DEF Is
<1>3. ASSUME rpc \in {"activate", "patch", "done"}, LevelsAgree, writes' = 0,
             path.new = "own"
      PROVE  /\ DOMAIN new = DOMAIN copied
             /\ \A b \in DOMAIN copied :
                  /\ b \notin Delta' => new[b] = copied[b]
                  /\ \A i \in 1..rd : IsRecordOf(i, b)' => new[b] = Goal(b)'
  <2>1. UNCHANGED <<blocks, volA>> /\ writes = 0
    BY <1>3, DeltaTaken
  <2>2. Delta' = Delta
    BY <2>1 DEF Delta
  <2>3. \A b \in DOMAIN copied : Goal(b)' = Goal(b)
    BY <2>1 DEF Goal
  <2>4. \A b \in DOMAIN copied : \A i \in 1..rd : IsRecordOf(i, b)' => IsRecordOf(i, b)
    BY DEF IsRecordOf, Is
  <2> QED
    BY <1>3, <2>1, <2>2, <2>3, <2>4 DEF Patched
<1>4. ASSUME rpc = "done", LevelsAgree
      PROVE  rd = Len(sent') /\ ~wopen'
  BY <1>4 DEF Patched
<1> QED
  BY <1>1, <1>2, <1>3, <1>4 DEF Patched

LEMMA PatchedReceiver ==
  ASSUME TypeInv, TypeInv', FramingInv, RecordsFaithful, Patched,
         ReceiverNext, UNCHANGED senderVars
  PROVE  Patched'
<1> USE DEF TypeInv, TypeOK, FramingInv
<1>1. /\ UNCHANGED <<sent, wopen, level, meta, volA, volB, blocks, writes>>
      /\ LevelsAgree' = LevelsAgree
      /\ Delta' = Delta
  BY ReceiverEffect DEF senderVars, LevelsAgree, HeaderLevel, Delta
<1>2. rd \in Nat /\ Len(sent) \in Nat /\ rd <= Len(sent)
  BY DEF PipeTypeOK
<1>3. CASE ReadHeader
  <2>1. CASE Available /\ Consume /\ NextRecord.type = "head"
    <3>1. rd + 1 \in Sent /\ Is(rd + 1, "head")
      BY <1>2, <2>1 DEF Available, NextRecord, Sent, Is
    <3>2. rd' = 1 /\ Is(1, "head")
      BY <1>2, <2>1, <3>1 DEF Consume, StreamInv, HeaderFirst
    <3>3. rpc' = "base"
      BY <1>2, <1>3, <2>1 DEF ReadHeader, Available, AtEOF
    <3> QED
      BY <1>1, <3>2, <3>3 DEF Patched, Is
  <2>2. CASE ~(Available /\ Consume /\ NextRecord.type = "head")
    <3>1. hdr' = NoHeader /\ rpc' \in {"header", "base"}
      BY <1>3, <2>2 DEF ReadHeader, ReceiverPlace
    <3> QED
      BY <3>1 DEF Patched
  <2> QED
    BY <2>1, <2>2
<1>4. CASE ReadBaseBlocks
  <2>1. rpc = "base" /\ rpc' \in {"base", "check"} /\ hdr' = hdr
    BY <1>4 DEF ReadBaseBlocks
  <2>2. CASE rd' = rd
    BY <1>1, <2>1, <2>2 DEF Patched, Is
  <2>3. CASE hdr.level # 0 /\ Available /\ rd' = rd + 1
    <3>1. LevelsAgree => NextRecord.type \in {"D", "end"}
      BY <2>1, <2>3, FramingImplies DEF FramingInStep
    <3>2. LevelsAgree => ~Is(rd + 1, "W")
      BY <3>1 DEF NextRecord, Is
    <3>3. \A i \in 1..rd' : i \in 1..rd \/ i = rd + 1
      BY <1>2, <2>3
    <3> QED
      BY <1>1, <2>1, <2>3, <3>2, <3>3 DEF Patched, Is
  <2> QED
    BY <1>4, <2>2, <2>3 DEF ReadBaseBlocks, NoBaseBlocks, Consume
<1>5. CASE Verify
  BY <1>1, <1>5 DEF Verify, pipeVars, Patched, Is
<1>6. CASE CreateSnapshot
  <2>1. hdr # NoHeader
    BY <1>6, DeltaTaken DEF CreateSnapshot
  <2>2. LevelsAgree => \A i \in 1..rd : ~Is(i, "W")
    BY <1>6, <2>1 DEF CreateSnapshot, Patched
  <2>3. new' = base /\ copied' = base /\ rpc' = "activate" /\ rd' = rd
    BY <1>6 DEF CreateSnapshot, pipeVars
  <2> QED
    BY <1>1, <2>2, <2>3 DEF Patched, IsRecordOf, Is
<1>7. CASE OpenNew
  BY <1>1, <1>7 DEF OpenNew, targetVars, pipeVars, Patched, IsRecordOf, Is, Goal
<1>8. CASE PatchBlock
  <2> SUFFICES ASSUME LevelsAgree, writes = 0, path.new = "own"
               PROVE  /\ DOMAIN new' = DOMAIN copied
                      /\ \A b \in DOMAIN copied :
                           /\ b \notin Delta => new'[b] = copied[b]
                           /\ \A i \in 1..rd' : IsRecordOf(i, b) => new'[b] = Goal(b)
    <3>1. rpc' = "patch" /\ copied' = copied /\ path' = path
      BY <1>8 DEF PatchBlock, targetVars
    <3> QED
      BY <1>1, <3>1 DEF Patched, IsRecordOf, Is, Goal
  <2>1. /\ rpc = "patch" /\ rd' = rd + 1 /\ rd + 1 \in Sent /\ Is(rd + 1, "W")
        /\ NextRecord = sent[rd + 1]
    BY <1>2, <1>8 DEF PatchBlock, Available, Consume, NextRecord, Sent, Is
  <2>2. PICK c \in Delta : sent[rd + 1] = BlockRecord(c, Goal(c))
    BY <2>1 DEF RecordsFaithful
  <2>3. c \in Nat /\ Delta \subseteq Nat
    BY BlocksNat DEF Delta
  <2>4. chunk = Sectors
    BY <2>1, DeltaTaken
  <2>5. Target(NextRecord) = c
    BY <2>1, <2>2, <2>3, <2>4, OffsetOfChunk, SectorsAssumption
    DEF Target, BlockRecord
  <2>6. /\ DOMAIN new = DOMAIN copied
        /\ \A b \in DOMAIN copied :
             /\ b \notin Delta => new[b] = copied[b]
             /\ \A i \in 1..rd : IsRecordOf(i, b) => new[b] = Goal(b)
    BY <2>1 DEF Patched
  <2>7. new' = [new EXCEPT ![c] = Goal(c)] /\ c \in DOMAIN new
    <3>1. NextRecord.val = Goal(c)
      BY <2>1, <2>2 DEF BlockRecord
    <3>2. /\ new' = [new EXCEPT ![Target(NextRecord)] = NextRecord.val]
          /\ Target(NextRecord) \in DOMAIN new
      BY <1>8 DEF PatchBlock, Written
    <3> QED
      BY <2>5, <3>1, <3>2
  <2>8. ASSUME NEW b \in DOMAIN copied
        PROVE  /\ b \notin Delta => new'[b] = copied[b]
               /\ \A i \in 1..(rd + 1) : IsRecordOf(i, b) => new'[b] = Goal(b)
    <3>1. CASE b = c
      BY <2>2, <2>6, <2>7, <3>1
    <3>2. CASE b # c
      <4>1. new'[b] = new[b]
        BY <2>6, <2>7, <3>2
      <4>2. b \in Nat
        BY <2>1, VolumeDomain DEF NewExists
      <4>3. ~IsRecordOf(rd + 1, b)
        BY <2>2, <2>3, <3>2, <4>2, OffsetsDiffer DEF IsRecordOf, BlockRecord
      <4> QED
        BY <1>2, <2>6, <4>1, <4>3
    <3> QED
      BY <3>1, <3>2
  <2> QED
    BY <2>1, <2>6, <2>7, <2>8
<1>9. CASE PatchDone /\ rpc = "patch"
  <2>1. rpc = "patch" /\ rpc' = "done" /\ UNCHANGED <<hdr, copied, new, rd, path>>
    BY <1>9 DEF PatchDone, ReceiverExit, targetVars
  <2>2. LevelsAgree => rd = Len(sent) /\ ~wopen
    <3>1. hdr # NoHeader
      BY <2>1, DeltaTaken
    <3>2. LevelsAgree => ~midline
      BY <2>1, <3>1 DEF PastLines
    <3>3. Available => rd + 1 \in (rd+1)..Len(sent)
      BY <1>2 DEF Available
    <3>4. LevelsAgree /\ Available => NextRecord.type = "W"
      BY <2>1, <3>1, <3>3, OnlyDataPastLines DEF NextRecord, Is
    <3> QED
      BY <1>9, <3>2, <3>4 DEF PatchDone, AtEOF
  <2> QED
    BY <1>1, <2>1, <2>2 DEF Patched, IsRecordOf, Is, Goal
<1>10. CASE VerifyFails \/ CreateSnapshotFails \/ OpenNewFails \/ PatchFails
              \/ ReceiverKilled
  BY <1>10 DEF VerifyFails, CreateSnapshotFails, OpenNewFails, PatchFails,
               ReceiverKilled, ReceiverExit, Patched
<1>11. CASE WriteBase
  BY <1>1, <1>11 DEF WriteBase, pipeVars, Patched, IsRecordOf, Is, Goal
<1>12. CASE midline
  <2>1. LevelRaised
    BY <1>12 DEF ReceiverPlace
  <2> QED
    BY <1>1, <2>1 DEF Patched, LevelRaised, LevelsAgree
<1>13. CASE MisreadLine \/ MisreadData \/ MisreadWrite \/ MisreadFails \/ rpc = "misread"
  BY <1>12, <1>13
  DEF MisreadLine, MisreadData, MisreadWrite, MisreadFails, ReceiverPlace
<1>14. CASE PatchDone
  BY <1>9, <1>13, <1>14 DEF PatchDone
<1> QED
  BY <1>3, <1>4, <1>5, <1>6, <1>7, <1>8, <1>10, <1>11, <1>13, <1>14
  DEF ReceiverNext, ReceiverStep

LEMMA DataInit == Init => DataInv
<1> SUFFICES ASSUME Init PROVE DataInv
  OBVIOUS
<1>1. Sent = {} /\ spc = "prepare" /\ rpc = "header"
  BY DEF Init, PipeInit, SenderInit, ReceiverInit, Sent
<1> QED
  BY <1>1 DEF DataInv, DeltaFaithful, Prepared, RecordsFaithful, NoneSkipped, Patched

LEMMA DataNext == TypeInv /\ FramingInv /\ DataInv /\ [Next]_vars => DataInv'
<1> SUFFICES ASSUME TypeInv, FramingInv, DataInv, [Next]_vars PROVE DataInv'
  OBVIOUS
<1>0. TypeInv'
  BY TypeNext
<1> USE DEF TypeInv, TypeOK, FramingInv, DataInv
<1>1. rd \in Nat /\ Len(sent) \in Nat /\ rd <= Len(sent)
  BY DEF PipeTypeOK
<1>2. CASE SenderNext /\ UNCHANGED <<receiverVars, runs>>
  <2>1. DeltaFaithful' /\ RecordsFaithful' /\ NoneSkipped'
    BY <1>2, DeltaFaithfulSender, RecordsFaithfulSender, NoneSkippedSender
  <2>2. Patched'
    <3>1. /\ \A i \in 1..rd : sent'[i] = sent[i]
          /\ rd = Len(sent) /\ ~wopen => rd = Len(sent') /\ ~wopen'
      <4>1. CASE sent' = sent
        BY <1>2, <4>1, SenderEffect
      <4>2. CASE spc \notin SenderEnd /\ ropen /\ \E rec : Write(rec)
        <5>1. wopen
          BY <4>2 DEF StreamInv, Ends
        <5> QED
          BY <1>1, <4>2, <5>1, WriteAppends
      <4> QED
        BY <1>2, <4>1, <4>2, SenderEffect
    <3> QED
      BY <1>2, <3>1, SenderEffect, SenderInputs, PatchedQuiet
      DEF receiverVars, targetVars
  <2> QED
    BY <2>1, <2>2
<1>3. CASE ReceiverNext /\ UNCHANGED <<senderVars, runs>>
  <2>1. Patched'
    BY <1>0, <1>3, PatchedReceiver
  <2>2. UNCHANGED <<sent, cut, volA, volB, blocks, spc, cursor, buf, writes>>
    BY <1>3, ReceiverEffect DEF senderVars
  <2> QED
    BY <2>1, <2>2
    DEF DeltaFaithful, Prepared, Chunks, At, RecordsFaithful, NoneSkipped, Delta, Goal,
        Sent, IsRecordOf, Is
<1>4. CASE CutPipe /\ UNCHANGED <<senderVars, receiverVars, runs>>
  <2>1. /\ \A i \in 1..Len(sent') : sent'[i] = sent[i]
        /\ rd' = rd /\ rd <= Len(sent') /\ Len(sent') <= Len(sent) /\ ~wopen'
        /\ Len(sent') \in Nat
        /\ cut'
    BY <1>4, CutLeavesPrefix DEF CutPipe
  <2>2. UNCHANGED <<volA, volB, level, meta, blocks, spc, cursor, buf, writes>>
    BY <1>4 DEF senderVars
  <2>3. DeltaFaithful' /\ NoneSkipped'
    BY <2>1, <2>2 DEF DeltaFaithful, Prepared, Chunks, At, NoneSkipped
  <2>4. RecordsFaithful'
    BY <2>1, <2>2 DEF RecordsFaithful, Delta, Goal, Sent, Is
  <2>5. Patched'
    BY <1>1, <1>4, <2>1, <2>2, PatchedQuiet DEF receiverVars, targetVars
  <2> QED
    BY <2>3, <2>4, <2>5
<1>5. CASE Rerun
  <2>1. /\ UNCHANGED <<sent, cut, volA, volB, blocks, spc, cursor, buf, writes>>
        /\ rpc' = "header"
    BY <1>5 DEF Rerun, senderVars
  <2> QED
    BY <2>1
    DEF DeltaFaithful, Prepared, Chunks, At, RecordsFaithful, NoneSkipped, Delta, Goal,
        Sent, IsRecordOf, Is, Patched
<1>6. CASE UNCHANGED vars
  <2>1. UNCHANGED <<sent, rd, wopen, cut, volA, volB, level, meta, blocks, spc, cursor,
                    buf, writes, rpc, hdr, chunk, copied, new, path>>
    BY <1>6 DEF vars, pipeVars, senderVars, receiverVars, targetVars
  <2>2. Patched'
    BY <2>1, PatchedQuiet
  <2> QED
    BY <2>1, <2>2
    DEF DeltaFaithful, Prepared, Chunks, At, RecordsFaithful, NoneSkipped, Delta, Goal,
        Sent, IsRecordOf, Is
<1> QED
  BY <1>2, <1>3, <1>4, <1>5, <1>6 DEF Next, Terminated

\* Every record names a chunk of the delta and carries it, none is skipped, and
\* lvpatch has turned the chunks read, and no others, into those of A.
THEOREM DataInvariance == Spec => []DataInv
<1> QED
  BY DataInit, DataNext, TypeInvariance, FramingInvariance, PTL DEF Spec

LEMMA DataImplies == TypeInv /\ FramingInv /\ DataInv => RestoredWhenDone
<1> SUFFICES ASSUME TypeInv, FramingInv, DataInv,
                    rpc = "done", CleanRun, copied = volB, DOMAIN volA = DOMAIN volB
             PROVE  new = volA
  BY DEF RestoredWhenDone
<1> USE DEF TypeInv, TypeOK, DataInv, CleanRun
<1>1. /\ DOMAIN new = DOMAIN volA
      /\ \A b \in DOMAIN volA :
           /\ b \notin Delta => new[b] = volB[b]
           /\ \A i \in 1..rd : IsRecordOf(i, b) => new[b] = Goal(b)
      /\ rd = Len(sent)
  BY DEF Patched
<1>2. /\ \A b \in Chunks \ DOMAIN blocks : At(volA, b) = Zero /\ At(volB, b) = Zero
      /\ \A b \in DOMAIN blocks :
           /\ blocks[b] = DeltaOpDelete => At(volA, b) = Zero
           /\ blocks[b] = DeltaOpIgnore => volA[b] = volB[b]
  BY DEF DeltaFaithful, Prepared
<1>3. ASSUME NEW b \in DOMAIN volA
      PROVE  new[b] = volA[b]
  <2>1. At(volA, b) = volA[b] /\ At(volB, b) = volB[b] /\ b \in Chunks
    BY DEF At, Chunks
  <2>2. CASE b \in Delta
    <3>1. PICK i \in Sent : IsRecordOf(i, b)
      BY <2>2 DEF NoneSkipped
    <3>2. new[b] = Goal(b)
      BY <1>1, <3>1 DEF Sent
    <3>3. Goal(b) = volA[b]
      BY <1>2, <2>1, <2>2 DEF Goal, Delta
    <3> QED
      BY <3>2, <3>3
  <2>3. CASE b \notin Delta
    BY <1>1, <1>2, <2>1, <2>3 DEF Delta
  <2> QED
    BY <2>2, <2>3
<1>4. new \in Volume /\ volA \in Volume
  BY DEF NewExists, SenderTypeOK
<1>5. new = [b \in DOMAIN new |-> new[b]] /\ volA = [b \in DOMAIN volA |-> volA[b]]
  <2>1. \A v \in Volume : v = [b \in DOMAIN v |-> v[b]]
    BY DEF Volume
  <2> QED
    BY <1>4, <2>1
<1> QED
  BY <1>1, <1>3, <1>5

\* What the two programs are for: success of lvpatch, on the stream of an lvdiff
\* that ended well while nobody wrote to A, on a base that was B when it was copied,
\* means that the new volume is A, if the path of its name leads to it; for every
\* size, chunk size, level, pipe and interleaving, and whatever failed in runs of
\* lvpatch before.
THEOREM RestoredCorrect == Spec => []RestoredWhenDone
<1> QED
  BY DataImplies, DataInvariance, FramingInvariance, TypeInvariance, PTL

=============================================================================
