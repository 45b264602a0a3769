------------------------------ MODULE Lvpatch ------------------------------
(***************************************************************************)
(* lvpatch -l <base> <new>: streamRecver.Run of lvbackup/recv.go with what *)
(* it calls.  It reads the header and the digests, compares the base       *)
(* volume with the digests, makes a snapshot of the base under the new     *)
(* name and writes the chunks of the stream into that snapshot.  It finds  *)
(* both volumes by paths made of their names, which DeviceNames is about.  *)
(***************************************************************************)
EXTENDS HyperLayer

CONSTANTS
  DstSectors, \* chunk sizes, in sectors, the pool of the base may have
  NoChecks,   \* values of --no-base-check
  Absent,     \* stands for the contents of a volume that does not exist
  Paths,      \* where the paths of the base and of the new volume may lead
  MaxMisread, \* how much chunk data is taken for lines: bounds the model
  MaxBaseWrites \* how often the base is written: bounds the model

ASSUME DstSectorsAssumption == DstSectors \subseteq Nat \ {0}
ASSUME NoChecksAssumption   == NoChecks \subseteq BOOLEAN
ASSUME AbsentAssumption     == Absent \notin Volume
ASSUME MisreadAssumption    == MaxMisread \in Nat
ASSUME BaseWritesAssumption == MaxBaseWrites \in Nat

\* To the volume, to no device, or to that of another volume.
PathEnd == {"own", "none", "other"}

ASSUME PathsAssumption == Paths \subseteq [base : PathEnd, new : PathEnd]

VARIABLES
  base,         \* contents of the base volume
  new,          \* contents of the new volume
  chunk,        \* pool.ChunkSize, in sectors
  disableCheck, \* the flag --no-base-check
  path,         \* where the paths of the two volumes lead
  rpc,          \* where recvDiffStream is
  hdr,          \* sr.header
  baseBlocks,   \* sr.baseBlocks
  midline,      \* the reader stands in the data of the record it consumed last
  dwWritten,    \* how many chunks were written
  baseWrites,   \* how often the base was written
  copied,       \* history: what the snapshot was made of, Absent before
  dirty         \* history: chunks of the base written after its verification
                \* and before the snapshot

targetVars == <<base, chunk, disableCheck, path, baseWrites, copied, dirty>>
receiverVars == <<targetVars, new, rpc, hdr, baseBlocks, midline, dwWritten>>

ReceiverEnd == {"done", "failed", "killed"}

ReceiverTypeOK ==
  /\ base \in Volume
  /\ new \in Volume \cup {Absent}
  /\ chunk \in DstSectors
  /\ disableCheck \in NoChecks
  /\ path \in Paths
  /\ rpc \in {"header", "base", "check", "snapshot", "activate", "patch", "misread"}
               \cup ReceiverEnd
  /\ hdr \in HeaderRecord
  /\ baseBlocks \in Seq(DigestLine)
  /\ midline \in BOOLEAN
  /\ dwWritten \in Nat
  /\ baseWrites \in Nat
  /\ copied \in Volume \cup {Absent}
  /\ dirty \subseteq DOMAIN base

ReceiverInit ==
  /\ base \in Volume
  /\ new = Absent
  /\ chunk \in DstSectors
  /\ disableCheck \in NoChecks
  /\ path \in Paths
  /\ rpc = "header"
  /\ hdr = NoHeader
  /\ baseBlocks = <<>>
  /\ midline = FALSE
  /\ dwWritten = 0
  /\ baseWrites = 0
  /\ copied = Absent
  /\ dirty = {}

\* Run returns (or the process ends): "done" is exit status 0.
ReceiverExit(end) ==
  /\ rpc' = end
  /\ ropen' = FALSE

-----------------------------------------------------------------------------
(* readHeader and readBaseBlocks; recvDiffStream ignores what both return. *)

\* Lines are collected up to an empty one.  At the end of the input readHeader
\* returns before it decodes anything, and the header keeps its zero value.  Only
\* the text of an error can come instead of a header.
ReadHeader ==
  /\ rpc = "header"
  /\ \/ /\ Available
        /\ Consume
        /\ \/ /\ NextRecord.type = "head"
              /\ hdr' = NextRecord
              /\ rpc' = "base"
           \/ /\ NextRecord.type = "text"
              /\ UNCHANGED <<hdr, rpc>>
     \/ /\ AtEOF
        /\ rpc' = "base"
        /\ UNCHANGED <<hdr, sent, rd, wopen, cut>>
  /\ UNCHANGED <<targetVars, new, baseBlocks, midline, dwWritten, ropen>>

\* Wrong on purpose: what a plausible bug would make of the next definition.
NoBaseBlocksMutant == hdr.level < 3

\* Without checksums readBaseBlocks reads nothing.
NoBaseBlocks == hdr.level = 0

\* One turn of the loop of readBaseBlocks.  A sub-header fails to parse as a
\* digest line, and its data is left unread.
ReadBaseBlocks ==
  /\ rpc = "base"
  /\ \/ /\ NoBaseBlocks \/ AtEOF
        /\ rpc' = "check"
        /\ UNCHANGED <<baseBlocks, midline, sent, rd, wopen, cut>>
     \/ /\ ~NoBaseBlocks
        /\ Available
        /\ Consume
        /\ baseBlocks' = IF NextRecord.type = "D"
                         THEN Append(baseBlocks, NextRecord) ELSE baseBlocks
        /\ midline' = (NextRecord.type = "W")
        /\ rpc' = IF NextRecord.type = "D" THEN "base" ELSE "check"
  /\ UNCHANGED <<targetVars, new, hdr, dwWritten, ropen>>

-----------------------------------------------------------------------------
(* prepare, in two steps because the base may be read long before the      *)
(* snapshot of it is made.                                                 *)

\* Wrong on purpose: what a plausible bug would make of the next definition.
MatchesMutant(line) ==
  LET addr == line.off \div chunk
      n    == line.len \div chunk
  IN /\ addr..(addr+n) \subseteq DOMAIN base
     /\ line.digest = [i \in 1..n |-> base[addr+i-1]]

\* A digest line against the base: false, too, if the base ends before it.
Matches(line) ==
  LET addr == line.off \div chunk
      n    == line.len \div chunk
  IN /\ addr..(addr+n-1) \subseteq DOMAIN base
     /\ line.digest = [i \in 1..n |-> base[addr+i-1]]

\* Wrong on purpose, both: what plausible bugs would make of the next definition.
CheckBaseMutant1 == \A i \in 1..(Len(baseBlocks) - 1) : Matches(baseBlocks[i])
CheckBaseMutant2 == \A i \in 2..Len(baseBlocks) : Matches(baseBlocks[i])

CheckBase == \A i \in 1..Len(baseBlocks) : Matches(baseBlocks[i])

Verify ==
  /\ rpc = "check"
  /\ hdr.chunk = chunk
  /\ disableCheck \/ baseBlocks = <<>> \/ path.base = "other"
       \/ (path.base = "own" /\ CheckBase)
  /\ rpc' = "snapshot"
  /\ dirty' = IF new = Absent THEN {} ELSE dirty
  /\ UNCHANGED <<base, chunk, disableCheck, path, baseWrites, copied, new, hdr,
                 baseBlocks, midline, dwWritten, pipeVars>>

\* Another chunk size or a wrong digest; a failing lookup; an unreadable base, or
\* none under its path.
VerifyFails ==
  /\ rpc = "check"
  /\ \/ hdr.chunk # chunk
     \/ "lvm" \in Faults
     \/ /\ ~disableCheck /\ baseBlocks # <<>>
        /\ path.base # "own" \/ ~CheckBase \/ "io" \in Faults
  /\ ReceiverExit("failed")
  /\ UNCHANGED <<targetVars, new, hdr, baseBlocks, midline, dwWritten,
                 sent, rd, wopen, cut>>

\* Wrong on purpose: what a plausible bug would make of the next definition.
CreateSnapshotMutant ==
  /\ rpc = "snapshot"
  /\ new' = base
  /\ copied' = base
  /\ rpc' = "activate"
  /\ UNCHANGED <<base, chunk, disableCheck, path, baseWrites, dirty, hdr, baseBlocks,
                 midline, dwWritten, pipeVars>>

\* lvcreate --snapshot, which fails if the name is taken.
CreateSnapshot ==
  /\ rpc = "snapshot"
  /\ new = Absent
  /\ new' = base
  /\ copied' = base
  /\ rpc' = "activate"
  /\ UNCHANGED <<base, chunk, disableCheck, path, baseWrites, dirty, hdr, baseBlocks,
                 midline, dwWritten, pipeVars>>

\* Wrong on purpose, both: what plausible bugs would make of the next definition.
CreateSnapshotFailsMutant1 ==
  /\ rpc = "snapshot"
  /\ "lvm" \in Faults \/ new # Absent
  /\ rpc' = "activate"
  /\ UNCHANGED <<targetVars, new, hdr, baseBlocks, midline, dwWritten, pipeVars>>

CreateSnapshotFailsMutant2 ==
  /\ rpc = "snapshot"
  /\ new # Absent
  /\ rpc' = "activate"
  /\ UNCHANGED <<targetVars, new, hdr, baseBlocks, midline, dwWritten, pipeVars>>

CreateSnapshotFails ==
  /\ rpc = "snapshot"
  /\ "lvm" \in Faults \/ new # Absent
  /\ ReceiverExit("failed")
  /\ UNCHANGED <<targetVars, new, hdr, baseBlocks, midline, dwWritten,
                 sent, rd, wopen, cut>>

-----------------------------------------------------------------------------
(* The rest of recvDiffStream.                                             *)

\* ActivateLv of the snapshot, and the opening of the device its path leads to.
OpenNew ==
  /\ rpc = "activate"
  /\ path.new # "none"
  /\ rpc' = "patch"
  /\ UNCHANGED <<targetVars, new, hdr, baseBlocks, midline, dwWritten, pipeVars>>

OpenNewFails ==
  /\ rpc = "activate"
  /\ path.new = "none" \/ "lvm" \in Faults \/ "io" \in Faults
  /\ ReceiverExit("failed")
  /\ UNCHANGED <<targetVars, new, hdr, baseBlocks, midline, dwWritten,
                 sent, rd, wopen, cut>>

\* Wrong on purpose: what a plausible bug would make of the next definition.
TargetMutant(rec) == rec.off \div chunk + 1

\* The chunk of the new volume a record addresses.
Target(rec) == rec.off \div chunk

\* What a write to the device leaves in the new volume.  If the device is another
\* volume's, of any size, it is that one which changes (the base: see WriteBase).
Written(b, val) == IF path.new = "own" THEN [new EXCEPT ![b] = val] ELSE new

\* One turn of the loop: a sub-header and its data, written to the device.
PatchBlock ==
  /\ rpc = "patch"
  /\ Available /\ ~midline /\ NextRecord.type = "W"
  /\ path.new = "own" => Target(NextRecord) \in DOMAIN new
  /\ new' = Written(Target(NextRecord), NextRecord.val)
  /\ dwWritten' = dwWritten + 1
  /\ Consume
  /\ UNCHANGED <<targetVars, rpc, hdr, baseBlocks, midline, ropen>>

\* The record lies beyond the end of the device, or the device fails; the data of
\* a write that failed may have reached it all the same.
PatchFails ==
  /\ rpc = "patch"
  /\ Available /\ ~midline /\ NextRecord.type = "W"
  /\ LET b == Target(NextRecord) IN
     \/ /\ b \notin DOMAIN new \/ path.new # "own" \/ "io" \in Faults
        /\ new' = new
     \/ /\ b \in DOMAIN new /\ "io" \in Faults
        /\ new' = Written(b, NextRecord.val)
  /\ Consume
  /\ ReceiverExit("failed")
  /\ UNCHANGED <<targetVars, hdr, baseBlocks, midline, dwWritten>>

\* Wrong on purpose: what a plausible bug would make of the next definition.
PatchDoneMutant ==
  /\ rpc = "patch"
  /\ \/ /\ midline \/ (Available /\ NextRecord.type # "W")
        /\ ReceiverExit("done")
     \/ AtEOF /\ UNCHANGED <<rpc, ropen>>
  /\ UNCHANGED <<targetVars, new, hdr, baseBlocks, midline, dwWritten,
                 sent, rd, wopen, cut>>

\* A line that is not of three words ends the loop, and so does the end of the input,
\* wherever it is: Run turns io.EOF into success.
PatchDone ==
  /\ \/ rpc = "patch" /\ (midline \/ (Available /\ NextRecord.type # "W"))
     \/ rpc \in {"patch", "misread"} /\ AtEOF
  /\ ReceiverExit("done")
  /\ UNCHANGED <<targetVars, new, hdr, baseBlocks, midline, dwWritten,
                 sent, rd, wopen, cut>>

-----------------------------------------------------------------------------
(* The same loop where readBaseBlocks has taken a sub-header for a digest  *)
(* line: it goes on in the middle of chunk data, and what looks like a     *)
(* line of three words there is a sub-header to it (the errors of ParseInt *)
(* are ignored), with any offset and any length.                           *)

MisreadLine ==
  /\ rpc = "patch"
  /\ midline
  /\ dwWritten < MaxMisread
  /\ rpc' = "misread"
  /\ UNCHANGED <<targetVars, new, hdr, baseBlocks, midline, dwWritten, pipeVars>>

\* The length leads into the data of a later record, or to its end.
MisreadData ==
  /\ rpc = "misread"
  /\ Available
  /\ Consume
  /\ UNCHANGED <<targetVars, new, rpc, hdr, baseBlocks, midline, dwWritten, ropen>>

\* Anything may be written anywhere, and the next line is in chunk data again or a
\* sub-header.
MisreadWrite ==
  /\ rpc = "misread"
  /\ new' \in IF path.new = "own" THEN [DOMAIN new -> Value] ELSE {new}
  /\ dwWritten' = dwWritten + 1
  /\ midline' \in BOOLEAN
  /\ rpc' = "patch"
  /\ UNCHANGED <<targetVars, hdr, baseBlocks, pipeVars>>

\* A length make refuses, an offset the device has not, a write that fails half-way.
MisreadFails ==
  /\ rpc = "misread"
  /\ new' \in IF path.new = "own" THEN [DOMAIN new -> Value] ELSE {new}
  /\ ReceiverExit("failed")
  /\ UNCHANGED <<targetVars, hdr, baseBlocks, midline, dwWritten,
                 sent, rd, wopen, cut>>

-----------------------------------------------------------------------------
ReceiverKilled ==
  /\ "kill" \in Faults
  /\ rpc \notin ReceiverEnd
  /\ ReceiverExit("killed")
  /\ UNCHANGED <<targetVars, new, hdr, baseBlocks, midline, dwWritten,
                 sent, rd, wopen, cut>>

\* Somebody writes to the base, which stays active and may be mounted.  Before
\* lvpatch looks at it this would be the same as another base.
WriteBase ==
  /\ rpc \notin ReceiverEnd \cup {"header", "base"}
  /\ baseWrites < MaxBaseWrites
  /\ \E b \in DOMAIN base, v \in Value :
       /\ v # base[b]
       /\ base' = [base EXCEPT ![b] = v]
       /\ dirty' = IF new = Absent THEN dirty \cup {b} ELSE dirty
  /\ baseWrites' = baseWrites + 1
  /\ UNCHANGED <<chunk, disableCheck, path, copied, new, rpc, hdr, baseBlocks,
                 midline, dwWritten, pipeVars>>

ReceiverStep ==
  \/ ReadHeader \/ ReadBaseBlocks \/ Verify \/ VerifyFails
  \/ CreateSnapshot \/ CreateSnapshotFails \/ OpenNew \/ OpenNewFails
  \/ PatchBlock \/ PatchFails \/ PatchDone
  \/ MisreadLine \/ MisreadData \/ MisreadWrite \/ MisreadFails

ReceiverNext == ReceiverStep \/ ReceiverKilled \/ WriteBase

=============================================================================
