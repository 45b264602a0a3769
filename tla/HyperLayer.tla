----------------------------- MODULE HyperLayer -----------------------------
(***************************************************************************)
(* The HyperLayer stream that lvdiff writes to its standard output and     *)
(* lvpatch reads from its standard input, and the pipe that carries it.    *)
(*                                                                         *)
(* A stream is a header, a list of "D" lines (digests of chunks of the     *)
(* backing volume) closed by an empty line, and a list of "W" records (a   *)
(* sub-header line, one chunk of data, a newline).  Records are the unit   *)
(* here: a stream cut inside a record has the effect of one cut before it, *)
(* because every read of lvpatch that hits the end of the input returns    *)
(* before it acts on what it got (and a W record cut before its newline    *)
(* has the effect of a complete one, the result of ReadBytes being         *)
(* ignored there).  Offsets and lengths are in 512-byte sectors, as in the *)
(* stream.                                                                 *)
(***************************************************************************)
EXTENDS Integers, Sequences

CONSTANTS
  Value,      \* what a chunk can contain
  Zero,       \* what a chunk that was never provisioned reads as
  Sizes,      \* the sizes, in chunks, a thin volume may have
  Sectors,    \* chunk size of the source pool in sectors (blockSize >> 9)
  Capacity,   \* how many records fit in the pipe between the two programs
  Faults      \* which failures the environment may inject

FaultKind == {"lvm", "io", "kill", "cut"}

ASSUME ValueAssumption    == Zero \in Value
ASSUME SizesAssumption    == Sizes \subseteq Nat
ASSUME SectorsAssumption  == Sectors \in Nat \ {0}
ASSUME CapacityAssumption == Capacity \in Nat \ {0}
ASSUME FaultsAssumption   == Faults \subseteq FaultKind

VARIABLES
  sent,   \* the records lvdiff wrote and the transport did not lose
  rd,     \* how many of them lvpatch has consumed
  wopen,  \* the writing end is open: lvpatch does not see the end of file yet
  ropen,  \* the reading end is open: lvdiff does not get SIGPIPE yet
  cut     \* the transport broke

pipeVars == <<sent, rd, wopen, ropen, cut>>

-----------------------------------------------------------------------------
(* Volumes: the contents of a device, chunk by chunk.                      *)

Volume == UNION {[0..(n-1) -> Value] : n \in Sizes}

At(vol, b) == IF b \in DOMAIN vol THEN vol[b] ELSE Zero

-----------------------------------------------------------------------------
(* Records.                                                                *)

Header(lv, cnt, chunk) ==
  [type |-> "head", level |-> lv, count |-> cnt, chunk |-> chunk]

\* The zero value of streamHeader: what lvpatch holds when it could not read one.
NoHeader == Header(0, 0, 0)

BaseLine(off, digest) ==
  [type |-> "D", off |-> off, len |-> Len(digest) * Sectors, digest |-> digest]

EmptyLine == [type |-> "end"]

ErrorText == [type |-> "text"]

BlockRecord(b, val) == [type |-> "W", off |-> b * Sectors, val |-> val]

HeaderRecord == [type : {"head"}, level : Int, count : Nat, chunk : Nat]
DigestLine == [type : {"D"}, off : Nat, len : Nat, digest : Seq(Value)]
DataRecord == [type : {"W"}, off : Nat, val : Value]

Record == HeaderRecord \cup DigestLine \cup [type : {"end", "text"}] \cup DataRecord

-----------------------------------------------------------------------------
(* The pipe.                                                               *)

PipeTypeOK ==
  /\ sent \in Seq(Record)
  /\ rd \in 0..Len(sent)
  /\ wopen \in BOOLEAN /\ ropen \in BOOLEAN /\ cut \in BOOLEAN

PipeInit ==
  /\ sent = <<>>
  /\ rd = 0
  /\ wopen = TRUE
  /\ ropen = TRUE
  /\ cut = FALSE

\* A write blocks while the pipe is full.
Write(rec) ==
  /\ ropen
  /\ Len(sent) - rd < Capacity
  /\ sent' = Append(sent, rec)
  /\ UNCHANGED <<rd, ropen, cut>>

Available == rd < Len(sent)

NextRecord == sent[rd + 1]

Consume ==
  /\ rd' = rd + 1
  /\ UNCHANGED <<sent, wopen, cut>>

AtEOF == rd = Len(sent) /\ ~wopen

\* The connection between the two programs breaks, or the saved stream was
\* truncated: what is in flight may be lost, and both ends notice.
CutPipe ==
  /\ "cut" \in Faults
  /\ ropen
  /\ \E n \in rd..Len(sent) : sent' = SubSeq(sent, 1, n)
  /\ cut' = TRUE
  /\ wopen' = FALSE
  /\ ropen' = FALSE
  /\ UNCHANGED rd

=============================================================================
