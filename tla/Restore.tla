------------------------------ MODULE Restore ------------------------------
(***************************************************************************)
(* What lvdiff and lvpatch together promise to somebody who sees volumes   *)
(* only, and no stream: the new volume appears as a copy of the base, its  *)
(* chunks then turn one by one into what those of the source contain, or   *)
(* contained since the difference was taken, and success is reported once. *)
(* When the stream is complete, the source was left alone, and what was    *)
(* copied was the backing volume, success means that the new volume is the *)
(* source.                                                                 *)
(***************************************************************************)
CONSTANTS Zero, Absent

VARIABLES
  source,    \* A, the volume to restore
  held,      \* what each chunk of the source contained since then
  backing,   \* B, what the difference was taken against
  original,  \* the base volume at the receiving end
  volume,    \* the new volume
  copied,    \* what the new volume was a copy of when it was made
  misled,    \* the header is wrong about the stream, and the reader out of step
  complete,  \* everything the sender had to say has been said and can be read, and
             \* the source was left alone meanwhile
  success    \* lvpatch reported success

vars ==
  <<source, held, backing, original, volume, copied, misled, complete, success>>
inputs == <<source, held, backing, misled>>

\* What may be sent for a chunk.
Contents(b) == IF b \in DOMAIN source THEN held[b] ELSE {Zero}

Init ==
  /\ held = [b \in DOMAIN source |-> {source[b]}]
  /\ volume = Absent
  /\ copied = Absent
  /\ complete = FALSE
  /\ success = FALSE

\* The sender finishes, or what it sent is lost.
Transmit ==
  /\ ~success
  /\ complete' \in BOOLEAN
  /\ UNCHANGED <<inputs, original, volume, copied, success>>

\* The source is in use like any volume.
WriteSource ==
  /\ ~complete
  /\ \E b \in DOMAIN source :
       /\ source' = [source EXCEPT ![b] = source'[b]]
       /\ held' = [held EXCEPT ![b] = @ \cup {source'[b]}]
  /\ UNCHANGED <<backing, misled, original, volume, copied, complete, success>>

\* The original is in use, too; what is written to it does not reach
\* the new volume any more.
Write ==
  /\ \E b \in DOMAIN original : original' = [original EXCEPT ![b] = original'[b]]
  /\ UNCHANGED <<inputs, volume, copied, complete, success>>

Snapshot ==
  /\ volume = Absent
  /\ volume' = original
  /\ copied' = original
  /\ UNCHANGED <<inputs, original, complete, success>>

Patch ==
  /\ ~success
  /\ volume # Absent
  /\ \E b \in DOMAIN volume : \E v \in Contents(b) :
       volume' = [volume EXCEPT ![b] = v]
  /\ UNCHANGED <<inputs, original, copied, complete, success>>

\* Somebody who is misled may write anything into the new volume.
Garble ==
  /\ misled
  /\ ~success
  /\ volume # Absent
  /\ volume' = [b \in DOMAIN volume |-> volume'[b]]
  /\ UNCHANGED <<inputs, original, copied, complete, success>>

Report ==
  /\ ~success
  /\ volume # Absent
  /\ complete /\ copied = backing /\ DOMAIN source = DOMAIN backing
       => volume = source
  /\ success' = TRUE
  /\ UNCHANGED <<inputs, original, volume, copied, complete>>

Next == Transmit \/ WriteSource \/ Write \/ Snapshot \/ Patch \/ Garble \/ Report

Spec == Init /\ [][Next]_vars

=============================================================================
