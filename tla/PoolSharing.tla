---------------------------- MODULE PoolSharing ----------------------------
(***************************************************************************)
(* Several lvdiff in one volume group.  What they share is the metadata    *)
(* snapshot of the pool, of which there is at most one and which anybody   *)
(* may release (Delta of thindelta/thindelta.go), and the activation of    *)
(* the volumes (Run of send.go with lvmutil.go).  What each does with its  *)
(* stream is in Lvdiff.tla and left out here; a volume that is not found   *)
(* ends lvdiff before it touches anything.  Other groups and pools matter  *)
(* only as the devices a path may lead to.                                 *)
(***************************************************************************)
EXTENDS DeviceNames

CONSTANTS
  Proc,    \* lvdiff processes
  Lv,      \* thin volumes of the pool
  Namings, \* how group, pool and volumes may be named, and what else there is
  Nobody,  \* no process
  Faults   \* what may fail: "lvm" commands and devices, "kill" a process

ASSUME NobodyAssumption ==
  Nobody \notin Proc \cup {"other", "torn"} /\ Proc \cap {"other", "torn"} = {}
ASSUME FaultsAssumption == Faults \subseteq {"lvm", "kill"}
\* LVM gives no two volumes of a group the same name, nor two pools.
ASSUME NamingsAssumption ==
  \A n \in Namings : /\ n.vg \in Name /\ n.pool \in Name
                     /\ n.lv \in [Lv -> Name]
                     /\ \A v, w \in Lv : n.lv[v] = n.lv[w] => v = w
                     /\ n.volumes \subseteq [vg : Name, lv : Name]
                     /\ \A v \in Lv : [vg |-> n.vg, lv |-> n.lv[v]] \notin n.volumes
                     /\ n.pools \subseteq [vg : Name, pool : Name]
                     /\ [vg |-> n.vg, pool |-> n.pool] \notin n.pools

VARIABLES
  name,     \* the names of the group (vg), of the pool and of its volumes (lv);
            \* the active volumes and pools that are none of these
  snap,     \* whose metadata snapshot the pool holds
  active,   \* the volumes that are activated
  mounted,  \* volumes somebody else has open
  pc,       \* where each process is
  lvname, srcname,  \* its volumes
  detect,   \* its level is not 0
  from,     \* whose metadata snapshot its thin_delta began to read; "other": that
            \* of another pool
  delta,    \* whose snapshot s.blocks is made of; "torn": of several
  open,     \* the device it has open
  result,   \* how it will end once its deferred calls have run
  met,      \* history: the processes that did not run alone
  ignored   \* history: releases that failed though there was a snapshot, at the start
            \* of Delta ("leftover") and, of its own, at the end ("deferred")

vars == <<name, snap, active, mounted, pc, lvname, srcname, detect, from, delta,
          open, result, met, ignored>>
snapVars == <<snap, ignored>>
jobs == <<name, mounted, lvname, srcname, detect, met>>

Outcome == {"done", "failed", "refused"}
End == Outcome \cup {"killed"}

Running(p) == pc[p] \notin {"idle"} \cup End

TypeOK ==
  /\ name \in Namings
  /\ snap \in Proc \cup {Nobody}
  /\ active \in SUBSET Lv /\ mounted \in SUBSET Lv
  /\ pc \in [Proc -> {"idle", "release", "reserve", "begin", "read", "defer",
                      "activatesrc", "activate", "opensrc", "hash", "open", "send",
                      "deactivate"} \cup End]
  /\ lvname \in [Proc -> Lv] /\ srcname \in [Proc -> Lv]
  /\ detect \in [Proc -> BOOLEAN]
  /\ from \in [Proc -> Proc \cup {Nobody, "other"}]
  /\ delta \in [Proc -> Proc \cup {Nobody, "other", "torn"}]
  /\ open \in [Proc -> SUBSET (Lv \cup name.volumes)]
  /\ result \in [Proc -> Outcome]
  /\ met \in SUBSET Proc
  /\ ignored \in SUBSET (Proc \X {"leftover", "deferred"})

Init ==
  /\ name \in Namings
  /\ snap = Nobody
  /\ mounted \in SUBSET Lv
  /\ active \in SUBSET Lv
  /\ mounted \subseteq active
  /\ pc = [p \in Proc |-> "idle"]
  /\ lvname \in [Proc -> Lv]
  /\ srcname \in [Proc -> Lv]
  /\ detect \in [Proc -> BOOLEAN]
  /\ from = [p \in Proc |-> Nobody]
  /\ delta = [p \in Proc |-> Nobody]
  /\ open = [p \in Proc |-> {}]
  /\ result = [p \in Proc |-> "done"]
  /\ met = {}
  /\ ignored = {}

Goto(p, where) == pc' = [pc EXCEPT ![p] = where]

\* Leave with a result once the deferred calls of a function have run.
Return(p, how, where) ==
  /\ Goto(p, where)
  /\ result' = [result EXCEPT ![p] = how]

Start(p) ==
  /\ pc[p] = "idle"
  /\ Goto(p, "release")
  /\ LET others == {q \in Proc : Running(q)} IN
       met' = met \cup others \cup (IF others = {} THEN {} ELSE {p})
  /\ UNCHANGED <<name, snapVars, active, mounted, lvname, srcname, detect, from, delta,
                 open, result>>

-----------------------------------------------------------------------------
(* Delta: the metadata snapshot.                                           *)

\* The path made of the names of group and pool leads to the pool, or to another.
OwnPool == DmTPool(name.vg, name.pool) = TPoolDevicePath(name.vg, name.pool)

OtherPool ==
  ~OwnPool /\ \E o \in name.pools :
                DmTPool(o.vg, o.pool) = TPoolDevicePath(name.vg, name.pool)

\* Wrong on purpose: what a plausible bug would make of the next definition.
ReleaseLeftoverMutant(p) ==
  /\ pc[p] = "release"
  /\ Goto(p, "reserve")
  /\ UNCHANGED <<snapVars, active, jobs, from, delta, open, result>>

\* The first release.  That it fails is ignored: for want of a snapshot or of a
\* device, which changes nothing, or though there is one.
ReleaseLeftover(p) ==
  /\ pc[p] = "release"
  /\ \/ /\ snap' = IF OwnPool THEN Nobody ELSE snap
        /\ UNCHANGED ignored
     \/ /\ "lvm" \in Faults /\ snap # Nobody
        /\ ignored' = ignored \cup {<<p, "leftover">>}
        /\ UNCHANGED snap
  /\ Goto(p, "reserve")
  /\ UNCHANGED <<active, jobs, from, delta, open, result>>

Reserve(p) ==
  /\ pc[p] = "reserve"
  /\ \/ OwnPool /\ snap = Nobody /\ snap' = p
     \/ OtherPool /\ UNCHANGED snap
  /\ Goto(p, "begin")
  /\ UNCHANGED <<ignored, active, jobs, from, delta, open, result>>

\* The pool is not found, or another one, or has a snapshot already.  Nothing is
\* deferred yet.
ReserveFails(p) ==
  /\ pc[p] = "reserve"
  /\ \/ ~OwnPool /\ Return(p, "refused", "refused")
     \/ snap # Nobody /\ Return(p, "refused", "refused")
     \/ "lvm" \in Faults /\ Return(p, "failed", "failed")
  /\ UNCHANGED <<snapVars, active, jobs, from, delta, open>>

\* thin_delta -m finds the snapshot the pool holds, whoever reserved it.  The
\* metadata volume is named after the pool and is mistaken together with it.
ThinDeltaBegins(p) ==
  /\ pc[p] = "begin"
  /\ \/ snap # Nobody /\ from' = [from EXCEPT ![p] = snap]
     \/ OtherPool /\ from' = [from EXCEPT ![p] = "other"]
  /\ Goto(p, "read")
  /\ UNCHANGED <<snapVars, active, jobs, delta, open, result>>

\* If the snapshot it reads is released meanwhile its blocks are used for other
\* metadata: thin_delta fails, or its output is anything, the right one included.
\* Another pool may have volumes of the same numbers.
ThinDeltaEnds(p) ==
  /\ pc[p] = "read"
  /\ \/ delta' = [delta EXCEPT ![p] = from[p]]
     \/ from[p] # "other" /\ snap # from[p] /\ delta' = [delta EXCEPT ![p] = "torn"]
  /\ Goto(p, "defer")
  /\ UNCHANGED <<snapVars, active, jobs, from, open, result>>

ThinDeltaFails(p) ==
  /\ \/ /\ pc[p] = "begin"
        /\ snap = Nobody
        /\ Return(p, "refused", "defer")
     \/ /\ pc[p] = "read"
        /\ snap # from[p]
        /\ Return(p, "refused", "defer")
     \/ /\ pc[p] \in {"begin", "read"}
        /\ "lvm" \in Faults
        /\ Return(p, "failed", "defer")
  /\ UNCHANGED <<snapVars, active, jobs, from, delta, open>>

\* Wrong on purpose: what a plausible bug would make of the next definition.
ReleaseMutant(p) ==
  /\ pc[p] = "defer"
  /\ snap' = IF result[p] = "done" /\ OwnPool THEN Nobody ELSE snap
  /\ Goto(p, IF result[p] = "done" THEN "activatesrc" ELSE result[p])
  /\ UNCHANGED <<ignored, active, jobs, from, delta, open, result>>

\* The deferred release, whoever holds the snapshot by now, and whose failure is
\* ignored, too.
Release(p) ==
  /\ pc[p] = "defer"
  /\ \/ /\ snap' = IF OwnPool THEN Nobody ELSE snap
        /\ UNCHANGED ignored
     \/ /\ "lvm" \in Faults /\ snap # Nobody
        /\ ignored' = IF snap = p THEN ignored \cup {<<p, "deferred">>} ELSE ignored
        /\ UNCHANGED snap
  /\ Goto(p, IF result[p] = "done" THEN "activatesrc" ELSE result[p])
  /\ UNCHANGED <<active, jobs, from, delta, open, result>>

-----------------------------------------------------------------------------
(* Run: the volumes.                                                       *)

ActivateSrc(p) ==
  /\ pc[p] = "activatesrc"
  /\ \/ /\ active' = active \cup {srcname[p]}
        /\ Goto(p, "activate")
        /\ UNCHANGED result
     \/ /\ "lvm" \in Faults
        /\ Return(p, "failed", "failed")
        /\ UNCHANGED active
  /\ UNCHANGED <<snapVars, jobs, from, delta, open>>

\* Wrong on purpose: what a plausible bug would make of the next definition.
ActivateMutant(p) ==
  /\ pc[p] = "activate"
  /\ Goto(p, IF detect[p] THEN "opensrc" ELSE "open")
  /\ UNCHANGED <<snapVars, active, jobs, from, delta, open, result>>

\* From here on DeactivateLv of srcname is deferred.  GenChecksum opens no device
\* at level 0.
Activate(p) ==
  /\ pc[p] = "activate"
  /\ \/ /\ active' = active \cup {lvname[p]}
        /\ Goto(p, IF detect[p] THEN "opensrc" ELSE "open")
        /\ UNCHANGED result
     \/ /\ "lvm" \in Faults
        /\ Return(p, "failed", "deactivate")
        /\ UNCHANGED active
  /\ UNCHANGED <<snapVars, jobs, from, delta, open>>

\* The volume whose device has the path that is made of a name.
PathOf(lv) == LvDevicePath(name.vg, name.lv[lv])

LedTo(lv) ==
  {v \in Lv : DmLv(name.vg, name.lv[v]) = PathOf(lv)}
    \cup {o \in name.volumes : DmLv(o.vg, o.lv) = PathOf(lv)}

\* A device exists as long as its volume is active.
Found(lv) == LedTo(lv) \cap (active \cup name.volumes)

Open(p, lv, next) ==
  /\ \/ /\ Found(lv) # {}
        /\ open' = [open EXCEPT ![p] = Found(lv)]
        /\ Goto(p, next)
        /\ UNCHANGED result
     \/ /\ Found(lv) = {}
        /\ Return(p, "refused", "deactivate")
        /\ UNCHANGED open
     \/ /\ "lvm" \in Faults
        /\ Return(p, "failed", "deactivate")
        /\ UNCHANGED open
  /\ UNCHANGED <<snapVars, active, jobs, from, delta>>

\* Wrong on purpose: what a plausible bug would make of the next definition.
CloseMutant(p, how, next) ==
  /\ Return(p, how, next)
  /\ UNCHANGED <<snapVars, active, jobs, from, delta, open>>

Close(p, how, next) ==
  /\ open' = [open EXCEPT ![p] = {}]
  /\ Return(p, how, next)
  /\ UNCHANGED <<snapVars, active, jobs, from, delta>>

\* Wrong on purpose: what a plausible bug would make of the next definition.
OpenSrcMutant(p) == pc[p] = "opensrc" /\ Open(p, lvname[p], "hash")

OpenSrc(p) == pc[p] = "opensrc" /\ Open(p, srcname[p], "hash")

OpenLv(p) == pc[p] = "open" /\ Open(p, lvname[p], "send")

\* GenChecksum returns and closes the backing volume.
Hashed(p) ==
  /\ pc[p] = "hash"
  /\ \/ Close(p, "done", "open")
     \/ "lvm" \in Faults /\ Close(p, "failed", "deactivate")

\* Run returns: the file is closed first, it was the last to be deferred.
Sent(p) ==
  /\ pc[p] = "send"
  /\ \/ Close(p, "done", "deactivate")
     \/ "lvm" \in Faults /\ Close(p, "failed", "deactivate")

InUse(lv) == lv \in mounted \/ \E q \in Proc : lv \in open[q]

\* Wrong on purpose: what a plausible bug would make of the next definition.
DeactivateMutant(p) ==
  /\ pc[p] = "deactivate"
  /\ active' = active \ {lvname[p]}
  /\ Goto(p, result[p])
  /\ UNCHANGED <<snapVars, jobs, from, delta, open, result>>

\* The deferred DeactivateLv, whose result nobody looks at: LVM refuses to
\* deactivate a volume that is in use.
Deactivate(p) ==
  /\ pc[p] = "deactivate"
  /\ \/ /\ ~InUse(srcname[p])
        /\ active' = active \ {srcname[p]}
     \/ /\ InUse(srcname[p]) \/ "lvm" \in Faults
        /\ UNCHANGED active
  /\ Goto(p, result[p])
  /\ UNCHANGED <<snapVars, jobs, from, delta, open, result>>

-----------------------------------------------------------------------------
\* A signal: no deferred call runs.  The kernel closes the device.
Killed(p) ==
  /\ "kill" \in Faults
  /\ Running(p)
  /\ Goto(p, "killed")
  /\ open' = [open EXCEPT ![p] = {}]
  /\ UNCHANGED <<snapVars, active, jobs, from, delta, result>>

Step(p) ==
  \/ Start(p)
  \/ ReleaseLeftover(p) \/ Reserve(p) \/ ReserveFails(p)
  \/ ThinDeltaBegins(p) \/ ThinDeltaEnds(p) \/ ThinDeltaFails(p) \/ Release(p)
  \/ ActivateSrc(p) \/ Activate(p) \/ OpenSrc(p) \/ Hashed(p)
  \/ OpenLv(p) \/ Sent(p) \/ Deactivate(p)
  \/ Killed(p)

\* Every process has been run.
Ended == (\A p \in Proc : pc[p] \in End) /\ UNCHANGED vars

Next == (\E p \in Proc : Step(p)) \/ Ended

Spec == Init /\ [][Next]_vars

-----------------------------------------------------------------------------
(* Properties.                                                             *)

\* The names of pool and volumes lead to their devices.
WellNamed(p) == OwnPool /\ \A lv \in {lvname[p], srcname[p]} : LedTo(lv) = {lv}

\* Whatever earlier ones that failed or were killed at any point left behind, an
\* lvdiff that runs alone takes its delta from no snapshot but its own; it gets one,
\* and both devices, unless its names lead elsewhere or the release that takes the
\* leftover away fails (thindelta.go:27, where that is ignored).
Undisturbed ==
  \A p \in Proc \ met :
    /\ delta[p] \in {Nobody, p} \/ ~OwnPool
    /\ "refused" \in {pc[p], result[p]} => ~WellNamed(p) \/ <<p, "leftover">> \in ignored

\* A metadata snapshot outlives the lvdiff that reserved it only if that one was
\* killed or the release it deferred failed, though each may release another one's
\* and fail because of another one's: a snapshot that stays reserved keeps the pool
\* from reusing its metadata.
NothingLeft ==
  snap # Nobody /\ ~Running(snap) =>
    pc[snap] = "killed" \/ <<snap, "deferred">> \in ignored

\* An lvdiff that has v as its backing volume has ended, and not by a signal.
HadAsSource(v) == \E q \in Proc : srcname[q] = v /\ pc[q] \in Outcome

\* B is activated and not opened yet; A is activated and, if lvdiff ends well, meant to
\* stay so (the deactivation of A is commented out).
SourceNeeded(p) == pc[p] \in {"activate", "opensrc"}

TargetNeeded(p) ==
  \/ pc[p] \in {"opensrc", "hash", "open", "send", "done"}
  \/ pc[p] = "deactivate" /\ result[p] = "done"

\* From its activation on a volume is there when it is opened, and A also after lvdiff
\* has ended well, unless it is the backing volume of another lvdiff that ended
\* meanwhile or of the same one: the deferred deactivation of send.go:120, which
\* minds nobody else, is the only thing that takes it away.
StaysActive ==
  \A p \in Proc :
    /\ SourceNeeded(p) => srcname[p] \in active \/ HadAsSource(srcname[p])
    /\ TargetNeeded(p) => lvname[p] \in active \/ HadAsSource(lvname[p])

\* The volume whose turn it is to be read.
ToRead(p) == IF pc[p] = "hash" THEN srcname[p] ELSE lvname[p]

\* Whatever groups, pools and volumes there are, an lvdiff digests and sends no volume
\* but those it was told to, each at its turn, and takes its delta from no other pool:
\* a path made of names with hyphens leads nowhere and ends in an error; only one with
\* two hyphens in a row can lead to somebody else's device.
ReadsItsOwn ==
  \A p \in Proc :
    /\ open[p] \subseteq {ToRead(p)} \/ TwoHyphens(PathOf(ToRead(p)))
    /\ delta[p] = "other" => TwoHyphens(TPoolDevicePath(name.vg, name.pool))

-----------------------------------------------------------------------------
(* The inductive invariants.                                               *)

\* A snapshot is that of a process which has its release before it, or lost it.
HolderBusy ==
  snap # Nobody =>
    /\ \/ pc[snap] \in {"begin", "read", "defer", "killed"}
       \/ <<snap, "deferred">> \in ignored
    /\ OwnPool

\* Processes that run at the same time know of it.
MetTogether ==
  \A p, q \in Proc : p # q /\ Running(p) /\ Running(q) => p \in met

\* What a process that runs alone finds as it left it.
Alone(p) ==
  /\ pc[p] = "reserve" => snap = Nobody \/ <<p, "leftover">> \in ignored
  /\ pc[p] \in {"begin", "read"} => snap = p \/ ~OwnPool
  /\ pc[p] = "read" => from[p] = p \/ ~OwnPool
  /\ pc[p] \in {"activate", "opensrc"} => srcname[p] \in active
  /\ pc[p] \in {"opensrc", "hash", "open"} => lvname[p] \in active

PoolInv ==
  /\ TypeOK
  /\ HolderBusy
  /\ MetTogether
  /\ \A p \in Proc \ met : Alone(p)
  /\ StaysActive
  /\ Undisturbed

\* A process has no device open but the one it was led to, and no delta of another
\* pool unless it was led there.
OpenLedTo ==
  \A p \in Proc :
    /\ IF pc[p] \in {"hash", "send"}
       THEN open[p] \subseteq LedTo(ToRead(p)) ELSE open[p] = {}
    /\ "other" \in {from[p], delta[p]} => OtherPool

=============================================================================
