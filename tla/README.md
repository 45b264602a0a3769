# A verification project for lvdiff

`lvdiff <A> <B>` writes the difference between two thin volumes of one LVM2 pool as a *HyperLayer*
stream to its standard output. `lvpatch -l <base> <new>`, usually on another machine, reads that
stream, checks that the base is what B was, makes a snapshot of the base and writes the changed
chunks into it. This directory holds TLA+ modules that model the two programs, TLC configurations
that check them on small instances, and proofs, checked by TLAPS, of the properties that matter
most. All line numbers below are of the repository's `src/`.

- [Inventory](#inventory)
- [Modules](#modules)
- [Properties and runs](#properties-and-runs)
- [Where the program differs from its documentation](#where-the-program-differs-from-its-documentation)
- [Proofs](#proofs)
- [Abstractions](#abstractions)
- [Not modelled, and the plan](#not-modelled-and-the-plan)

## Inventory

| component | state | operations | interacts with |
|---|---|---|---|
| `lvdiff.go`, `lvpatch.go`: command lines | flags, arguments | parse the flags, run sender or receiver, exit | the user; sender and receiver |
| `lvbackup/send.go`: sender | header, delta, position | prepare, put the header, activate, digest B, put the digests, put the chunks of A | vgcfg, thindelta, lvmutil, both devices, the pipe |
| `lvbackup/recv.go`: receiver | header, digests, position, count | read the header, read the digests, check size and digests, snapshot, activate, patch | vgcfg, thindelta, lvmutil, the base and the new device, the pipe |
| `lvbackup/stream.go`: stream format | | the fields of the header | both programs |
| `thindelta/thindelta.go`, `format.go` | the pool's metadata snapshot | reserve and release it, run `thin_delta`, expand ranges to entries, sort | `dmsetup`, `thin_delta` |
| `thindelta/thin_volume_check.go` | loop indices | choose and digest chunks (GenChecksum), compare (CheckBase) | the device of B or of the base |
| `lvmutil/lvmutil.go` | activation of volumes | `lvcreate`, `lvchange` and others | LVM |
| `vgcfg/vgcfg.peg`, `vgcfg.peg.go`, `parser.go`, `vgcfg.go` | group under construction, pending name and values | recognise the text of `vgcfgbackup`, then run the actions | `vgcfgbackup` |
| `vgcfg/group.go` | tree of groups and variables | find a thin volume, a thin pool | sender and receiver |

The programs share nothing but the stream and run at the same time when they are connected by a
pipe. What makes the pair hard to get right, and harder to test, is

- **a protocol without lengths**: what follows the header depends on its level, and whether there is
  an empty line on whether there were digests; the receiver ignores the errors of the functions that
  read both (recv.go:179-181), and takes any line of three words for a sub-header (recv.go:214-222);
- **failure in the middle**: the end of the input is success wherever it is (recv.go:267), and a run
  that fails leaves a half-patched volume under the name the next run wants (recv.go:105);
- **the same ranges computed twice**: the sender chooses, counts and converts to sectors what the
  receiver converts back and reads (thin_volume_check.go);
- **time**: the delta is taken first, the chunks of A are read much later (send.go:165), and the base
  is verified first and its snapshot taken later (recv.go:92, 105);
- **lists that must be sorted**: entries come by kind and are put in order (thindelta.go:95), two
  devices are compared by two indices (thindelta.go:130) after they were expanded in place
  (format.go:97);
- **names**: the device mapper doubles hyphens, the paths of lvmutil.go:11 and 15 do not: a path may
  lead to nothing, or to the volume or the pool of somebody else;
- **shared devices**: two lvdiff in one pool share one metadata snapshot (thindelta.go:27) and the
  activation of their volumes (send.go:120), and the results of the calls that give both back are
  ignored.

`PROJECT.json` lists these hazards line by line, with the properties that would notice.

## Modules

| module | models | extends |
|---|---|---|
| `HyperLayer` | records of the stream; the pipe, its capacity, its end, its breaking | |
| `Digests` | the entries of a delta and their order; which chunks GenChecksum digests, in closed form | |
| `GenChecksum` | the loops of GenChecksum, index by index; their inductive invariant | `Digests` |
| `DeltaEntries` | what `thin_delta` prints, and ExpandBlocks | `Digests` |
| `CompareBlocks` | CompareDeviceBlocks and ExpandRangeMappings on two devices of a dump; the inductive invariant | `Digests` |
| `Deltas` | two volumes, through all three of these: what `thin_delta` prints and what a dump says of them | `DeltaEntries`, `GenChecksum`, `CompareBlocks` |
| `MCDelta` | an instance for TLC | `Deltas` |
| `Numbers` | a lemma: a set of numbers has a least one | |
| `CompareProofs` | theorems: the comparison | `CompareBlocks` |
| `DeltaProofs` | theorems: the loops of GenChecksum, the entries, and that the two ways to a delta agree | `Deltas`, `CompareProofs` |
| `Lvdiff` | `streamSender.Run` and what it calls | `HyperLayer`, `Digests` |
| `Lvpatch` | `streamRecver.Run` and what it calls | `HyperLayer` |
| `Transfer` | both over one pipe, lvpatch run again; the properties of the pair | `Lvdiff`, `Lvpatch` |
| `Restore` | the abstract specification: what a user sees who looks at volumes only | |
| `TransferInv` | the inductive invariants | `Transfer` |
| `MCTransfer` | instances for TLC: which base volumes to start with, which `--meta` pairs | `TransferInv` |
| `Documented` | claims of the documentation the code does not meet | `MCTransfer` |
| `TransferProofs` | theorems: types, framing, what is restored | `TransferInv` |
| `OrderProofs` | theorems: the order of the records, the prefix that was patched, the count; the pair implements `Restore` | `TransferProofs` |
| `DigestProofs` | theorems: the digest lines, what is verified and what is refused | `OrderProofs` |
| `DeviceNames` | the device paths of lvmutil.go and those of the device mapper | |
| `PoolSharing` | several lvdiff in one volume group: the pool's one metadata snapshot, the activation of volumes, the devices their names lead to | `DeviceNames` |
| `MCPool` | instances for TLC, and what a comment says of the metadata snapshot | `PoolSharing` |
| `PoolProofs` | theorems | `PoolSharing` |
| `VgcfgParser` | the recogniser of `vgcfg.peg` and the actions of `parser.go` | |
| `VgcfgProofs` | theorems: errors and the nesting of groups | `VgcfgParser` |
| `VolumeGroup` | the queries of `group.go`, and the lookups of both programs | `VgcfgParser` |
| `MCVgcfg` | texts of a volume group, and what they mean | `VolumeGroup` |

**How the state corresponds.** `volA`, `volB`, `base` and `new` are the contents of devices, functions
from chunk number to value; a function's domain is the size of the device. `blocks` is `s.blocks`, a
sorted slice without duplicates, held as a function from `OriginBlock` to `OpType`. `spc` and `rpc`
name the statement a program stands before. `hdr`, `baseBlocks`, `dwWritten` are the receiver's
variables of these names; `cursor` is the index of whichever loop over `s.blocks` is running.
`midline` says that the receiver took a sub-header for a digest line and now stands before the data;
`path` is where the paths of the base and of the new volume lead (`PathEnd`: to it, nowhere, elsewhere).
`sent` is everything the sender wrote, `rd` how much of it the receiver consumed; `wopen` and `ropen`
are the two ends of the pipe. Three variables are history: `seen`, what each chunk of A contained since
the delta was taken; `copied`, what the base was when the snapshot was made; `dirty`, the chunks of
the base written between its verification and that snapshot.

In `GenChecksum` `pc` names the loop that runs, `p`, `q`, `ret` and `hash` are the function's variables. In
`CompareBlocks` `devices` is what the pointers point to, so that a comparison finds what the one
before it left; `i`, `j` and `diff` are the indices and `entries` of CompareDeviceBlocks, `cpc` names
the statement it stands before.

**How the actions correspond.** One action per step between two interactions with something
outside the program (a device, LVM, the pipe). `Prepare`, `PutHeader`, `Activate`, `HashRun`,
`ChecksumDone`, `PutBaseLine`, `PutBaseEnd`, `ReadBlock`, `PutBlock`, `SendDone` are `Run` of the
sender in order, `ReadHeader`, `ReadBaseBlocks`, `Verify`, `CreateSnapshot`, `OpenNew`, `PatchBlock`,
`PatchDone` that of the receiver. Where it takes chunk data for lines, which only a `--meta` pair that
raises the level from 0 makes it do (`LevelRaised`), the turns of the patch loop are `MisreadLine`,
`MisreadData` and `MisreadWrite`: the data may happen to hold a line of three words, with any offset and
any length. Each action has its failing counterpart (`...Fails`), whose guard says
whether a failure is the environment's (`Faults`) or the code's own verdict (a wrong digest, a taken
name, a chunk beyond the end). `ReadBlock` and `PutBlock` are apart, as are `Verify` and
`CreateSnapshot`, because other actors may act in between.

In `PoolSharing` `pc[p]` names the statement the process p stands before, `snap` is whose metadata
snapshot the pool holds (or nobody's), `active` the active volumes. The steps are those at which one
lvdiff can meet another: `ReleaseLeftover`, `Reserve`, `ThinDeltaBegins` and `ThinDeltaEnds`,
`Release` are `Delta`; `ActivateSrc`, `Activate`, `OpenSrc`, `Hashed`, `OpenLv`, `Sent` and
`Deactivate` the rest of `Run` with its deferred calls. `ignored` is the history of the
releases that failed without anybody noticing (thindelta.go:27, 32). `name` is what the group, the pool
and the volumes are called, each a sequence of hyphens and of what is between them, and which volumes
and pools of these and other groups there are besides. `OwnPool`, `OtherPool` and `LedTo` say which device
the path made of the names is: often none, sometimes that of another volume or pool. The data is left to `Lvdiff`, where `Prepare`
is one step: `Undisturbed` is what justifies that for an lvdiff that is alone.

In `VgcfgParser` a text is a sequence of tokens. `CONFIG`, `Items`, `ItemRule`, `VARIABLERule` and
`LISTRule` are the rules of the grammar, as the generated code tries them, in order and with everything
taken back that belongs to an attempt that failed; `Items` is a recursive function of the position in
the text, which refers to positions further on. They give the list of actions that `Execute` then runs
one by one, an action of the model each. `root` maps the path of a group to its variables, `curgroup`,
`varname`, `varvalues`, `islist` and `internalError` are the fields of `baseParser`.

**The environment** is modelled from how the code uses it: `ThinDelta` is every delta that
`thin_delta` may report of two volumes (a chunk listed nowhere is provisioned in neither, "same"
chunks share their data), `Write` blocks while `Capacity` records are unread, a write to a pipe
nobody reads ends lvdiff (`BrokenPipe`, SIGPIPE), `CutPipe` loses what is in flight, `WriteVolume` is
whoever has A mounted, `WriteBase` whoever has the base mounted, once lvpatch may have looked at it, `SenderKilled` and `ReceiverKilled` are signals, and `Rerun` is the user who
pipes a saved stream into lvpatch again after a run that failed.

Definitions whose names end in `Mutant` are wrong on purpose: each is what a definition of the model
would be after a plausible bug in the code, and stands next to it. None is used by a specification.
They record that the property a run checks does depend on that piece of code: put in the place of
the original, each makes TLC find a violation.

## Properties and runs

`TypeOK` of `Transfer` is the type invariant, checked and proved as a part of `TypeInv`. The others:

| property | says |
|---|---|
| `RestoredWhenDone` | the purpose: success on a clean stream, when what was copied is B, A has the size of B, and the path of the new name leads to the new volume, means that the new volume is A |
| `PatchedPrefix` | whatever fails, breaks, is retried or written meanwhile: the new volume is the base as it was copied with a prefix of the delta over it, each chunk with data A had in that chunk; unless a pair raised the level from 0 |
| `VerifiedBase` | a snapshot is made only of a base that is B in all chunks the stream has a digest of, but for chunks written between the check and the copy; and if the digest lines are there to their end, these are all the chunks the level covers. Premises: the check is on, the level in the header is not 0, the path of the base leads to it |
| `RefusesOnlyWrong` | when nothing fails, the base has the size of B, A has not grown, nobody writes to the base, both paths lead to the volumes and no chunk data are taken for lines, the first lvpatch fails only for another chunk size or for a chunk that the level covers and that is not B's |
| `FramingInStep` | the receiver meets digest lines where it expects them and data where it expects data |
| `CountHonest` | the progress bar never passes its end, unless a pair raised the level from 0, and reaches it in a clean run |
| `Restores` | the pair implements `Restore`: the volume appears as a copy of the base, is never started over, changes by chunks A has had since the delta was taken (or, after a pair that raised the level from 0, in any way: `Garble`), does not change after success, and success on a complete stream over a copy of B means A |
| `Termination` | both programs end |
| `ReadsWhatItNames` | the chunks read for a digest are those its line names |
| `LoopsFollowPlan` | the loops of GenChecksum compute the closed form `Lvdiff` uses, and panic where it says so |
| `EntriesTrue` | ExpandBlocks has each provisioned chunk once, in order, for what `thin_delta` said of it, and counts those that will be sent |
| `DiffRight` | CompareDeviceBlocks returns the difference of the two devices, once each and in order, in whatever mixture of ranges and single blocks they are written and however often they were compared |
| `RefusesOnlyMiscounted` | it fails only on a dump that counts wrong, never on what an earlier comparison made of the devices |
| `AgreesWithThinDelta` | of the dumps of two volumes it makes what ExpandBlocks makes of the output of `thin_delta`, in the same order, but for the entries that are not sent |
| `ChecksumInv`, `CompareInv` | the inductive invariants of the loops of GenChecksum, and of the comparison |
| `TypeInv`, `FramingInv`, `DataInv`, `OrderInv`, `DigestInv` | the inductive invariants of the proofs |
| `Undisturbed` | an lvdiff that meets no other while it runs takes its delta from its own snapshot, and gets it and its devices, whatever earlier ones, killed or failed, left behind, unless its names lead elsewhere or the release of the leftover fails |
| `NothingLeft` | a metadata snapshot that outlives the lvdiff that reserved it is that of one that was killed, or whose deferred release failed |
| `StaysActive` | from its activation on B is active until it is opened, and A until lvdiff ends and after a good end, unless it is the backing volume of an lvdiff that ended meanwhile |
| `ReadsItsOwn` | whatever groups and pools there are, an lvdiff digests and sends no volumes but those it was told to, each at its turn, and takes its delta from no other pool, unless the path made of the names has two hyphens in a row |
| `PoolInv`, `OpenLedTo` | the inductive invariants of the first three and of `ReadsItsOwn` |
| `ParsedAsWritten` | the parser builds exactly what the part of the text it understands describes, and drops a group with anything unknown in it whole, or reports an error |
| `ErrorReported` | Parse fails exactly if a number in the part it understands does not fit, however many actions run after the one that failed |
| `GroupsBalanced` | also behind a failed action groups are entered and left in pairs: the current group always hangs in the tree, and is the root in the end |
| `LookupsTrue` | prepare of both programs finds the described devices, metadata and sizes, or nothing |

| run | instance | question |
|---|---|---|
| `transfer_clean` | volumes of 3 chunks, 2 values, levels 0-3, both chunk sizes, check on and off, bases that differ from B in at most one chunk, no failures; for a B of zeros at level 3 also paths of which one leads nowhere or elsewhere | are volumes restored, wrong bases refused and right ones not, and are the digests on their way those of the level? |
| `transfer_faults` | volumes of 2 chunks, levels 0 and 3, no pairs, a pair that lowers the level to 0 (`--meta "Detect level:0"`), and pairs that end at level 2, which raise it from 0 if lvdiff ran with `-d 0`; one line taken from chunk data; both chunk sizes, all failures but signals, which `transfer_restore` has, two runs of lvpatch, one write to A | what is left of the new volume when things go wrong, is the abstract specification implemented while A is written to, does the framing hold, do the invariants the proofs use? (`PatchedPrefix` is a part of `OrderInv` here) |
| `transfer_restore` | volumes of 1 or 2 chunks, level 3, a base that is B until it is written to, once, anywhere after lvpatch read the digests; all failures but those of devices, which `transfer_faults` has; a path of the new name that leads to another volume; two runs of lvpatch, a pipe of one record | is the abstract specification implemented, do both programs end, and what is copied and patched when the base changes under lvpatch? |
| `delta` | every way two volumes can differ in 5 chunks, levels 1 to 4; in 4 chunks, both dumped with any stretches as ranges, one of them perhaps counted wrong, and any two comparisons one after the other, also without a source and of a device with itself | are the entries true, do the loops of GenChecksum do what the closed form says, is the comparison right? |
| `pool` | two lvdiff, two volumes, any pair of them for each, plain names and names with one and with two hyphens for the group, the pool and the volumes, in two cases beside a group and in one beside a pool whose devices have these paths; commands that fail, the ignored ones included, signals | what does one lvdiff leave to the next, and to one at the same time, and which devices do they read? |
| `vgcfg` | 320 texts: a pool and two thin volumes, each whole or lacking a variable, with a list or a number too large in its place, in one pool or not, with or without an extent size, and an unreadable value at one of four places or nowhere | is what the programs find what was written? |

**Bounds and why they are enough.** Two values tell equal from different, and one is `Zero`. Three
chunks are the least with a first, a last and one between them, a run of two with a gap, and a run
that is longer than a digest; two chunks still give prefixes of the delta, records out of place and
digests of length one and two. A pipe of one record makes either program wait for the other at every
record, a pipe of two lets one be ahead. A chunk size of 2 sectors keeps the conversion to sectors
apart from the identity. One write to A falls into every gap between the delta and the reads, one write
to the base (`MaxBaseWrites`) into every gap between its verification, its snapshot and the end.
Five chunks give a run of five, two runs with a gap, and every way in which runs of different kinds
interleave; four that are compared (`MaxCompared`) are two stretches of two, or one within the other's
gap; the second of two calls (`MaxCalls`) is the first to find expanded devices. `Capacity`,
`MaxWrites`, `MaxBaseWrites`, `MaxMisread`, `MaxRuns`, `Sizes`, `MaxBlock`, `MaxCompared` and `MaxCalls`
are the bounds; in the proofs they are arbitrary. One line taken from chunk data (`MaxMisread`) already
may change any chunk in any way and leave the parser anywhere. `Namings` has, beside plain names, one
hyphen in each kind of name, and a volume, a group and a pool with two hyphens where another one has
one, or at the end of the group's name, which is the least that leads one path to another device.
Contents, options and which volumes are active at first make no difference to where paths lead: `MCInit`
(of `MCTransfer` and of `MCPool`) varies them all for plain names only. Two lvdiff and two volumes make every way to share: the
same A, the same B, or A of one that is B of the other; each runs once, before, after or
during the other, and the theorems cover any number of them. The texts hold a volume before and after
an incomplete one, and lists before scalars, where what an action leaves over would show. Deadlock is
checked in all runs: `Terminated`, `Ended` (in `Deltas` and `PoolSharing`) and `Returned` are
the only ways to stop. In `Deltas` the digests and the comparison, which share nothing, run in
different behaviours: comparisons at level 0, where GenChecksum has nothing to do.

**Fairness.** `Fairness` is weak fairness of the steps of each program: the operating system
schedules a process that can run, and a system call that is not waiting for the other program
returns. Nothing is assumed of failures, signals, writes to A and repeated runs. A process blocked on
the pipe is not enabled, so that `Termination` does say that neither waits for the other for ever.

## Where the program differs from its documentation

Six runs end, as expected, with a counterexample; each checks one claim of the documentation, stated
in `Documented` or, the last one, in `MCPool`.

| run | the documentation | the code |
|---|---|---|
| `readme_example` | README.md:65-76: `lvdiff ... sp0 vol0` makes a stream that turns a copy of sp0 into vol0 | lvdiff.go:64: the first argument is the volume to restore, so it is the other way round |
| `level3_scan` | lvdiff.go:85: "3 means scan all data blocks" | thin_volume_check.go:90 compares with the first entry of the run: a digest ends after two chunks, the rest of the run is not covered |
| `chunk0_panic` | README.md:10: lvdiff dumps the differential blocks of two volumes | thin_volume_check.go:77 reads `blocks[p-1]` with p = 0 if the first entry is not chunk 0 |
| `truncated_stream` | README.md:76: lvpatch restores the volume | recv.go:267: a stream that ends early is success |
| `grown_volume` | README.md:76, stream.go:22: "full size of logical volume" | the size is never used; a volume of another size is reported restored |
| `metadata_snap` | thindelta.go:26: the release at the start is "just ... in case of error" | thindelta.go:27: it releases whatever snapshot there is, also one that another lvdiff is reading |

More was met on the way, without a run of its own. Most of it shows as premises of the properties:

- A `--meta` pair is appended to the yaml of the header, where the later of two equal keys wins
  (send.go:192). With `--meta 'Detect level:0'` lvpatch takes the first digest line for the end of the
  stream and reports success, having patched nothing: `LevelsAgree`. `transfer_faults` has such pairs.
- With `-d 0` and a pair that raises the level, lvpatch takes the first sub-header for a digest line,
  ignores the error, and goes on in the data of that chunk (recv.go:155-163, 181), where it takes for a
  sub-header whatever splits into three words (recv.go:214-222, which ignore the errors of `ParseInt`), and
  writes what follows wherever it says: `LevelRaised`. Nothing is claimed of the contents of the new volume then.
- What is verified of a base are the digest lines that arrived. lvpatch takes the end of the input for
  the end of the lines (recv.go:148-151, 181): of a stream that was cut among them it compares those it has,
  and of one that ends behind the header, as that of an lvdiff that was killed, failed or panicked before
  the first digest (the run `chunk0_panic`, with the default level), none. It then makes a snapshot of
  any base of the right chunk size, and reports success. That is why `VerifiedBase` speaks of the digests
  in the stream, and of those the level promises only if the empty line behind them is there.
- A path made of names with hyphens is not that of their device (lvmutil.go:11). lvdiff then ends with an error, unless
  there are two hyphens in a row in the path (`ReadsItsOwn`): beside a group `g-h` the volumes of a
  group `g--h` are looked for in the former. lvpatch verifies the volume its path leads to and makes a
  snapshot of the one named (recv.go:91, 105), or makes the snapshot and patches another volume, with success
  (recv.go:194): the premises on `path`.
- A release of the metadata snapshot may fail unnoticed (thindelta.go:27, 32): the exceptions in
  `Undisturbed` and `NothingLeft`.
- lvpatch.go:20 says "create or update", and lvpatch only creates: a name that is taken is refused
  (recv.go:105), which `Restores` relies on.
- The range check of the level, lvdiff.go:42, is never true, and is modelled as what it is, no check.

## Proofs

The theorems hold for all volumes, sizes, chunk sizes, levels, lists of pairs, capacities and sets of
failures, under the assumptions that are named in the modules that declare the constants
(`SizesAssumption`, `SectorsAssumption` and so on: sizes are natural numbers, chunk sizes positive,
levels integers, `Zero` a value, `Absent` no volume; names do not begin with a hyphen, and no two
volumes of a group have the same; the volumes that are compared are two (`VolumesAssumption`), and where
they do not share a chunk their chunks are at different places of the pool (`PlacesAssumption`); a name
in a text is not empty (`TextsAssumption`: `VARNAME` wants a character, vgcfg.peg:19)).

| theorem | module | says |
|---|---|---|
| `TypeInvariance`, `TypeCorrect` | `TransferProofs` | `Spec => []TypeInv`, and so `[]TypeOK` |
| `FramingInvariance`, `DataInvariance` | `TransferProofs` | `Spec => []FramingInv`, `Spec => []DataInv` |
| `FramingCorrect` | `TransferProofs` | `Spec => []FramingInStep` |
| `RestoredCorrect` | `TransferProofs` | `Spec => []RestoredWhenDone` |
| `OrderInvariance` | `OrderProofs` | `Spec => []OrderInv` |
| `PatchedPrefixCorrect`, `CountHonestCorrect` | `OrderProofs` | `Spec => []PatchedPrefix`, `Spec => []CountHonest` |
| `RestoresCorrect` | `OrderProofs` | `Spec => Restores` |
| `DigestInvariance` | `DigestProofs` | `Spec => []DigestInv` |
| `VerifiedBaseCorrect`, `RefusesOnlyWrongCorrect` | `DigestProofs` | `Spec => []VerifiedBase`, `Spec => []RefusesOnlyWrong` |
| `ChecksumInvariance` | `DeltaProofs` | `ChecksumSpec => []ChecksumInv` |
| `LoopsFollowPlanCorrect`, `ReadsWhatItNamesCorrect` | `DeltaProofs` | `ChecksumSpec => []LoopsFollowPlan`, `ChecksumSpec => []ReadsWhatItNames` |
| `EntriesTrueCorrect` | `DeltaProofs` | `Spec => []EntriesTrue` (of `Deltas`) |
| `DigestsOfTheDelta` | `DeltaProofs` | `Spec => [](LoopsFollowPlan /\ ReadsWhatItNames)`: the entries ExpandBlocks makes are such as the two theorems above are about |
| `AgreesWithThinDeltaCorrect` | `DeltaProofs` | `Spec => []AgreesWithThinDelta` |
| `PoolInvariance` | `PoolProofs` | `Spec => []PoolInv` |
| `UndisturbedCorrect` | `PoolProofs` | `Spec => []Undisturbed` |
| `NothingLeftCorrect` | `PoolProofs` | `Spec => []NothingLeft` |
| `StaysActiveCorrect` | `PoolProofs` | `Spec => []StaysActive` |
| `OpenInvariance`, `ReadsItsOwnCorrect` | `PoolProofs` | `Spec => []OpenLedTo`, `Spec => []ReadsItsOwn` |
| `MergeInvariance`, `CompareInvariance` | `CompareProofs` | `CompareSpec => []MergeInv`, `CompareSpec => []CompareInv` |
| `DiffRightCorrect` | `CompareProofs` | `CompareSpec => []DiffRight` |
| `RefusesOnlyMiscountedCorrect` | `CompareProofs` | `CompareSpec => []RefusesOnlyMiscounted` |
| `ErrorReportedCorrect`, `GroupsBalancedCorrect` | `VgcfgProofs` | `Spec => []ErrorReported`, `Spec => []GroupsBalanced` (of `VgcfgParser`) |

**The argument.** `TypeOK` is not inductive: `ReadBlock` applies `volA` to an entry of the delta, and
`PatchBlock` updates `new`, so `TypeInv` adds `BlocksFit` (an entry that is not a deletion lies in A, one
that is not a creation in B) and `NewExists`.

`FramingInStep` says only what lvpatch meets next. `FramingInv` says where in the stream each record
can be (`HeaderFirst`, `LinesBeforeBlocks`), what a sender that can still write has written
(`SenderPlace`, `DigestsMade`), how the ends of the pipe follow the programs (`Ends`), and where in
the stream the receiver is (`ReceiverPlace`, `PastLines`). The case that needs all of it is a delta
without entries: there is no digest and no empty line, lvpatch waits for one until the end of the
input, and then there is nothing left to patch either. A stream may be cut anywhere: the first four
parts are stated so that they survive the loss of a suffix.

`RestoredWhenDone` follows from `DataInv`: every record carries the chunk of A it names
(`RecordsFaithful`), no chunk of the delta below the cursor is missing (`NoneSkipped`), and the new
volume is what was copied except for the chunks read (`Patched`); chunks outside the delta are zero or equal
on both sides (`DeltaFaithful`). When both programs have ended well and nothing was lost, every chunk
of the new volume is covered by one of these.

`PatchedPrefix` is about streams that were cut, senders that died and volumes that were written to,
where `DataInv` says too little. `OrderInv` therefore says of the stream itself, however short it has
become, that its block records ascend and leave out no chunk of the delta below the last one
(`RecordsInOrder`), and where a sender that still runs goes on (`SenderInOrder`); `SeenHolds` and
`Broken` tie the history of A and the ends of the pipe to them. `GotWritten` says that the chunks the receiver
wrote are those of the records it consumed: the consumed part of the stream is then the set P of
`PatchedPrefix`, and since the records are counted off against the count in the header (`CountSent`),
`CountHonest` follows. All this ends where the receiver takes chunk data for lines, which it does only
if a pair raised the level (`midline => LevelRaised` in `ReceiverPlace`; before lvpatch patches nothing of
it matters, `NothingEarly`). A second lvpatch starts at the first record again, but when the
first one made the volume it is in the way of the second, which never comes to patch: what the first
one wrote is all there is.

`Restores` is proved step by step: each action of the sender maps to a stutter of `Restore`, except
that its end may complete the stream, and a cut of the pipe may take that back (`Transmit`); a write to A or to the base maps to one
(`WriteSource`, `Write`), `CreateSnapshot` to `Snapshot`, a record that is patched to `Patch`, where
`OrderInv` says that what is written is something A contained, what is written for lines that are none to
`Garble`, and the end of the patch loop to `Report`, where `RestoredWhenDone` is the guard. `LevelRaised`
does not change any more once there is a volume (`RaisedBefore`). If the path of the new name leads
elsewhere, a patched record is a stutter, and the run is not one whose stream `Restore` calls complete.

`VerifiedBase` relates a loop of the sender to a loop of the receiver that run on different machines.
`DigestInv` carries the digests from the one to the other: whatever is in `hashes`, in the stream and
in `baseBlocks` is the line of a run the level asks for, made of B (`LinesTrue`), none of these is
missing where a sender is past its loop and the stream is whole (`LinesComplete`), all stand before the
empty line (`EndBehindLines`), and the receiver has the lines it consumed (`LinesRead`). When it verifies the
base it has consumed all that there will ever be: the empty line, or the end of the input (`AllRead`,
`LinesOver`). A base that passes `CheckBase` has then the chunks of B in all that is digested, until
somebody writes to it (`Verified`); and the empty line means that this is all that the level covers
(`EndCovers`). `RefusesOnlyWrong` is the converse: `NothingFails` says that in a first run without failures
(`RunsApart`) the header arrives, no volume is in the way, and every chunk has room; a digest that does
not match is then one of a chunk that differs. Sectors go in and out of this proof: what `HashRun`
multiplies, `Matches` divides.

In `ChecksumInv`, `EachOfARun` says that each digest made is one of the closed form, `RunsSoFar` that
those of all heads the outer index has passed are there, in order, and `InRun` what the inner loop has
read of the run it is in. `LoopsFollowPlan` follows at the end of the outer loop; it is what lets
`Lvdiff` take the closed form for the code.

In `PoolInv`, `HolderBusy` says that a reserved snapshot belongs to a process that still has its
release before it, or was killed, or failed to release it: `NothingLeft` follows. `Alone` is what a process that met no other
may rely on between its steps; it is preserved by the steps of other processes only because any such
step would mean that both run at once, and then, by `MetTogether`, it has met one. `StaysActive` is
inductive as it stands: it follows both volumes from their activation on, and only a `DeactivateLv` of
the same volume by an lvdiff that then ends can take them away.

`ReadsItsOwn` is about names. `OpenLedTo` says that what is open is what the path leads to; where it leads
is settled by lemmas on the doubling of hyphens, for any two groups. A path without two hyphens in a row that
is that of a device is made of the doubles of the names of this device, which therefore have no hyphen
(`DoubledPlain`): it has one hyphen only, that between the two, and so the names asked for are those
of the device (`LedByName`, and `LedByPoolName` for a pool). That no other volume of any group has these
names is a rule of LVM (`NamingsAssumption`).

`DiffRight` says nothing before the comparison is over. In `MergeInv`, `Prepared` says which device
has been expanded when, so that the loop runs over two ascending lists, and `MergedSoFar` that the
entries made are the difference as far as the origins go that either index has passed, all of which
are smaller than what either list goes on with. Each turn of the loop adds one origin to those passed,
and the two loops at the end add the rest of the one list that is left. A device keeps its set of
mappings when it is expanded (`Mapped` does not change), which is why the difference, taken of what the
devices say, is the same before and after. `CompareInv` adds `NamedOnce`, which expansion preserves
since an ascending list has no block twice, and `RefusesOnlyMiscounted`, which follows by counting: the
list and the ranges of a device that names each block once have no block in common, so that what
ExpandRangeMappings adds up is the number of blocks the device maps (`MappedCounted`).

`EntriesTrue` is about the data alone, the variables it names never change. The ranges of `thin_delta`
are the maximal intervals of five sets of chunks that share none: each chunk of a set lies in exactly
one range (`LeastNat` gives the beginning and the end), so that the lists made of the ranges have each
chunk once, in some order. Sorting is by rank: of two entries the one with the smaller chunk has fewer
entries before it, ranks are 1 to the length of the list, and what is at its rank ascends. The count is
that of a sum of list lengths, which the sorting does not change. The library proves nothing of
`FlattenSeq`; that the function by which it is defined exists is shown by its least counterexample, and
its elements and its length are read off that function. `AgreesWithThinDelta` needs `EntriesTrue`,
`DiffRight`, and that what a comparison is given are the two volumes: a stretch written as a range and
a chunk written alone say the same (`Mapped`). `Spec` of `Deltas` implies the specifications of
GenChecksum and of the comparison, from which come the invariants of both.

Of the parser two things are shown. First, what a rule records: `Right` says of a match that it lies
in the text, that its actions lead from the situation between two items back to it, at any depth
(`Balanced`), and that one of them will fail exactly if a number in the matched tokens does not fit. A situation is how deep
the current group is, whether a name is pending, and with which values; each action fits between two of
them (`Fits`), a list of actions along a path of them (`Leads`). `Items` is right at a position if it is
right behind it (`FromRight`), hence everywhere, from the end of the text backwards (`ItemsRight`).
Second, that the machine stays on that path: `ParserInv` says that what is left of the actions leads
from a situation that matches the state to the root. Behind a failure the values and the kind of the
variable need not match any more, but the depth does, and there is a name where one is expected: a
failed `SetVarName` had one already. That is why groups stay balanced whatever fails, and why an action can
fail, if none has, only for a number (`Foreseen`).

Each module proves `Init`, one lemma or step per action of the program, and collects them by `PTL`.
`Leads` quantifies over all paths, so that `ParserInv`, unlike the other inductive invariants, is not
checked by TLC; the properties it is there for are. Only model-checked:

- `Termination`: liveness under fairness is out of the prover's reach;
- `ParsedAsWritten` and `LookupsTrue`: they compare with the description a text was made from, and
  what a description means is recursive over it, as is the making of the text; induction over data is out
  of the prover's reach.

## Abstractions

- A digest stands for the sequence of chunks digested: CRC32 is taken to be free of collisions.
- Records are atomic. A stream cut inside a record has the effect of one cut before it: every read
  that hits the end returns before what was read is used. If only the newline after the data is
  missing the record counts (recv.go:251 ignores the result), as a complete one does.
- lvdiff ignores the results of some writes (send.go:190-193, 208, 222). A write to standard output
  that fails ends a Go program by SIGPIPE if the reader is gone; any other failure is a loss of the
  rest of the stream, which `CutPipe` is.
- `CheckBase` reads the base at one instant. A write to the base between two of its reads would be
  one before or after `Verify`, but for a digest of two chunks, which then may fit neither; either way
  the chunk is one nobody vouches for.
- A dump of a pool names each block of a device once (`NamesOnce`); `thin_dump` is generated from a
  tree whose keys are the blocks. Sorting is modelled by its result: the one
  ascending list; of entries of one chunk, which are never made, ExpandBlocks would leave the first first.
  In which order a dump or `thin_delta` lists the ranges of one kind is left open, everything made of
  them is sorted.
- CompareDeviceBlocks is called by neither program. It is modelled because it is the package's other
  way to a delta, with the calls a program could make: any two devices, the same one twice, again.
- The chunk of a device is read and written in one step; a failed write may or may not have happened.
  A volume is a whole number of chunks. LVM rounds its size to extents, which need not be a multiple of
  the chunk size of a pool; the last chunk of such a volume is not looked into.
- B is never written while lvdiff runs, though it may be mounted as A may: a digest of B is what B
  is when the delta is taken. Something written to B before it is digested would make
  lvpatch refuse a base that is right, and is the user's error.
- What a line of chunk data says is anything: which lines the data of a chunk hold is not modelled.
- Commands of LVM are steps that succeed or fail as a whole. `lvcreate --snapshot` copies the base at
  that instant.
- The yaml of the header is a record; of its fields those the receiver reads are kept (level, count,
  chunk size). The later of two equal keys wins, as in the yaml library.
- The pool itself is active, so that `dmsetup message` reaches it. Two thin_delta that read the
  metadata at once do not disturb each other; one whose snapshot is released under it may fail, may
  report anything, or may be lucky.
- LVM refuses to deactivate a volume that is open; `mounted` are the volumes open elsewhere.
- In the text of the configuration spaces and comments are left out, and all that the grammar does
  not know is one token. Numbers are names: of their values only whether they fit into 64 bits counts,
  and the product in the volume size is a pair. A number that begins with 0 and is not octal,
  which ParseInt refuses as well, is one that does not fit. A map of Go is iterated in any order; the
  lookups return at most one volume, so that the order does not show.
- The MD5 sum that lvdiff prints (send.go:174) is compared with nothing by either program.

## Not modelled, and the plan

The plan is done: each safety property a run checks is a theorem but for the two that compare with the
description a text was made from. To say those of every text, the meaning of a text would have to be
given over its tokens: the group of a variable by the braces that are open before it.

Not modelled:

- characters, the token tree and the printing of errors of the generated recogniser
  (`vgcfg.peg.go`): the model has the rules it was generated from, over tokens;
- `Dump`, which runs `vgcfgbackup` into a temporary file and reads it back: it fails with `Prepare`
  and `Verify`, and has no other effect on what is modelled;
- the decoding of the XML of `thin_delta`, which the library does by the tags of the types, and
  `FindDevice`, a search through a slice that nobody calls;
- `CreateThinPool`, `CreateThinLv`, `ResizeLv`, `RenameLv`, `RemoveLv` and `SetLvActivationSkip`:
  each puts together one command line, and nobody calls them;
- usage messages, which end the programs before anything happens, and the drawing of the progress
  bar; of what it is drawn from, `CountHonest` says what matters;
- pairs of `--meta` that override another field than the level, and pairs that are not yaml.
