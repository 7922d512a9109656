# A TLA+ model of node-disk-sentinel

The daemon runs once per Kubernetes node. It discovers the node's physical disks
(sysfs, udev database), reads their SMART data with `smartctl`, assesses their
health, stores it in cluster-scoped `PhysicalDisk` resources and exports it as
Prometheus metrics. This directory holds TLA+ models of its control logic, the
TLC configurations that check them on small instances, and proofs of the results
that hold for every instance.

Run `tlc -config <Run>.cfg <Module>.tla` for a model-checking run and `tlapm
<Module>Proofs.tla` for the proofs. `PROJECT.json` maps every definition to the
lines it models, lists the runs, and names for each property a mutation of the
code's model that the property detects.

## 1. Inventory

| component | source | state it keeps | operations |
|---|---|---|---|
| scan loop | `pkg/controller` `DiskMonitor.Start` | channel `dirty` (one slot), ticker, `ready` | trigger, select, debounce, drain, `ReconcileAll`, store ready |
| event reader | `pkg/discovery/uevent.go` | netlink socket with its receive buffer | dial, bind, receive, parse, trigger, reconnect |
| reconciliation | `pkg/controller` | none of its own: the resources, the metrics, copies during a run, the workqueue | `ReconcileAll`, `Reconcile`, `reconcileDisk`, `markAbsentDisks`, `markDiskMissing`, `deleteIfExcluded`, `setHealth` |
| discovery | `pkg/discovery` `udev.go`, `filter.go`, `naming.go` | none | `DiscoverDisks`, `ShouldIgnore`, `ParseExcludeRule`, `Matches`, `ResolvePredictablePath`, `GenerateCRName` |
| assessment | `pkg/assessment` | none | `Evaluate` |
| smartctl runner | `pkg/smartmontools` | a child process with a deadline | `Collect` |
| metrics | `pkg/metrics` | process-wide gauge vectors | set, delete by disk |
| telemetry and gauges | `pkg/controller` `extractTelemetry`, `publishHealthMetrics` | none | |
| utilities | `pkg/utils` | none | `SplitCommandArgs`, `MustFormatValue` |
| daemon | `cmd/node-disk-sentinel` | signal context, HTTP server | `run`, flags, `/readyz` |
| API types, deep copies, charts, build | | | declarations, generated code, packaging |

**Interaction.** `run` starts the manager, which runs two kinds of goroutines
concurrently and without a common lock: `Start` (and, started by it, the event
reader) and the controller's worker, which calls `Reconcile` for a resource whose
spec a user has edited. The event reader talks to the loop through the channel
`dirty` only. Loop and worker both call `reconcileDisk` and `markDiskMissing`;
they meet in the API server, in the process-wide metrics, and at the hardware.
Client calls go straight to the API server; only the watch that feeds the
worker's queue is scoped by a label.

**What is hard.** Lost and overrun netlink messages; hints that collapse; a
status computed from a copy read before a slow `smartctl` run and stored as a
merge patch without a version; a status update with retries on conflict; metrics
and events published before the status they belong to is stored; disks that come,
go and change their kernel names at any step; users who edit, delete, create or
unlabel resources; calls that fail half-way; restarts that forget everything in
memory; a child process that hangs or is killed; a bitmask of exit codes whose
bits mean several things; two sources of discovery, sysfs and the udev database,
that change while they are read and reuse names and numbers; gauges that are set
and deleted one by one by two goroutines. `PROJECT.json` lists these under `hazards`, at the line
where each of them bites, with the properties that watch it.

**What makes each component correct.**

- *scan loop and event reader*: no change of the host stays unscanned; a stream
  of events neither blocks nor postpones scans; polling repairs everything
  alone; readiness is given and withdrawn with the loop; shutdown ends it.
- *reconciliation*: `health` and the `Degraded` condition agree; a known health
  survives failed collections; concurrent writers do not undo one another;
  a resource of another node is written only if it has the name of a disk of this one;
  excluded disks lose their resource and metrics; in the end resources, conditions and
  metrics match the host.
- *assessment*: the most severe documented level wins, with findings that explain
  it; wear never improves a health; a breach is remembered.
- *discovery*: a disk that nothing happens to is listed as it is; a missing
  database is an error and no empty host; what a walk got wrong is announced by an
  event that comes after it; paths are stable, names well formed and distinct;
  a rule excludes no more than it says.
- *metrics*: the readings of a disk are complete, show one status, and end with
  the disk.
- *runner*: extra arguments are split as they were quoted, the outcome says what the device was, no kill or timeout reads as a
  state of the device, and `Collect` always returns.

## 2. Modules

| module | models | role |
|---|---|---|
| `InventoryPromise` | the comment of `discovery.Monitor` (uevent.go:55-60) | abstract specification |
| `ScanLoop` | `Start`, `Monitor`, `dial`, `listen` | state machine, refines `InventoryPromise` |
| `ScanLoopProofs` | | proofs about `ScanLoop` |
| `DiskSync` | `ReconcileAll`, `Reconcile` and everything below them | state machine |
| `DiskSyncProofs` | | proofs about `DiskSync` |
| `Assessment`, `MCAssessment` | `Evaluate` on the reports of a wearing disk | pure function and state machine; TLC instance |
| `AssessmentProofs` | | proofs about `Assessment` |
| `SmartctlRunner` | one call of `ExecRunner.Collect` | state machine |
| `SmartctlRunnerProofs` | | proofs about `SmartctlRunner` and `CommandArgs` |
| `CommandArgs` | `SplitCommandArgs` | pure function, used by `SmartctlRunner` |
| `Discovery` | `DiscoverDisks` read by read, sysfs, udevd | state machine |
| `Naming` | `ResolvePredictablePath`, `SanitizeRFC1123Subdomain`, `GenerateCRName` | pure functions |
| `ExcludeRules` | `ParseExcludeRule`, `ExcludeRule.Matches`, `FindMatchingRule` | pure functions |
| `Text` | the functions of Go's package `strings` that these two use | pure functions |
| `MCDiscovery` | | TLC instance of `Discovery`, `Naming` and `ExcludeRules` |
| `DiscoveryProofs`, `NamingProofs` | | proofs about `Discovery`, and about `Naming` and `ExcludeRules` |
| `FoldFacts` | | what a loop over a text computes: lemmas for the proofs about `Naming`, `ExcludeRules` and `CommandArgs` |
| `HealthGauges` | `publishHealthMetrics`, `extractTelemetry`, `DeleteDeviceHealthMetrics` | state machine |
| `HealthGaugesProofs` | | proofs about `HealthGauges` |

The modules meet where the code does. `ScanLoop` decides when a scan runs and takes
it as one step; `DiskSync` is the scan, and takes a discovery, a run of smartctl and
a publication of readings as one step each; `Discovery`, `SmartctlRunner` (which
extends `CommandArgs`) and `HealthGauges` are those steps in detail, and
`Assessment` is what becomes of a report. What one module assumes is what the other
shows: `Discovery`'s `StaleIsAnnounced` ends in a broadcast, from which `ScanLoop`'s
`NothingMissed` goes on.

Definitions whose comment begins with "Faulty variant" are mutations of the
definition after them. No specification uses them.

### ScanLoop

The host's disks are a version number, `visible`; `unannounced` counts the
changes udevd has recorded and not yet broadcast. `queue` and `enobufs` are the
socket's receive buffer and the pending overrun error, `reader` and `loop` the
program counters of the two goroutines, `dirty` and `tick` the two one-slot
channels, `base`, `attempted` and `seen` the versions that the running, the last
finished and the last successful scan cover. `dirty` is the number of hints in the
channel, so that a trigger that overfilled its one slot would show. Datagrams are of four kinds: a disk's
add or remove, any other event, bytes that do not parse, a truncated message.

Each select case is an action (`SelectDone`, `SelectTick`, `SelectDirty`,
`DebounceElapses`, `DebounceCancelled`, `DrainHints`), a scan is `DiscoverBegins`
and then `ScanSucceeds` or `ScanFails`, followed by `StoreReady` in both cases as
in the code. `Terminate` cancels the context, `Crash` loses everything in memory,
`Restart` is the kubelet starting the container again.

Assumptions about the surroundings: the kernel reports `ENOBUFS` after each drop
of a datagram, before the datagrams still queued; udevd updates its database
before it broadcasts; a scan is sure to see what was visible when it began.

### DiskSync

`crs` are the resources at the API server, reduced to what the code decides on:
the node label, the extra arguments, `status.info` (the place the disk was last
seen at), `health`, and the reasons of the two conditions. `others` are the ones whose
`spec.nodeName` is another node: the resources of `Foreign`, which List may return
since label values are hashed, and some of `Shared`, the names that a disk of this node
has in common with a disk of another one (`GenerateCRName` may join different nodes and
identifiers to one name). What the daemon of the other node does meanwhile is not
modelled. `host` says where each
disk is attached, `hw` what an assessment would say; `readings` and `success` are
the metrics by disk and device label; `queue` is the workqueue. `worker` holds,
for each goroutine, its next step, its discovered inventory, the resources still
to be checked and disks still to be reconciled, and for the current one the copy
it read, whether this is still the latest version, the result of smartctl and the
status to be written. Every API call, smartctl run and metrics write is one step,
so all interleavings of the two goroutines, the users, the hardware and restarts
are explored between them. Publishing the gauges of one report is a single such step,
which `HealthGauges` takes apart; deleting an excluded disk is two, the API call
(`DeleteExcluded`) and then the metrics (`DropMetrics`).

`told` is the health the last event reported. `lost` is the history of the races:
the disks whose last computed or reported status was not stored as it was, since
the patch failed, the daemon was restarted before it, or it was merged into a status
that another writer had replaced while smartctl ran, or it stores another assessment
than the one users were last told of; an undisturbed patch of an
assessment ends it. Three documented statements hold outside of `lost` only, and the
properties say so.

A merge patch is modelled by what it sends: each of `info` and `health` if it
differs from the copy, and the conditions as a single field. A status update
replaces the status if the version is still the latest one and is retried
otherwise. "Bad" stands for every degraded status, "Failed" for every failure of a
collection that does not mean a missing device.

### Assessment

A report has an ATA table (a function from attribute IDs), an NVMe log, a SCSI
log, the `smart_status` object (passed, failed or absent), the health bits of the
exit status and the protocol. `EvaluateAta`, `EvaluateNvme` and `EvaluateScsi` are
the three cascades, `Evaluate` the choice among them. A finding is named by what
it is about; its text is abstracted. The state machine lets a new disk wear:
values drop and recover, sectors are lost, bits are raised. The reference is
`Levels`, the set of all levels of doc.go:33-84 that apply to a report, written
independently of the order of the checks.

### Discovery, Naming, ExcludeRules

`at` is `/sys/block`: the disk and the device number at each entry, which the kernel
may give to another disk later. `db` is the udev database by number and `pending`
the kernel events that udevd has still to process; processing one rewrites or
removes the record and broadcasts. `walk` is `DiscoverDisks`: the entries still to be
visited, the current one with the number and the record read so far, and the two
counters, reduced to whether they are positive. Every read of a file is an action
(`ReadBlockDir`, `ReadDevNumber`, `StatPartition`, `ReadRecord`, `ReadLink`,
`ReadSize`, `ReadMedium`), so disks come, go and are processed between any two of them. `announced`
and `steady` are histories: whether udevd has broadcast since the walk began, and
which entries are as they were then. The filters of `ShouldIgnore` are sets of
entries and disks; a record is one that can be read or not. `Excluded` has pairs of an
entry and a disk, since a rule may be on the kernel name, on the identity or on both; a
rule on another node excludes nothing here.

`Naming` works on sequences of characters: two letters, a capital, the period, and
two that are not allowed. A link is its family and a number. A truncated name
carries the full name in the place of its hash, that is, collisions of 32 bits of
SHA-256 are left out. `ExcludeRules` reads a flag as a sequence of characters in which
the name of a field is one character.

### HealthGauges

`series` are the exported series of one disk, each a vector, a path, one more label
(the status, the firmware) and a value. A goroutine that has collected holds the
list of writes that `applyCollectionSuccess`, `applyCollectionFailure` or
`markDiskMissing` will do; each is a step (`WriteGauge`), so writes of the two
goroutines interleave. `temperature`, with its sources in `extractTelemetry`, stands
for all readings that are set only if the report has them. `mixed` is the history of
the paths that two goroutines wrote at the same time.

### SmartctlRunner

Before the call, `UserTypes` builds `input`, the extra arguments of the spec;
`SplitCommandArgs` rejects them or what they become is accepted or unknown to
smartctl. `pc` is the next step of `Collect`; `proc`, `output` are the child process and
how it ended; `expired` and `cancelled` the two contexts; `device` the node, the
disk behind it and its power state, which may change at any moment; `history`
remembers what the device has been since the call began. `Ends` is the
environment's assumption about smartctl: which exit bits and messages it may
produce on which device (smartctl(8), and the comments in `runner.go`).

## 3. Runs

Passing runs:

| run | bounds | shows |
|---|---|---|
| `ScanLoop` | 2 inventory versions, a buffer of 1, 1 failed scan, 1 crash or SIGTERM | `NothingMissed`: a change that no scan has covered is still on its way to one. `ReadyOnlyWhileRunning`: readiness ends with the loop on every path. `RefinesPromise`: the loop implements `InventoryPromise`, with its liveness if the reader is served. `ScanNotPostponed`: events do not delay a scan for ever. `PollRepairs`: the ticker alone brings each version into a successful scan. `ShutdownCompletes`. |
| `DiskSyncRaces` | 1 disk, whose name a disk of another node may have as well, and a foreign resource, both goroutines, all user operations, 1 failing call, 1 restart, 5 disturbances in all | `SucceededIsAssessed`, `MarkingKeepsTheRest` whatever happens. `ForeignOnlyByName`: only `reconcileDisk` of a disk of the same name writes the resource of another node. `HealthMatchesUnlessRaced`, `KnownHealthPreserved`, `TransitionReportedOnce`: health and condition agree, a known health stays and a transition is reported once, unless a patch failed or was computed from an outdated copy. |
| `DiskSyncConverges` | 2 disks (one excluded), 2 places, both goroutines, any 3 disturbances | `EventuallyInSync`: resources, labels, conditions and metrics match the host in the end. `EventuallyRemoved`: excluded disks keep no resource that the List returns. |
| `AssessmentCascade` | attributes 1, 5, 197, values around the threshold, 9 kinds of disks | `MostSevereLevel`, `FindingsExplainHealth`, `WearNeverImproves`, `BreachIsRemembered`. |
| `Discovery` | 3 entries (one of a virtual device), 3 numbers, 6 devices (two plain ones, a virtual one, a partition, a remote one and one that a rule excludes at one of the entries), 2 hot-plugs; texts of 5 (names), 7 (rules) and 4 (links) characters | `SteadyEntriesExact`: what happens to other disks does not disturb the walk. `FailsWithoutDatabase`. `StaleIsAnnounced`: an inventory that differs from the host is followed by a broadcast. `PathIgnoresLinkOrder`, `NamesTellApart`, `CommaMeansAnd`. `NamesWellFormed`: limit, characters and ends of a name, and of its labels with the exception below. |
| `HealthGauges` | 2 paths, 2 firmware versions, 2 changes of the disk, 1 request, 1 failed run | `GaugesConsistent`: readings come and go together and show one status, unless two goroutines wrote at the same time. `EventuallyExported`: polling ends with the right readings, or none. |
| `SmartctlRunner` | 6 characters of arguments, 3 changes of the device, the system may kill smartctl | `QuotedArgsReadBack`: an argument that is quoted in one of three ways comes back unchanged. `SpaceSeparates`: an unquoted space splits the arguments and nothing else depends on it. `LateRunFails`, `DataWasReadable`, `AbsentIsNotUnsupported`, `MissingWasAway`: the outcome says what the device was. `CollectReturns`. |

Runs that refute a documented statement (each is a finding in `PROJECT.json` with
the quoted line):

| run | statement | what happens |
|---|---|---|
| `DiskSyncHealthRace` | `HealthMatchesDegraded`: health equals the reason of `Degraded` | two merge patches from different copies are mixed |
| `DiskSyncRenamedKept` | `EventuallyRemoved`: resources of excluded disks are deleted | the rule is matched against the kernel name of before the reboot |
| `DiskSyncDeletedLeak` | `EventuallyPruned`: readings of detached disks are pruned | the resource that would trigger it was deleted |
| `AssessmentNoStatus` | `FailureWasReported`: `SelfAssessmentFailed` needs a failed status or bit 3 | an absent `smart_status` decodes as not passed |
| `SmartctlRunnerShutdown` | `KilledIsNotMissing`: not found means that the device could not be opened | the shutdown killed smartctl |

More disagreements between code and documents are behaviours of the models without
a run of their own:

- `setHealth` "reports a health transition exactly once"
  (`physicaldisk_controller.go:536-537`), but emits the event before the patch: if the
  patch fails, or the other goroutine has collected as well, the event comes twice.
  `TransitionReportedOnce` names these exceptions; without them it is violated.
- With two goroutines, `Unknown` can replace a health that was stored while smartctl
  ran, since "never assessed" is decided on the older copy (452); this has the cause
  of `DiskSyncHealthRace`, and `KnownHealthPreserved` excepts it.
- "1 = active status, 0 otherwise" (`metrics.go:157`): two publications at the same
  time can end with two active statuses or none, until the next one.
  `GaugesConsistent` excepts `mixed` paths; without that it is violated.
- `StoreReady` follows a failed first scan, too: the code logs the error
  (`physicaldisk_controller.go:222`) and stores `ready` (225).
- A resource whose node label a user removes is not listed: if its disk is absent it
  is never marked `DiskMissing`, if it is excluded it is never deleted.
- "A strict 1:1 mapping" of disks and resources (`README.md:14`): identifiers that are
  equal after sanitizing ("A_B", "a-b") share a name, and so may disks of the nodes
  `a` and `a-b`. `reconcileDisk` does not look at `spec.nodeName` and patches the resource
  of the other node. `ForeignOnlyByName` makes this exception, as far as it goes: such a
  resource is labelled and its status patched, but neither deleted nor updated by `markDiskMissing`.
- Names are not always valid: "a period next to another separator ("a._b" becomes
  "a.-b") leaves an invalid label" (`naming.go:60-61`), and the API server rejects such a
  resource. The texts of the run contain these. `NamesWellFormed` and `WellFormedName`
  therefore claim valid labels only for identifiers and node names in which no period is
  next to another separator (`PeriodsApart`), and of the others only that the name has
  valid characters and ends and fits the limit.

**Why the bounds are enough.** In `ScanLoop` two versions and a buffer of one reach
every overrun, collapse, reconnect and a change during a scan; the safety results
are proved for all bounds. In `DiskSync` disks interact only through places (two
disks and two places cover renames and swaps) and through the order in which one
goroutine treats them; two goroutines are all the daemon has. `MaxHost`, `MaxUser`,
`MaxFault` and `MaxRestart` bound the disturbances of each kind and `MaxTotal` all of
them. In `DiskSyncConverges` these are at most 2 changes of the hardware, 2 user
operations, 1 failing call and 1 restart, and 3 in all, at any point of the scans
that go on for ever: the mutants and the refuted statements need one or two. The
texts of `Discovery` are long enough for a name to be cut at every position relative
to its separators (`MaxLen` is 6 instead of 253, `HashLen` 2 instead of 8), for a rule of two parts and for every
pair of link families in every order; those of `SmartctlRunner` for every pair of
quotes, escapes and spaces around an argument. Two hot-plugs let a name or a
number pass to another disk during a walk. In `HealthGauges` two changes suffice for
a detached and a moved disk, and one request for two goroutines at work. The
values of `Assessment` lie below, at and above a threshold, with the thresholds 0
and 254 that mean none.

**Deadlock.** Checked in `ScanLoop`, `DiskSync`, `Discovery` and `HealthGauges`, which
never stop.
`SmartctlRunner` ends when `Collect` has returned, and a disk of `Assessment` that
has worn completely changes no more, so these runs turn the check off.

**Fairness.** `FairSpec` of `ScanLoop` assumes `LoopFairness`: Go's `select` picks
among ready cases at random, so a case that is ready again and again is taken
(strong fairness of the cases); timers fire, calls and smartctl have timeouts, so a
scan ends. `ReaderFairness` (udevd broadcasts, the reader reads, and a socket can be
opened in the end, as the code retries forever) is assumed only by the liveness part
of `RefinesPromise`, and `TickerFairness` only by `PollRepairs`: each is the
antecedent there, so that neither way of noticing a change leans on the other.
`ScanSucceeds \/ ScanFails` has weak fairness as a whole: success follows only
because failures are bounded (`MaxFailures`). `FairSpec` of `DiskSync` asks each
goroutine for another step while it has one: the scan is repeated (this is what
`ScanLoop` establishes) and the queue is served. That disturbances end is the effect
of the bounds, so `<>[]` reads "some time after the last disturbance". `FairSpec` of
`SmartctlRunner` lets time pass and `Collect` go on; smartctl itself may hang for
good. `FairSpec` of `HealthGauges` lets the scan go on for ever and a call of
`Reconcile` end.

## 4. Proofs

Every safety invariant and every action property of a passing run is proved for all
values of the constants, those about texts for texts of any length. A proof uses
the named assumptions of the module it is about and nothing else: sizes are positive,
bounds are natural numbers, subsets are subsets, `DiskSync`'s `Args` is not empty (a
resource has a default) and `None` is no disk or number of `Discovery`. `Foreign` is by
definition disjoint from `Disks`; names that are both are in `Shared`. The bounds on disturbances are arbitrary, so that the theorems cover every
number of them. Each inductive invariant was checked with TLC on the constants of its
run before it was proved.

**`ScanLoopProofs`**

- `TypeCorrect`: `Spec => []TypeOK`.
- `ReadinessFollowsLoop`: `Spec => []ReadyOnlyWhileRunning`.
- `ChangesNotMissed`: `Spec => []NothingMissed`. `NothingMissed` is not inductive:
  a state in which the reader is parked while the daemon runs satisfies it until
  the next change is announced to nobody, and a scan that read an old version could
  finish after a newer one. `Inv` adds `ReaderParked` (the reader is parked only
  when the loop does not run or the context is done) and `ScansOrdered` (a scan
  reads a version between the last scanned and the current one). The lemmas
  `MulticastTriggers`, `MulticastKeeps` and `ReceiveKeeps` carry the argument: a
  broadcast leaves a trigger in the buffer or an overrun pending, and reading the
  buffer passes every trigger on to `dirty`.
- `PromiseKept`: `Spec => Promise!Init /\ [][Promise!Next]_(Promise!vars)`, the safety
  part of `RefinesPromise`: every step is a step of `InventoryPromise` or a stutter.

**`DiskSyncProofs`**, for any number of disks, foreign resources, places, exclusion
rules and disturbances: `TypeCorrect`, `SuccessIsAssessed`, `HealthMatches`,
`HealthPreserved`, `ForeignWrittenByNameOnly`, `MarkingKeeps` and `ReportedOnce` state the type
invariant and the six properties of `DiskSyncRaces`. They rest on one inductive
invariant, `IInv` (theorem `Invariant`), whose parts are the reasons:

- `WorkersSound`: what each goroutine holds. From `get` on it works on a disk of this
  node, at a place it discovered, with a copy that was stored once; the status it is
  about to write is the one that `setHealth` and the conditions make of that copy. This
  is why a merged patch cannot put a successful collection beside an
  unassessed condition.
- `Consistent` of every stored resource, the same of what is stored.
- `LatestIsStored`: a copy that no write has outdated is the stored resource. So the
  update of `markDiskMissing`, which replaces the whole status, changes one condition.
- `ToldIsStored`: outside of `lost` the last event is about the stored condition or
  about one a goroutine is going to store. `ReportedOnce` follows.

`ToldIsStored` was not inductive at first, and TLC showed on two disks and one place
that `TransitionReportedOnce` failed with the earlier history `lost`: while a slow
goroutine runs smartctl on a copy with Good, the other one may store Bad, report it and
store Good again. The copy then equals the stored status, so the late patch of the slow
goroutine seemed undisturbed although users had been told something else. `lost` now
includes a patch that stores another assessment than the one last reported (`Agrees`).

`ForeignWrittenByNameOnly` rests on a second invariant, `KeptApart` (theorem
`Separation`): what `markAbsentDisks` lists and `Reconcile` takes up past its guard, and
what is created, belongs to this node, even if its name is in `Shared`. `StepNames`
shows that resources only leave `others`, `StepApart` that a step keeps the goroutines
apart from them, `StepForeign` that what remains is `reconcileDisk` or a user.

`StepSound`, `StepResources`, `StepCopies`, `StepTold` and `StepOthers` show that a step
keeps each part, with one case per action; `StepStores` and `PatchStores` say once and
for all what a step may store.

**`AssessmentProofs`**, for any attribute IDs, values and thresholds:

- `EvaluateMostSevere`: for every well-formed report `Evaluate` returns the most
  severe of the documented levels that apply. The lemmas show for each cascade that
  each of its conditions is the documented one (`Checks`, `TableChecks`) and that
  the order of the cascade is the order of severity.
- `TypeCorrect` and `CascadeAsDocumented`: reports stay well formed while the disk
  wears (the inductive invariant `Inv`, which adds that the report is a record with
  these fields), and therefore `[]MostSevereLevel`.
- `StatusExplained`: `FindingsExplainHealth` holds of every report, by the three cascades.
- `WearWorsens`: `Spec => WearNeverImproves`. Since the health is the most severe level,
  it suffices that no step of wear loses a level except to a more severe one (`Covers`):
  an attribute whose `when_failed` turns from past to now loses `AttributeFailedInPast`
  and gains a higher level.
- `BreachRemembered`: `Spec => BreachIsRemembered`, from the invariant `Remembers`: the
  worst value of an attribute is never above its value, and is a value if that is one.
  Without it a breach known by the value alone would vanish with the recovery.

**`DiscoveryProofs`**, for any number of entries, numbers, disks and hot-plugs:
`TypeCorrect`, `SteadyExact`, `DatabaseFailure` and `StaleAnnounced`. The invariant
relates the three actors. `RecordsSettle`: the record of a number is that of the disk
behind it unless events are pending, and then the last of them is about the present
state. `Sound` and `Exact`: what the walk has made of an entry that nothing has
happened to since the walk began (`Through`, and `UnderWay` for the one it visits, whose record, link, size and medium are
read one after the other).
`Quiet`: as long as nothing is broadcast and nothing pending, nothing has happened to
any entry. With it `StaleIsAnnounced` reduces to the exactness of the walk.

**`NamingProofs`**

- `PathOfSet`: for two lists of the same links in any number and order,
  `ResolvePredictablePath` returns paths of the same family, and the same path if that
  family has one link or none. `PathStable` is the property of the run
  (`MCSpec => []PathIgnoresLinkOrder`), for texts of any length.
- `TruncatedName`: for every `MaxLen` and `HashLen` that fit, a name is not longer than
  `MaxLen`, does not end in a separator where it was cut, and belongs to one full name
  only. It assumes that the full name is a sequence, which `FullNameIs` establishes.
- `WellFormedName`: for a node and identifiers of any length and any characters, the name
  fits the limit, has only allowed characters and is alphanumeric at both ends, and its
  labels are so too unless a period of the node or identifier touches another separator.
  `SanitizedChars` is the induction over the loop of `SanitizeRFC1123Subdomain`; the
  first character survives the cut, so that something is left of it. `SanitizedPeriods` and
  `PartPeriods` show that replacing, trimming, joining and cutting put no separator next
  to a period. `NamesAlwaysWellFormed` is the property of the run,
  `MCSpec => []NamesWellFormed`.
- `NameTellsApart`: two disks of a node whose names are equal have the same sanitized
  identifier (or the default), since truncation keeps the full name apart and the part of
  the node cancels (`Cancel`). `NamesAlwaysTellApart` is the property of the run.
- `RuleIsConjunction`: for a rule of any length that `ParseExcludeRule` accepts and for any
  disk, the rule matches if and only if each part between commas matches as a rule of its
  own. The invariant of the loop is `Reads`: every part read so far says something, its
  field has its value, and a field with a value was named by a part. `SplitParts` and
  `SplitOne` say what `strings.Split` returns. `CommaAlwaysAnd` is the property of the run.

**`SmartctlRunnerProofs`**: `TypeCorrect`, `LateFails`, `DataReadable`,
`AbsentNotUnsupported` and `MissingAway`. The invariant adds `InStep` (how the process
and the contexts stand at each step of `Collect`; past the wait the deadline has not
passed unless the caller has given up), `Recorded` (the history has the device as it
is), `Truthful` (what smartctl says was so at some moment) and `LookedAt` (a failure is
classified after a look at the device node). That smartctl tells the truth is the
model's assumption `Ends`; that it is preserved to the result, although the device changes
between the exit, the look and the classification, is what is proved. About the arguments,
for texts of any length: `SpacesSeparate` (the loop of `SplitCommandArgs`, restarted after
an unquoted space, differs from the loop on the rest of the text by the arguments it has
already found, `Shifted`), `QuotingReadsBack` (each of the three quotings of any argument
reads back as that argument, by induction over the argument), and `QuotedReadBack`.

**`FoldFacts`** is what makes induction over texts possible. `FoldLeft` is a recursion over
sets of positions. The lemmas show, for any loop body `Op` and initial state `Base`, that this
recursion has a solution (`FoldsExist`), that the fold is the last state of the run of the
loop (`FoldRun`), and so that a fold over one more character is one more turn of the loop
(`FoldPrefix`, `FoldAppend`). Induction itself (`Induct`) is stated over a set of numbers, from
the smallest element a set of numbers has (`Least`). Each proof instantiates the module with
the loop of the code, e.g. `Sanitizer == INSTANCE FoldFacts WITH Op <- Replace, Base <- <<>>`.

**`HealthGaugesProofs`**, for any number of paths, firmware versions, changes and
requests: `TypeCorrect` and `Consistency` (`[]GaugesConsistent`). `GaugesConsistent` only
speaks of moments at which nobody writes. The invariant says what a sequence of writes
that is under way has achieved: `Progress` (the series of one report are written or still
to be written, or each vector is dropped or still to be dropped, as long as the goroutine
writes alone) and `Settled` (the paths that the only writer does not write to are
consistent).

**Only model-checked.** The liveness properties (`ShutdownCompletes`, `ScanNotPostponed`,
`PollRepairs`, the liveness part of `RefinesPromise`, `EventuallyInSync`,
`EventuallyRemoved`, `CollectReturns`, `EventuallyExported`): fairness and ENABLED are out
of the prover's reach.

## 5. Not modelled

- Owner references, findings in the resource, the firmware version and the time of
  the last collection, the events for failed collections and missing disks, and the
  backoff of the workqueue (`DiskSync`): written and not read by the code.
- Readings other than the temperature: they are copied in the same way, or not at all.
  `smartctl_version`, which belongs to no disk, and the format of the version number.
- The lines of a udev record (`ParseUdevDataFile`) and the substrings `ShouldIgnore`
  looks for: a record can be read or not and shows a remote volume or not. The bytes of
  a udev message are abstracted to the four kinds of `ScanLoop`.
- The FNV hash of `MustFormatValue`: `DiskSync` lets List return resources of another
  node, which is the only effect of a collision. Collisions of truncated SHA-256.
- Flags other than `--exclude-disk`, their validation, the HTTP server: sequential
  input and output. Rules that name nothing but the node (`DiskSync`).
- Generated deep copies, charts, image build and scripts: no behaviour of the program.

## 6. Plan

Done: `ScanLoop` with its abstract specification, `DiskSync`, `Assessment`,
`SmartctlRunner` with `CommandArgs`, `Discovery` with `Naming` and `ExcludeRules`, and
`HealthGauges`; and the proofs of all their safety invariants and action properties.

Next:

1. `DiskSync`: the invariants behind convergence that need no fairness, such as that a
   goroutine that ends a scan undisturbed leaves the resources of its inventory in line.
2. An abstract specification of the walk of `Discovery` as one step of `ScanLoop`'s scan,
   and the proof that the walk implements it.
