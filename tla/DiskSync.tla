------------------------------ MODULE DiskSync ------------------------------
(***************************************************************************)
(* How DiskMonitor (pkg/controller/physicaldisk_controller.go) keeps the   *)
(* PhysicalDisk resources and the exported metrics in line with the host's *)
(* disks.                                                                  *)
(*                                                                         *)
(* Two goroutines reconcile without a lock: "scan", the loop of Start,     *)
(* which runs ReconcileAll again and again, and "rec", the controller's    *)
(* worker, which runs Reconcile for a resource whose spec was edited.      *)
(* Every API call, every smartctl run and every write to the process-wide  *)
(* metrics is a step of its own; users, hot-plug, failing calls and        *)
(* restarts of the daemon come in between.                                 *)
(*                                                                         *)
(* A disk and its resource share one identifier (GenerateCRName); the      *)
(* path a disk is reached by follows the place it is attached at, as it    *)
(* does for disks without a persistent link.                               *)
(***************************************************************************)
EXTENDS Naturals, FiniteSets

CONSTANTS
    Disks,          \* hardware of this node, by resource name
    Foreign,        \* resources of other nodes that List or a watch returns and
                    \* that no disk of this node has the name of
    Shared,         \* of Disks: the names that disks of other nodes have, too
    Places,         \* device paths disks of this node are attached at
    Workers,        \* the goroutines that reconcile
    ExcludedDisks,  \* disks an exclusion rule names by serial or WWN
    ExcludedPlaces, \* places an exclusion rule names (kernel names)
    Args,           \* values of spec.smartmontools.smartctl.extraCmdArgs
    UserOps,        \* what users do to resources
    MaxHost,        \* bound: attached, detached or degrading disks
    MaxUser,        \* bound: user operations
    MaxFault,       \* bound: failing API calls and smartctl runs
    MaxRestart,     \* bound: restarts of the daemon
    MaxTotal        \* bound: all of these together

ASSUME WorkersAssumption == Workers \subseteq {"scan", "rec"}
ASSUME NamesAssumption == Disks \cap Foreign = {} /\ Shared \subseteq Disks
ASSUME RulesAssumption ==
    ExcludedDisks \subseteq Disks /\ ExcludedPlaces \subseteq Places
ASSUME ArgsAssumption == Args # {}
ASSUME UserOpsAssumption ==
    UserOps \subseteq {"edit", "delete", "unlabel", "create"}
ASSUME BoundsAssumption ==
    /\ MaxHost \in Nat /\ MaxUser \in Nat /\ MaxFault \in Nat
    /\ MaxRestart \in Nat /\ MaxTotal \in Nat

None == "None"     \* an empty place, health, condition or smartctl result
DefaultArgs == CHOOSE a \in Args : TRUE

VARIABLES
    host,      \* where each disk is attached, or None
    hw,        \* what Evaluate would say of each disk's hardware
    crs,       \* the API server's PhysicalDisks, or NoCR
    others,    \* of these: the ones whose spec.nodeName is another node
    queue,     \* the controller's workqueue
    worker,    \* the state of each goroutine
    readings,  \* the device labels health readings are exported for, by disk
    success,   \* smartctl_device_collection_success, by disk and device label
    told,      \* history: the health users were last told by an event
    lost,      \* history: the disks whose last computed or reported status was
               \* not stored as it was
    left       \* how much of each bound is left

hardware == <<host, hw>>
api == <<crs, others, told, lost>>
metrics == <<readings, success>>
vars == <<hardware, api, queue, worker, metrics, left>>

-----------------------------------------------------------------------------
(* PhysicalDisk resources.                                                 *)

Names == Disks \cup Foreign
Assessed == {"Good", "Bad"}           \* "Bad" stands for every degraded status
Healths == Assessed \cup {"Unknown", None}
Failures == {"DiskMissing", "Failed"} \* "Failed" also for standby, unsupported
Results == Assessed \cup Failures
CollectedReasons == Failures \cup {"Succeeded", None}

\* place stands for status.info; degraded and collected are the reasons of the
\* two conditions.  spec.nodeName is kept by others.
CR == [label : BOOLEAN, args : Args, place : Places \cup {None},
       health : Healths, degraded : Healths, collected : CollectedReasons]
NoCR == [label |-> FALSE, args |-> None]
Exists(d) == crs[d] # NoCR

NewCR == [label |-> TRUE, args |-> DefaultArgs, place |-> None, health |-> None,
          degraded |-> None, collected |-> None]

\* discovery.FindMatchingRule: no rule matches an empty DiskInfo.  (Rules that
\* name nothing but the node, which exclude all of its disks, are left out.)
Excluded(d, place) ==
    place # None /\ (d \in ExcludedDisks \/ place \in ExcludedPlaces)

\* discovery.DiscoverDisks: where each disk to be monitored is, None for others.
Discovered ==
    [d \in Disks |-> IF Excluded(d, host[d]) THEN None ELSE host[d]]

-----------------------------------------------------------------------------
(* Goroutines.                                                             *)

Labels == Places \cup {None}
Inventory == [Disks -> Labels]

\* What a goroutine holds: its next step, the discovered inventory, the listed
\* resources it has still to check (with their status.info), the disks it has
\* still to reconcile, and for the current one the copy read from the API
\* server, whether that is still its latest version, the result of smartctl and
\* the copy to be written.
PCs == {"idle", "list", "absent", "missGet", "missUpdate", "next", "get",
        "create", "label", "collect", "apply", "patch", "recGet", "recDiscover",
        "recDelete", "drop"}
Idle == [pc |-> "idle", inv |-> [d \in Disks |-> None], items |-> <<>>,
         todo |-> {}, disk |-> None, base |-> NoCR, latest |-> FALSE,
         result |-> None, out |-> NoCR]

At(w, pc) == worker[w].pc = pc
Disk(w) == worker[w].disk

\* The API server stores a new version of d: copies read before are outdated.
Outdated(ws, d) ==
    [v \in Workers |->
        IF ws[v].disk = d THEN [ws[v] EXCEPT !.latest = FALSE] ELSE ws[v]]

Stores(d, cr) ==
    /\ crs' = [crs EXCEPT ![d] = cr]
    /\ others' = IF cr = NoCR THEN others \ {d} ELSE others
    /\ told' = IF cr = NoCR THEN [told EXCEPT ![d] = None] ELSE told
    /\ lost' = IF cr = NoCR THEN lost \ {d} ELSE lost

\* w goes on with the record s; nobody else's copy is affected.
Becomes(w, s) == worker' = [worker EXCEPT ![w] = s]

\* w goes on with s after it has stored a new version of d.
BecomesAfterWrite(w, s, d) ==
    worker' = Outdated([worker EXCEPT ![w] = s], d)

\* The current resource is done: ReconcileAll takes up the next one in the loop
\* it is in, Reconcile returns.
Done(w, s) ==
    IF w = "rec" THEN Idle
    ELSE [s EXCEPT !.pc = IF s.pc \in {"missGet", "missUpdate", "drop"} THEN "absent"
                          ELSE "next",
                   !.disk = None, !.base = NoCR, !.latest = FALSE,
                   !.result = None, !.out = NoCR]

\* An error ends the current resource; controller-runtime queues the request
\* again, ReconcileAll collects the error and goes on.
Fails(w) ==
    /\ Becomes(w, Done(w, worker[w]))
    /\ queue' = IF w = "rec" THEN queue \cup {Disk(w)} ELSE queue
    /\ lost' = lost \cup {d \in Disks : At(w, "patch") /\ d = Disk(w)}
    /\ UNCHANGED <<hardware, crs, others, told, metrics>>

\* One disturbance of the given kind.
Use(kind) ==
    /\ left[kind] > 0 /\ left.total > 0
    /\ left' = [left EXCEPT ![kind] = @ - 1, !.total = @ - 1]
UseFault == Use("fault")

\* Placements of the disks: no two at one place.
Placements ==
    {h \in Inventory : \A d, e \in Disks : h[d] = h[e] /\ h[d] # None => d = e}

NoReadings == [d \in Names |-> {}]
NoSeries == [p \in Labels |-> None]

\* What an earlier run, before the exclusion rules, left behind.
Inherited ==
    {[NewCR EXCEPT !.place = p, !.health = "Good", !.degraded = "Good",
                   !.collected = "Succeeded"] : p \in Places}

\* What the daemon of another node keeps under that node's label.
Elsewhere == {[cr EXCEPT !.label = FALSE] : cr \in Inherited}

Init ==
    /\ host \in Placements
    /\ hw = [d \in Disks |-> "Good"]
    /\ others \in {Foreign \cup S : S \in SUBSET Shared}
    /\ crs \in {c \in [Names -> Inherited \cup Elsewhere \cup {NewCR, NoCR}] :
                   \A d \in Names :
                      IF d \in Foreign THEN c[d] = NewCR
                      ELSE IF d \in others THEN c[d] \in Elsewhere
                      ELSE IF d \in ExcludedDisks THEN c[d] \in Inherited \cup {NoCR}
                      ELSE c[d] = NoCR}
    /\ queue = {}
    /\ worker = [w \in Workers |-> Idle]
    /\ readings = NoReadings /\ success = [d \in Names |-> NoSeries]
    /\ told = [d \in Names |-> None] /\ lost = {}
    /\ left = [host |-> MaxHost, user |-> MaxUser, fault |-> MaxFault,
               restart |-> MaxRestart, total |-> MaxTotal]

-----------------------------------------------------------------------------
(* ReconcileAll and markAbsentDisks.                                       *)

\* DiscoverDisks at the start of ReconcileAll.
ScanDiscovers ==
    /\ "scan" \in Workers /\ At("scan", "idle")
    /\ Becomes("scan", [Idle EXCEPT !.pc = "list", !.inv = Discovered])
    /\ UNCHANGED <<hardware, api, queue, metrics, left>>

\* The List, which selects by the node label, returns the resource.
Listed(d) == Exists(d) /\ crs[d].label

\* Faulty variant: no guard on spec.nodeName.
AbsentOfAnyNode(inv) ==
    {d \in Names : /\ Listed(d)
                   /\ \/ d \in others
                      \/ Excluded(d, crs[d].place) \/ inv[d] = None}

\* Of the listed resources, those that are excluded or gone: the comparison of
\* the list with the inventory takes no call.
Absent(inv) ==
    {d \in Names : /\ Listed(d)
                   /\ d \notin others
                   /\ Excluded(d, crs[d].place) \/ inv[d] = None}

ListDisks ==
    /\ "scan" \in Workers /\ At("scan", "list")
    /\ Becomes("scan", [worker["scan"] EXCEPT
            !.pc = "absent",
            !.items = [d \in Absent(worker["scan"].inv) |-> crs[d].place]])
    /\ UNCHANGED <<hardware, api, queue, metrics, left>>

ToReconcile(s) ==
    [s EXCEPT !.pc = "next", !.todo = {d \in Disks : s.inv[d] # None}]

\* markAbsentDisks fails; the discovered disks are reconciled all the same.
ListFails ==
    /\ "scan" \in Workers /\ At("scan", "list")
    /\ UseFault
    /\ Becomes("scan", ToReconcile(worker["scan"]))
    /\ UNCHANGED <<hardware, api, queue, metrics>>

AbsentDone ==
    /\ "scan" \in Workers /\ At("scan", "absent")
    /\ worker["scan"].items = <<>>
    /\ Becomes("scan", ToReconcile(worker["scan"]))
    /\ UNCHANGED <<hardware, api, queue, metrics, left>>

Without(s, d) ==
    [s EXCEPT !.items = [e \in DOMAIN s.items \ {d} |-> s.items[e]]]

\* The goroutine has deleted d and goes on to its metrics.
Dropping(s, d) == [s EXCEPT !.pc = "drop", !.disk = d]

\* Faulty variant: the metrics are going to be dropped and the resource is kept.
DropMetricsOnly(w, s, d) ==
    /\ Becomes(w, Dropping(s, d))
    /\ UNCHANGED <<api, metrics>>

\* deleteIfExcluded once a rule has matched: Delete, NotFound included.
DeleteExcluded(w, s, d) ==
    /\ IF Exists(d)
       THEN Stores(d, NoCR) /\ BecomesAfterWrite(w, Dropping(s, d), d)
       ELSE Becomes(w, Dropping(s, d)) /\ UNCHANGED api
    /\ UNCHANGED metrics

\* Then DeleteAllDiskMetrics.
DropMetrics(w) ==
    /\ At(w, "drop")
    /\ readings' = [readings EXCEPT ![Disk(w)] = {}]
    /\ success' = [success EXCEPT ![Disk(w)] = NoSeries]
    /\ Becomes(w, Done(w, worker[w]))
    /\ UNCHANGED <<hardware, api, queue, left>>

AbsentDelete ==
    /\ "scan" \in Workers /\ At("scan", "absent")
    /\ \E d \in DOMAIN worker["scan"].items :
        /\ Excluded(d, worker["scan"].items[d])
        /\ \/ /\ DeleteExcluded("scan", Without(worker["scan"], d), d)
              /\ UNCHANGED left
           \/ /\ UseFault
              /\ Becomes("scan", Without(worker["scan"], d))
              /\ UNCHANGED <<api, metrics>>
    /\ UNCHANGED <<hardware, queue>>

\* Faulty variant: readings are pruned only when the condition changes.
PruneOnChange(d, place) ==
    IF Exists(d) /\ crs[d].collected = "DiskMissing" THEN UNCHANGED metrics
    ELSE /\ readings' = [readings EXCEPT ![d] = {}]
         /\ success' = [success EXCEPT ![d][place] = "failed"]

\* The first lines of markDiskMissing: DeleteDeviceHealthMetrics, and the failed
\* collection under the path of the copy at hand.
Prune(d, place) ==
    /\ readings' = [readings EXCEPT ![d] = {}]
    /\ success' = [success EXCEPT ![d][place] = "failed"]

AbsentMark ==
    /\ "scan" \in Workers /\ At("scan", "absent")
    /\ \E d \in DOMAIN worker["scan"].items :
        /\ ~Excluded(d, worker["scan"].items[d])
        /\ Prune(d, worker["scan"].items[d])
        /\ Becomes("scan", [Without(worker["scan"], d) EXCEPT
                               !.pc = "missGet", !.disk = d])
    /\ UNCHANGED <<hardware, api, queue, left>>

-----------------------------------------------------------------------------
(* markDiskMissing: RetryOnConflict around Get and Status().Update.         *)

\* A copy that has the condition already is left alone if its message, which
\* tells the scan, Reconcile and a failed collection apart, is the same too.
MissingGet(w) ==
    /\ At(w, "missGet")
    /\ Exists(Disk(w))
    /\ \/ Becomes(w, [worker[w] EXCEPT !.pc = "missUpdate", !.latest = TRUE,
                                       !.base = crs[Disk(w)]])
       \/ /\ crs[Disk(w)].collected = "DiskMissing"
          /\ Becomes(w, Done(w, worker[w]))
    /\ UNCHANGED <<hardware, api, queue, metrics, left>>

\* Faulty variant: the status is written whatever version it was read from.
MissingUpdateBlind(w) ==
    /\ At(w, "missUpdate")
    /\ Exists(Disk(w))
    /\ Stores(Disk(w), [worker[w].base EXCEPT !.collected = "DiskMissing"])
    /\ BecomesAfterWrite(w, Done(w, worker[w]), Disk(w))
    /\ UNCHANGED <<hardware, queue, metrics, left>>

\* The update replaces the whole status, but only in the version it was read.
MissingUpdate(w) ==
    /\ At(w, "missUpdate")
    /\ Exists(Disk(w)) /\ worker[w].latest
    /\ Stores(Disk(w), [worker[w].base EXCEPT !.collected = "DiskMissing"])
    /\ BecomesAfterWrite(w, Done(w, worker[w]), Disk(w))
    /\ UNCHANGED <<hardware, queue, metrics, left>>

\* A conflict is retried.
MissingConflict(w) ==
    /\ At(w, "missUpdate")
    /\ Exists(Disk(w)) /\ ~worker[w].latest
    /\ Becomes(w, [worker[w] EXCEPT !.pc = "missGet", !.base = NoCR])
    /\ UNCHANGED <<hardware, api, queue, metrics, left>>

-----------------------------------------------------------------------------
(* reconcileDisk.                                                          *)

ScanNext ==
    /\ "scan" \in Workers /\ At("scan", "next")
    /\ \/ /\ worker["scan"].todo = {}
          /\ Becomes("scan", Idle)
       \/ \E d \in worker["scan"].todo :
            Becomes("scan", [worker["scan"] EXCEPT !.pc = "get", !.disk = d,
                                                   !.todo = @ \ {d}])
    /\ UNCHANGED <<hardware, api, queue, metrics, left>>

\* The copy the status is computed from and later compared with.
HoldCopy(s, cr) == [s EXCEPT !.base = cr, !.pc = "collect"]

GetDisk(w) ==
    /\ At(w, "get")
    /\ Becomes(w,
          IF ~Exists(Disk(w)) THEN [worker[w] EXCEPT !.pc = "create"]
          ELSE IF crs[Disk(w)].label THEN HoldCopy(worker[w], crs[Disk(w)])
          ELSE [worker[w] EXCEPT !.pc = "label", !.base = crs[Disk(w)]])
    /\ UNCHANGED <<hardware, api, queue, metrics, left>>

CreateDisk(w) ==
    /\ At(w, "create")
    /\ ~Exists(Disk(w))
    /\ Stores(Disk(w), NewCR)
    /\ BecomesAfterWrite(w, HoldCopy(worker[w], NewCR), Disk(w))
    /\ UNCHANGED <<hardware, queue, metrics, left>>

\* The label is patched; the response replaces the copy at hand.  A failure is
\* logged and the copy keeps the label, as if it had been stored.
LabelDisk(w) ==
    /\ At(w, "label")
    /\ LET labelled == [crs[Disk(w)] EXCEPT !.label = TRUE] IN
       \/ /\ Exists(Disk(w))
          /\ Stores(Disk(w), labelled)
          /\ BecomesAfterWrite(w, HoldCopy(worker[w], labelled), Disk(w))
          /\ UNCHANGED <<hardware, queue, metrics, left>>
       \/ /\ Becomes(w, HoldCopy(worker[w],
                                 [worker[w].base EXCEPT !.label = TRUE]))
          /\ \/ ~Exists(Disk(w)) /\ UNCHANGED left
             \/ UseFault
          /\ UNCHANGED <<hardware, api, queue, metrics>>

\* smartctl reads whatever is attached at the path the scan found; it may also
\* fail or find the disk asleep.
Collect(w) ==
    /\ At(w, "collect")
    /\ \E r \in Results :
        /\ Becomes(w, [worker[w] EXCEPT !.pc = "apply", !.result = r])
        /\ IF r = "Failed" THEN UseFault ELSE UNCHANGED left
        /\ r # "Failed" =>
            LET there == {e \in Disks : host[e] = worker[w].inv[Disk(w)]} IN
            IF there = {} THEN r = "DiskMissing"
            ELSE \E e \in there : r = hw[e]
    /\ UNCHANGED <<hardware, api, queue, metrics>>

\* Faulty variants: the condition is forgotten, or left alone when the health is
\* already the one to be set.
SetHealthField(cr, health) == [cr EXCEPT !.health = health]
SetHealthOnChange(cr, health) ==
    IF cr.health = health THEN cr
    ELSE [cr EXCEPT !.health = health, !.degraded = health]

\* setHealth: status.health and the Degraded condition together.
SetHealth(cr, health) == [cr EXCEPT !.health = health, !.degraded = health]

\* Faulty variants: a failed collection makes the health Unknown, or makes its
\* reason the health.
ApplyForgetting(cr, r) ==
    IF r \in Assessed
    THEN SetHealth([cr EXCEPT !.collected = "Succeeded"], r)
    ELSE SetHealth([cr EXCEPT !.collected = r], "Unknown")
ApplyReason(cr, r) ==
    SetHealth([cr EXCEPT !.collected =
                  IF r \in Assessed THEN "Succeeded" ELSE r], r)

\* applyCollectionFailure and applyCollectionSuccess on the copy at hand.
Apply(cr, r) ==
    IF r \in Assessed
    THEN SetHealth([cr EXCEPT !.collected = "Succeeded"], r)
    ELSE LET failed == [cr EXCEPT !.collected = r] IN
         IF cr.health = None THEN SetHealth(failed, "Unknown") ELSE failed

\* Faulty variant: an event for every successful collection.
ReportsAlways(before, after) == after \in Assessed

\* The end of setHealth: an event is emitted if SetStatusCondition has changed the
\* Degraded condition and the disk is assessed.
Reports(before, after) == after \in Assessed /\ after # before

\* The metrics are published, the events are emitted and the new status is
\* computed before any of it is stored.
ApplyResult(w) ==
    /\ At(w, "apply")
    /\ LET d == Disk(w)
           r == worker[w].result
           place == worker[w].inv[d]
           out == Apply([worker[w].base EXCEPT !.place = place], r)
       IN /\ success' = [success EXCEPT ![d][place] =
                            IF r \in Assessed THEN "ok" ELSE "failed"]
          /\ readings' = IF r \in Assessed
                         THEN [readings EXCEPT ![d] = @ \cup {place}]
                         ELSE readings
          /\ told' = IF Reports(worker[w].base.degraded, out.degraded)
                     THEN [told EXCEPT ![d] = out.degraded] ELSE told
          /\ Becomes(w, [worker[w] EXCEPT !.pc = "patch", !.out = out])
    /\ UNCHANGED <<hardware, queue, left, crs, others, lost>>

\* Faulty variant: the conditions are merged one by one.
MergedByCondition(stored, base, out, reworded) ==
    [stored EXCEPT
        !.place = IF out.place = base.place THEN @ ELSE out.place,
        !.health = IF out.health = base.health THEN @ ELSE out.health,
        !.degraded = IF out.degraded = base.degraded THEN @ ELSE out.degraded,
        !.collected = IF out.collected = base.collected THEN @ ELSE out.collected]

\* client.MergeFrom: a field is sent only if it differs from the copy, and the
\* list of conditions is one field.  The message of a failure may have changed
\* although its reason has not.
Merged(stored, base, out, reworded) ==
    LET conditions(cr) == <<cr.degraded, cr.collected>>
        sent == IF conditions(out) # conditions(base) \/ reworded THEN out ELSE stored
    IN [stored EXCEPT
          !.place = IF out.place = base.place THEN @ ELSE out.place,
          !.health = IF out.health = base.health THEN @ ELSE out.health,
          !.degraded = sent.degraded,
          !.collected = sent.collected]

\* The copy of w is of the status that is stored, whatever became of the spec.
Status(cr) == <<cr.place, cr.health, cr.degraded, cr.collected>>
UpToDate(w) ==
    Exists(Disk(w)) /\ Status(worker[w].base) = Status(crs[Disk(w)])

\* What is to be stored is not at odds with what users were last told.
Agrees(result, reported) == result \in Assessed => reported \in {None, result}

\* No version is named, so the patch also applies to a resource that others have
\* changed meanwhile.  A successful collection always changes its timestamp.
PatchStatus(w) ==
    /\ At(w, "patch")
    /\ Exists(Disk(w))
    /\ \E reworded \in BOOLEAN :
        LET d == Disk(w)
            new == Merged(crs[d], worker[w].base, worker[w].out, reworded)
        IN /\ reworded => worker[w].result \in Failures
           /\ crs' = [crs EXCEPT ![d] = new]
           /\ lost' = IF ~UpToDate(w) \/ ~Agrees(worker[w].result, told[d])
                      THEN lost \cup {d}
                      ELSE IF worker[w].result \in Assessed THEN lost \ {d}
                      ELSE lost
           /\ IF new # crs[d] \/ reworded \/ worker[w].result \in Assessed
              THEN BecomesAfterWrite(w, Done(w, worker[w]), d)
              ELSE Becomes(w, Done(w, worker[w]))
    /\ UNCHANGED <<hardware, queue, metrics, left, others, told>>

-----------------------------------------------------------------------------
(* Calls that fail.                                                        *)

\* NotFound for a resource deleted meanwhile, AlreadyExists for one created
\* meanwhile, a conflict once the four retries of retry.DefaultRetry are used up
\* (they are not counted).
CallRefused(w) ==
    /\ \/ worker[w].pc \in {"missGet", "missUpdate", "patch"} /\ ~Exists(Disk(w))
       \/ At(w, "create") /\ Exists(Disk(w))
       \/ At(w, "missUpdate") /\ ~worker[w].latest
    /\ Fails(w)
    /\ UNCHANGED left

\* The API server cannot be reached, times out or rejects the call; or sysfs or
\* the udev database cannot be read, which in ReconcileAll merely skips a scan.
CallFails(w) ==
    /\ worker[w].pc \in {"missGet", "missUpdate", "get", "create", "patch",
                        "recGet", "recDiscover", "recDelete"}
    /\ Fails(w)
    /\ UseFault

-----------------------------------------------------------------------------
(* Reconcile, for a request of the workqueue.                              *)

TakeRequest ==
    /\ "rec" \in Workers /\ At("rec", "idle")
    /\ \E d \in queue :
        /\ Becomes("rec", [Idle EXCEPT !.pc = "recGet", !.disk = d])
        /\ queue' = queue \ {d}
    /\ UNCHANGED <<hardware, api, metrics, left>>

\* Resources that are gone or belong to another node are none of its business.
RecGet ==
    /\ "rec" \in Workers /\ At("rec", "recGet")
    /\ LET d == Disk("rec") IN
       Becomes("rec", IF ~Exists(d) \/ d \in others THEN Idle
                      ELSE [worker["rec"] EXCEPT !.pc = "recDiscover",
                                                 !.base = crs[d]])
    /\ UNCHANGED <<hardware, api, queue, metrics, left>>

\* A discovered disk goes to reconcileDisk, an absent one to deleteIfExcluded and
\* then to markDiskMissing, both judged by the copy read before.
RecDiscovers ==
    /\ "rec" \in Workers /\ At("rec", "recDiscover")
    /\ LET d == Disk("rec")
           place == worker["rec"].base.place
           found == Discovered[d] # None
           excluded == ~found /\ Excluded(d, place)
       IN /\ Becomes("rec", [worker["rec"] EXCEPT
                 !.pc = IF found THEN "get"
                        ELSE IF excluded THEN "recDelete" ELSE "missGet",
                 !.inv = IF found THEN Discovered ELSE @,
                 !.base = NoCR])
          /\ IF found \/ excluded THEN UNCHANGED metrics
             ELSE Prune(d, place)
    /\ UNCHANGED <<hardware, api, queue, left>>

RecDelete ==
    /\ "rec" \in Workers /\ At("rec", "recDelete")
    /\ DeleteExcluded("rec", worker["rec"], Disk("rec"))
    /\ UNCHANGED <<hardware, queue, left>>

-----------------------------------------------------------------------------
(* Users, hardware and the process.                                        *)

UseUser(op) ==
    /\ op \in UserOps
    /\ Use("user")
    /\ UNCHANGED <<hardware, metrics>>

UserStores(d, cr) == Stores(d, cr) /\ worker' = Outdated(worker, d)

\* Only a change of the spec of a resource in the label-scoped cache passes the
\* predicates and is queued.
UserEdits ==
    /\ UseUser("edit")
    /\ \E d \in Names : \E a \in Args :
        /\ Exists(d) /\ crs[d].args # a
        /\ UserStores(d, [crs[d] EXCEPT !.args = a])
        /\ queue' = IF "rec" \in Workers /\ crs[d].label
                    THEN queue \cup {d} ELSE queue

UserDeletes ==
    /\ UseUser("delete")
    /\ \E d \in Disks : Exists(d) /\ UserStores(d, NoCR)
    /\ UNCHANGED queue

UserUnlabels ==
    /\ UseUser("unlabel")
    /\ \E d \in Disks :
        /\ Exists(d) /\ crs[d].label
        /\ UserStores(d, [crs[d] EXCEPT !.label = FALSE])
    /\ UNCHANGED queue

\* The resource of the README's example carries no label.
UserCreates ==
    /\ UseUser("create")
    /\ \E d \in Disks :
        /\ ~Exists(d)
        /\ UserStores(d, [NewCR EXCEPT !.label = FALSE])
    /\ UNCHANGED queue

UseHost ==
    /\ Use("host")
    /\ UNCHANGED <<api, queue, worker, metrics>>

Attach ==
    /\ UseHost
    /\ \E d \in Disks : \E p \in Places :
        /\ host[d] = None /\ \A e \in Disks : host[e] # p
        /\ host' = [host EXCEPT ![d] = p]
    /\ UNCHANGED hw

Detach ==
    /\ UseHost
    /\ \E d \in Disks :
        host[d] # None /\ host' = [host EXCEPT ![d] = None]
    /\ UNCHANGED hw

Degrade ==
    /\ UseHost
    /\ \E d \in Disks :
        hw[d] = "Good" /\ hw' = [hw EXCEPT ![d] = "Bad"]
    /\ UNCHANGED host

\* The daemon starts again with empty metrics and an empty queue: the resources
\* it finds are Create events, which the predicates drop.  After a reboot of the
\* node the kernel may name the disks differently.
Restart ==
    /\ Use("restart")
    /\ worker' = [w \in Workers |-> Idle]
    /\ queue' = {}
    /\ readings' = NoReadings /\ success' = [d \in Names |-> NoSeries]
    /\ host' \in {h \in Placements : \A d \in Disks : h[d] = None <=> host[d] = None}
    /\ lost' = lost \cup {d \in Disks :
                             \E w \in Workers : At(w, "patch") /\ Disk(w) = d}
    /\ UNCHANGED <<crs, others, told, hw>>

-----------------------------------------------------------------------------
ReconcileDisk(w) ==
    \/ GetDisk(w) \/ CreateDisk(w) \/ LabelDisk(w) \/ Collect(w)
    \/ ApplyResult(w) \/ PatchStatus(w)

MarkDiskMissing(w) == MissingGet(w) \/ MissingUpdate(w) \/ MissingConflict(w)

WorkerStep(w) ==
    \/ ReconcileDisk(w) \/ MarkDiskMissing(w) \/ DropMetrics(w)
    \/ CallRefused(w) \/ CallFails(w)

ReconcileAll ==
    \/ ScanDiscovers \/ ListDisks \/ ListFails \/ AbsentDelete \/ AbsentMark
    \/ AbsentDone \/ ScanNext

Reconcile == TakeRequest \/ RecGet \/ RecDiscovers \/ RecDelete

Monitor ==
    ReconcileAll \/ Reconcile \/ \E w \in Workers : WorkerStep(w)

Users == UserEdits \/ UserDeletes \/ UserUnlabels \/ UserCreates

Environment == Users \/ Attach \/ Detach \/ Degrade \/ Restart

Next == Monitor \/ Environment

Spec == Init /\ [][Next]_vars

\* The loop scans again and again (ScanLoop) and the controller serves its queue.
ScanStep == ReconcileAll \/ ("scan" \in Workers /\ WorkerStep("scan"))
RecStep == Reconcile \/ ("rec" \in Workers /\ WorkerStep("rec"))

FairSpec == Spec /\ WF_vars(ScanStep) /\ WF_vars(RecStep)

-----------------------------------------------------------------------------
(* Properties.                                                             *)

WorkerType ==
    [pc : PCs, inv : Inventory,
     items : UNION {[S -> Labels] : S \in SUBSET Names},
     todo : SUBSET Disks, disk : Names \cup {None},
     base : CR \cup {NoCR}, latest : BOOLEAN,
     result : Results \cup {None}, out : CR \cup {NoCR}]

\* Type invariant: what the API server, the metrics and each goroutine hold.
TypeOK ==
    /\ host \in Inventory /\ hw \in [Disks -> Assessed]
    /\ crs \in [Names -> CR \cup {NoCR}]
    /\ Foreign \subseteq others /\ others \subseteq Foreign \cup Shared
    /\ queue \subseteq Names
    /\ worker \in [Workers -> WorkerType]
    /\ readings \in [Names -> SUBSET Places]
    /\ success \in [Names -> [Labels -> {"ok", "failed", None}]]
    /\ told \in [Names -> Healths] /\ lost \subseteq Disks
    /\ left \in [host : 0 .. MaxHost, user : 0 .. MaxUser,
                fault : 0 .. MaxFault, restart : 0 .. MaxRestart,
                total : 0 .. MaxTotal]

\* Steps of the daemon leave the history of user operations alone.
ByUser == left'.user # left.user

\* markDiskMissing uses Status().Update with the version it read, so it changes
\* the DataCollected condition and nothing a concurrent writer stored meanwhile:
\* not the health, not the edited spec (the retry loop at lines 234-254).
MarkingKeepsTheRest ==
    [][\A w \in Workers :
          At(w, "missUpdate") /\ worker'[w].pc # "missUpdate" /\ crs' # crs =>
            crs' = [crs EXCEPT ![Disk(w)].collected = "DiskMissing"]]_vars

\* reconcileDisk writes to the resource named like a disk it has discovered.
Reconciled(d) ==
    \E w \in Workers :
        /\ d \in Disks /\ Disk(w) = d /\ worker[w].inv[d] # None
        /\ worker[w].pc \in {"label", "patch"}

\* A resource of another node is not deleted, marked or edited by this daemon,
\* although List returns it (a hash collision of MustFormatValue, or a label the
\* daemon has itself replaced), an edit queues it or a rule matches it: the guards
\* on spec.nodeName in Reconcile and markAbsentDisks.  reconcileDisk has no such
\* guard: a discovered disk of the same name is patched into it.
ForeignOnlyByName ==
    [][\A d \in others :
          crs'[d] # crs[d] => ByUser \/ (Reconciled(d) /\ crs'[d] # NoCR)]_vars

\* A successful collection is never stored beside an unassessed Degraded
\* condition, whatever patches are merged into one another.
SucceededIsAssessed ==
    \A d \in Disks : Exists(d) /\ crs[d].collected = "Succeeded" =>
        crs[d].degraded \in Assessed

\* "Invariant: health == conditions[Degraded].reason"
\* (physicaldisk_types.go:173).
HealthMatchesDegraded ==
    \A d \in Names : Exists(d) => crs[d].health = crs[d].degraded

\* The same, as far as the merge patches can keep it: only a patch computed from a
\* status that was replaced while smartctl ran separates the two, and the next
\* collection that is stored undisturbed brings them together again.
HealthMatchesUnlessRaced ==
    \A d \in Names : Exists(d) /\ d \notin lost => crs[d].health = crs[d].degraded

\* "The last known health is preserved, and only a disk that was never assessed
\* reports Unknown" (README.md:83-85): no failed collection, missing disk, user or
\* restart takes it away; only a patch from an outdated copy may.
KnownHealthPreserved ==
    [][\A d \in Names :
          /\ Exists(d) /\ crs[d].health \in Assessed
          /\ crs'[d] # NoCR /\ d \notin lost'
          => crs'[d].health \in Assessed]_vars

\* setHealth "reports a health transition exactly once"
\* (physicaldisk_controller.go:536-537).  The event precedes the patch, so this
\* holds as long as the patch after the last event was stored and no other
\* goroutine is between its event and its patch.
TransitionReportedOnce ==
    [][\A w \in Workers :
          /\ At(w, "apply") /\ worker'[w].pc = "patch"
          /\ UpToDate(w) /\ Disk(w) \notin lost
          /\ \A v \in Workers : ~(At(v, "patch") /\ Disk(v) = Disk(w))
          /\ Reports(worker[w].base.degraded, worker'[w].out.degraded)
          => told[Disk(w)] # worker'[w].out.degraded]_vars

\* What the resources and the metrics look like once the daemon has caught up.  A
\* resource that lost its node label gets it back when its disk is discovered; the
\* one of an absent disk is out of the daemon's sight.
InSync(d) ==
    IF Excluded(d, host[d]) THEN ~Listed(d) /\ (~Exists(d) => readings[d] = {})
    ELSE IF host[d] # None
    THEN /\ Exists(d) /\ crs[d].label /\ crs[d].place = host[d]
         /\ crs[d].health = hw[d] /\ crs[d].degraded = hw[d]
         /\ crs[d].collected = "Succeeded"
         /\ host[d] \in readings[d] /\ success[d][host[d]] = "ok"
    ELSE Listed(d) => crs[d].collected = "DiskMissing" /\ readings[d] = {}

\* Races, failed calls, lost patches and restarts leave no lasting trace: when
\* the disturbances end, polling brings every resource in line with the host and
\* prunes the readings of detached disks, also those that a collection under way
\* has published once more.
EventuallyInSync == <>[](\A d \in Disks : InSync(d))

\* "All readings of a detached disk are automatically pruned to prevent stale
\* metric export" (README.md:115), whatever became of its resource.
EventuallyPruned ==
    <>[](\A d \in Disks : host[d] = None => readings[d] = {})

\* The resource of a disk that is excluded for good goes away if the List returns
\* it ("any existing
\* PhysicalDisk matching an exclusion rule is deleted during the next inventory
\* scan", FAQ.md:32).
EventuallyRemoved ==
    <>[](\A d \in Disks : Excluded(d, host[d]) => ~Listed(d))
=============================================================================
