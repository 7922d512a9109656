---------------------------- MODULE HealthGauges ----------------------------
(***************************************************************************)
(* The exported readings of one disk, gauge by gauge: publishHealthMetrics *)
(* and extractTelemetry (pkg/controller/physicaldisk_controller.go) and    *)
(* DeleteDeviceHealthMetrics (pkg/metrics/metrics.go).                     *)
(*                                                                         *)
(* The gauges belong to the process.  The scan and the controller's worker *)
(* set and delete them without a lock, one after the other, and Prometheus *)
(* may scrape in between; DiskSync, where a publication is one step, shows *)
(* what the resources do meanwhile.                                        *)
(*                                                                         *)
(* "temperature" stands for all gauges that are set only if the report     *)
(* has them: power-on time, power cycles, NVMe log and ATA attributes.     *)
(***************************************************************************)
EXTENDS Naturals, Sequences

CONSTANTS
    Paths,       \* device paths, the label "device"
    Firmware,    \* firmware versions, a label of smartctl_device
    MaxChanges,  \* bound: changes of the disk
    MaxRequests, \* bound: edits of the spec that call the controller's worker
    MaxFaults    \* bound: smartctl runs that fail

ASSUME BoundsAssumption ==
    MaxChanges \in Nat /\ MaxRequests \in Nat /\ MaxFaults \in Nat

VARIABLES
    disk,      \* where the disk is attached and what smartctl would report
    stored,    \* status.info.path of its resource, NoPath at first, None without one
    series,    \* the exported series with their values
    worker,    \* what each goroutine holds and has still to write
    mixed,     \* history: paths whose gauges two goroutines wrote at the same time
    left       \* how much of each bound is left

vars == <<disk, stored, series, worker, mixed, left>>

None == "None"
NoPath == ""
Workers == {"scan", "rec"}

\* AllDiskHealthStatuses; SectorErrors stands for the degraded ones between the first
\* and the last.
Statuses == <<"Good", "SectorErrors", "SelfAssessmentFailed", "Unknown">>
HealthStatuses == {Statuses[i] : i \in DOMAIN Statuses}

\* Temperatures by source: the normalized one, the NVMe log, attributes 190 and 194;
\* 0 if the report has none.
Temperatures == {<<40, 41, 42>>, <<0, 0, 42>>, <<0, 0, 0>>}

\* A failed self-assessment is always assessed as such (Assessment), and a report is
\* never assessed as Unknown.
Disk == {d \in [path : Paths \cup {None}, passed : BOOLEAN,
                 status : HealthStatuses \ {"Unknown"}, firmware : Firmware,
                 temps : Temperatures] :
            d.passed \/ d.status = "SelfAssessmentFailed"}

-----------------------------------------------------------------------------
(* Writes.                                                                 *)

Set(vec, path, label, value) ==
    [vec |-> vec, path |-> path, label |-> label, value |-> value]
Drop(vec) == [drop |-> vec]

\* One write: WithLabelValues(...).Set(value), or DeletePartialMatch by node and
\* disk, which takes the series of every path.
After(write, exported) ==
    IF "drop" \in DOMAIN write
    THEN {s \in exported : s.vec # write.drop}
    ELSE {s \in exported :
             <<s.vec, s.path, s.label>> # <<write.vec, write.path, write.label>>}
         \cup {write}

\* The first source that has one, 0 for none.
Temperature(temps) ==
    IF \E i \in DOMAIN temps : temps[i] > 0
    THEN temps[CHOOSE i \in DOMAIN temps :
                  temps[i] > 0 /\ \A j \in 1 .. i - 1 : temps[j] = 0]
    ELSE 0

\* Faulty variant: the status that was active before keeps its 1.
ActiveOnly(path, status) == <<Set("health", path, status, 1)>>

\* One gauge for each status: 1 for the active one.
PublishStatus(path, status) ==
    [i \in DOMAIN Statuses |->
        Set("health", path, Statuses[i], IF Statuses[i] = status THEN 1 ELSE 0)]

\* Faulty variant: a temperature that is not known is exported as 0.
PublishZero(path, r) ==
    <<Set("device", path, r.firmware, 1),
      Set("smart_status", path, "", IF r.passed THEN 1 ELSE 0)>>
    \o PublishStatus(path, r.status)
    \o <<Set("temperature", path, "current", Temperature(r.temps))>>

\* publishHealthMetrics with the path discovered before and the report r.
Publish(path, r) ==
    <<Set("device", path, r.firmware, 1),
      Set("smart_status", path, "", IF r.passed THEN 1 ELSE 0)>>
    \o PublishStatus(path, r.status)
    \o (IF Temperature(r.temps) = 0 THEN <<>>
        ELSE <<Set("temperature", path, "current", Temperature(r.temps))>>)

\* applyCollectionSuccess.
PublishSuccess(path, r) == <<Set("success", path, "", 1)>> \o Publish(path, r)

\* applyCollectionFailure leaves all readings as they are.
PublishFailure(path) == <<Set("success", path, "", 0)>>

\* Faulty variant: smartctl_device is not deleted.
DeleteReadings == <<Drop("smart_status"), Drop("temperature"), Drop("health")>>

\* The vectors in the order they are emptied.
DeleteDeviceHealthMetrics ==
    <<Drop("device"), Drop("smart_status"), Drop("temperature"), Drop("health")>>

\* The first lines of markDiskMissing.
MarkMissing(path) == DeleteDeviceHealthMetrics \o PublishFailure(path)

-----------------------------------------------------------------------------
(* Goroutines.                                                             *)

\* The path that was discovered and is to be collected from; the writes still to be
\* done, what they are for, and whether nobody else has written meanwhile.
Idle == [held |-> None, writes |-> <<>>, path |-> None, kind |-> "none", alone |-> TRUE]

\* A good disk; one path and one firmware are as good as another.
Init ==
    /\ disk \in {d \in Disk : /\ d.status = "Good" /\ d.temps[1] > 0
                              /\ d.path \in {None, CHOOSE p \in Paths : TRUE}
                              /\ d.firmware = CHOOSE f \in Firmware : TRUE}
    /\ stored = None /\ series = {}
    /\ worker = [w \in Workers |-> Idle]
    /\ mixed = {}
    /\ left = [changes |-> MaxChanges, requests |-> MaxRequests, faults |-> MaxFaults]

Writing(w) == worker[w].writes # <<>>
Resting(w) == worker[w].held = None /\ ~Writing(w)
Others(w) == Workers \ {w}

Begins(w, kind, path, writes) ==
    worker' = [worker EXCEPT ![w] =
        [held |-> None, writes |-> writes, path |-> path, kind |-> kind,
         alone |-> \A v \in Others(w) : ~Writing(v)]]

\* Discovery: an attached disk gets a resource and is to be collected from, the
\* resource of a detached one, if there is one, is to be marked.
Discover(w) ==
    /\ Resting(w)
    /\ \/ /\ disk.path # None
          /\ worker' = [worker EXCEPT ![w].held = disk.path]
          /\ stored' = IF stored = None THEN NoPath ELSE stored
       \/ /\ disk.path = None /\ stored # None
          /\ Begins(w, "missing", stored, MarkMissing(stored))
          /\ UNCHANGED stored
       \/ /\ disk.path = None /\ stored = None
          /\ UNCHANGED <<worker, stored>>
    /\ UNCHANGED <<disk, series, mixed>>

ScanDiscovers == Discover("scan") /\ UNCHANGED left

Use(bound) == left[bound] > 0 /\ left' = [left EXCEPT ![bound] = @ - 1]

\* The controller serves the changed spec of a resource.
RecDiscovers == stored # None /\ Use("requests") /\ Discover("rec")

\* smartctl reads what is attached at the path by now, or fails.
Collect(w) ==
    /\ worker[w].held # None
    /\ LET path == worker[w].held IN
       \/ /\ disk.path = path
          /\ Begins(w, "success", path, PublishSuccess(path, disk))
          /\ UNCHANGED left
       \/ /\ Begins(w, "failure", path, PublishFailure(path))
          /\ IF disk.path = path THEN Use("faults") ELSE UNCHANGED left
    /\ UNCHANGED <<disk, stored, series, mixed>>

\* What two goroutines wrote at the same time may be any mixture; a publication that
\* runs alone makes its path consistent again, a deletion every path.
MixedAfter(w, last) ==
    IF \E v \in Others(w) : Writing(v) THEN Paths
    ELSE IF ~last \/ ~worker[w].alone THEN mixed
    ELSE CASE worker[w].kind = "success" -> mixed \ {worker[w].path}
           [] worker[w].kind = "missing" -> {}
           [] OTHER -> mixed

\* The next gauge.  The status with the path is patched after the last one.
WriteGauge(w) ==
    /\ Writing(w)
    /\ LET last == Len(worker[w].writes) = 1 IN
       /\ series' = After(Head(worker[w].writes), series)
       /\ worker' = [v \in Workers |->
              IF v # w THEN [worker[v] EXCEPT !.alone = @ /\ ~Writing(v)]
              ELSE IF last THEN Idle ELSE [worker[w] EXCEPT !.writes = Tail(@)]]
       /\ stored' = IF last /\ worker[w].kind \in {"success", "failure"}
                    THEN worker[w].path ELSE stored
       /\ mixed' = MixedAfter(w, last)
    /\ UNCHANGED <<disk, left>>

-----------------------------------------------------------------------------
(* The disk.                                                               *)

Changes(d) ==
    /\ Use("changes")
    /\ d \in Disk \ {disk} /\ disk' = d
    /\ UNCHANGED <<stored, series, worker, mixed>>

\* It is attached, detached or moved to another path.
Replug == \E p \in Paths \cup {None} : Changes([disk EXCEPT !.path = p])

\* It wears or recovers, gets another firmware, reports other temperatures.
Wear ==
    \E s \in HealthStatuses, p \in BOOLEAN :
        Changes([disk EXCEPT !.status = s, !.passed = p])
Update == \E f \in Firmware : Changes([disk EXCEPT !.firmware = f])
Heat == \E t \in Temperatures : Changes([disk EXCEPT !.temps = t])

Reconciles(w) == Collect(w) \/ WriteGauge(w)
Next ==
    \/ ScanDiscovers \/ RecDiscovers \/ \E w \in Workers : Reconciles(w)
    \/ Replug \/ Wear \/ Update \/ Heat

Spec == Init /\ [][Next]_vars

\* The scan loop goes on for ever (ScanLoop), a call of Reconcile ends.
FairSpec ==
    /\ Spec
    /\ WF_vars(ScanDiscovers \/ Reconciles("scan"))
    /\ WF_vars(Reconciles("rec"))

-----------------------------------------------------------------------------
(* Properties.                                                             *)

\* Type invariant; a temperature that is exported was measured.
TypeOK ==
    /\ disk \in Disk /\ stored \in Paths \cup {None, NoPath}
    /\ \A s \in series :
        /\ s.vec \in {"success", "device", "smart_status", "health", "temperature"}
        /\ s.path \in Paths \cup (IF s.vec = "success" THEN {NoPath} ELSE {})
        /\ s.vec = "temperature" => s.value > 0
    /\ \A s, t \in series :
        s.vec = t.vec /\ s.path = t.path /\ s.label = t.label => s = t
    /\ \A w \in Workers : worker[w].held \in Paths \cup {None}
    /\ mixed \subseteq Paths
    /\ left \in [changes : 0 .. MaxChanges, requests : 0 .. MaxRequests,
                 faults : 0 .. MaxFaults]

Of(vec, p) == {s \in series : s.vec = vec /\ s.path = p}
OneHot(p, status) ==
    Of("health", p) = {Set("health", p, s, IF s = status THEN 1 ELSE 0) :
                          s \in HealthStatuses}

\* "1 = active status, 0 otherwise" (metrics.go:157) for every status ("a complete,
\* gap-free series", physicaldisk_types.go:25), and readings that come and go
\* together: what a scrape sees of each path while nobody is writing, unless two
\* goroutines wrote it at the same time and none has done so alone since.
GaugesConsistent ==
    (\A w \in Workers : ~Writing(w)) =>
        \A p \in Paths \ mixed :
            \/ \A vec \in {"device", "smart_status", "health", "temperature"} :
                    Of(vec, p) = {}
            \/ /\ \E status \in HealthStatuses : OneHot(p, status)
               /\ Of("smart_status", p) # {} /\ Of("device", p) # {}

\* Whatever two goroutines have made of the gauges, polling leaves the readings of
\* the disk as it is, under the path it is at, and none of a detached disk
\* ("Readings of a detached disk must not keep being exported",
\* physicaldisk_controller.go:230), also those of earlier paths.
EventuallyExported ==
    <>[](IF disk.path = None
         THEN \A s \in series : s.vec = "success"
         ELSE /\ OneHot(disk.path, disk.status)
              /\ Set("device", disk.path, disk.firmware, 1) \in series
              /\ Of("smart_status", disk.path) =
                    {Set("smart_status", disk.path, "", IF disk.passed THEN 1 ELSE 0)}
              /\ Temperature(disk.temps) # 0 =>
                    Of("temperature", disk.path) =
                        {Set("temperature", disk.path, "current",
                             Temperature(disk.temps))})
=============================================================================
