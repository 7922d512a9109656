---------------------------- MODULE Assessment ----------------------------
(***************************************************************************)
(* The health a disk is assessed with (pkg/assessment/assessment.go), as a *)
(* function of what smartctl reports of it, and the way that report        *)
(* changes while the disk wears: the cascade of Evaluate against the       *)
(* severity levels pkg/assessment/doc.go documents for each protocol.      *)
(*                                                                         *)
(* An optional part of the report is a set with at most one member, an ATA *)
(* table a function from attribute IDs.                                    *)
(***************************************************************************)
EXTENDS Naturals

CONSTANTS
    Ids,       \* attribute IDs a table may hold
    Norms,     \* normalized attribute values
    Limits,    \* thresholds of normalized values
    MaxRaw,    \* bound: sector counts, media errors, uncorrected errors
    Shapes     \* tables, logs and protocols a disk starts with

ASSUME RangesAssumption ==
    Ids \subseteq Nat /\ Norms \subseteq Nat /\ Limits \subseteq Nat /\ MaxRaw \in Nat

ASSUME ShapesAssumption ==
    \A s \in Shapes : s.protocol \in {"ATA", "NVMe", "SCSI", "other"} /\ s.ids \subseteq Ids

VARIABLE report   \* the SmartctlOutput of the latest collection

-----------------------------------------------------------------------------
(* What smartctl reports.                                                  *)

Attribute == [when : {"none", "past", "now"}, value : Norms, worst : Norms,
              thresh : Limits, raw : 0 .. MaxRaw]
Tables == UNION {[S -> Attribute] : S \in SUBSET Ids}
NvmeLog == [warning : BOOLEAN, spare : Norms, spareLimit : Limits,
            used : {99, 100}, media : 0 .. MaxRaw]
ScsiLog == [read : 0 .. MaxRaw, write : 0 .. MaxRaw]

\* status is the smart_status object of the JSON output; bits are the health
\* bits of the exit status.
Reports == [protocol : {"ATA", "NVMe", "SCSI", "other"},
            status : {"passed", "failed", "absent"}, bits : SUBSET {3, 4, 5},
            table : SUBSET Tables, nvme : SUBSET NvmeLog, scsi : SUBSET ScsiLog]

\* HasExitBit with ExitBitDiskFailing, ExitBitPrefailBelow, ExitBitBelowPast.
DiskFailing(r) == 3 \in r.bits
PrefailBelow(r) == 4 \in r.bits
BelowPast(r) == 5 \in r.bits

\* SmartStatus is decoded by value: an object that is absent decodes as FALSE.
Passed(r) == r.status = "passed"

-----------------------------------------------------------------------------
(* Evaluate.                                                               *)

Sectors == {5, 197}

\* Faulty variants: a value at its threshold passes, or a worst value is not
\* looked at.
FailingBelow(a) ==
    a.when = "now" \/ (a.thresh \in 1 .. 253 /\ a.value > 0 /\ a.value < a.thresh)
PastByWhenOnly(a) == a.when = "past"

FailingNow(a) ==
    a.when = "now" \/ (a.thresh \in 1 .. 253 /\ a.value > 0 /\ a.value <= a.thresh)

FailedInPast(a) ==
    a.when = "past" \/ (a.thresh \in 1 .. 253 /\ a.worst > 0 /\ a.worst <= a.thresh)

\* IDs of the attributes that fail now, and of those that only failed before.
Now(r) == UNION {{i \in DOMAIN t : FailingNow(t[i])} : t \in r.table}
Before(r) ==
    UNION {{i \in DOMAIN t : ~FailingNow(t[i]) /\ FailedInPast(t[i])} : t \in r.table}

BadSectors(r) == \E t \in r.table : \E i \in DOMAIN t \cap Sectors : t[i].raw > 0

\* The status with its findings: what was found, and attributes by their ID.
Result(status, found, attributes) ==
    [status |-> status, found |-> found, attributes |-> attributes]

\* Faulty variant: sector errors are looked for before failing attributes.
SectorsBeforeAttributes(r) ==
    LET attributes == Now(r) \cup Before(r) IN
    IF ~Passed(r) \/ DiskFailing(r)
    THEN Result("SelfAssessmentFailed", {"status"}, {})
    ELSE IF Now(r) \cap Sectors # {}
    THEN Result("ExcessiveSectorErrors", {"sectors"}, attributes)
    ELSE IF BadSectors(r) THEN Result("SectorErrors", {"sectors"}, attributes)
    ELSE IF Now(r) # {} \/ PrefailBelow(r)
    THEN Result("AttributeFailingNow", {}, attributes)
    ELSE IF Before(r) # {} \/ BelowPast(r)
    THEN Result("AttributeFailedInPast", {}, attributes)
    ELSE Result("Good", {}, attributes)

\* The ATA cascade.
EvaluateAta(r) ==
    LET attributes == Now(r) \cup Before(r) IN
    IF ~Passed(r) \/ DiskFailing(r)
    THEN Result("SelfAssessmentFailed", {"status"}, {})
    ELSE IF Now(r) \cap Sectors # {}
    THEN Result("ExcessiveSectorErrors", {"sectors"}, attributes)
    ELSE IF Now(r) # {} \/ PrefailBelow(r)
    THEN Result("AttributeFailingNow", {}, attributes)
    ELSE IF BadSectors(r) THEN Result("SectorErrors", {"sectors"}, attributes)
    ELSE IF Before(r) # {} \/ BelowPast(r)
    THEN Result("AttributeFailedInPast", {}, attributes)
    ELSE Result("Good", {}, attributes)

SpareBelow(log) == log.spareLimit > 0 /\ log.spare < log.spareLimit

\* The NVMe branch of evaluateNvmeOrScsi.
EvaluateNvme(r, log) ==
    IF ~Passed(r) \/ DiskFailing(r) \/ log.warning
    THEN Result("SelfAssessmentFailed", {"status"}, {})
    ELSE IF SpareBelow(log) THEN Result("AttributeFailingNow", {"spare"}, {})
    ELSE IF log.used >= 100 THEN Result("AttributeFailingNow", {"endurance"}, {})
    ELSE IF log.media > 0 THEN Result("SectorErrors", {"media"}, {})
    ELSE Result("Good", {}, {})

\* Faulty variants: no log means Unknown, or the errors are not listed.
EvaluateScsiUnknown(r) ==
    IF r.scsi = {} THEN Result("Unknown", {}, {}) ELSE Result("Good", {}, {})
EvaluateScsiSilent(r) ==
    IF ~Passed(r) \/ DiskFailing(r) THEN Result("SelfAssessmentFailed", {"status"}, {})
    ELSE IF \E log \in r.scsi : log.read + log.write > 0
    THEN Result("SectorErrors", {}, {})
    ELSE Result("Good", {}, {})

\* The SCSI branch, and the fallback for a protocol without any log.
EvaluateScsi(r) ==
    IF ~Passed(r) \/ DiskFailing(r) THEN Result("SelfAssessmentFailed", {"status"}, {})
    ELSE IF \E log \in r.scsi : log.read + log.write > 0
    THEN Result("SectorErrors", {"uncorrected"}, {})
    ELSE Result("Good", {}, {})

NvmeOrScsi(r) ==
    /\ r.table = {}
    /\ r.nvme # {} \/ r.scsi # {} \/ r.protocol \in {"NVMe", "SCSI"}

\* A report is never nil here: Collect returns one or an error.
Evaluate(r) ==
    IF ~NvmeOrScsi(r) THEN EvaluateAta(r)
    ELSE IF r.nvme = {} THEN EvaluateScsi(r)
    ELSE EvaluateNvme(r, CHOOSE log \in r.nvme : TRUE)

Health(r) == Evaluate(r).status

-----------------------------------------------------------------------------
(* The disk wears.                                                         *)

\* A new attribute is above its threshold, or has none; its worst value is its
\* value.
Fresh ==
    {a \in Attribute :
        a.when = "none" /\ a.raw = 0 /\ a.worst = a.value /\ ~FailingNow(a)}

\* A reading of a disk that just went into service.
New(shape) ==
    [protocol : {shape.protocol}, status : {"passed", "absent"}, bits : {{}},
     table : {{t} : t \in [shape.ids -> Fresh]} \cup (IF shape.ids = {} THEN {{}} ELSE {}),
     nvme : IF shape.nvme
            THEN {{log} : log \in {l \in NvmeLog : /\ ~l.warning /\ l.spare >= l.spareLimit
                                                  /\ l.used = 99 /\ l.media = 0}}
            ELSE {{}},
     scsi : IF shape.scsi THEN {{[read |-> 0, write |-> 0]}} ELSE {{}}]

Init == \E shape \in Shapes : report \in New(shape)

\* The disk or one of its attributes fails its own checks.
StatusFails == report.status # "failed" /\ report' = [report EXCEPT !.status = "failed"]

BitRaised ==
    \E b \in {3, 4, 5} \ report.bits : report' = [report EXCEPT !.bits = @ \cup {b}]

Table(r) == CHOOSE t \in r.table : TRUE
WithAttribute(i, a) == [report EXCEPT !.table = {[Table(report) EXCEPT ![i] = a]}]

\* A normalized value drops, and its worst value with it; smartctl may say so in
\* when_failed.
AttributeWears ==
    /\ report.table # {}
    /\ \E i \in DOMAIN Table(report) : \E v \in Norms :
        LET a == Table(report)[i]
            worn == [a EXCEPT !.value = v, !.worst = IF v < @ THEN v ELSE @]
        IN /\ 0 < v /\ v < a.value
           /\ \E w \in {a.when} \cup (IF FailingNow(worn) THEN {"now"} ELSE {}) :
                report' = WithAttribute(i, [worn EXCEPT !.when = w])

\* The value rises again; what failed now has failed in the past.
AttributeRecovers ==
    /\ report.table # {}
    /\ \E i \in DOMAIN Table(report) : \E v \in Norms :
        LET a == Table(report)[i] IN
        /\ 0 < a.value /\ a.value < v
        /\ report' = WithAttribute(i, [a EXCEPT !.value = v,
                          !.when = IF a.when = "now" THEN "past" ELSE a.when])

SectorLost ==
    /\ report.table # {}
    /\ \E i \in DOMAIN Table(report) :
        LET a == Table(report)[i] IN
        a.raw < MaxRaw /\ report' = WithAttribute(i, [a EXCEPT !.raw = @ + 1])

NvmeWears ==
    \E log \in report.nvme : \E worn \in NvmeLog :
        /\ worn.spareLimit = log.spareLimit
        /\ \/ worn = [log EXCEPT !.warning = TRUE]
           \/ worn = [log EXCEPT !.used = 100]
           \/ worn = [log EXCEPT !.media = @ + 1]
           \/ worn.spare < log.spare /\ worn = [log EXCEPT !.spare = worn.spare]
        /\ report' = [report EXCEPT !.nvme = {worn}]

ScsiErrors ==
    \E log \in report.scsi :
        \E worn \in {[log EXCEPT !.read = @ + 1], [log EXCEPT !.write = @ + 1]} :
            /\ worn \in ScsiLog
            /\ report' = [report EXCEPT !.scsi = {worn}]

Next ==
    \/ StatusFails \/ BitRaised \/ AttributeWears \/ AttributeRecovers
    \/ SectorLost \/ NvmeWears \/ ScsiErrors

Spec == Init /\ [][Next]_report

-----------------------------------------------------------------------------
(* The documented levels (doc.go:33-84).                                   *)

Severity == [Good |-> 0, AttributeFailedInPast |-> 1, SectorErrors |-> 2,
             AttributeFailingNow |-> 3, ExcessiveSectorErrors |-> 4,
             SelfAssessmentFailed |-> 5]

\* "at or below its manufacturer threshold"; 0, 0xFE and 0xFF are no thresholds
\* and 0 is no value.
Breached(norm, thresh) == 1 <= thresh /\ thresh <= 253 /\ 1 <= norm /\ norm <= thresh
Breaches(r, S) ==
    \E t \in r.table : \E i \in DOMAIN t \cap S :
        t[i].when = "now" \/ Breached(t[i].value, t[i].thresh)
BreachedOnce(r) ==
    \E t \in r.table : \E i \in DOMAIN t :
        t[i].when = "past" \/ Breached(t[i].worst, t[i].thresh)

AtaLevels(r) ==
    {s \in DOMAIN Severity :
        \/ s = "Good"
        \/ s = "SelfAssessmentFailed" /\ (r.status # "passed" \/ 3 \in r.bits)
        \/ s = "ExcessiveSectorErrors" /\ Breaches(r, Sectors)
        \/ s = "AttributeFailingNow" /\ (Breaches(r, Nat \ Sectors) \/ 4 \in r.bits)
        \/ s = "SectorErrors"
           /\ \E t \in r.table : \E i \in DOMAIN t : i \in Sectors /\ t[i].raw # 0
        \/ s = "AttributeFailedInPast" /\ (BreachedOnce(r) \/ 5 \in r.bits)}

NvmeLevels(r) ==
    {s \in DOMAIN Severity :
        \/ s = "Good"
        \/ s = "SelfAssessmentFailed"
           /\ (r.status # "passed" \/ 3 \in r.bits \/ \E log \in r.nvme : log.warning)
        \/ s = "AttributeFailingNow"
           /\ \E log \in r.nvme : log.used >= 100 \/ log.spare < log.spareLimit
        \/ s = "SectorErrors" /\ \E log \in r.nvme : log.media # 0}

ScsiLevels(r) ==
    {s \in DOMAIN Severity :
        \/ s = "Good"
        \/ s = "SelfAssessmentFailed" /\ (r.status # "passed" \/ 3 \in r.bits)
        \/ s = "SectorErrors" /\ \E log \in r.scsi : log.read # 0 \/ log.write # 0}

\* A disk with an ATA table is an ATA disk, whatever else is reported.
Levels(r) ==
    IF r.table # {} THEN AtaLevels(r)
    ELSE IF r.nvme # {} THEN NvmeLevels(r)
    ELSE IF r.scsi # {} \/ r.protocol \in {"NVMe", "SCSI"} THEN ScsiLevels(r)
    ELSE AtaLevels(r)

-----------------------------------------------------------------------------
(* Properties.                                                             *)

\* Type invariant: at most one of each optional part, within its ranges.
TypeOK ==
    /\ report.protocol \in {"ATA", "NVMe", "SCSI", "other"}
    /\ report.status \in {"passed", "failed", "absent"}
    /\ report.bits \subseteq {3, 4, 5}
    /\ \A t \in report.table :
        DOMAIN t \subseteq Ids /\ \A i \in DOMAIN t : t[i] \in Attribute
    /\ report.nvme \subseteq NvmeLog /\ \A x, y \in report.nvme : x = y
    /\ report.scsi \subseteq ScsiLog
    /\ Health(report) \in DOMAIN Severity

\* The first-match cascade of Evaluate returns the most severe of the documented
\* levels that apply: the order of the checks, their thresholds and the choice
\* of the protocol.
MostSevereLevel ==
    /\ Health(report) \in Levels(report)
    /\ \A s \in Levels(report) : Severity[s] <= Severity[Health(report)]

\* However a disk wears, in whatever order its attributes, logs and exit bits
\* change, its health does not get better; only a value that recovers may do so.
WearNeverImproves ==
    [][~AttributeRecovers =>
          Severity[Health(report)] <= Severity[Health(report')]]_report

\* A breach leaves a trace: a disk that was not Good does not become Good because
\* a normalized value recovered (worst, when_failed).
BreachIsRemembered ==
    [][Health(report) # "Good" => Health(report') # "Good"]_report

\* The findings explain the status: Good comes without any, and only a status that
\* rests on an exit bit of smartctl, with no attribute to name, comes without one.
FindingsExplainHealth ==
    LET result == Evaluate(report)
        explained == result.found # {} \/ result.attributes # {}
    IN /\ explained => result.status # "Good"
       /\ ~explained =>
            \/ result.status = "Good"
            \/ result.status = "AttributeFailingNow" /\ 4 \in report.bits
            \/ result.status = "AttributeFailedInPast" /\ 5 \in report.bits

\* "Drive overall-health test failed (smart_status.passed == false or smartctl
\* exit bit 3)" (README.md:42, doc.go:37): somebody said that the disk failed.
FailureWasReported ==
    Health(report) = "SelfAssessmentFailed" =>
        \/ report.status = "failed" \/ 3 \in report.bits
        \/ \E log \in report.nvme : log.warning
=============================================================================
