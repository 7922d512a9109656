-------------------------- MODULE AssessmentProofs --------------------------
(***************************************************************************)
(* For every set of attributes, thresholds and values: the cascade returns *)
(* the most severe documented level of a report that is well formed, and   *)
(* the reports of Assessment are; findings explain the status; and wear    *)
(* does not improve the health of a disk, nor does recovery hide a breach. *)
(***************************************************************************)
EXTENDS Assessment, TLAPS

\* What the cascade needs of a report.
WellFormed(r) ==
    /\ \A t \in r.table : DOMAIN t \subseteq Nat /\ \A i \in DOMAIN t : t[i] \in Attribute
    /\ r.nvme \subseteq NvmeLog /\ \A x, y \in r.nvme : x = y
    /\ r.scsi \subseteq ScsiLog

MostSevere(s, L) == s \in L /\ \A t \in L : Severity[t] <= Severity[s]

\* The order of the statuses, as numbers.
LEMMA SeverityValues ==
    /\ DOMAIN Severity = {"Good", "AttributeFailedInPast", "SectorErrors",
                          "AttributeFailingNow", "ExcessiveSectorErrors",
                          "SelfAssessmentFailed"}
    /\ Severity["Good"] = 0 /\ Severity["AttributeFailedInPast"] = 1
    /\ Severity["SectorErrors"] = 2 /\ Severity["AttributeFailingNow"] = 3
    /\ Severity["ExcessiveSectorErrors"] = 4 /\ Severity["SelfAssessmentFailed"] = 5
BY DEF Severity

\* The checks of the code against a threshold are the documented ones.
LEMMA Checks ==
    ASSUME NEW a \in Attribute
    PROVE  /\ FailingNow(a) <=> (a.when = "now" \/ Breached(a.value, a.thresh))
           /\ FailedInPast(a) <=> (a.when = "past" \/ Breached(a.worst, a.thresh))
           /\ a.raw > 0 <=> a.raw # 0
<1>1. a.value \in Nat /\ a.worst \in Nat /\ a.thresh \in Nat /\ a.raw \in Nat
  <2>1. a.value \in Norms /\ a.worst \in Norms /\ a.thresh \in Limits /\ a.raw \in 0 .. MaxRaw
      BY DEF Attribute
  <2>2. a.value \in Nat /\ a.worst \in Nat /\ a.thresh \in Nat
      BY <2>1, RangesAssumption, Zenon
  <2>3. a.raw \in Nat
      BY <2>1, RangesAssumption, SMT
  <2>4. QED BY <2>2, <2>3
<1>2. FailingNow(a) <=> (a.when = "now" \/ Breached(a.value, a.thresh))
    BY <1>1 DEF FailingNow, Breached
<1>3. FailedInPast(a) <=> (a.when = "past" \/ Breached(a.worst, a.thresh))
    BY <1>1 DEF FailedInPast, Breached
<1>4. QED BY <1>1, <1>2, <1>3

\* What the loop over the table finds, in the terms of the documentation.
LEMMA TableChecks ==
    ASSUME NEW r, WellFormed(r)
    PROVE  /\ Now(r) \cap Sectors # {} <=> Breaches(r, Sectors)
           /\ Now(r) \ Sectors # {} <=> Breaches(r, Nat \ Sectors)
           /\ Now(r) = {} => (Before(r) # {} <=> BreachedOnce(r))
           /\ BadSectors(r) <=> \E t \in r.table : \E i \in DOMAIN t :
                                    i \in Sectors /\ t[i].raw # 0
<1>1. \A t \in r.table : \A i \in DOMAIN t :
        /\ i \in Nat
        /\ FailingNow(t[i]) <=> (t[i].when = "now" \/ Breached(t[i].value, t[i].thresh))
        /\ FailedInPast(t[i]) <=> (t[i].when = "past" \/ Breached(t[i].worst, t[i].thresh))
        /\ t[i].raw > 0 <=> t[i].raw # 0
    BY Checks DEF WellFormed
<1>2. \A i : i \in Now(r) <=>
        \E t \in r.table : i \in DOMAIN t /\ FailingNow(t[i])
    BY DEF Now
<1>3. \A i : i \in Before(r) <=>
        \E t \in r.table : i \in DOMAIN t /\ ~FailingNow(t[i]) /\ FailedInPast(t[i])
    BY DEF Before
<1>4. Now(r) \cap Sectors # {} <=> Breaches(r, Sectors)
    BY <1>1, <1>2 DEF Breaches
<1>5. Now(r) \ Sectors # {} <=> Breaches(r, Nat \ Sectors)
    BY <1>1, <1>2 DEF Breaches
<1>6. Now(r) = {} => (Before(r) # {} <=> BreachedOnce(r))
    BY <1>1, <1>2, <1>3 DEF BreachedOnce
<1>7. BadSectors(r) <=> \E t \in r.table : \E i \in DOMAIN t :
                            i \in Sectors /\ t[i].raw # 0
    BY <1>1 DEF BadSectors
<1>8. QED BY <1>4, <1>5, <1>6, <1>7

\* The ATA cascade returns the most severe level.
LEMMA AtaMostSevere ==
    ASSUME NEW r, WellFormed(r)
    PROVE  MostSevere(EvaluateAta(r).status, AtaLevels(r))
<1> DEFINE self == r.status # "passed" \/ 3 \in r.bits
           excessive == Now(r) \cap Sectors # {}
           failing == Now(r) \ Sectors # {} \/ 4 \in r.bits
           sectors == BadSectors(r)
           past == Before(r) # {} \/ 5 \in r.bits
<1>1. EvaluateAta(r).status =
        IF self THEN "SelfAssessmentFailed"
        ELSE IF excessive THEN "ExcessiveSectorErrors"
        ELSE IF failing THEN "AttributeFailingNow"
        ELSE IF sectors THEN "SectorErrors"
        ELSE IF past THEN "AttributeFailedInPast"
        ELSE "Good"
  <2>1. ~excessive => (Now(r) # {} <=> Now(r) \ Sectors # {})
      OBVIOUS
  <2>2. QED BY <2>1 DEF EvaluateAta, Result, Passed, DiskFailing, PrefailBelow, BelowPast
<1>2. ~excessive /\ ~failing => (past <=> BreachedOnce(r) \/ 5 \in r.bits)
    BY TableChecks
<1>3. \A s : s \in AtaLevels(r) <=>
        \/ s = "Good"
        \/ s = "SelfAssessmentFailed" /\ self
        \/ s = "ExcessiveSectorErrors" /\ excessive
        \/ s = "AttributeFailingNow" /\ failing
        \/ s = "SectorErrors" /\ sectors
        \/ s = "AttributeFailedInPast" /\ (BreachedOnce(r) \/ 5 \in r.bits)
    BY TableChecks, SeverityValues DEF AtaLevels
<1> HIDE DEF self, excessive, failing, sectors, past
<1>4. QED BY <1>1, <1>2, <1>3, SeverityValues DEF MostSevere

\* So does the NVMe branch.
LEMMA NvmeMostSevere ==
    ASSUME NEW r, WellFormed(r), NEW log \in r.nvme
    PROVE  MostSevere(EvaluateNvme(r, log).status, NvmeLevels(r))
<1>1. r.nvme = {log}
    BY DEF WellFormed
<1>2. log.spare \in Nat /\ log.spareLimit \in Nat /\ log.media \in Nat
  <2>1. log \in NvmeLog
      BY DEF WellFormed
  <2>2. log.spare \in Norms /\ log.spareLimit \in Limits /\ log.media \in 0 .. MaxRaw
      BY <2>1 DEF NvmeLog
  <2>3. log.spare \in Nat /\ log.spareLimit \in Nat
      BY <2>2, RangesAssumption, Zenon
  <2>4. log.media \in Nat
      BY <2>2, RangesAssumption, SMT
  <2>5. QED BY <2>3, <2>4
<1> DEFINE self == r.status # "passed" \/ 3 \in r.bits \/ log.warning
           failing == log.used >= 100 \/ log.spare < log.spareLimit
           media == log.media # 0
<1>3. EvaluateNvme(r, log).status =
        IF self THEN "SelfAssessmentFailed"
        ELSE IF failing THEN "AttributeFailingNow"
        ELSE IF media THEN "SectorErrors"
        ELSE "Good"
  <2>1. SpareBelow(log) <=> log.spare < log.spareLimit
      BY <1>2 DEF SpareBelow
  <2>2. log.media > 0 <=> media
      BY <1>2
  <2>3. QED BY <2>1, <2>2 DEF EvaluateNvme, Result, Passed, DiskFailing
<1>4. \A s : s \in NvmeLevels(r) <=>
        \/ s = "Good"
        \/ s = "SelfAssessmentFailed" /\ self
        \/ s = "AttributeFailingNow" /\ failing
        \/ s = "SectorErrors" /\ media
    BY <1>1, SeverityValues DEF NvmeLevels
<1> HIDE DEF self, failing, media
<1>5. QED BY <1>3, <1>4, SeverityValues DEF MostSevere

\* And the SCSI branch with the fallback.
LEMMA ScsiMostSevere ==
    ASSUME NEW r, WellFormed(r)
    PROVE  MostSevere(EvaluateScsi(r).status, ScsiLevels(r))
<1> DEFINE self == r.status # "passed" \/ 3 \in r.bits
           errors == \E log \in r.scsi : log.read # 0 \/ log.write # 0
<1>1. (\E log \in r.scsi : log.read + log.write > 0) <=> errors
  <2>1. \A log \in r.scsi : log.read \in Nat /\ log.write \in Nat
      BY RangesAssumption DEF WellFormed, ScsiLog
  <2>2. \A log \in r.scsi :
            log.read + log.write > 0 <=> log.read # 0 \/ log.write # 0
      BY <2>1
  <2>3. QED BY <2>2
<1>2. EvaluateScsi(r).status =
        IF self THEN "SelfAssessmentFailed"
        ELSE IF errors THEN "SectorErrors" ELSE "Good"
    BY <1>1 DEF EvaluateScsi, Result, Passed, DiskFailing
<1>3. \A s : s \in ScsiLevels(r) <=>
        \/ s = "Good"
        \/ s = "SelfAssessmentFailed" /\ self
        \/ s = "SectorErrors" /\ errors
    BY SeverityValues DEF ScsiLevels
<1> HIDE DEF self, errors
<1>4. QED BY <1>2, <1>3, SeverityValues DEF MostSevere

\* Evaluate returns the most severe documented level of the protocol at hand, for
\* every well-formed report.
THEOREM EvaluateMostSevere ==
    ASSUME NEW r, WellFormed(r)
    PROVE  MostSevere(Health(r), Levels(r))
<1>1. CASE ~NvmeOrScsi(r)
  <2>1. Levels(r) = AtaLevels(r)
      BY <1>1 DEF Levels, NvmeOrScsi
  <2>2. Health(r) = EvaluateAta(r).status
      BY <1>1 DEF Health, Evaluate
  <2>3. QED BY <2>1, <2>2, AtaMostSevere
<1>2. CASE NvmeOrScsi(r) /\ r.nvme # {}
  <2>1. PICK log \in r.nvme : log = CHOOSE l \in r.nvme : TRUE
      BY <1>2
  <2>2. Health(r) = EvaluateNvme(r, log).status
      BY <1>2, <2>1 DEF Health, Evaluate
  <2>3. Levels(r) = NvmeLevels(r)
      BY <1>2 DEF Levels, NvmeOrScsi
  <2>4. QED BY <2>2, <2>3, NvmeMostSevere
<1>3. CASE NvmeOrScsi(r) /\ r.nvme = {}
  <2>1. Levels(r) = ScsiLevels(r)
      BY <1>3 DEF Levels, NvmeOrScsi
  <2>2. Health(r) = EvaluateScsi(r).status
      BY <1>3 DEF Health, Evaluate
  <2>3. QED BY <2>1, <2>2, ScsiMostSevere
<1>4. QED BY <1>1, <1>2, <1>3

-----------------------------------------------------------------------------
\* The inductive invariant: TypeOK without the status it assigns.
Parts(r) ==
    /\ r.protocol \in {"ATA", "NVMe", "SCSI", "other"}
    /\ r.status \in {"passed", "failed", "absent"}
    /\ r.bits \subseteq {3, 4, 5}
    /\ \A t \in r.table :
        DOMAIN t \subseteq Ids /\ \A i \in DOMAIN t : t[i] \in Attribute
    /\ r.nvme \subseteq NvmeLog /\ \A x, y \in r.nvme : x = y
    /\ r.scsi \subseteq ScsiLog

\* Replacing one part of a report leaves the others alone.
Record(r) == r = [protocol |-> r.protocol, status |-> r.status, bits |-> r.bits,
                  table |-> r.table, nvme |-> r.nvme, scsi |-> r.scsi]

Inv == Record(report) /\ Parts(report)

\* A report of a disk that went into service is well formed.
LEMMA InitParts == Init => Inv
<1> SUFFICES ASSUME NEW shape \in Shapes, report \in New(shape) PROVE Inv
    BY DEF Init
<1>1. /\ report.protocol \in {shape.protocol}
      /\ report.status \in {"passed", "absent"} /\ report.bits \in {{}}
      /\ report.table \in {{t} : t \in [shape.ids -> Fresh]} \cup {{}}
      /\ Record(report)
    BY DEF New, Record
<1>2. report.nvme \in {{log} : log \in NvmeLog} \cup {{}}
    BY DEF New
<1>3. report.scsi \in {{[read |-> 0, write |-> 0]}, {}}
    BY DEF New
<1>4. \A t \in report.table :
        DOMAIN t \subseteq Ids /\ \A i \in DOMAIN t : t[i] \in Attribute
    BY <1>1, ShapesAssumption DEF Fresh
<1>5. [read |-> 0, write |-> 0] \in ScsiLog
    BY RangesAssumption DEF ScsiLog
<1>6. report.protocol \in {"ATA", "NVMe", "SCSI", "other"}
    BY <1>1, ShapesAssumption
<1>7. QED BY <1>1, <1>2, <1>3, <1>4, <1>5, <1>6 DEF Inv, Parts

\* Replacing an attribute of the table by one within its ranges.
LEMMA AttributeParts ==
    ASSUME Inv, report.table # {}, NEW i \in DOMAIN Table(report),
           NEW a \in Attribute, report' = WithAttribute(i, a)
    PROVE  Inv'
<1>1. Table(report) \in report.table
    BY DEF Table
<1> DEFINE t == [Table(report) EXCEPT ![i] = a]
<1>2. DOMAIN t \subseteq Ids /\ \A j \in DOMAIN t : t[j] \in Attribute
    BY <1>1 DEF Inv, Parts
<1>3. report' = [report EXCEPT !.table = {t}]
    BY DEF WithAttribute
<1> HIDE DEF t
<1>4. /\ report'.protocol = report.protocol /\ report'.status = report.status
      /\ report'.bits = report.bits /\ report'.table = {t}
      /\ report'.nvme = report.nvme /\ report'.scsi = report.scsi
      /\ Record(report')
    BY <1>3 DEF Inv, Record
<1>5. \A x \in report'.table :
        DOMAIN x \subseteq Ids /\ \A j \in DOMAIN x : x[j] \in Attribute
    BY <1>2, <1>4
<1>6. QED BY <1>4, <1>5 DEF Inv, Parts

\* Every step keeps a report well formed.
LEMMA StepParts == Inv /\ [Next]_report => Inv'
<1> SUFFICES ASSUME Inv, [Next]_report PROVE Inv'
    OBVIOUS
<1>1. CASE StatusFails
    BY <1>1 DEF StatusFails, Inv, Parts, Record
<1>2. CASE BitRaised
  <2>1. PICK b \in {3, 4, 5} : report' = [report EXCEPT !.bits = report.bits \cup {b}]
      BY <1>2 DEF BitRaised
  <2>2. /\ report'.protocol = report.protocol /\ report'.status = report.status
        /\ report'.bits = report.bits \cup {b} /\ report'.table = report.table
        /\ report'.nvme = report.nvme /\ report'.scsi = report.scsi
        /\ Record(report')
      BY <2>1 DEF Inv, Record
  <2>3. report'.bits \subseteq {3, 4, 5}
      BY <2>2 DEF Inv, Parts
  <2>4. QED BY <2>2, <2>3 DEF Inv, Parts
<1>3. CASE AttributeWears
  <2>1. PICK i \in DOMAIN Table(report), v \in Norms,
             w \in {"none", "past", "now"} :
          LET a == Table(report)[i]
              worn == [a EXCEPT !.value = v, !.worst = IF v < @ THEN v ELSE @]
          IN report' = WithAttribute(i, [worn EXCEPT !.when = w])
    <3>1. \A i \in DOMAIN Table(report) : Table(report)[i].when \in {"none", "past", "now"}
        BY <1>3 DEF AttributeWears, Table, Inv, Parts, Attribute
    <3>2. QED BY <1>3, <3>1 DEF AttributeWears
  <2>2. report.table # {} /\ Table(report)[i] \in Attribute
      BY <1>3 DEF AttributeWears, Table, Inv, Parts
  <2> DEFINE a == Table(report)[i]
             worn == [a EXCEPT !.value = v, !.worst = IF v < @ THEN v ELSE @]
  <2>3. [worn EXCEPT !.when = w] \in Attribute
      BY <2>2 DEF Attribute
  <2>4. QED BY <2>1, <2>2, <2>3, AttributeParts
<1>4. CASE AttributeRecovers
  <2>1. PICK i \in DOMAIN Table(report), v \in Norms :
          LET a == Table(report)[i] IN
          report' = WithAttribute(i, [a EXCEPT !.value = v,
                        !.when = IF a.when = "now" THEN "past" ELSE a.when])
      BY <1>4 DEF AttributeRecovers
  <2>2. report.table # {} /\ Table(report)[i] \in Attribute
      BY <1>4 DEF AttributeRecovers, Table, Inv, Parts
  <2>3. [Table(report)[i] EXCEPT !.value = v,
            !.when = IF Table(report)[i].when = "now" THEN "past"
                     ELSE Table(report)[i].when] \in Attribute
      BY <2>2 DEF Attribute
  <2>4. QED BY <2>1, <2>2, <2>3, AttributeParts
<1>5. CASE SectorLost
  <2>1. PICK i \in DOMAIN Table(report) :
          /\ Table(report)[i].raw < MaxRaw
          /\ report' = WithAttribute(i, [Table(report)[i] EXCEPT !.raw = @ + 1])
      BY <1>5 DEF SectorLost
  <2>2. report.table # {} /\ Table(report)[i] \in Attribute
      BY <1>5 DEF SectorLost, Table, Inv, Parts
  <2>3. Table(report)[i].raw + 1 \in 0 .. MaxRaw
    <3>1. Table(report)[i].raw \in 0 .. MaxRaw
        BY <2>2 DEF Attribute
    <3>2. QED BY <3>1, <2>1, RangesAssumption, SMT
  <2>4. [Table(report)[i] EXCEPT !.raw = @ + 1] \in Attribute
      BY <2>2, <2>3 DEF Attribute
  <2>5. QED BY <2>1, <2>2, <2>4, AttributeParts
<1>6. CASE NvmeWears
  <2>1. PICK worn \in NvmeLog : report' = [report EXCEPT !.nvme = {worn}]
      BY <1>6 DEF NvmeWears
  <2>2. QED BY <2>1 DEF Inv, Parts, Record
<1>7. CASE ScsiErrors
  <2>1. PICK worn \in ScsiLog : report' = [report EXCEPT !.scsi = {worn}]
      BY <1>7 DEF ScsiErrors
  <2>2. QED BY <2>1 DEF Inv, Parts, Record
<1>8. CASE UNCHANGED report
    BY <1>8 DEF Inv
<1>9. QED BY <1>1, <1>2, <1>3, <1>4, <1>5, <1>6, <1>7, <1>8 DEF Next

\* Well-formed reports meet the two invariants the model checker looks at.
LEMMA InvSuffices == Inv => TypeOK /\ MostSevereLevel
<1> SUFFICES ASSUME Inv PROVE TypeOK /\ MostSevereLevel
    OBVIOUS
<1>1. WellFormed(report)
    BY RangesAssumption DEF Inv, Parts, WellFormed
<1>2. MostSevere(Health(report), Levels(report))
    BY <1>1, EvaluateMostSevere
<1>3. Levels(report) \subseteq DOMAIN Severity
    BY DEF Levels, AtaLevels, NvmeLevels, ScsiLevels
<1>4. QED BY <1>2, <1>3 DEF MostSevere, MostSevereLevel, TypeOK, Inv, Parts

\* Reports stay within their ranges and every report has a documented status.
THEOREM TypeCorrect == Spec => []TypeOK
BY InitParts, StepParts, InvSuffices, PTL DEF Spec

\* However a disk wears, Evaluate assesses it with the most severe documented
\* level that applies to its report (assessment.go:24-291).
THEOREM CascadeAsDocumented == Spec => []MostSevereLevel
BY InitParts, StepParts, InvSuffices, PTL DEF Spec

-----------------------------------------------------------------------------
(* The findings.                                                           *)

\* A status comes with the findings that explain it, for every report: the three
\* cascades assign both in one place.
LEMMA Explained == FindingsExplainHealth
<1> DEFINE Explains(result) ==
        LET explained == result.found # {} \/ result.attributes # {} IN
        /\ explained => result.status # "Good"
        /\ ~explained =>
             \/ result.status = "Good"
             \/ result.status = "AttributeFailingNow" /\ 4 \in report.bits
             \/ result.status = "AttributeFailedInPast" /\ 5 \in report.bits
<1>1. Explains(EvaluateAta(report))
    BY DEF EvaluateAta, Result, PrefailBelow, BelowPast
<1>2. Explains(EvaluateScsi(report))
    BY DEF EvaluateScsi, Result
<1>3. \A log : Explains(EvaluateNvme(report, log))
    BY DEF EvaluateNvme, Result
<1>4. Explains(Evaluate(report))
    BY <1>1, <1>2, <1>3 DEF Evaluate
<1>5. QED BY <1>4 DEF FindingsExplainHealth

\* Good is assigned without findings, and only a status that rests on an exit bit
\* comes without one (assessment.go:24-291).
THEOREM StatusExplained == Spec => []FindingsExplainHealth
BY Explained, PTL

-----------------------------------------------------------------------------
(* What a step does to the levels.                                         *)

\* A report has one table and one error log at most, and the worst value of an
\* attribute is never above its value: what a recovered value is remembered by.
WorstKept(a) == 0 < a.value => 0 < a.worst /\ a.worst <= a.value

Remembers ==
    /\ \A x, y \in report.table : x = y
    /\ \A x, y \in report.scsi : x = y
    /\ \A t \in report.table : \A i \in DOMAIN t : WorstKept(t[i])

History == Inv /\ Remembers

\* An attribute that fails now, or failed before, in the documented terms.
Fails(a) == a.when = "now" \/ Breached(a.value, a.thresh)
Failed(a) == a.when = "past" \/ Breached(a.worst, a.thresh)

\* The levels of an ATA report, by the attributes of its only table.
LEMMA TableLevels ==
    ASSUME NEW r, NEW t, r.table = {t}, DOMAIN t \subseteq Nat
    PROVE  \A s : s \in Levels(r) <=>
             \/ s = "Good"
             \/ s = "SelfAssessmentFailed" /\ (r.status # "passed" \/ 3 \in r.bits)
             \/ s = "ExcessiveSectorErrors" /\ \E i \in DOMAIN t : i \in Sectors /\ Fails(t[i])
             \/ s = "AttributeFailingNow"
                /\ ((\E i \in DOMAIN t : i \notin Sectors /\ Fails(t[i])) \/ 4 \in r.bits)
             \/ s = "SectorErrors" /\ \E i \in DOMAIN t : i \in Sectors /\ t[i].raw # 0
             \/ s = "AttributeFailedInPast"
                /\ ((\E i \in DOMAIN t : Failed(t[i])) \/ 5 \in r.bits)
<1>1. Levels(r) = AtaLevels(r)
    BY DEF Levels
<1>2. Breaches(r, Sectors) <=> \E i \in DOMAIN t : i \in Sectors /\ Fails(t[i])
    BY DEF Breaches, Fails
<1>3. Breaches(r, Nat \ Sectors) <=> \E i \in DOMAIN t : i \notin Sectors /\ Fails(t[i])
    BY DEF Breaches, Fails
<1>4. BreachedOnce(r) <=> \E i \in DOMAIN t : Failed(t[i])
    BY DEF BreachedOnce, Failed
<1>5. (\E x \in r.table : \E i \in DOMAIN x : i \in Sectors /\ x[i].raw # 0)
        <=> \E i \in DOMAIN t : i \in Sectors /\ t[i].raw # 0
    OBVIOUS
<1>6. QED BY <1>1, <1>2, <1>3, <1>4, <1>5, SeverityValues DEF AtaLevels

\* What replacing an attribute does to the report.
LEMMA AttributeReplaced ==
    ASSUME History, report.table # {}, NEW i \in DOMAIN Table(report),
           NEW a, report' = WithAttribute(i, a)
    PROVE  /\ report.table = {Table(report)}
           /\ report'.table = {[Table(report) EXCEPT ![i] = a]}
           /\ report'.status = report.status /\ report'.bits = report.bits
           /\ report'.scsi = report.scsi
           /\ DOMAIN Table(report) \subseteq Nat
           /\ Table(report)[i] \in Attribute /\ WorstKept(Table(report)[i])
<1>1. Table(report) \in report.table
    BY DEF Table
<1>2. report.table = {Table(report)}
    BY <1>1 DEF History, Remembers
<1>3. report' = [report EXCEPT !.table = {[Table(report) EXCEPT ![i] = a]}]
    BY DEF WithAttribute
<1> DEFINE t == [Table(report) EXCEPT ![i] = a]
<1> HIDE DEF t
<1>4. report' = [report EXCEPT !.table = {t}]
    BY <1>3 DEF t
<1>5. /\ report'.table = {t} /\ report'.status = report.status
      /\ report'.bits = report.bits /\ report'.scsi = report.scsi
    BY <1>4 DEF History, Inv, Record
<1>6. DOMAIN Table(report) \subseteq Nat
    BY <1>1, RangesAssumption DEF History, Inv, Parts
<1>7. Table(report)[i] \in Attribute /\ WorstKept(Table(report)[i])
    BY <1>1 DEF History, Inv, Parts, Remembers
<1>8. QED BY <1>2, <1>5, <1>6, <1>7 DEF t

\* Such a step keeps the worst values when the new attribute does.
LEMMA AttributeRemembers ==
    ASSUME History, report.table # {}, NEW i \in DOMAIN Table(report),
           NEW a \in Attribute, WorstKept(a), report' = WithAttribute(i, a)
    PROVE  Remembers'
<1> DEFINE t == [Table(report) EXCEPT ![i] = a]
<1>1. report'.table = {t} /\ report'.scsi = report.scsi /\ report.table = {Table(report)}
    BY AttributeReplaced
<1>2. \A j \in DOMAIN t : WorstKept(t[j])
    BY <1>1 DEF History, Remembers
<1> HIDE DEF t
<1>3. QED BY <1>1, <1>2 DEF History, Remembers

\* No level of L is lost in M, except to a more severe one.
Covers(L, M) == \A s \in L : \E t \in M : Severity[s] <= Severity[t]

\* The most severe level then does not get less severe.
LEMMA CoversOrder ==
    ASSUME NEW x, NEW y, NEW L \in SUBSET DOMAIN Severity, NEW M \in SUBSET DOMAIN Severity,
           MostSevere(x, L), MostSevere(y, M), Covers(L, M)
    PROVE  Severity[x] <= Severity[y]
<1>1. \A s \in DOMAIN Severity : Severity[s] \in Nat
    BY SeverityValues
<1>2. PICK t \in M : Severity[x] <= Severity[t]
    BY DEF MostSevere, Covers
<1>3. Severity[t] <= Severity[y]
    BY <1>2 DEF MostSevere
<1>4. x \in DOMAIN Severity /\ t \in DOMAIN Severity /\ y \in DOMAIN Severity
    BY <1>2 DEF MostSevere
<1>5. Severity[x] \in Nat /\ Severity[t] \in Nat /\ Severity[y] \in Nat
    BY <1>1, <1>4
<1>6. QED BY <1>2, <1>3, <1>5

\* An attribute that gets worse loses no level: failing now outranks having failed.
LEMMA WorseCovers ==
    ASSUME History, report.table # {}, NEW i \in DOMAIN Table(report),
           NEW a, report' = WithAttribute(i, a),
           Fails(Table(report)[i]) => Fails(a),
           Failed(Table(report)[i]) => Failed(a) \/ Fails(a),
           Table(report)[i].raw # 0 => a.raw # 0
    PROVE  Covers(Levels(report), Levels(report'))
<1> DEFINE t == Table(report)
           u == [Table(report) EXCEPT ![i] = a]
<1>1. /\ report.table = {t} /\ report'.table = {u} /\ report'.status = report.status
      /\ report'.bits = report.bits /\ DOMAIN t \subseteq Nat
    BY AttributeReplaced
<1>2. DOMAIN u = DOMAIN t /\ u[i] = a /\ \A j \in DOMAIN t : j # i => u[j] = t[j]
    OBVIOUS
<1> HIDE DEF u
<1>3. \A j \in DOMAIN t :
        /\ Fails(t[j]) => Fails(u[j])
        /\ Failed(t[j]) => Failed(u[j]) \/ Fails(u[j])
        /\ t[j].raw # 0 => u[j].raw # 0
    BY <1>2
<1> HIDE DEF t
<1>4. SUFFICES ASSUME NEW s \in Levels(report)
               PROVE  \E x \in Levels(report') : Severity[s] <= Severity[x]
    BY DEF Covers
<1>5. CASE s # "AttributeFailedInPast"
  <2>1. s \in Levels(report')
      BY <1>1, <1>2, <1>3, <1>5, TableLevels
  <2>2. Severity[s] <= Severity[s]
      BY <1>1, TableLevels, SeverityValues
  <2>3. QED BY <2>1, <2>2
<1>6. CASE s = "AttributeFailedInPast"
  <2>1. \/ "AttributeFailedInPast" \in Levels(report')
        \/ "AttributeFailingNow" \in Levels(report')
        \/ "ExcessiveSectorErrors" \in Levels(report')
      BY <1>1, <1>2, <1>3, <1>6, TableLevels
  <2>2. QED BY <2>1, <1>6, SeverityValues
<1>7. QED BY <1>5, <1>6

\* A value that drops takes its worst value along.
LEMMA Wear ==
    ASSUME NEW a \in Attribute, WorstKept(a), NEW v \in Norms, 0 < v, v < a.value, NEW b,
           b.value = v, b.worst = (IF v < a.worst THEN v ELSE a.worst),
           b.thresh = a.thresh, b.when \in {a.when, "now"}
    PROVE  /\ WorstKept(b)
           /\ Fails(a) => Fails(b)
           /\ Failed(a) => Failed(b) \/ Fails(b)
<1>1. a.value \in Nat /\ a.worst \in Nat /\ a.thresh \in Nat /\ v \in Nat
  <2>1. a.value \in Norms /\ a.worst \in Norms /\ a.thresh \in Limits
      BY DEF Attribute
  <2>2. QED BY <2>1, RangesAssumption, Zenon
<1>3. WorstKept(b)
    BY <1>1 DEF WorstKept
<1>4. Breached(a.value, a.thresh) => Breached(v, a.thresh)
    BY <1>1 DEF Breached
<1>5. Breached(a.worst, a.thresh) => Breached(b.worst, a.thresh)
    BY <1>1 DEF Breached
<1>6. (Fails(a) => Fails(b)) /\ (Failed(a) => Failed(b) \/ Fails(b))
    BY <1>4, <1>5 DEF Fails, Failed
<1>7. QED BY <1>3, <1>6

\* A value that rises again leaves its worst value, or when_failed, behind.
LEMMA Recovery ==
    ASSUME NEW a \in Attribute, WorstKept(a), NEW v \in Norms, 0 < a.value, a.value < v,
           NEW b, b.value = v, b.worst = a.worst, b.thresh = a.thresh,
           b.when = IF a.when = "now" THEN "past" ELSE a.when
    PROVE  /\ WorstKept(b)
           /\ Fails(a) \/ Failed(a) => Failed(b)
<1>1. a.value \in Nat /\ a.worst \in Nat /\ a.thresh \in Nat /\ v \in Nat
  <2>1. a.value \in Norms /\ a.worst \in Norms /\ a.thresh \in Limits
      BY DEF Attribute
  <2>2. QED BY <2>1, RangesAssumption, Zenon
<1>3. WorstKept(b)
    BY <1>1 DEF WorstKept
<1>4. Breached(a.value, a.thresh) => Breached(a.worst, a.thresh)
    BY <1>1 DEF Breached, WorstKept
<1>5. Fails(a) \/ Failed(a) => Failed(b)
    BY <1>4 DEF Fails, Failed
<1>6. QED BY <1>3, <1>5

\* The attribute a step of AttributeWears leaves.
LEMMA WearStep ==
    ASSUME History, AttributeWears
    PROVE  \E i \in DOMAIN Table(report), b \in Attribute :
             /\ report.table # {} /\ report' = WithAttribute(i, b)
             /\ WorstKept(b) /\ b.raw = Table(report)[i].raw
             /\ Fails(Table(report)[i]) => Fails(b)
             /\ Failed(Table(report)[i]) => Failed(b) \/ Fails(b)
<1>1. PICK i \in DOMAIN Table(report), v \in Norms :
        LET a == Table(report)[i]
            worn == [a EXCEPT !.value = v, !.worst = IF v < @ THEN v ELSE @]
        IN /\ 0 < v /\ v < a.value
           /\ \E w \in {a.when} \cup (IF FailingNow(worn) THEN {"now"} ELSE {}) :
                report' = WithAttribute(i, [worn EXCEPT !.when = w])
    BY DEF AttributeWears
<1>2. report.table # {}
    BY DEF AttributeWears
<1> DEFINE a == Table(report)[i]
           worn == [a EXCEPT !.value = v, !.worst = IF v < @ THEN v ELSE @]
<1>3. a \in Attribute /\ WorstKept(a)
    BY <1>2 DEF Table, History, Inv, Parts, Remembers
<1>4. PICK w : /\ w = a.when \/ (w = "now" /\ FailingNow(worn))
               /\ report' = WithAttribute(i, [worn EXCEPT !.when = w])
    BY <1>1
<1> DEFINE b == [worn EXCEPT !.when = w]
<1>5. b \in Attribute
  <2>1. w \in {"none", "past", "now"}
      BY <1>3, <1>4 DEF Attribute
  <2>2. QED BY <1>3, <2>1 DEF Attribute
<1>6. /\ WorstKept(b) /\ b.raw = a.raw
      /\ Fails(a) => Fails(b)
      /\ Failed(a) => Failed(b) \/ Fails(b)
  <2>1. 0 < v /\ v < a.value
      BY <1>1
  <2>2. /\ b.value = v /\ b.worst = (IF v < a.worst THEN v ELSE a.worst)
        /\ b.thresh = a.thresh /\ b.raw = a.raw /\ b.when = w
      BY <1>3 DEF Attribute
  <2> HIDE DEF a, b, worn
  <2>3. QED BY <2>1, <2>2, <1>3, <1>4, Wear
<1>7. QED BY <1>2, <1>4, <1>5, <1>6

\* And the one a step of AttributeRecovers leaves.
LEMMA RecoveryStep ==
    ASSUME History, AttributeRecovers
    PROVE  \E i \in DOMAIN Table(report), b \in Attribute :
             /\ report.table # {} /\ report' = WithAttribute(i, b)
             /\ WorstKept(b) /\ b.raw = Table(report)[i].raw
             /\ Fails(Table(report)[i]) \/ Failed(Table(report)[i]) => Failed(b)
<1>1. PICK i \in DOMAIN Table(report), v \in Norms :
        LET a == Table(report)[i] IN
        /\ 0 < a.value /\ a.value < v
        /\ report' = WithAttribute(i, [a EXCEPT !.value = v,
                          !.when = IF a.when = "now" THEN "past" ELSE a.when])
    BY DEF AttributeRecovers
<1>2. report.table # {}
    BY DEF AttributeRecovers
<1> DEFINE a == Table(report)[i]
           b == [a EXCEPT !.value = v, !.when = IF a.when = "now" THEN "past" ELSE a.when]
<1>3. a \in Attribute /\ WorstKept(a)
    BY <1>2 DEF Table, History, Inv, Parts, Remembers
<1>4. b \in Attribute
    BY <1>3 DEF Attribute
<1>5. WorstKept(b) /\ b.raw = a.raw /\ (Fails(a) \/ Failed(a) => Failed(b))
  <2>1. 0 < a.value /\ a.value < v
      BY <1>1
  <2>2. /\ b.value = v /\ b.worst = a.worst /\ b.thresh = a.thresh /\ b.raw = a.raw
        /\ b.when = IF a.when = "now" THEN "past" ELSE a.when
      BY <1>3 DEF Attribute
  <2> HIDE DEF a, b
  <2>3. QED BY <2>1, <2>2, <1>3, Recovery
<1>6. QED BY <1>1, <1>2, <1>4, <1>5

\* And the one a step of SectorLost leaves.
LEMMA SectorStep ==
    ASSUME History, SectorLost
    PROVE  \E i \in DOMAIN Table(report), b \in Attribute :
             /\ report.table # {} /\ report' = WithAttribute(i, b)
             /\ WorstKept(b) /\ b.raw # 0
             /\ Fails(b) <=> Fails(Table(report)[i])
             /\ Failed(b) <=> Failed(Table(report)[i])
<1>1. PICK i \in DOMAIN Table(report) :
        LET a == Table(report)[i] IN
        a.raw < MaxRaw /\ report' = WithAttribute(i, [a EXCEPT !.raw = @ + 1])
    BY DEF SectorLost
<1>2. report.table # {}
    BY DEF SectorLost
<1> DEFINE a == Table(report)[i]
           b == [a EXCEPT !.raw = @ + 1]
<1>3. a \in Attribute /\ WorstKept(a)
    BY <1>2 DEF Table, History, Inv, Parts, Remembers
<1>4. a.raw \in 0 .. MaxRaw /\ MaxRaw \in Nat
    BY <1>3, RangesAssumption DEF Attribute
<1>5. a.raw + 1 \in 0 .. MaxRaw /\ a.raw + 1 # 0
    BY <1>1, <1>4
<1>6. /\ b.value = a.value /\ b.worst = a.worst /\ b.thresh = a.thresh
      /\ b.when = a.when /\ b.raw = a.raw + 1
    BY <1>3 DEF Attribute
<1>7. b \in Attribute
    BY <1>3, <1>5 DEF Attribute
<1>8. WorstKept(b) /\ (Fails(b) <=> Fails(a)) /\ (Failed(b) <=> Failed(a))
    BY <1>3, <1>6 DEF WorstKept, Fails, Failed
<1>9. QED BY <1>1, <1>2, <1>5, <1>6, <1>7, <1>8

\* A new attribute's worst value is its value.
LEMMA InitRemembers == Init => Remembers
<1> SUFFICES ASSUME NEW shape \in Shapes, report \in New(shape) PROVE Remembers
    BY DEF Init
<1>1. report.table \in {{t} : t \in [shape.ids -> Fresh]} \cup {{}}
    BY DEF New
<1>2. report.scsi \in {{[read |-> 0, write |-> 0]}, {}}
    BY DEF New
<1>3. \A a \in Fresh : WorstKept(a)
  <2> SUFFICES ASSUME NEW a \in Fresh PROVE WorstKept(a)
      OBVIOUS
  <2>1. a.worst = a.value /\ a.value \in Norms
      BY DEF Fresh, Attribute
  <2>2. a.value \in Nat
      BY <2>1, RangesAssumption, Zenon
  <2>3. QED BY <2>1, <2>2 DEF WorstKept
<1>4. \A t \in report.table : \A i \in DOMAIN t : WorstKept(t[i])
    BY <1>1, <1>3
<1>5. QED BY <1>1, <1>2, <1>4 DEF Remembers

\* Every step keeps the worst values.
LEMMA StepRemembers == History /\ [Next]_report => Remembers'
<1> SUFFICES ASSUME History, [Next]_report PROVE Remembers'
    OBVIOUS
<1>1. CASE AttributeWears
    BY <1>1, WearStep, AttributeRemembers
<1>2. CASE AttributeRecovers
    BY <1>2, RecoveryStep, AttributeRemembers
<1>3. CASE SectorLost
    BY <1>3, SectorStep, AttributeRemembers
<1>4. CASE ScsiErrors
  <2>1. PICK worn : report' = [report EXCEPT !.scsi = {worn}]
      BY <1>4 DEF ScsiErrors
  <2>2. report'.scsi = {worn} /\ report'.table = report.table
      BY <2>1 DEF History, Inv, Record
  <2>3. QED BY <2>2 DEF History, Remembers
<1>5. CASE StatusFails \/ BitRaised \/ NvmeWears \/ UNCHANGED report
  <2>1. report'.table = report.table /\ report'.scsi = report.scsi
      BY <1>5 DEF StatusFails, BitRaised, NvmeWears, History, Inv, Record
  <2>2. QED BY <2>1 DEF History, Remembers
<1>6. QED BY <1>1, <1>2, <1>3, <1>4, <1>5 DEF Next

\* Levels that only grow are covered.
LEMMA GrowingCovers ==
    ASSUME NEW L \in SUBSET DOMAIN Severity, NEW M, L \subseteq M
    PROVE  Covers(L, M)
BY SeverityValues DEF Covers

\* Levels are documented statuses.
LEMMA LevelsDocumented ==
    ASSUME NEW r
    PROVE  Levels(r) \subseteq DOMAIN Severity
BY DEF Levels, AtaLevels, NvmeLevels, ScsiLevels

\* A new error or a smaller reserve in an NVMe log loses no level.
LEMMA NvmeCovers ==
    ASSUME History, NvmeWears
    PROVE  Covers(Levels(report), Levels(report'))
<1>1. PICK log \in report.nvme, worn \in NvmeLog :
        /\ worn.spareLimit = log.spareLimit
        /\ \/ worn = [log EXCEPT !.warning = TRUE]
           \/ worn = [log EXCEPT !.used = 100]
           \/ worn = [log EXCEPT !.media = @ + 1]
           \/ worn.spare < log.spare /\ worn = [log EXCEPT !.spare = worn.spare]
        /\ report' = [report EXCEPT !.nvme = {worn}]
    BY DEF NvmeWears
<1>2. /\ report'.nvme = {worn} /\ report'.table = report.table
      /\ report'.status = report.status /\ report'.bits = report.bits
      /\ report'.scsi = report.scsi /\ report'.protocol = report.protocol
    BY <1>1 DEF History, Inv, Record
<1>3. report.nvme = {log} /\ log \in NvmeLog
    BY DEF History, Inv, Parts
<1>4. /\ log.spare \in Nat /\ worn.spare \in Nat /\ log.spareLimit \in Nat
      /\ log.media \in Nat /\ log.used \in {99, 100}
  <2>1. /\ log.spare \in Norms /\ worn.spare \in Norms /\ log.spareLimit \in Limits
        /\ log.media \in 0 .. MaxRaw /\ log.used \in {99, 100}
      BY <1>3 DEF NvmeLog
  <2>2. log.spare \in Nat /\ worn.spare \in Nat /\ log.spareLimit \in Nat
      BY <2>1, RangesAssumption, ZenonT(60)
  <2>3. log.media \in Nat
      BY <2>1, RangesAssumption, SMT
  <2>4. QED BY <2>1, <2>2, <2>3
<1>5. /\ log.warning => worn.warning
      /\ worn.used \in {log.used, 100}
      /\ worn.media = log.media \/ worn.media = log.media + 1
      /\ worn.spare = log.spare \/ worn.spare < log.spare
  <2>1. CASE worn = [log EXCEPT !.warning = TRUE]
      BY <2>1, <1>3 DEF NvmeLog
  <2>2. CASE worn = [log EXCEPT !.used = 100]
      BY <2>2, <1>3 DEF NvmeLog
  <2>3. CASE worn = [log EXCEPT !.media = @ + 1]
      BY <2>3, <1>3 DEF NvmeLog
  <2>4. CASE worn.spare < log.spare /\ worn = [log EXCEPT !.spare = worn.spare]
    <3> DEFINE spare == worn.spare
    <3> HIDE DEF spare
    <3>1. worn = [log EXCEPT !.spare = spare]
        BY <2>4 DEF spare
    <3>2. worn.warning = log.warning /\ worn.used = log.used /\ worn.media = log.media
        BY <3>1, <1>3 DEF NvmeLog
    <3>3. QED BY <3>2, <2>4
  <2>5. QED BY <2>1, <2>2, <2>3, <2>4, <1>1
<1>6. log.media # 0 => worn.media # 0
    BY <1>4, <1>5
<1>7. log.used >= 100 => worn.used >= 100
    BY <1>4, <1>5
<1>8. log.spare < log.spareLimit => worn.spare < worn.spareLimit
    BY <1>1, <1>4, <1>5
<1>9. NvmeLevels(report) \subseteq NvmeLevels(report')
    BY <1>2, <1>3, <1>5, <1>6, <1>7, <1>8 DEF NvmeLevels
<1>10. AtaLevels(report) = AtaLevels(report')
    BY <1>2 DEF AtaLevels, Breaches, BreachedOnce
<1>11. Levels(report) \subseteq Levels(report')
    BY <1>2, <1>3, <1>9, <1>10 DEF Levels
<1>12. QED BY <1>11, GrowingCovers, LevelsDocumented

\* A step of wear loses no level, except to a more severe one.
LEMMA WearCovers ==
    ASSUME History, [Next]_report, ~AttributeRecovers
    PROVE  Covers(Levels(report), Levels(report'))
<1>1. CASE AttributeWears
    BY <1>1, WearStep, WorseCovers
<1>2. CASE SectorLost
    BY <1>2, SectorStep, WorseCovers
<1>3. CASE NvmeWears
    BY <1>3, NvmeCovers
<1>4. CASE ScsiErrors
  <2>1. PICK log \in report.scsi, worn \in ScsiLog :
          /\ worn = [log EXCEPT !.read = @ + 1] \/ worn = [log EXCEPT !.write = @ + 1]
          /\ report' = [report EXCEPT !.scsi = {worn}]
      BY <1>4 DEF ScsiErrors
  <2>2. /\ report'.scsi = {worn} /\ report'.table = report.table
        /\ report'.status = report.status /\ report'.bits = report.bits
        /\ report'.nvme = report.nvme /\ report'.protocol = report.protocol
      BY <2>1 DEF History, Inv, Record
  <2>3. report.scsi = {log} /\ log \in ScsiLog
      BY DEF History, Inv, Parts, Remembers
  <2>4. log.read \in Nat /\ log.write \in Nat
      BY <2>3, RangesAssumption DEF ScsiLog
  <2>5. worn.read # 0 \/ worn.write # 0
      BY <2>1, <2>3, <2>4 DEF ScsiLog
  <2>6. ScsiLevels(report) \subseteq ScsiLevels(report')
      BY <2>2, <2>3, <2>5 DEF ScsiLevels
  <2>7. AtaLevels(report) = AtaLevels(report')
      BY <2>2 DEF AtaLevels, Breaches, BreachedOnce
  <2>8. NvmeLevels(report) = NvmeLevels(report')
      BY <2>2 DEF NvmeLevels
  <2>9. Levels(report) \subseteq Levels(report')
      BY <2>2, <2>3, <2>6, <2>7, <2>8 DEF Levels
  <2>10. QED BY <2>9, GrowingCovers, LevelsDocumented
<1>5. CASE StatusFails \/ BitRaised \/ UNCHANGED report
  <2>1. /\ report'.scsi = report.scsi /\ report'.table = report.table
        /\ report'.nvme = report.nvme /\ report'.protocol = report.protocol
        /\ report.status # "passed" => report'.status # "passed"
        /\ report.bits \subseteq report'.bits
      BY <1>5 DEF StatusFails, BitRaised, History, Inv, Record
  <2>2. AtaLevels(report) \subseteq AtaLevels(report')
      BY <2>1 DEF AtaLevels, Breaches, BreachedOnce
  <2>3. NvmeLevels(report) \subseteq NvmeLevels(report')
      BY <2>1 DEF NvmeLevels
  <2>4. ScsiLevels(report) \subseteq ScsiLevels(report')
      BY <2>1 DEF ScsiLevels
  <2>5. Levels(report) \subseteq Levels(report')
      BY <2>1, <2>2, <2>3, <2>4 DEF Levels
  <2>6. QED BY <2>5, GrowingCovers, LevelsDocumented
<1>6. QED BY <1>1, <1>2, <1>3, <1>4, <1>5 DEF Next

\* Every reachable report remembers the breaches of its attributes.
LEMMA HistoryInvariant == Spec => []History
<1>1. Init => History
    BY InitParts, InitRemembers DEF History
<1>2. History /\ [Next]_report => History'
    BY StepParts, StepRemembers DEF History
<1>3. QED BY <1>1, <1>2, PTL DEF Spec

\* The level a report is assessed with.
LEMMA Assessed ==
    ASSUME NEW r, Parts(r)
    PROVE  /\ MostSevere(Health(r), Levels(r)) /\ Levels(r) \in SUBSET DOMAIN Severity
           /\ Health(r) # "Good" <=> \E s \in Levels(r) : s # "Good"
<1>1. MostSevere(Health(r), Levels(r))
  <2>1. WellFormed(r)
      BY RangesAssumption DEF Parts, WellFormed
  <2>2. QED BY <2>1, EvaluateMostSevere
<1>2. Levels(r) \subseteq DOMAIN Severity
    BY LevelsDocumented
<1>3. Health(r) # "Good" <=> \E s \in Levels(r) : s # "Good"
    BY <1>1, <1>2, SeverityValues DEF MostSevere
<1>4. QED BY <1>1, <1>2, <1>3

\* A step of wear does not improve the health.
LEMMA WearStepWorsens ==
    ASSUME History, History', [Next]_report, ~AttributeRecovers
    PROVE  Severity[Health(report)] <= Severity[Health(report')]
<1>1. Parts(report) /\ Parts(report')
    BY DEF History, Inv
<1>2. Covers(Levels(report), Levels(report'))
    BY WearCovers
<1>3. /\ MostSevere(Health(report), Levels(report))
      /\ MostSevere(Health(report'), Levels(report'))
      /\ Levels(report) \in SUBSET DOMAIN Severity
      /\ Levels(report') \in SUBSET DOMAIN Severity
    BY <1>1, Assessed
<1>4. QED BY <1>2, <1>3, CoversOrder

\* No step but a recovered value makes the health of a disk better
\* (assessment.go:24-291): the cascades rank what wear can only add.
THEOREM WearWorsens == Spec => WearNeverImproves
<1>1. History /\ History' /\ [Next]_report =>
        [~AttributeRecovers => Severity[Health(report)] <= Severity[Health(report')]]_report
    BY WearStepWorsens
<1>2. QED BY <1>1, HistoryInvariant, PTL DEF Spec, WearNeverImproves

\* A step that recovers a value leaves a level other than Good where there was one.
LEMMA RecoveryKeepsLevel ==
    ASSUME History, AttributeRecovers, NEW s \in Levels(report), s # "Good"
    PROVE  \E x \in Levels(report') : x # "Good"
<1>1. PICK i \in DOMAIN Table(report), b \in Attribute :
        /\ report.table # {} /\ report' = WithAttribute(i, b)
        /\ b.raw = Table(report)[i].raw
        /\ Fails(Table(report)[i]) \/ Failed(Table(report)[i]) => Failed(b)
    BY RecoveryStep
<1> DEFINE t == Table(report)
           u == [Table(report) EXCEPT ![i] = b]
<1>2. /\ report.table = {t} /\ report'.table = {u} /\ report'.status = report.status
      /\ report'.bits = report.bits /\ DOMAIN t \subseteq Nat
    BY <1>1, AttributeReplaced
<1>3. DOMAIN u = DOMAIN t /\ u[i] = b /\ \A j \in DOMAIN t : j # i => u[j] = t[j]
    OBVIOUS
<1> HIDE DEF u
<1>4. \A j \in DOMAIN t :
        /\ Fails(t[j]) => Fails(u[j]) \/ Failed(u[j])
        /\ Failed(t[j]) => Failed(u[j])
        /\ u[j].raw = t[j].raw
    BY <1>1, <1>3
<1> HIDE DEF t
<1>5. CASE s \in {"SelfAssessmentFailed", "SectorErrors", "AttributeFailedInPast"}
  <2>1. s \in Levels(report')
      BY <1>2, <1>3, <1>4, <1>5, TableLevels
  <2>2. QED BY <2>1, <1>5
<1>6. CASE s \in {"ExcessiveSectorErrors", "AttributeFailingNow"}
  <2>1. CASE 4 \in report.bits
    <3>1. "AttributeFailingNow" \in Levels(report')
        BY <1>2, <1>3, <2>1, TableLevels
    <3>2. QED BY <3>1
  <2>2. CASE 4 \notin report.bits
    <3>1. PICK j \in DOMAIN t : Fails(t[j])
        BY <1>2, <1>6, <2>2, TableLevels
    <3>2. CASE Failed(u[j])
      <4>1. "AttributeFailedInPast" \in Levels(report')
          BY <1>2, <1>3, <3>2, TableLevels
      <4>2. QED BY <4>1
    <3>3. CASE Fails(u[j])
      <4>1. \/ "AttributeFailingNow" \in Levels(report')
            \/ "ExcessiveSectorErrors" \in Levels(report')
          BY <1>2, <1>3, <3>3, TableLevels
      <4>2. QED BY <4>1
    <3>4. QED BY <1>4, <3>1, <3>2, <3>3
  <2>3. QED BY <2>1, <2>2
<1>7. s \in {"SelfAssessmentFailed", "SectorErrors", "AttributeFailedInPast",
             "ExcessiveSectorErrors", "AttributeFailingNow"}
    BY LevelsDocumented, SeverityValues
<1>8. QED BY <1>5, <1>6, <1>7

\* A disk that was not Good does not become Good: a recovered value leaves its worst
\* value and when_failed behind, and Evaluate looks at both (assessment.go:58-79, 310-318).
THEOREM BreachRemembered == Spec => BreachIsRemembered
<1>1. History /\ History' /\ [Next]_report =>
        [Health(report) # "Good" => Health(report') # "Good"]_report
  <2> SUFFICES ASSUME History, History', [Next]_report, Health(report) # "Good"
               PROVE  Health(report') # "Good"
      OBVIOUS
  <2>1. Parts(report) /\ Parts(report')
      BY DEF History, Inv
  <2>2. CASE AttributeRecovers
      BY <2>1, <2>2, Assessed, RecoveryKeepsLevel
  <2>3. CASE ~AttributeRecovers
    <3>1. Severity[Health(report)] <= Severity[Health(report')]
        BY <2>3, WearStepWorsens
    <3>2. Health(report) \in DOMAIN Severity /\ Health(report) # "Good"
        BY <2>1, Assessed DEF MostSevere
    <3>3. QED BY <3>1, <3>2, SeverityValues
  <2>4. QED BY <2>2, <2>3
<1>2. QED BY <1>1, HistoryInvariant, PTL DEF Spec, BreachIsRemembered
=============================================================================
