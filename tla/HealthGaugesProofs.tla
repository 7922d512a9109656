------------------------- MODULE HealthGaugesProofs -------------------------
(***************************************************************************)
(* Proofs about the gauges of one disk: what a scrape sees of a path while *)
(* nobody writes, for any number of paths, changes and requests.           *)
(***************************************************************************)
EXTENDS HealthGauges, SequenceTheorems, TLAPS

-----------------------------------------------------------------------------
(* The inductive invariant.                                                *)

Readings == {"device", "smart_status", "health", "temperature"}

\* The series that may be exported, and the writes that may be pending.
Gauges ==
    {g \in [vec : Readings \cup {"success"}, path : Paths \cup {NoPath},
            label : HealthStatuses \cup Firmware \cup {"", "current"}, value : Nat] :
        /\ g.vec # "success" => g.path \in Paths
        /\ g.vec = "temperature" => g.value > 0
        /\ g.vec = "health" => g.label \in HealthStatuses}
Drops == {Drop(vec) : vec \in Readings}
Writes == Gauges \cup Drops

WorkerType ==
    [held : Paths \cup {None}, writes : Seq(Writes), path : Paths \cup {None, NoPath},
     kind : {"none", "success", "failure", "missing"}, alone : BOOLEAN]

SameKey(s, t) == s.vec = t.vec /\ s.path = t.path /\ s.label = t.label

Types ==
    /\ disk \in Disk /\ stored \in Paths \cup {None, NoPath}
    /\ series \subseteq Gauges
    /\ \A s, t \in series : SameKey(s, t) => s = t
    /\ worker \in [Workers -> WorkerType]
    /\ mixed \subseteq Paths
    /\ left \in [changes : 0 .. MaxChanges, requests : 0 .. MaxRequests,
                 faults : 0 .. MaxFaults]

\* A goroutine writes about a path of the disk, and holds none meanwhile.
Begun(w) ==
    Writing(w) =>
        /\ worker[w].held = None
        /\ worker[w].kind \in {"success", "failure", "missing"}
        /\ worker[w].kind # "missing" => worker[w].path \in Paths

\* What the publication of the report r leaves behind.
Goal(p, r) ==
    {Set("success", p, "", 1), Set("device", p, r.firmware, 1),
     Set("smart_status", p, "", IF r.passed THEN 1 ELSE 0)}
    \cup {Set("health", p, s, IF s = r.status THEN 1 ELSE 0) : s \in HealthStatuses}
    \cup (IF Temperature(r.temps) = 0 THEN {}
          ELSE {Set("temperature", p, "current", Temperature(r.temps))})

\* Writes that concern the gauge of the collection only.
Success == {g \in Gauges : g.vec = "success"}

Publishes(w, r) ==
    /\ Range(worker[w].writes) \subseteq Goal(worker[w].path, r)
    /\ Goal(worker[w].path, r) \subseteq Range(worker[w].writes) \cup series

Deletes(w) ==
    /\ Range(worker[w].writes) \subseteq Drops \cup Success
    /\ \A vec \in Readings :
        Drop(vec) \in Range(worker[w].writes) \/ \A s \in series : s.vec # vec

\* What a goroutine that writes alone has still to write or has written.
Progress(w) ==
    Writing(w) /\ worker[w].alone =>
        /\ worker[w].kind = "success" => \E r \in Disk : Publishes(w, r)
        /\ worker[w].kind = "failure" => Range(worker[w].writes) \subseteq Success
        /\ worker[w].kind = "missing" => Deletes(w)

\* What GaugesConsistent says of one path.
Consistent(p) ==
    \/ \A vec \in Readings : Of(vec, p) = {}
    \/ /\ \E status \in HealthStatuses : OneHot(p, status)
       /\ Of("smart_status", p) # {} /\ Of("device", p) # {}

\* While at most one goroutine writes, the paths it does not write to are consistent.
Settled(w) ==
    (\A v \in Others(w) : ~Writing(v)) =>
        \A p \in Paths \ mixed :
            IF ~Writing(w) THEN Consistent(p)
            ELSE /\ worker[w].alone
                 /\ \/ worker[w].kind = "missing"
                    \/ worker[w].kind = "success" /\ p = worker[w].path
                    \/ Consistent(p)

IInv ==
    Types /\ \A w \in Workers : Begun(w) /\ Progress(w) /\ Settled(w)

-----------------------------------------------------------------------------
(* Sequences of writes.                                                    *)

\* The statuses, in the order they are published.
LEMMA StatusesFacts ==
    /\ Statuses \in Seq(HealthStatuses) /\ Range(Statuses) = HealthStatuses
    /\ DOMAIN Statuses = 1 .. 4 /\ Len(Statuses) = 4
    /\ HealthStatuses = {"Good", "SectorErrors", "SelfAssessmentFailed", "Unknown"}
<1>1. DOMAIN Statuses = 1 .. 4 /\ Len(Statuses) = 4  BY DEF Statuses
<1>2. /\ Statuses[1] = "Good" /\ Statuses[2] = "SectorErrors"
      /\ Statuses[3] = "SelfAssessmentFailed" /\ Statuses[4] = "Unknown"
  BY DEF Statuses
<1>3. HealthStatuses = {"Good", "SectorErrors", "SelfAssessmentFailed", "Unknown"}
  BY <1>1, <1>2 DEF HealthStatuses
<1>4. Range(Statuses) = HealthStatuses  BY DEF Range, HealthStatuses
<1>5. Statuses \in Seq(HealthStatuses)  BY <1>3 DEF Statuses
<1> QED BY <1>1, <1>3, <1>4, <1>5

\* A temperature is a number, 0 if there is none.
LEMMA TemperatureFacts ==
    ASSUME NEW t \in Temperatures
    PROVE  Temperature(t) \in Nat
<1>1. DOMAIN t = 1 .. 3 /\ t[1] \in Nat /\ t[2] \in Nat /\ t[3] \in Nat
  BY DEF Temperatures
<1>2. CASE t[1] > 0
  <2>1. \E i \in DOMAIN t : t[i] > 0 /\ \A j \in 1 .. i - 1 : t[j] = 0
    BY <1>1, <1>2
  <2> QED BY <1>1, <1>2, <2>1 DEF Temperature
<1>3. CASE t[1] = 0 /\ t[2] = 0 /\ t[3] > 0
  <2>1. \A j \in 1 .. 3 - 1 : t[j] = 0  BY <1>3
  <2>2. \E i \in DOMAIN t : t[i] > 0 /\ \A j \in 1 .. i - 1 : t[j] = 0
    BY <1>1, <1>3, <2>1
  <2> QED BY <1>1, <1>3, <2>2 DEF Temperature
<1>4. CASE t[1] = 0 /\ t[2] = 0 /\ t[3] = 0
  BY <1>1, <1>4 DEF Temperature
<1> QED BY <1>2, <1>3, <1>4 DEF Temperatures

\* The fields of a write.
LEMMA SetFacts ==
    ASSUME NEW vec, NEW p, NEW label, NEW value
    PROVE  LET g == Set(vec, p, label, value) IN
           g.vec = vec /\ g.path = p /\ g.label = label /\ g.value = value
BY DEF Set

\* What smartctl reports is in range.
LEMMA DiskFacts ==
    ASSUME NEW r \in Disk
    PROVE  /\ r.path \in Paths \cup {None} /\ r.passed \in BOOLEAN
           /\ r.status \in HealthStatuses /\ r.firmware \in Firmware
           /\ r.temps \in Temperatures
BY DEF Disk

\* A publication sets gauges of one path, each of them once.
LEMMA GoalGauges ==
    ASSUME NEW p \in Paths, NEW r \in Disk
    PROVE  /\ Goal(p, r) \subseteq Gauges
           /\ \A g \in Goal(p, r) : g.path = p
           /\ \A g, h \in Goal(p, r) : SameKey(g, h) => g = h
<1>1. Temperature(r.temps) \in Nat /\ r.firmware \in Firmware
  BY DiskFacts, TemperatureFacts
<1>2. ASSUME NEW g \in Goal(p, r)
      PROVE  /\ g \in Gauges /\ g.path = p
             /\ g.vec = "success" => g = Set("success", p, "", 1)
             /\ g.vec = "device" => g = Set("device", p, r.firmware, 1)
             /\ g.vec = "smart_status" =>
                    g = Set("smart_status", p, "", IF r.passed THEN 1 ELSE 0)
             /\ g.vec = "temperature" =>
                    g = Set("temperature", p, "current", Temperature(r.temps))
             /\ g.vec = "health" =>
                    g = Set("health", p, g.label, IF g.label = r.status THEN 1 ELSE 0)
  <2>1. CASE g = Set("success", p, "", 1)
    BY <1>1, <2>1 DEF Set, Gauges, Readings
  <2>2. CASE g = Set("device", p, r.firmware, 1)
    BY <1>1, <2>2 DEF Set, Gauges, Readings
  <2>3. CASE g = Set("smart_status", p, "", IF r.passed THEN 1 ELSE 0)
    BY <1>1, <2>3 DEF Set, Gauges, Readings
  <2>4. CASE g = Set("temperature", p, "current", Temperature(r.temps))
             /\ Temperature(r.temps) # 0
    BY <1>1, <2>4 DEF Set, Gauges, Readings
  <2>5. ASSUME NEW s \in HealthStatuses,
               g = Set("health", p, s, IF s = r.status THEN 1 ELSE 0)
        PROVE  g \in Gauges /\ g.path = p /\ g.vec = "health" /\ g.label = s
    <3>1. (IF s = r.status THEN 1 ELSE 0) \in Nat  OBVIOUS
    <3> QED BY <2>5, <3>1 DEF Set, Gauges, Readings
  <2>6. CASE \E s \in HealthStatuses :
                g = Set("health", p, s, IF s = r.status THEN 1 ELSE 0)
    <3>1. PICK s \in HealthStatuses :
                g = Set("health", p, s, IF s = r.status THEN 1 ELSE 0)
      BY <2>6
    <3>2. g \in Gauges /\ g.path = p /\ g.vec = "health" /\ g.label = s
      BY <2>5, <3>1
    <3> QED BY <3>1, <3>2
  <2>7. \/ g = Set("success", p, "", 1) \/ g = Set("device", p, r.firmware, 1)
        \/ g = Set("smart_status", p, "", IF r.passed THEN 1 ELSE 0)
        \/ g = Set("temperature", p, "current", Temperature(r.temps))
           /\ Temperature(r.temps) # 0
        \/ \E s \in HealthStatuses :
                g = Set("health", p, s, IF s = r.status THEN 1 ELSE 0)
    BY DEF Goal
  <2> QED BY <2>1, <2>2, <2>3, <2>4, <2>6, <2>7
<1>3. ASSUME NEW g \in Goal(p, r), NEW h \in Goal(p, r), SameKey(g, h) PROVE g = h
  <2>1. g.vec = h.vec /\ g.label = h.label  BY <1>3 DEF SameKey
  <2>2. g.vec \in {"success", "device", "smart_status", "temperature", "health"}
    BY <1>2 DEF Gauges, Readings
  <2>3. CASE g.vec = "success"  BY <1>2, <2>1, <2>3
  <2>4. CASE g.vec = "device"  BY <1>2, <2>1, <2>4
  <2>5. CASE g.vec = "smart_status"  BY <1>2, <2>1, <2>5, Zenon
  <2>6. CASE g.vec = "temperature"  BY <1>2, <2>1, <2>6
  <2>7. CASE g.vec = "health"
    <3>1. /\ g = Set("health", p, g.label, IF g.label = r.status THEN 1 ELSE 0)
          /\ h = Set("health", p, h.label, IF h.label = r.status THEN 1 ELSE 0)
      BY <1>2, <2>1, <2>7
    <3> QED BY <2>1, <3>1, Zenon
  <2> QED BY <2>2, <2>3, <2>4, <2>5, <2>6, <2>7
<1> QED BY <1>2, <1>3

\* The next write and the rest.
LEMMA NextWrite ==
    ASSUME NEW S, NEW s \in Seq(S), s # <<>>
    PROVE  /\ Head(s) \in S /\ Tail(s) \in Seq(S)
           /\ Range(s) = {Head(s)} \cup Range(Tail(s))
           /\ Len(s) = 1 => Range(s) = {Head(s)}
           /\ Len(s) # 1 => Tail(s) # <<>>
<1>1. Len(s) \in Nat \ {0} /\ Head(s) = s[1]  BY EmptySeq
<1>2. /\ Head(s) \in S /\ Tail(s) \in Seq(S)
      /\ Len(Tail(s)) = Len(s) - 1
      /\ \A i \in 1 .. Len(Tail(s)) : Tail(s)[i] = s[i + 1]
  BY HeadTailProperties
<1>3. /\ Range(s) = {s[i] : i \in 1 .. Len(s)}
      /\ Range(Tail(s)) = {Tail(s)[i] : i \in 1 .. Len(Tail(s))}
  BY <1>2, RangeEquality
<1> DEFINE n == Len(s)
           t == Tail(s)
           m == Len(t)
<1>4. n \in Nat \ {0} /\ m = n - 1 /\ \A i \in 1 .. m : t[i] = s[i + 1]
  BY <1>1, <1>2
<1>5. Len(s) # 1 => Tail(s) # <<>>
  <2>1. SUFFICES ASSUME t = <<>> PROVE n = 1  OBVIOUS
  <2>2. m = 0  BY <2>1, EmptySeq
  <2> HIDE DEF n, m
  <2> QED BY <1>4, <2>2
<1>6. Range(s) = {Head(s)} \cup Range(Tail(s))
  <2>1. ASSUME NEW i \in 1 .. n PROVE s[i] = s[1] \/ \E j \in 1 .. m : s[i] = t[j]
    <3> HIDE DEF n, m, t
    <3>1. CASE i = 1  BY <3>1
    <3>2. CASE i # 1
      <4>1. i - 1 \in 1 .. m /\ (i - 1) + 1 = i  BY <1>4, <3>2
      <4> QED BY <1>4, <4>1
    <3> QED BY <3>1, <3>2
  <2>2. ASSUME NEW j \in 1 .. m PROVE \E i \in 1 .. n : t[j] = s[i]
    <3> HIDE DEF n, m, t
    <3>1. j + 1 \in 1 .. n  BY <1>4
    <3> QED BY <1>4, <3>1
  <2>3. 1 \in 1 .. n
    <3> HIDE DEF n, m, t
    <3> QED BY <1>4
  <2>4. ASSUME NEW x PROVE x \in Range(s) <=> x = Head(s) \/ x \in Range(t)
    <3>1. x \in Range(s) <=> \E i \in 1 .. n : x = s[i]  BY <1>3
    <3>2. x \in Range(t) <=> \E j \in 1 .. m : x = t[j]  BY <1>3
    <3>3. Head(s) = s[1]  BY <1>1
    <3> HIDE DEF n, m, t
    <3> QED BY <2>1, <2>2, <2>3, <3>1, <3>2, <3>3
  <2> QED BY <2>4
<1>7. Len(s) = 1 => Range(s) = {Head(s)}
  <2>1. SUFFICES ASSUME n = 1 PROVE Range(s) = {s[1]}  BY <1>1
  <2>2. Range(s) = {s[i] : i \in 1 .. 1}  BY <1>3, <2>1
  <2>3. 1 .. 1 = {1}  OBVIOUS
  <2> QED BY <2>2, <2>3
<1> QED BY <1>2, <1>5, <1>6, <1>7

\* Short sequences.
LEMMA ShortSeq ==
    ASSUME NEW S, NEW x \in S, NEW y \in S
    PROVE  /\ <<x>> \in Seq(S) /\ <<x>> # <<>> /\ Range(<<x>>) = {x}
           /\ <<x, y>> \in Seq(S) /\ Range(<<x, y>>) = {x, y}
           /\ <<>> \in Seq(S) /\ Range(<<>>) = {}
<1>1. <<x>> \in Seq(S) /\ <<x, y>> \in Seq(S) /\ <<>> \in Seq(S) /\ <<x>> # <<>>
  OBVIOUS
<1>2. /\ Len(<<x>>) = 1 /\ <<x>>[1] = x
      /\ Len(<<x, y>>) = 2 /\ <<x, y>>[1] = x /\ <<x, y>>[2] = y
  OBVIOUS
<1>3. Range(<<x>>) = {<<x>>[i] : i \in 1 .. 1}  BY <1>1, <1>2, RangeEquality
<1>4. Range(<<x, y>>) = {<<x, y>>[i] : i \in 1 .. 2}  BY <1>1, <1>2, RangeEquality
<1>5. 1 .. 1 = {1} /\ 1 .. 2 = {1, 2}  OBVIOUS
<1>6. Range(<<x>>) = {x}  BY <1>2, <1>3, <1>5
<1>7. Range(<<x, y>>) = {x, y}  BY <1>2, <1>4, <1>5
<1>8. Range(<<>>) = {}  BY DEF Range
<1> QED BY <1>1, <1>6, <1>7, <1>8

\* Joining sequences joins their ranges.
LEMMA JoinSeq ==
    ASSUME NEW S, NEW s \in Seq(S), NEW t \in Seq(S)
    PROVE  s \o t \in Seq(S) /\ Range(s \o t) = Range(s) \cup Range(t)
BY ConcatProperties, RangeConcatenation

\* What the functions that publish and delete write.
LEMMA PublishWrites ==
    ASSUME NEW p \in Paths, NEW r \in Disk
    PROVE  /\ PublishSuccess(p, r) \in Seq(Writes) /\ PublishSuccess(p, r) # <<>>
           /\ Range(PublishSuccess(p, r)) = Goal(p, r)
<1> DEFINE ss == <<Set("success", p, "", 1)>>
           ds == <<Set("device", p, r.firmware, 1),
                   Set("smart_status", p, "", IF r.passed THEN 1 ELSE 0)>>
           hs == PublishStatus(p, r.status)
           ts == IF Temperature(r.temps) = 0 THEN <<>>
                 ELSE <<Set("temperature", p, "current", Temperature(r.temps))>>
           G == Goal(p, r)
<1>1. PublishSuccess(p, r) = ss \o (ds \o hs \o ts)
  BY DEF PublishSuccess, Publish
<1>2. ss \in Seq(G) /\ ss # <<>> /\ Range(ss) = {Set("success", p, "", 1)}
  <2>1. Set("success", p, "", 1) \in G  BY DEF Goal
  <2> QED BY <2>1, ShortSeq, ZenonT(60)
<1>3. ds \in Seq(G)
      /\ Range(ds) = {Set("device", p, r.firmware, 1),
                      Set("smart_status", p, "", IF r.passed THEN 1 ELSE 0)}
  <2>1. /\ Set("device", p, r.firmware, 1) \in G
        /\ Set("smart_status", p, "", IF r.passed THEN 1 ELSE 0) \in G
    BY DEF Goal
  <2> HIDE DEF G
  <2> QED BY <2>1, ShortSeq, ZenonT(60)
<1>4. ts \in Seq(G) /\ Range(ts) = IF Temperature(r.temps) = 0 THEN {}
             ELSE {Set("temperature", p, "current", Temperature(r.temps))}
  <2>1. CASE Temperature(r.temps) = 0  BY <2>1 DEF Range
  <2>2. CASE Temperature(r.temps) # 0
    <3>1. Set("temperature", p, "current", Temperature(r.temps)) \in G
      BY <2>2 DEF Goal
    <3> QED BY <2>2, <3>1 DEF Range
  <2> QED BY <2>1, <2>2
<1>5. /\ hs \in Seq(G)
      /\ Range(hs) = {Set("health", p, s, IF s = r.status THEN 1 ELSE 0) :
                         s \in HealthStatuses}
  <2> DEFINE h(s) == Set("health", p, s, IF s = r.status THEN 1 ELSE 0)
  <2>1. hs = [i \in 1 .. 4 |-> h(Statuses[i])]
    BY StatusesFacts DEF PublishStatus
  <2>2. \A s \in HealthStatuses : h(s) \in G  BY DEF Goal
  <2>3. HealthStatuses = {Statuses[i] : i \in 1 .. 4}
    BY StatusesFacts DEF HealthStatuses
  <2> HIDE DEF h, hs
  <2>4. hs \in [1 .. 4 -> G]  BY <2>1, <2>2, <2>3
  <2>5. hs \in Seq(G)  BY <2>4, SeqDef
  <2>6. Range(hs) = {h(s) : s \in HealthStatuses}
    <3>1. DOMAIN hs = 1 .. 4 /\ \A i \in 1 .. 4 : hs[i] = h(Statuses[i])  BY <2>1
    <3> QED BY <2>3, <3>1 DEF Range
  <2> QED BY <2>5, <2>6 DEF h
<1> HIDE DEF ss, ds, hs, ts
<1> HIDE DEF G
<1>6. ds \o hs \in Seq(G) /\ Range(ds \o hs) = Range(ds) \cup Range(hs)
  <2>1. ds \in Seq(G) /\ hs \in Seq(G)  BY <1>3, <1>5
  <2> QED BY <2>1, JoinSeq
<1> DEFINE dhs == ds \o hs
           dts == dhs \o ts
<1>7. dts \in Seq(G) /\ Range(dts) = Range(dhs) \cup Range(ts)
  <2>1. dhs \in Seq(G)  BY <1>6
  <2> HIDE DEF dhs
  <2> QED BY <1>4, <2>1, JoinSeq
<1>8. ss \o dts \in Seq(G) /\ Range(ss \o dts) = Range(ss) \cup Range(dts)
  <2>1. dts \in Seq(G)  BY <1>7
  <2> HIDE DEF dts
  <2> QED BY <1>2, <2>1, JoinSeq, ZenonT(60)
<1>9. Range(PublishSuccess(p, r)) = G
  BY <1>1, <1>2, <1>3, <1>4, <1>5, <1>6, <1>7, <1>8 DEF Goal, G
<1>10. PublishSuccess(p, r) \in Seq(Writes)
  <2>1. G \subseteq Writes  BY GoalGauges DEF Writes, G
  <2> QED BY <1>1, <1>8, <2>1
<1>11. PublishSuccess(p, r) # <<>>
  <2>1. Set("success", p, "", 1) \in Range(PublishSuccess(p, r))  BY <1>9 DEF Goal, G
  <2>2. Range(<<>>) = {}  BY DEF Range
  <2> QED BY <2>1, <2>2
<1> QED BY <1>9, <1>10, <1>11 DEF G

\* A failure is published as such, and nothing else.
LEMMA FailureWrites ==
    ASSUME NEW p \in Paths \cup {NoPath}
    PROVE  /\ PublishFailure(p) \in Seq(Writes) /\ PublishFailure(p) # <<>>
           /\ Range(PublishFailure(p)) = {Set("success", p, "", 0)}
           /\ Set("success", p, "", 0) \in Success
<1>1. Set("success", p, "", 0) \in Success  BY DEF Set, Success, Gauges, Readings
<1> DEFINE x == Set("success", p, "", 0)
<1>2. PublishFailure(p) = <<x>> /\ x \in Writes
  BY <1>1 DEF PublishFailure, Success, Writes
<1> HIDE DEF x
<1>3. <<x>> \in Seq(Writes) /\ <<x>> # <<>> /\ Range(<<x>>) = {x}  BY <1>2 DEF Range
<1> QED BY <1>1, <1>2, <1>3 DEF x

\* Marking a disk deletes all its readings and publishes a failure.
LEMMA MissingWrites ==
    ASSUME NEW p \in Paths \cup {NoPath}
    PROVE  /\ MarkMissing(p) \in Seq(Writes) /\ MarkMissing(p) # <<>>
           /\ Range(MarkMissing(p)) = Drops \cup {Set("success", p, "", 0)}
<1> DEFINE ds == DeleteDeviceHealthMetrics
           fs == PublishFailure(p)
<1>1. ds \in Seq(Drops) /\ Range(ds) = Drops
  <2>1. /\ Drop("device") \in Drops /\ Drop("smart_status") \in Drops
        /\ Drop("temperature") \in Drops /\ Drop("health") \in Drops
    BY DEF Drops, Readings
  <2>2. ds \in Seq(Drops) /\ DOMAIN ds = 1 .. 4
    BY <2>1 DEF DeleteDeviceHealthMetrics
  <2>3. Range(ds) = {ds[1], ds[2], ds[3], ds[4]}  BY <2>2 DEF Range
  <2>4. Range(ds) = {Drop("device"), Drop("smart_status"), Drop("temperature"),
                     Drop("health")}
    BY <2>3 DEF DeleteDeviceHealthMetrics
  <2> QED BY <2>2, <2>4 DEF Drops, Readings
<1>2. ds \in Seq(Writes)  BY <1>1 DEF Writes
<1>3. fs \in Seq(Writes) /\ Range(fs) = {Set("success", p, "", 0)}  BY FailureWrites
<1>4. MarkMissing(p) = ds \o fs  BY DEF MarkMissing
<1> HIDE DEF ds, fs
<1>5. ds \o fs \in Seq(Writes) /\ Range(ds \o fs) = Range(ds) \cup Range(fs)
  BY <1>2, <1>3, ConcatProperties, RangeConcatenation, ZenonT(60)
<1>6. ds \o fs # <<>>
  <2>1. Range(ds \o fs) # {}  BY <1>3, <1>5
  <2>2. Range(<<>>) = {}  BY DEF Range
  <2> QED BY <2>1, <2>2
<1> QED BY <1>1, <1>3, <1>4, <1>5, <1>6

-----------------------------------------------------------------------------
(* One write.                                                              *)

\* Setting a gauge replaces the series with its key and no other.
LEMMA AfterSet ==
    ASSUME NEW x \in Gauges, NEW old, old \subseteq Gauges,
           \A s, t \in old : SameKey(s, t) => s = t
    PROVE  /\ After(x, old) \subseteq Gauges /\ x \in After(x, old)
           /\ \A s, t \in After(x, old) : SameKey(s, t) => s = t
           /\ \A s \in old : SameKey(s, x) \/ s \in After(x, old)
           /\ \A s \in After(x, old) : s = x \/ (s \in old /\ ~SameKey(s, x))
<1>1. "drop" \notin DOMAIN x  BY DEF Gauges
<1>2. After(x, old) = {s \in old : <<s.vec, s.path, s.label>> # <<x.vec, x.path, x.label>>}
                      \cup {x}
  BY <1>1 DEF After
<1>3. \A s : <<s.vec, s.path, s.label>> # <<x.vec, x.path, x.label>> <=> ~SameKey(s, x)
  BY DEF SameKey
<1>4. \A s : s \in After(x, old) <=> s = x \/ (s \in old /\ ~SameKey(s, x))
  BY <1>2, <1>3
<1>5. \A s, t : SameKey(s, t) => SameKey(t, s)  BY DEF SameKey
<1> QED BY <1>4, <1>5

\* Deleting takes a vector of every path, and nothing else.
LEMMA AfterDrop ==
    ASSUME NEW vec \in Readings, NEW old
    PROVE  After(Drop(vec), old) = {s \in old : s.vec # vec}
<1>1. "drop" \in DOMAIN Drop(vec) /\ Drop(vec).drop = vec  BY DEF Drop
<1> QED BY <1>1 DEF After

\* A write to another path, or of the gauge of the collection, leaves a path as it is.
LEMMA Untouched ==
    ASSUME Types, NEW x \in Gauges, series' = After(x, series), NEW p,
           x.vec = "success" \/ x.path # p
    PROVE  Consistent(p)' <=> Consistent(p)
<1>1. \A vec \in Readings : Of(vec, p)' = Of(vec, p)
  <2> SUFFICES ASSUME NEW vec \in Readings, NEW s
               PROVE  s \in Of(vec, p)' <=> s \in Of(vec, p)
    BY DEF Of
  <2>1. /\ \A t \in series : SameKey(t, x) \/ t \in series'
        /\ \A t \in series' : t = x \/ t \in series
    BY AfterSet DEF Types
  <2>2. vec # "success"  BY DEF Readings
  <2> QED BY <2>1, <2>2 DEF Of, SameKey
<1>2. \A status : OneHot(p, status)' <=> OneHot(p, status)
  BY <1>1 DEF OneHot, Readings
<1> QED BY <1>1, <1>2 DEF Consistent, Readings

\* A path with all gauges of a report is consistent.
Complete ==
    \A p \in Paths, r \in Disk :
        /\ series \subseteq Gauges
        /\ \A s, t \in series : SameKey(s, t) => s = t
        /\ Goal(p, r) \subseteq series
        => Consistent(p)

\* That is so whatever else is exported.
LEMMA GoalConsistent == Complete
<1> SUFFICES ASSUME NEW p \in Paths, NEW r \in Disk, series \subseteq Gauges,
                    \A s, t \in series : SameKey(s, t) => s = t,
                    Goal(p, r) \subseteq series
             PROVE  Consistent(p)
  BY DEF Complete
<1> DEFINE h(s) == Set("health", p, s, IF s = r.status THEN 1 ELSE 0)
<1>1. \A s \in HealthStatuses : h(s) \in series  BY DEF Goal
<1>2. \A s : h(s).vec = "health" /\ h(s).path = p /\ h(s).label = s  BY SetFacts
<1>3. Of("device", p) # {} /\ Of("smart_status", p) # {}
  <2> DEFINE d == Set("device", p, r.firmware, 1)
             a == Set("smart_status", p, "", IF r.passed THEN 1 ELSE 0)
  <2>1. d \in series /\ a \in series  BY DEF Goal
  <2>2. d.vec = "device" /\ d.path = p /\ a.vec = "smart_status" /\ a.path = p
    BY DEF Set
  <2> HIDE DEF d, a
  <2> QED BY <2>1, <2>2 DEF Of
<1> HIDE DEF h
<1>4. Of("health", p) = {h(s) : s \in HealthStatuses}
  <2>1. ASSUME NEW g \in Of("health", p) PROVE \E s \in HealthStatuses : g = h(s)
    <3>1. g \in series /\ g.vec = "health" /\ g.path = p /\ g.label \in HealthStatuses
      BY DEF Of, Gauges
    <3>2. h(g.label) \in series /\ SameKey(g, h(g.label))
      BY <1>1, <1>2, <3>1 DEF SameKey
    <3> QED BY <3>1, <3>2
  <2>2. \A s \in HealthStatuses : h(s) \in Of("health", p)  BY <1>1, <1>2 DEF Of
  <2> QED BY <2>1, <2>2
<1>5. OneHot(p, r.status)  BY <1>4 DEF OneHot, h
<1>6. r.status \in HealthStatuses  BY DiskFacts
<1> QED BY <1>3, <1>5, <1>6 DEF Consistent

\* What a write changes of the two goroutines.
LEMMA WriteWorkers ==
    ASSUME IInv, NEW w \in Workers, WriteGauge(w)
    PROVE  LET s == worker[w].writes IN
           /\ s \in Seq(Writes) /\ s # <<>> /\ Head(s) \in Writes
           /\ Range(s) = {Head(s)} \cup Range(Tail(s))
           /\ Len(s) = 1 => worker'[w] = Idle /\ Range(s) = {Head(s)}
           /\ Len(s) # 1 =>
                /\ worker'[w] \in WorkerType
                /\ worker'[w].writes = Tail(s) /\ Tail(s) # <<>>
                /\ worker'[w].held = worker[w].held /\ worker'[w].path = worker[w].path
                /\ worker'[w].kind = worker[w].kind /\ worker'[w].alone = worker[w].alone
           /\ \A v \in Others(w) :
                /\ worker'[v] \in WorkerType
                /\ worker'[v].writes = worker[v].writes
                /\ worker'[v].held = worker[v].held /\ worker'[v].path = worker[v].path
                /\ worker'[v].kind = worker[v].kind
                /\ worker'[v].alone <=> worker[v].alone /\ ~Writing(v)
           /\ worker' \in [Workers -> WorkerType]
<1> DEFINE s == worker[w].writes
<1>1. worker \in [Workers -> WorkerType]  BY DEF IInv, Types
<1>2. /\ s # <<>>
      /\ worker' = [v \in Workers |->
            IF v # w THEN [worker[v] EXCEPT !.alone = @ /\ ~Writing(v)]
            ELSE IF Len(s) = 1 THEN Idle ELSE [worker[w] EXCEPT !.writes = Tail(@)]]
  BY DEF WriteGauge, Writing
<1>3. s \in Seq(Writes)  BY <1>1 DEF WorkerType
<1>4. /\ Head(s) \in Writes /\ Tail(s) \in Seq(Writes)
      /\ Range(s) = {Head(s)} \cup Range(Tail(s))
      /\ Len(s) = 1 => Range(s) = {Head(s)}
      /\ Len(s) # 1 => Tail(s) # <<>>
  BY <1>2, <1>3, NextWrite
<1>5. ASSUME Len(s) = 1 PROVE worker'[w] = Idle
  BY <1>2, <1>5
<1>6. ASSUME Len(s) # 1
      PROVE  /\ worker'[w] \in WorkerType
             /\ worker'[w].writes = Tail(s)
             /\ worker'[w].held = worker[w].held /\ worker'[w].path = worker[w].path
             /\ worker'[w].kind = worker[w].kind /\ worker'[w].alone = worker[w].alone
  <2>1. worker'[w] = [worker[w] EXCEPT !.writes = Tail(s)]  BY <1>2, <1>6
  <2> QED BY <1>1, <1>4, <2>1, ZenonT(60) DEF WorkerType
<1>7. ASSUME NEW v \in Others(w)
      PROVE  /\ worker'[v] \in WorkerType
             /\ worker'[v].writes = worker[v].writes
             /\ worker'[v].held = worker[v].held /\ worker'[v].path = worker[v].path
             /\ worker'[v].kind = worker[v].kind
             /\ worker'[v].alone <=> worker[v].alone /\ ~Writing(v)
  <2>1. v \in Workers /\ v # w  BY DEF Others
  <2>2. worker'[v] = [worker[v] EXCEPT !.alone = @ /\ ~Writing(v)]  BY <1>2, <2>1
  <2>3. worker[v] \in WorkerType  BY <1>1, <2>1
  <2> QED BY <2>2, <2>3 DEF WorkerType
<1>8. Idle \in WorkerType  BY EmptySeq DEF Idle, WorkerType
<1>9. worker' \in [Workers -> WorkerType]
  <2>1. \A v \in Workers : worker'[v] \in WorkerType
    BY <1>5, <1>6, <1>7, <1>8 DEF Others
  <2> QED BY <1>2, <2>1
<1> QED BY <1>2, <1>3, <1>4, <1>5, <1>6, <1>7, <1>9

\* A write keeps the types, and brings a goroutine that writes alone closer to its end.
LEMMA WriteGaugeIInv ==
    ASSUME IInv, NEW w \in Workers, WriteGauge(w)
    PROVE  IInv'
<1> DEFINE s == worker[w].writes
           x == Head(s)
           q == worker[w].path
           last == Len(s) = 1
<1>1. /\ s \in Seq(Writes) /\ s # <<>> /\ x \in Writes
      /\ Range(s) = {x} \cup Range(Tail(s))
      /\ last => worker'[w] = Idle /\ Range(s) = {x}
      /\ ~last => /\ worker'[w] \in WorkerType
                  /\ worker'[w].writes = Tail(s) /\ Tail(s) # <<>>
                  /\ worker'[w].held = worker[w].held
                  /\ worker'[w].path = worker[w].path
                  /\ worker'[w].kind = worker[w].kind
                  /\ worker'[w].alone = worker[w].alone
      /\ \A v \in Others(w) :
            /\ worker'[v] \in WorkerType
            /\ worker'[v].writes = worker[v].writes
            /\ worker'[v].held = worker[v].held /\ worker'[v].path = worker[v].path
            /\ worker'[v].kind = worker[v].kind
            /\ worker'[v].alone <=> worker[v].alone /\ ~Writing(v)
      /\ worker' \in [Workers -> WorkerType]
  BY WriteWorkers
<1>2. /\ series' = After(x, series) /\ mixed' = MixedAfter(w, last)
      /\ stored' = IF last /\ worker[w].kind \in {"success", "failure"} THEN q ELSE stored
      /\ UNCHANGED <<disk, left>>
  BY DEF WriteGauge
<1>3. Types /\ Begun(w) /\ Progress(w) /\ Settled(w) /\ Writing(w)
      /\ \A v \in Workers : Begun(v)
  BY DEF IInv, WriteGauge
<1>4. /\ worker[w].kind \in {"success", "failure", "missing"}
      /\ worker[w].kind # "missing" => q \in Paths
  BY <1>3 DEF Begun
<1> HIDE DEF s, x, q, last
<1>5. series' \subseteq Gauges /\ \A t, u \in series' : SameKey(t, u) => t = u
  <2>1. series \subseteq Gauges /\ \A t, u \in series : SameKey(t, u) => t = u
    BY <1>3 DEF Types
  <2>2. CASE x \in Gauges  BY <1>2, <2>1, <2>2, AfterSet
  <2>3. CASE x \in Drops
    <3>1. PICK vec \in Readings : x = Drop(vec)  BY <2>3 DEF Drops
    <3>2. series' \subseteq series  BY <1>2, <3>1, AfterDrop
    <3> QED BY <2>1, <3>2
  <2> QED BY <1>1, <2>2, <2>3 DEF Writes
<1>6. mixed' \subseteq Paths  BY <1>2, <1>3 DEF MixedAfter, Types
<1>7. Types'
  <2>1. stored' \in Paths \cup {None, NoPath}  BY <1>2, <1>3, <1>4 DEF Types
  <2> QED BY <1>1, <1>2, <1>3, <1>5, <1>6, <2>1 DEF Types
<1>8. Idle.writes = <<>>  BY DEF Idle
<1>9. /\ Writing(w)' <=> ~last
      /\ \A v \in Others(w) : Writing(v)' <=> Writing(v)
  BY <1>1, <1>8 DEF Writing
<1>10. \A v \in Workers : Begun(v)'
  BY <1>1, <1>3, <1>9 DEF Begun, Others
<1>11. ASSUME worker[w].alone, worker[w].kind = "success"
       PROVE  \E r \in Disk : /\ Range(s) \subseteq Goal(q, r)
                              /\ Goal(q, r) \subseteq (Range(s) \ {x}) \cup series'
  <2>1. PICK r \in Disk : Publishes(w, r)  BY <1>3, <1>11 DEF Progress
  <2>2. Range(s) \subseteq Goal(q, r) /\ Goal(q, r) \subseteq Range(s) \cup series
    BY <2>1 DEF Publishes, s, q
  <2>3. /\ Goal(q, r) \subseteq Gauges
        /\ \A g, h \in Goal(q, r) : SameKey(g, h) => g = h
    BY <1>4, <1>11, GoalGauges
  <2>4. x \in Goal(q, r) /\ x \in Gauges  BY <1>1, <2>2, <2>3
  <2>5. x \in series' /\ \A t \in series : SameKey(t, x) \/ t \in series'
    BY <1>2, <1>3, <2>4, AfterSet DEF Types
  <2>6. \A g \in Goal(q, r) : g \in series => g \in series'
    BY <2>3, <2>4, <2>5
  <2>7. Goal(q, r) \subseteq (Range(s) \ {x}) \cup series'  BY <2>2, <2>5, <2>6
  <2> QED BY <2>2, <2>7
<1>12. ASSUME worker[w].alone, worker[w].kind = "missing"
       PROVE  /\ Range(s) \subseteq Drops \cup Success
              /\ \A vec \in Readings :
                    Drop(vec) \in Range(s) \ {x} \/ \A t \in series' : t.vec # vec
  <2>1. /\ Range(s) \subseteq Drops \cup Success
        /\ \A vec \in Readings :
            Drop(vec) \in Range(s) \/ \A t \in series : t.vec # vec
    BY <1>3, <1>12 DEF Progress, Deletes, s
  <2>2. x \in Drops \cup Success  BY <1>1, <2>1
  <2>3. \A t \in series' : t.vec = "success" \/ t \in series
    <3>1. CASE x \in Success
      <4>1. x \in Gauges /\ x.vec = "success"  BY <3>1 DEF Success
      <4>2. \A t \in series' : t = x \/ t \in series
        BY <1>2, <1>3, <4>1, AfterSet DEF Types
      <4> QED BY <4>1, <4>2
    <3>2. CASE x \in Drops
      <4>1. PICK vec \in Readings : x = Drop(vec)  BY <3>2 DEF Drops
      <4> QED BY <1>2, <4>1, AfterDrop
    <3> QED BY <2>2, <3>1, <3>2
  <2>4. ASSUME NEW vec \in Readings, Drop(vec) = x
        PROVE  \A t \in series' : t.vec # vec
    BY <1>2, <2>4, AfterDrop
  <2>5. "success" \notin Readings  BY DEF Readings
  <2> QED BY <2>1, <2>3, <2>4, <2>5
<1>13. ASSUME worker[w].alone, worker[w].kind = "failure"
       PROVE  Range(s) \subseteq Success
  BY <1>3, <1>13 DEF Progress, s
<1>14. \A v \in Workers : Progress(v)'
  <2>1. \A v \in Others(w) : Progress(v)'  BY <1>1, <1>9 DEF Progress
  <2>2. Progress(w)'
    <3> SUFFICES ASSUME ~last, worker[w].alone
                 PROVE  /\ worker[w].kind = "success" => (\E r \in Disk : Publishes(w, r))'
                        /\ worker[w].kind = "failure" =>
                              Range(Tail(s)) \subseteq Success
                        /\ worker[w].kind = "missing" => Deletes(w)'
      BY <1>1, <1>9 DEF Progress
    <3>1. /\ worker'[w].writes = Tail(s) /\ worker'[w].path = q
          /\ Range(Tail(s)) \subseteq Range(s) /\ Range(s) \ {x} \subseteq Range(Tail(s))
      BY <1>1 DEF q
    <3>2. ASSUME worker[w].kind = "success" PROVE (\E r \in Disk : Publishes(w, r))'
      BY <1>11, <3>1, <3>2 DEF Publishes
    <3>3. ASSUME worker[w].kind = "missing" PROVE Deletes(w)'
      BY <1>12, <3>1, <3>3 DEF Deletes
    <3> QED BY <1>13, <3>1, <3>2, <3>3
  <2> QED BY <2>1, <2>2 DEF Others
<1>15. \A v \in Workers : Settled(v)'
  <2>1. CASE \E v \in Others(w) : Writing(v)
    <3>1. mixed' = Paths  BY <1>2, <2>1 DEF MixedAfter
    <3> QED BY <3>1 DEF Settled
  <2>2. CASE \A v \in Others(w) : ~Writing(v)
    <3>1. ASSUME NEW p \in Paths \ mixed
          PROVE  /\ worker[w].alone
                 /\ \/ worker[w].kind = "missing"
                    \/ worker[w].kind = "success" /\ p = q
                    \/ Consistent(p)
      BY <1>3, <2>2 DEF Settled, q
    <3>2. ASSUME NEW p \in Paths \ mixed, Consistent(p), worker[w].kind # "missing",
                 worker[w].kind = "success" => p # q
          PROVE  Consistent(p)'
      <4>1. worker[w].alone  BY <3>1
      <4>2. CASE worker[w].kind = "success"
        <5>1. PICK r \in Disk : Range(s) \subseteq Goal(q, r)  BY <1>11, <4>1, <4>2
        <5>2. x \in Gauges /\ x.path = q
          BY <1>1, <1>4, <4>2, <5>1, GoalGauges
        <5> QED BY <1>2, <1>3, <3>2, <4>2, <5>2, Untouched
      <4>3. CASE worker[w].kind = "failure"
        <5>1. x \in Gauges /\ x.vec = "success"
          BY <1>1, <1>13, <4>1, <4>3 DEF Success
        <5> QED BY <1>2, <1>3, <3>2, <5>1, Untouched
      <4> QED BY <1>4, <3>2, <4>2, <4>3
    <3>3. CASE ~last
      <4>1. mixed' = mixed  BY <1>2, <2>2, <3>3 DEF MixedAfter
      <4>2. Settled(w)'
        <5> SUFFICES ASSUME NEW p \in Paths \ mixed
                     PROVE  /\ worker[w].alone
                            /\ \/ worker[w].kind = "missing"
                               \/ worker[w].kind = "success" /\ p = q
                               \/ Consistent(p)'
          BY <1>1, <1>9, <3>3, <4>1 DEF Settled, q
        <5> QED BY <3>1, <3>2
      <4>3. ASSUME NEW v \in Others(w) PROVE Settled(v)'
        <5>1. w \in Others(v)  BY DEF Others
        <5> QED BY <1>9, <3>3, <5>1 DEF Settled
      <4> QED BY <4>2, <4>3 DEF Others
    <3>4. CASE last
      <4>1. \A v \in Workers : ~Writing(v)'  BY <1>9, <2>2, <3>4 DEF Others
      <4>2. ASSUME NEW p \in Paths \ mixed' PROVE Consistent(p)'
        <5>1. Range(s) = {x}  BY <1>1, <3>4
        <5>2. CASE ~worker[w].alone
          BY <1>2, <2>2, <3>1, <5>2 DEF MixedAfter
        <5>3. CASE worker[w].alone /\ worker[w].kind = "success"
          <6>1. mixed' = mixed \ {q}  BY <1>2, <2>2, <3>4, <5>3 DEF MixedAfter, q
          <6>2. CASE p = q
            <7>1. PICK r \in Disk : Goal(q, r) \subseteq series'
              BY <1>11, <5>1, <5>3
            <7>2. Complete'  BY GoalConsistent, PTL
            <7> QED BY <1>5, <6>2, <7>1, <7>2 DEF Complete
          <6>3. CASE p # q  BY <3>1, <3>2, <5>3, <6>1, <6>3
          <6> QED BY <6>2, <6>3
        <5>4. CASE worker[w].alone /\ worker[w].kind = "missing"
          <6>1. \A vec \in Readings : \A t \in series' : t.vec # vec
            BY <1>12, <5>1, <5>4
          <6> QED BY <6>1 DEF Consistent, Of
        <5>5. CASE worker[w].alone /\ worker[w].kind = "failure"
          <6>1. mixed' = mixed  BY <1>2, <2>2, <5>5 DEF MixedAfter
          <6> QED BY <3>1, <3>2, <5>5, <6>1
        <5> QED BY <1>4, <5>2, <5>3, <5>4, <5>5
      <4> QED BY <4>1, <4>2 DEF Settled
    <3> QED BY <3>3, <3>4
  <2> QED BY <2>1, <2>2
<1> QED BY <1>7, <1>10, <1>14, <1>15 DEF IInv

-----------------------------------------------------------------------------
(* The other steps.                                                        *)

\* A goroutine begins to write.
LEMMA BeginsIInv ==
    ASSUME IInv, NEW w \in Workers, ~Writing(w),
           NEW kind \in {"success", "failure", "missing"},
           NEW path \in Paths \cup {NoPath}, kind # "missing" => path \in Paths,
           NEW writes \in Seq(Writes), writes # <<>>,
           kind = "success" => \E r \in Disk : Range(writes) = Goal(path, r),
           kind = "failure" => Range(writes) \subseteq Success,
           kind = "missing" => /\ Drops \subseteq Range(writes)
                               /\ Range(writes) \subseteq Drops \cup Success,
           Begins(w, kind, path, writes), UNCHANGED <<series, mixed>>,
           disk' \in Disk, stored' \in Paths \cup {None, NoPath},
           left' \in [changes : 0 .. MaxChanges, requests : 0 .. MaxRequests,
                      faults : 0 .. MaxFaults]
    PROVE  IInv'
<1> DEFINE free == \A v \in Others(w) : ~Writing(v)
<1>1. worker \in [Workers -> WorkerType]  BY DEF IInv, Types
<1>2. worker' = [worker EXCEPT ![w] =
        [held |-> None, writes |-> writes, path |-> path, kind |-> kind,
         alone |-> free]]
  BY DEF Begins
<1>3. /\ worker'[w] \in WorkerType /\ worker'[w].writes = writes
      /\ worker'[w].held = None /\ worker'[w].path = path /\ worker'[w].kind = kind
      /\ worker'[w].alone <=> free
  <2>1. worker'[w] = [held |-> None, writes |-> writes, path |-> path, kind |-> kind,
                      alone |-> free]
    BY <1>1, <1>2
  <2>2. free \in BOOLEAN  OBVIOUS
  <2> HIDE DEF free
  <2> QED BY <2>1, <2>2 DEF WorkerType
<1>4. \A v \in Others(w) : v \in Workers /\ worker'[v] = worker[v]
  BY <1>1, <1>2 DEF Others
<1>5. worker' \in [Workers -> WorkerType]  BY <1>1, <1>2, <1>3
<1>6. Types'  BY <1>5 DEF IInv, Types
<1>7. Writing(w)' /\ \A v \in Others(w) : Writing(v)' <=> Writing(v)
  BY <1>3, <1>4 DEF Writing
<1>8. \A v \in Workers : Begun(v)'
  <2>1. Begun(w)'  BY <1>3 DEF Begun
  <2>2. \A v \in Others(w) : Begun(v)'  BY <1>4, <1>7 DEF IInv, Begun
  <2> QED BY <2>1, <2>2 DEF Others
<1>9. \A v \in Workers : Progress(v)'
  <2>1. Progress(w)'
    <3>1. kind = "success" => (\E r \in Disk : Publishes(w, r))'
      BY <1>3 DEF Publishes
    <3>2. kind = "missing" => Deletes(w)'  BY <1>3 DEF Deletes, Drops
    <3> QED BY <1>3, <3>1, <3>2 DEF Progress
  <2>2. ASSUME NEW v \in Others(w) PROVE Progress(v)'
    <3>1. Progress(v)  BY <1>4 DEF IInv
    <3>2. \A r : Publishes(v, r)' <=> Publishes(v, r)  BY <1>4 DEF Publishes
    <3>3. Deletes(v)' <=> Deletes(v)  BY <1>4 DEF Deletes
    <3> QED BY <1>4, <1>7, <3>1, <3>2, <3>3 DEF Progress
  <2> QED BY <2>1, <2>2 DEF Others
<1>10. \A v \in Workers : Settled(v)'
  <2>1. Settled(w)'
    <3>1. CASE ~free  BY <1>7, <3>1 DEF Settled
    <3>2. CASE free
      <4>1. \A p \in Paths \ mixed : Consistent(p)  BY <3>2 DEF IInv, Settled
      <4>2. \A p : Consistent(p)' <=> Consistent(p)
        BY DEF Consistent, Of, OneHot
      <4> QED BY <1>3, <3>2, <4>1, <4>2 DEF Settled
    <3> QED BY <3>1, <3>2
  <2>2. ASSUME NEW v \in Others(w) PROVE Settled(v)'
    <3>1. w \in Others(v)  BY DEF Others
    <3> QED BY <1>7, <3>1 DEF Settled
  <2> QED BY <2>1, <2>2 DEF Others
<1> QED BY <1>6, <1>8, <1>9, <1>10 DEF IInv

\* What a step that writes nothing leaves as it is.
LEMMA IdleIInv ==
    ASSUME IInv, UNCHANGED <<series, mixed>>,
           worker' \in [Workers -> WorkerType],
           \A v \in Workers :
                /\ worker'[v].writes = worker[v].writes
                /\ worker'[v].path = worker[v].path /\ worker'[v].kind = worker[v].kind
                /\ worker'[v].alone = worker[v].alone
                /\ Writing(v) => worker'[v].held = worker[v].held,
           disk' \in Disk, stored' \in Paths \cup {None, NoPath},
           left' \in [changes : 0 .. MaxChanges, requests : 0 .. MaxRequests,
                      faults : 0 .. MaxFaults]
    PROVE  IInv'
<1>1. Types'  BY DEF IInv, Types
<1>2. \A v \in Workers : Writing(v)' <=> Writing(v)  BY DEF Writing
<1>3. \A v \in Workers : Begun(v)'  BY <1>2 DEF IInv, Begun
<1>4. ASSUME NEW v \in Workers PROVE Progress(v)'
  <2>1. Progress(v)  BY DEF IInv
  <2>2. \A r : Publishes(v, r)' <=> Publishes(v, r)  BY DEF Publishes
  <2>3. Deletes(v)' <=> Deletes(v)  BY DEF Deletes
  <2> QED BY <1>2, <2>1, <2>2, <2>3 DEF Progress
<1>5. ASSUME NEW v \in Workers PROVE Settled(v)'
  <2>1. Settled(v) /\ Others(v) \subseteq Workers  BY DEF IInv, Others
  <2>2. \A p : Consistent(p)' <=> Consistent(p)  BY DEF Consistent, Of, OneHot
  <2> QED BY <1>2, <2>1, <2>2 DEF Settled
<1> QED BY <1>1, <1>3, <1>4, <1>5 DEF IInv

\* A bound is used.
LEMMA UseFacts ==
    ASSUME Types, NEW bound \in {"changes", "requests", "faults"}, Use(bound)
    PROVE  left' \in [changes : 0 .. MaxChanges, requests : 0 .. MaxRequests,
                      faults : 0 .. MaxFaults]
<1>1. /\ left \in [changes : 0 .. MaxChanges, requests : 0 .. MaxRequests,
                   faults : 0 .. MaxFaults]
      /\ left[bound] > 0 /\ left' = [left EXCEPT ![bound] = @ - 1]
  BY DEF Types, Use
<1>2. CASE bound = "changes"  BY <1>1, <1>2, BoundsAssumption
<1>3. CASE bound = "requests"  BY <1>1, <1>3, BoundsAssumption
<1>4. CASE bound = "faults"  BY <1>1, <1>4, BoundsAssumption
<1> QED BY <1>2, <1>3, <1>4

\* Discovery hands a path to the goroutine, begins to delete, or finds nothing to do.
LEMMA DiscoverIInv ==
    ASSUME IInv, NEW w \in Workers, Discover(w),
           left' \in [changes : 0 .. MaxChanges, requests : 0 .. MaxRequests,
                      faults : 0 .. MaxFaults]
    PROVE  IInv'
<1>1. /\ UNCHANGED <<disk, series, mixed>> /\ ~Writing(w)
      /\ Types /\ disk \in Disk /\ disk' \in Disk /\ worker \in [Workers -> WorkerType]
      /\ stored \in Paths \cup {None, NoPath}
  BY DEF Discover, Resting, IInv, Types
<1>2. CASE /\ disk.path # None
           /\ worker' = [worker EXCEPT ![w].held = disk.path]
           /\ stored' = IF stored = None THEN NoPath ELSE stored
  <2>1. disk.path \in Paths  BY <1>1, <1>2, DiskFacts
  <2>2. ASSUME NEW v \in Workers
        PROVE  /\ worker'[v] \in WorkerType
               /\ worker'[v].writes = worker[v].writes
               /\ worker'[v].path = worker[v].path /\ worker'[v].kind = worker[v].kind
               /\ worker'[v].alone = worker[v].alone
               /\ v # w => worker'[v].held = worker[v].held
    <3>1. worker[v] \in WorkerType  BY <1>1
    <3>2. CASE v = w
      <4>1. worker'[v] = [worker[v] EXCEPT !.held = disk.path]  BY <1>1, <1>2, <3>2
      <4> QED BY <2>1, <3>1, <3>2, <4>1 DEF WorkerType
    <3>3. CASE v # w  BY <1>1, <1>2, <3>1, <3>3
    <3> QED BY <3>2, <3>3
  <2>3. worker' \in [Workers -> WorkerType]  BY <1>1, <1>2, <2>2
  <2>4. stored' \in Paths \cup {None, NoPath}  BY <1>1, <1>2
  <2> QED BY <1>1, <2>2, <2>3, <2>4, IdleIInv
<1>3. CASE /\ stored # None /\ Begins(w, "missing", stored, MarkMissing(stored))
           /\ UNCHANGED stored
  <2>1. stored \in Paths \cup {NoPath}  BY <1>1, <1>3
  <2>2. /\ MarkMissing(stored) \in Seq(Writes) /\ MarkMissing(stored) # <<>>
        /\ Range(MarkMissing(stored)) = Drops \cup {Set("success", stored, "", 0)}
        /\ Set("success", stored, "", 0) \in Success
    BY <2>1, MissingWrites, FailureWrites
  <2> QED BY <1>1, <1>3, <2>1, <2>2, BeginsIInv
<1>4. CASE UNCHANGED <<worker, stored>>
  BY <1>1, <1>4, IdleIInv
<1> QED BY <1>2, <1>3, <1>4 DEF Discover

\* smartctl's report is to be published, or its failure.
LEMMA CollectIInv ==
    ASSUME IInv, NEW w \in Workers, Collect(w)
    PROVE  IInv'
<1> DEFINE path == worker[w].held
<1>1. /\ UNCHANGED <<disk, stored, series, mixed>> /\ path # None
      /\ Types /\ disk \in Disk /\ disk' \in Disk /\ worker \in [Workers -> WorkerType]
      /\ stored' \in Paths \cup {None, NoPath}
  BY DEF Collect, IInv, Types
<1>2. path \in Paths  BY <1>1 DEF WorkerType
<1>3. ~Writing(w)  BY <1>1 DEF IInv, Begun
<1>4. CASE /\ Begins(w, "success", path, PublishSuccess(path, disk))
           /\ UNCHANGED left
  <2>1. left' \in [changes : 0 .. MaxChanges, requests : 0 .. MaxRequests,
                   faults : 0 .. MaxFaults]
    BY <1>1, <1>4 DEF Types
  <2>2. /\ PublishSuccess(path, disk) \in Seq(Writes)
        /\ PublishSuccess(path, disk) # <<>>
        /\ Range(PublishSuccess(path, disk)) = Goal(path, disk)
    BY <1>1, <1>2, PublishWrites
  <2> HIDE DEF path
  <2> QED BY <1>1, <1>2, <1>3, <1>4, <2>1, <2>2, BeginsIInv
<1>5. CASE /\ Begins(w, "failure", path, PublishFailure(path))
           /\ IF disk.path = path THEN Use("faults") ELSE UNCHANGED left
  <2>1. left' \in [changes : 0 .. MaxChanges, requests : 0 .. MaxRequests,
                   faults : 0 .. MaxFaults]
    <3>1. CASE Use("faults")  BY <1>1, <3>1, UseFacts
    <3>2. CASE UNCHANGED left  BY <1>1, <3>2 DEF Types
    <3> QED BY <1>5, <3>1, <3>2
  <2>2. /\ PublishFailure(path) \in Seq(Writes) /\ PublishFailure(path) # <<>>
        /\ Range(PublishFailure(path)) \subseteq Success
    BY <1>2, FailureWrites
  <2> HIDE DEF path
  <2> QED BY <1>1, <1>2, <1>3, <1>5, <2>1, <2>2, BeginsIInv
<1> QED BY <1>4, <1>5 DEF Collect

\* The disk changes; the gauges do not.
LEMMA ChangesIInv ==
    ASSUME IInv, NEW d, Changes(d)
    PROVE  IInv'
<1>1. /\ UNCHANGED <<stored, series, worker, mixed>> /\ disk' \in Disk /\ Types
      /\ Use("changes")
  BY DEF Changes, IInv
<1>2. left' \in [changes : 0 .. MaxChanges, requests : 0 .. MaxRequests,
                 faults : 0 .. MaxFaults]
  BY <1>1, UseFacts
<1>3. worker' \in [Workers -> WorkerType] /\ stored' \in Paths \cup {None, NoPath}
  BY <1>1 DEF Types
<1> QED BY <1>1, <1>2, <1>3, IdleIInv

-----------------------------------------------------------------------------
(* Theorems.                                                               *)

\* Nothing is exported at first.
LEMMA InitIInv ==
    ASSUME Init
    PROVE  IInv
<1>1. Idle \in WorkerType /\ Idle.writes = <<>>  BY EmptySeq DEF Idle, WorkerType
<1>2. worker \in [Workers -> WorkerType] /\ \A w \in Workers : ~Writing(w)
  BY <1>1 DEF Init, Writing
<1>3. left \in [changes : 0 .. MaxChanges, requests : 0 .. MaxRequests,
                faults : 0 .. MaxFaults]
  BY BoundsAssumption DEF Init
<1>4. Types  BY <1>2, <1>3 DEF Init, Types
<1>5. \A p : Consistent(p)  BY DEF Init, Consistent, Of
<1> QED BY <1>2, <1>4, <1>5 DEF IInv, Begun, Progress, Settled

\* Every step of the goroutines and of the disk preserves the invariant.
LEMMA NextIInv ==
    ASSUME IInv, [Next]_vars
    PROVE  IInv'
<1>1. CASE ScanDiscovers
  <2>1. left' \in [changes : 0 .. MaxChanges, requests : 0 .. MaxRequests,
                   faults : 0 .. MaxFaults]
    BY <1>1 DEF ScanDiscovers, IInv, Types
  <2> QED BY <1>1, <2>1, DiscoverIInv DEF ScanDiscovers, Workers
<1>2. CASE RecDiscovers
  <2>1. left' \in [changes : 0 .. MaxChanges, requests : 0 .. MaxRequests,
                   faults : 0 .. MaxFaults]
    BY <1>2, UseFacts DEF RecDiscovers, IInv
  <2> QED BY <1>2, <2>1, DiscoverIInv DEF RecDiscovers, Workers
<1>3. CASE \E w \in Workers : Reconciles(w)
  BY <1>3, CollectIInv, WriteGaugeIInv DEF Reconciles
<1>4. CASE Replug \/ Wear \/ Update \/ Heat
  BY <1>4, ChangesIInv DEF Replug, Wear, Update, Heat
<1>5. CASE UNCHANGED vars
  <2>1. UNCHANGED <<disk, stored, series, worker, mixed, left>>  BY <1>5 DEF vars
  <2> QED BY <2>1, IdleIInv DEF IInv, Types
<1> QED BY <1>1, <1>2, <1>3, <1>4, <1>5 DEF Next

\* The inductive invariant holds: what each goroutine that writes alone has written and
\* has still to write, and which paths are consistent meanwhile.
THEOREM Invariant == Spec => []IInv
<1>1. Init => IInv  BY InitIInv
<1>2. IInv /\ [Next]_vars => IInv'  BY NextIInv
<1> QED BY <1>1, <1>2, PTL DEF Spec

\* Types; no series is exported twice, and a temperature that is exported was
\* measured.
THEOREM TypeCorrect == Spec => []TypeOK
<1>1. ASSUME IInv PROVE TypeOK
  <2>1. Types  BY <1>1 DEF IInv
  <2>2. ASSUME NEW s \in series
        PROVE  /\ s.vec \in {"success", "device", "smart_status", "health", "temperature"}
               /\ s.path \in Paths \cup (IF s.vec = "success" THEN {NoPath} ELSE {})
               /\ s.vec = "temperature" => s.value > 0
    BY <2>1 DEF Types, Gauges, Readings
  <2>3. \A w \in Workers : worker[w].held \in Paths \cup {None}
    BY <2>1 DEF Types, WorkerType
  <2> QED BY <2>1, <2>2, <2>3 DEF TypeOK, Types, SameKey
<1> QED BY <1>1, Invariant, PTL

\* While nobody writes, the readings of each path are all there, with exactly one
\* status active, or none is, unless the scan and the controller's worker wrote at the
\* same time and no publication or deletion has run alone since: for any number of
\* paths, firmware versions, changes of the disk and edits of the spec.
THEOREM Consistency == Spec => []GaugesConsistent
<1>1. ASSUME IInv PROVE GaugesConsistent
  <2> SUFFICES ASSUME \A w \in Workers : ~Writing(w), NEW p \in Paths \ mixed
               PROVE  Consistent(p)
    BY DEF GaugesConsistent, Consistent, Readings
  <2>1. "scan" \in Workers /\ Others("scan") \subseteq Workers  BY DEF Workers, Others
  <2> QED BY <1>1, <2>1 DEF IInv, Settled
<1> QED BY <1>1, Invariant, PTL
=============================================================================
