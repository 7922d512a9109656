--------------------------- MODULE DiskSyncProofs ---------------------------
(***************************************************************************)
(* Proofs about DiskSync for every set of disks, foreign resources, places *)
(* and arguments, every set of exclusion rules and every number of         *)
(* disturbances.                                                           *)
(***************************************************************************)
EXTENDS DiskSync, TLAPS

-----------------------------------------------------------------------------
(* The inductive invariant.                                                *)

\* A resource as the daemon and its users leave it.
Consistent(cr) ==
    cr \in CR /\ (cr.collected = "Succeeded" => cr.degraded \in Assessed)

\* The steps that are about one disk of this node, those that have its path, and
\* those that have a copy of its resource.
OnDisk == {"missGet", "missUpdate", "get", "create", "label", "collect", "apply",
           "patch", "recDiscover", "recDelete", "drop"}
OnPlace == {"get", "create", "label", "collect", "apply", "patch"}
OnCopy == {"missUpdate", "label", "collect", "apply", "patch", "recDiscover"}

\* What a goroutine holds, whatever the API server has got meanwhile.
Sound(s) ==
    /\ s \in WorkerType
    /\ DOMAIN s.items \subseteq Disks
    /\ \A d \in s.todo : s.inv[d] # None
    /\ s.pc \in {"recGet", "recDiscover"} => s.disk \in Names /\ s.todo = {}
    /\ s.pc \in OnDisk => s.disk \in Disks
    /\ s.pc \in OnPlace => s.inv[s.disk] # None
    /\ s.pc \in OnCopy => Consistent(s.base)
    /\ s.pc \in {"apply", "patch"} => s.result \in Results
    /\ s.pc = "patch" =>
          s.out = Apply([s.base EXCEPT !.place = s.inv[s.disk]], s.result)

WorkersSound ==
    worker \in [Workers -> WorkerType] /\ \A w \in Workers : Sound(worker[w])

\* A copy that no write has outdated is the stored resource.
LatestIsStored ==
    \A w \in Workers :
        At(w, "missUpdate") /\ worker[w].latest => worker[w].base = crs[Disk(w)]

\* The last event of a disk is about its stored condition or about one that is
\* going to be stored, unless a patch of it got lost.
Announced(d) ==
    \/ told[d] = None
    \/ Exists(d) /\ told[d] = crs[d].degraded
    \/ \E w \in Workers :
          At(w, "patch") /\ Disk(w) = d /\ told[d] = worker[w].out.degraded

ToldIsStored == \A d \in Names : d \notin lost => Announced(d)

IInv ==
    /\ TypeOK
    /\ WorkersSound
    /\ \A d \in Names : Exists(d) => Consistent(crs[d])
    /\ LatestIsStored
    /\ HealthMatchesUnlessRaced
    /\ ToldIsStored

-----------------------------------------------------------------------------
(* Resources.                                                              *)

\* The stored copy of a resource is never taken for a resource that is gone.
LEMMA CRExists == \A cr \in CR : cr # NoCR
  BY DEF CR, NoCR

\* The resource createPhysicalDisk stores.
LEMMA NewCRConsistent == Consistent(NewCR)
<1>1. DefaultArgs \in Args
  BY ArgsAssumption DEF DefaultArgs
<1> QED
  BY <1>1 DEF Consistent, NewCR, CR, Healths, CollectedReasons, None

\* applyCollectionSuccess and applyCollectionFailure compute a whole status.
LEMMA ApplyConsistent ==
    ASSUME NEW cr, Consistent(cr), NEW p \in Places \cup {None}, NEW r \in Results
    PROVE  LET out == Apply([cr EXCEPT !.place = p], r) IN
           Consistent(out) /\ out.degraded \in Healths
  BY DEF Consistent, Apply, SetHealth, CR, Results, Assessed, Failures, Healths,
         CollectedReasons, None

-----------------------------------------------------------------------------
(* Goroutines.                                                             *)

\* A goroutine at rest.
LEMMA IdleSound == Sound(Idle)
<1>1. <<>> \in [{} -> Labels]
  OBVIOUS
<1>2. Idle \in WorkerType
  BY <1>1 DEF Idle, WorkerType, PCs, Inventory, Labels, Names
<1> QED
  BY <1>1, <1>2 DEF Sound, Idle, OnDisk, OnPlace, OnCopy

\* The end of a resource leaves the goroutine sound.
LEMMA DoneSound ==
    ASSUME NEW w \in Workers, NEW s, Sound(s)
    PROVE  Sound(Done(w, s))
<1>1. CASE w = "rec"
  BY <1>1, IdleSound DEF Done
<1>2. CASE w # "rec"
  <2> DEFINE t == Done(w, s)
  <2>1. /\ t \in WorkerType /\ t.pc \in {"absent", "next"}
        /\ t.items = s.items /\ t.todo = s.todo /\ t.inv = s.inv
    BY <1>2, ZenonT(60) DEF Done, Sound, WorkerType, PCs
  <2> HIDE DEF t
  <2>2. Sound(t)
    BY <2>1 DEF Sound, OnDisk, OnPlace, OnCopy
  <2> QED BY <2>2 DEF t
<1> QED BY <1>1, <1>2

\* A goroutine that has deleted a resource has its metrics to drop and nothing else
\* of it.
LEMMA DroppingIs ==
    ASSUME NEW s \in WorkerType, NEW d \in Names
    PROVE  LET t == Dropping(s, d) IN
           /\ t \in WorkerType /\ t.pc = "drop" /\ t.disk = d
           /\ t.inv = s.inv /\ t.items = s.items /\ t.todo = s.todo
  BY DEF Dropping, WorkerType, PCs

\* The same of a sound goroutine.
LEMMA DroppingSound ==
    ASSUME NEW s, Sound(s), NEW d \in Disks
    PROVE  Sound(Dropping(s, d))
<1> DEFINE t == Dropping(s, d)
<1>1. /\ t \in WorkerType /\ t.pc = "drop" /\ t.disk = d
      /\ t.inv = s.inv /\ t.items = s.items /\ t.todo = s.todo
  BY DroppingIs DEF Sound, Names
<1> HIDE DEF t
<1>2. Sound(t)
  BY <1>1 DEF Sound, OnDisk, OnPlace, OnCopy
<1> QED BY <1>2 DEF t

\* A write by somebody else costs a goroutine its latest version and nothing else.
LEMMA OutdatedSound ==
    ASSUME NEW ws \in [Workers -> WorkerType], \A w \in Workers : Sound(ws[w]),
           NEW d
    PROVE  /\ Outdated(ws, d) \in [Workers -> WorkerType]
           /\ \A w \in Workers : Sound(Outdated(ws, d)[w])
<1> SUFFICES ASSUME NEW w \in Workers
             PROVE  Outdated(ws, d)[w] \in WorkerType /\ Sound(Outdated(ws, d)[w])
  BY DEF Outdated
<1> DEFINE s == ws[w]
           t == [s EXCEPT !.latest = FALSE]
<1>1. Outdated(ws, d)[w] \in {s, t}
  BY DEF Outdated
<1>2. Sound(s) /\ s \in WorkerType
  BY DEF Sound
<1>3. /\ t \in WorkerType /\ t.pc = s.pc /\ t.inv = s.inv /\ t.items = s.items
      /\ t.todo = s.todo /\ t.disk = s.disk /\ t.base = s.base
      /\ t.result = s.result /\ t.out = s.out
  BY <1>2 DEF WorkerType
<1> HIDE DEF s, t
<1>4. Sound(t)
  BY <1>2, <1>3 DEF Sound
<1> QED BY <1>1, <1>2, <1>3, <1>4

\* A goroutine goes on with a sound record.
LEMMA BecomesSound ==
    ASSUME WorkersSound, NEW w \in Workers, NEW s, Sound(s), Becomes(w, s)
    PROVE  WorkersSound'
  BY DEF WorkersSound, Becomes, Sound

\* The same if it has stored a new version.
LEMMA BecomesAfterWriteSound ==
    ASSUME WorkersSound, NEW w \in Workers, NEW s, Sound(s), NEW d,
           BecomesAfterWrite(w, s, d)
    PROVE  WorkersSound'
<1> DEFINE ws == [worker EXCEPT ![w] = s]
<1>1. ws \in [Workers -> WorkerType] /\ \A v \in Workers : Sound(ws[v])
  BY DEF WorkersSound, Sound
<1>2. worker' = Outdated(ws, d)
  BY DEF BecomesAfterWrite
<1> HIDE DEF ws
<1> QED BY <1>1, <1>2, OutdatedSound DEF WorkersSound

\* What a goroutine has read is a consistent resource, found at a place.
LEMMA HoldCopySound ==
    ASSUME NEW s, Sound(s), s.disk \in Disks, s.inv[s.disk] # None,
           NEW cr, Consistent(cr)
    PROVE  Sound(HoldCopy(s, cr))
<1> DEFINE t == HoldCopy(s, cr)
<1>1. /\ t \in WorkerType /\ t.pc = "collect" /\ t.inv = s.inv
      /\ t.items = s.items /\ t.todo = s.todo /\ t.disk = s.disk /\ t.base = cr
  BY DEF HoldCopy, Sound, WorkerType, PCs, Consistent
<1> HIDE DEF t
<1>2. Sound(t)
  BY <1>1 DEF Sound, OnDisk, OnPlace, OnCopy
<1> QED BY <1>2 DEF t

\* DiscoverDisks returns a place or nothing for each disk.
LEMMA DiscoveredType ==
    ASSUME TypeOK
    PROVE  Discovered \in Inventory
  BY DEF TypeOK, Discovered, Inventory, Labels

\* ReconcileAll and markAbsentDisks keep the records sound.
LEMMA ReconcileAllSound == IInv /\ ReconcileAll => WorkersSound'
<1> SUFFICES ASSUME IInv, ReconcileAll PROVE WorkersSound'
  OBVIOUS
<1> DEFINE s == worker["scan"]
<1>0. WorkersSound /\ TypeOK
  BY DEF IInv
<1>1. "scan" \in Workers /\ Sound(s) /\ s \in WorkerType
  BY <1>0 DEF ReconcileAll, ScanDiscovers, ListDisks, ListFails, AbsentDelete,
              AbsentMark, AbsentDone, ScanNext, WorkersSound
<1>2. CASE ScanDiscovers
  <2> DEFINE t == [Idle EXCEPT !.pc = "list", !.inv = Discovered]
  <2>1. Sound(t)
    BY IdleSound, DiscoveredType, <1>0
    DEF Sound, Idle, WorkerType, PCs, OnDisk, OnPlace, OnCopy
  <2> HIDE DEF t
  <2> QED BY <1>0, <1>1, <1>2, <2>1, BecomesSound DEF ScanDiscovers, t
<1>3. CASE ListDisks
  <2> DEFINE t == [s EXCEPT !.pc = "absent",
                            !.items = [d \in Absent(s.inv) |-> crs[d].place]]
  <2>1. /\ Absent(s.inv) \subseteq Disks
        /\ \A d \in Absent(s.inv) : crs[d].place \in Labels
    BY <1>0, CRExists DEF Absent, Listed, Exists, Names, TypeOK, CR, Labels
  <2>2. [d \in Absent(s.inv) |-> crs[d].place] \in [Absent(s.inv) -> Labels]
    BY <2>1
  <2>3. t \in WorkerType
    <3> DEFINE f == [d \in Absent(s.inv) |-> crs[d].place]
    <3>1. f \in UNION {[S -> Labels] : S \in SUBSET Names}
      <4>1. Absent(s.inv) \in SUBSET Names
        BY <2>1 DEF Names
      <4> QED BY <2>2, <4>1
    <3> HIDE DEF f
    <3>2. [s EXCEPT !.pc = "absent", !.items = f] \in WorkerType
      BY <1>1, <3>1 DEF WorkerType, PCs
    <3> QED BY <3>2 DEF f
  <2>4. /\ t.pc = "absent" /\ t.inv = s.inv /\ t.todo = s.todo
        /\ DOMAIN t.items = Absent(s.inv)
    BY <1>1 DEF WorkerType
  <2> HIDE DEF t
  <2>5. Sound(t)
    BY <1>1, <2>1, <2>3, <2>4 DEF Sound, OnDisk, OnPlace, OnCopy
  <2> QED BY <1>0, <1>1, <1>3, <2>5, BecomesSound DEF ListDisks, t
<1>4. ASSUME Becomes("scan", ToReconcile(s)) PROVE WorkersSound'
  <2> DEFINE t == ToReconcile(s)
  <2>1. /\ t \in WorkerType /\ t.pc = "next" /\ t.inv = s.inv
        /\ t.items = s.items /\ \A d \in t.todo : s.inv[d] # None
    BY <1>1 DEF ToReconcile, WorkerType, PCs
  <2> HIDE DEF t
  <2>2. Sound(t)
    BY <1>1, <2>1 DEF Sound, OnDisk, OnPlace, OnCopy
  <2> QED BY <1>0, <1>1, <1>4, <2>2, BecomesSound DEF t
<1>5. ASSUME NEW d \in DOMAIN s.items, s.pc = "absent"
      PROVE  LET t == Without(s, d) IN
             /\ d \in Disks /\ s.items[d] \in Labels
             /\ Sound(t) /\ t.pc = "absent" /\ DOMAIN t.items \subseteq Disks
             /\ t.inv = s.inv /\ t.todo = s.todo
  <2> DEFINE t == Without(s, d)
  <2>1. PICK S \in SUBSET Names : s.items \in [S -> Labels]
    BY <1>1 DEF WorkerType
  <2>2. d \in Disks /\ s.items[d] \in Labels
    BY <1>1, <1>5, <2>1 DEF Sound
  <2>3. [e \in DOMAIN s.items \ {d} |-> s.items[e]] \in [S \ {d} -> Labels]
    BY <2>1
  <2>4. t \in WorkerType
    BY <1>1, <2>3 DEF Without, WorkerType
  <2>5. /\ t.pc = "absent" /\ t.inv = s.inv /\ t.todo = s.todo
        /\ DOMAIN t.items = DOMAIN s.items \ {d}
    BY <1>1, <1>5 DEF Without, WorkerType
  <2> HIDE DEF t
  <2>6. DOMAIN t.items \subseteq Disks
    BY <1>1, <2>5 DEF Sound
  <2>7. Sound(t)
    BY <1>1, <2>4, <2>5, <2>6 DEF Sound, OnDisk, OnPlace, OnCopy
  <2> QED BY <2>2, <2>5, <2>6, <2>7 DEF t
<1>6. CASE AbsentDelete
  <2>1. PICK d \in DOMAIN s.items :
            \/ DeleteExcluded("scan", Without(s, d), d)
            \/ Becomes("scan", Without(s, d))
    BY <1>6 DEF AbsentDelete
  <2>2. Sound(Without(s, d)) /\ d \in Disks
    BY <1>1, <1>5, <1>6 DEF AbsentDelete, At, Sound
  <2>3. Sound(Dropping(Without(s, d), d))
    BY <2>2, DroppingSound
  <2> QED
    BY <1>0, <1>1, <2>1, <2>2, <2>3, BecomesSound, BecomesAfterWriteSound
    DEF DeleteExcluded
<1>7. CASE AbsentMark
  <2>1. PICK d \in DOMAIN s.items :
            Becomes("scan", [Without(s, d) EXCEPT !.pc = "missGet", !.disk = d])
    BY <1>7 DEF AbsentMark
  <2> DEFINE u == Without(s, d)
             t == [u EXCEPT !.pc = "missGet", !.disk = d]
  <2>2. /\ d \in Disks /\ Sound(u) /\ u \in WorkerType
    BY <1>5, <1>7 DEF AbsentMark, At, Sound
  <2> HIDE DEF u
  <2>3. /\ t \in WorkerType /\ t.pc = "missGet" /\ t.inv = u.inv /\ t.disk = d
        /\ t.items = u.items /\ t.todo = u.todo
    BY <2>2 DEF WorkerType, PCs, Names
  <2> HIDE DEF t
  <2>4. Sound(t)
    BY <2>2, <2>3 DEF Sound, OnDisk, OnPlace, OnCopy
  <2> QED BY <1>0, <1>1, <2>1, <2>4, BecomesSound DEF t, u
<1>8. CASE ScanNext
  <2>1. CASE Becomes("scan", Idle)
    BY <1>0, <1>1, <2>1, BecomesSound, IdleSound
  <2>2. ASSUME NEW d \in s.todo,
               Becomes("scan", [s EXCEPT !.pc = "get", !.disk = d,
                                         !.todo = @ \ {d}])
        PROVE  WorkersSound'
    <3> DEFINE t == [s EXCEPT !.pc = "get", !.disk = d, !.todo = @ \ {d}]
    <3>1. /\ t \in WorkerType /\ t.pc = "get" /\ t.inv = s.inv /\ t.disk = d
          /\ t.items = s.items /\ t.todo = s.todo \ {d} /\ d \in Disks
      BY <1>1 DEF WorkerType, PCs, Names
    <3> HIDE DEF t
    <3>2. Sound(t)
      BY <1>1, <3>1 DEF Sound, OnDisk, OnPlace, OnCopy
    <3> QED BY <1>0, <1>1, <2>2, <3>2, BecomesSound DEF t
  <2> QED BY <1>8, <2>1, <2>2 DEF ScanNext
<1> QED BY <1>2, <1>3, <1>4, <1>6, <1>7, <1>8
        DEF ReconcileAll, ListFails, AbsentDone

\* So does Reconcile.
LEMMA ReconcileSound == IInv /\ Reconcile => WorkersSound'
<1> SUFFICES ASSUME IInv, Reconcile PROVE WorkersSound'
  OBVIOUS
<1> DEFINE s == worker["rec"]
<1>0. WorkersSound /\ TypeOK
  BY DEF IInv
<1>1. "rec" \in Workers /\ Sound(s) /\ s \in WorkerType
  BY <1>0 DEF Reconcile, TakeRequest, RecGet, RecDiscovers, RecDelete, WorkersSound
<1>2. CASE TakeRequest
  <2>1. PICK d \in queue :
            Becomes("rec", [Idle EXCEPT !.pc = "recGet", !.disk = d])
    BY <1>2 DEF TakeRequest
  <2> DEFINE t == [Idle EXCEPT !.pc = "recGet", !.disk = d]
  <2>2. Sound(t)
    BY IdleSound, <1>0 DEF TypeOK, Sound, Idle, WorkerType, PCs, OnDisk, OnPlace, OnCopy
  <2> HIDE DEF t
  <2> QED BY <1>0, <1>1, <2>1, <2>2, BecomesSound DEF t
<1>3. CASE RecGet
  <2> DEFINE d == Disk("rec")
             t == [s EXCEPT !.pc = "recDiscover", !.base = crs[d]]
  <2>1. CASE ~Exists(d) \/ d \in others
    BY <1>0, <1>1, <1>3, <2>1, IdleSound, BecomesSound DEF RecGet
  <2>2. CASE Exists(d) /\ d \notin others
    <3>1. d \in Disks /\ d \in Names /\ s.todo = {}
      BY <1>0, <1>1, <1>3, <2>2 DEF RecGet, At, Disk, Sound, Names, TypeOK
    <3>2. Consistent(crs[d])
      BY <2>2, <3>1 DEF IInv, Names
    <3>3. /\ t \in WorkerType /\ t.pc = "recDiscover" /\ t.inv = s.inv
          /\ t.items = s.items /\ t.todo = s.todo /\ t.disk = d
          /\ t.base = crs[d]
      BY <1>1, <3>2 DEF WorkerType, PCs, Consistent, Disk
    <3>4. Becomes("rec", t)
      BY <1>3, <2>2 DEF RecGet
    <3> HIDE DEF t, d
    <3>5. Sound(t)
      BY <1>1, <3>1, <3>2, <3>3 DEF Sound, OnDisk, OnPlace, OnCopy
    <3> QED BY <1>0, <1>1, <3>4, <3>5, BecomesSound
  <2> QED BY <2>1, <2>2
<1>4. CASE RecDiscovers
  <2> DEFINE d == Disk("rec")
             found == Discovered[d] # None
             excluded == ~found /\ Excluded(d, s.base.place)
             t == [s EXCEPT !.pc = IF found THEN "get"
                                   ELSE IF excluded THEN "recDelete" ELSE "missGet",
                            !.inv = IF found THEN Discovered ELSE @,
                            !.base = NoCR]
  <2>1. d \in Disks
    BY <1>1, <1>4 DEF RecDiscovers, At, Disk, Sound, OnDisk
  <2>2. Becomes("rec", t)
    BY <1>4 DEF RecDiscovers
  <2>3. s.todo = {}
    BY <1>1, <1>4 DEF RecDiscovers, At, Sound
  <2>4. Discovered \in Inventory
    BY <1>0, DiscoveredType
  <2>5. /\ t \in WorkerType /\ t.pc \in {"get", "recDelete", "missGet"}
        /\ t.pc = "get" => t.inv[d] # None
        /\ t.items = s.items /\ t.todo = {} /\ t.disk = d
    BY <1>1, <2>3, <2>4 DEF WorkerType, PCs, Disk
  <2> HIDE DEF t, d
  <2>6. Sound(t)
    BY <1>1, <2>1, <2>5 DEF Sound, OnDisk, OnPlace, OnCopy
  <2> QED BY <1>0, <1>1, <2>2, <2>6, BecomesSound
<1>5. CASE RecDelete
  <2>1. Disk("rec") \in Disks
    BY <1>1, <1>5 DEF RecDelete, At, Disk, Sound, OnDisk
  <2>2. Sound(Dropping(s, Disk("rec")))
    BY <1>1, <2>1, DroppingSound
  <2> QED
    BY <1>0, <1>1, <1>5, <2>2, BecomesSound, BecomesAfterWriteSound
    DEF RecDelete, DeleteExcluded
<1> QED BY <1>2, <1>3, <1>4, <1>5 DEF Reconcile

\* So do reconcileDisk and markDiskMissing, whether their calls succeed or not.
LEMMA WorkerStepSound ==
    ASSUME IInv, NEW w \in Workers, WorkerStep(w)
    PROVE  WorkersSound'
<1> DEFINE s == worker[w]
           d == Disk(w)
<1>0. WorkersSound /\ TypeOK
  BY DEF IInv
<1>1. Sound(s) /\ s \in WorkerType /\ s.disk = d
  BY <1>0 DEF WorkersSound, Disk
<1>2. ASSUME d \in Disks, Exists(d)
      PROVE  Consistent(crs[d])
  BY <1>2 DEF IInv, Names
<1>3. Sound(Done(w, s))
  BY <1>1, DoneSound
<1>4. CASE GetDisk(w)
  <2>1. d \in Disks /\ s.inv[d] # None /\ s.pc = "get"
    BY <1>1, <1>4 DEF GetDisk, At, Sound, OnDisk, OnPlace
  <2>2. CASE ~Exists(d)
    <3> DEFINE t == [s EXCEPT !.pc = "create"]
    <3>1. /\ t \in WorkerType /\ t.pc = "create" /\ t.inv = s.inv
          /\ t.items = s.items /\ t.todo = s.todo /\ t.disk = d
      BY <1>1 DEF WorkerType, PCs
    <3>2. Becomes(w, t)
      BY <1>4, <2>2 DEF GetDisk
    <3> HIDE DEF t, d
    <3>3. Sound(t)
      BY <1>1, <2>1, <3>1 DEF Sound, OnDisk, OnPlace, OnCopy
    <3> QED BY <1>0, <3>2, <3>3, BecomesSound
  <2>3. CASE Exists(d) /\ crs[d].label
    BY <1>0, <1>1, <1>2, <1>4, <2>1, <2>3, HoldCopySound, BecomesSound DEF GetDisk
  <2>4. CASE Exists(d) /\ ~crs[d].label
    <3> DEFINE t == [s EXCEPT !.pc = "label", !.base = crs[d]]
    <3>1. Consistent(crs[d])
      BY <1>2, <2>1, <2>4
    <3>2. /\ t \in WorkerType /\ t.pc = "label" /\ t.inv = s.inv
          /\ t.items = s.items /\ t.todo = s.todo /\ t.disk = d
          /\ t.base = crs[d]
      BY <1>1, <3>1 DEF WorkerType, PCs, Consistent
    <3>3. Becomes(w, t)
      BY <1>4, <2>4 DEF GetDisk
    <3> HIDE DEF t, d
    <3>4. Sound(t)
      BY <1>1, <2>1, <3>1, <3>2 DEF Sound, OnDisk, OnPlace, OnCopy
    <3> QED BY <1>0, <3>3, <3>4, BecomesSound
  <2> QED BY <2>2, <2>3, <2>4
<1>5. CASE CreateDisk(w)
  <2>1. d \in Disks /\ s.inv[d] # None
    BY <1>1, <1>5 DEF CreateDisk, At, Sound, OnDisk, OnPlace
  <2>2. Sound(HoldCopy(s, NewCR))
    BY <1>1, <2>1, HoldCopySound, NewCRConsistent
  <2> QED BY <1>0, <1>5, <2>2, BecomesAfterWriteSound DEF CreateDisk
<1>6. CASE LabelDisk(w)
  <2>1. d \in Disks /\ s.inv[d] # None /\ Consistent(s.base)
    BY <1>1, <1>6 DEF LabelDisk, At, Sound, OnDisk, OnPlace, OnCopy
  <2>2. ASSUME NEW cr, Consistent(cr)
        PROVE  Sound(HoldCopy(s, [cr EXCEPT !.label = TRUE]))
    <3>1. Consistent([cr EXCEPT !.label = TRUE])
      BY <2>2 DEF Consistent, CR
    <3> QED BY <1>1, <2>1, <3>1, HoldCopySound
  <2> QED
    BY <1>0, <1>2, <1>6, <2>1, <2>2, BecomesSound, BecomesAfterWriteSound
    DEF LabelDisk
<1>7. CASE Collect(w)
  <2>1. /\ d \in Disks /\ s.inv[d] # None /\ Consistent(s.base)
    BY <1>1, <1>7 DEF Collect, At, Sound, OnDisk, OnPlace, OnCopy
  <2>2. PICK r \in Results : Becomes(w, [s EXCEPT !.pc = "apply", !.result = r])
    BY <1>7 DEF Collect
  <2> DEFINE t == [s EXCEPT !.pc = "apply", !.result = r]
  <2>3. /\ t \in WorkerType /\ t.pc = "apply" /\ t.inv = s.inv /\ t.result = r
        /\ t.items = s.items /\ t.todo = s.todo /\ t.disk = d /\ t.base = s.base
    BY <1>1 DEF WorkerType, PCs
  <2> HIDE DEF t, d
  <2>4. Sound(t)
    BY <1>1, <2>1, <2>3 DEF Sound, OnDisk, OnPlace, OnCopy
  <2> QED BY <1>0, <2>2, <2>4, BecomesSound DEF t
<1>8. CASE ApplyResult(w)
  <2> DEFINE out == Apply([s.base EXCEPT !.place = s.inv[d]], s.result)
             t == [s EXCEPT !.pc = "patch", !.out = out]
  <2>1. /\ d \in Disks /\ s.inv[d] # None /\ Consistent(s.base)
        /\ s.result \in Results
    BY <1>1, <1>8 DEF ApplyResult, At, Sound, OnDisk, OnPlace, OnCopy
  <2>2. out \in CR
    <3>1. s.inv[d] \in Places \cup {None}
      BY <1>1, <2>1 DEF WorkerType, Inventory, Labels
    <3> QED BY <2>1, <3>1, ApplyConsistent DEF Consistent
  <2>3. Becomes(w, t)
    BY <1>8 DEF ApplyResult
  <2> HIDE DEF out, d
  <2>4. /\ t \in WorkerType /\ t.pc = "patch" /\ t.inv = s.inv
        /\ t.result = s.result /\ t.items = s.items /\ t.todo = s.todo
        /\ t.disk = d /\ t.base = s.base /\ t.out = out
    BY <1>1, <2>2 DEF WorkerType, PCs
  <2> HIDE DEF t
  <2>5. t.out = Apply([t.base EXCEPT !.place = t.inv[t.disk]], t.result)
    BY <2>4 DEF out
  <2>6. Sound(t)
    BY <1>1, <2>1, <2>4, <2>5 DEF Sound, OnDisk, OnPlace, OnCopy
  <2> QED BY <1>0, <2>3, <2>6, BecomesSound
<1>9. CASE PatchStatus(w)
  BY <1>0, <1>3, <1>9, BecomesSound, BecomesAfterWriteSound DEF PatchStatus
<1>10. CASE MissingGet(w)
  <2>1. d \in Disks /\ Exists(d)
    BY <1>1, <1>10 DEF MissingGet, At, Sound, OnDisk
  <2>2. Consistent(crs[d])
    BY <1>2, <2>1
  <2> DEFINE t == [s EXCEPT !.pc = "missUpdate", !.latest = TRUE, !.base = crs[d]]
  <2>3. /\ t \in WorkerType /\ t.pc = "missUpdate" /\ t.inv = s.inv
        /\ t.items = s.items /\ t.todo = s.todo /\ t.disk = d /\ t.base = crs[d]
    BY <1>1, <2>2 DEF WorkerType, PCs, Consistent
  <2>4. Becomes(w, t) \/ Becomes(w, Done(w, s))
    BY <1>10 DEF MissingGet
  <2> HIDE DEF t, d
  <2>5. Sound(t)
    BY <1>1, <2>1, <2>2, <2>3 DEF Sound, OnDisk, OnPlace, OnCopy
  <2> QED BY <1>0, <1>3, <2>4, <2>5, BecomesSound
<1>11. CASE MissingUpdate(w)
  BY <1>0, <1>3, <1>11, BecomesAfterWriteSound DEF MissingUpdate
<1>12. CASE MissingConflict(w)
  <2> DEFINE t == [s EXCEPT !.pc = "missGet", !.base = NoCR]
  <2>1. d \in Disks
    BY <1>1, <1>12 DEF MissingConflict, At, Sound, OnDisk
  <2>2. /\ t \in WorkerType /\ t.pc = "missGet" /\ t.inv = s.inv
        /\ t.items = s.items /\ t.todo = s.todo /\ t.disk = d
    BY <1>1 DEF WorkerType, PCs
  <2>3. Becomes(w, t)
    BY <1>12 DEF MissingConflict
  <2> HIDE DEF t, d
  <2>4. Sound(t)
    BY <1>1, <2>1, <2>2 DEF Sound, OnDisk, OnPlace, OnCopy
  <2> QED BY <1>0, <2>3, <2>4, BecomesSound
<1>13. CASE CallRefused(w) \/ CallFails(w) \/ DropMetrics(w)
  BY <1>0, <1>3, <1>13, BecomesSound DEF CallRefused, CallFails, Fails, DropMetrics
<1> QED
  BY <1>4, <1>5, <1>6, <1>7, <1>8, <1>9, <1>10, <1>11, <1>12, <1>13
  DEF WorkerStep, ReconcileDisk, MarkDiskMissing

\* Users, hot-plug and restarts only outdate copies.
LEMMA EnvironmentSound == IInv /\ Environment => WorkersSound'
<1> SUFFICES ASSUME IInv, Environment PROVE WorkersSound'
  OBVIOUS
<1>0. WorkersSound
  BY DEF IInv
<1>1. ASSUME NEW d, NEW cr, UserStores(d, cr)
      PROVE  WorkersSound'
  BY <1>0, <1>1, OutdatedSound DEF UserStores, WorkersSound
<1>2. CASE Users
  BY <1>1, <1>2 DEF Users, UserEdits, UserDeletes, UserUnlabels, UserCreates
<1>3. CASE Attach \/ Detach \/ Degrade
  BY <1>0, <1>3 DEF Attach, Detach, Degrade, UseHost, WorkersSound
<1>4. CASE Restart
  BY <1>4, IdleSound DEF Restart, WorkersSound, Sound
<1> QED BY <1>2, <1>3, <1>4 DEF Environment

\* Every step keeps every goroutine's record sound.
LEMMA StepSound == IInv /\ [Next]_vars => WorkersSound'
<1> SUFFICES ASSUME IInv, [Next]_vars PROVE WorkersSound'
  OBVIOUS
<1>1. CASE UNCHANGED vars
  BY <1>1 DEF IInv, WorkersSound, vars
<1> QED
  BY <1>1, ReconcileAllSound, ReconcileSound, WorkerStepSound, EnvironmentSound
  DEF Next, Monitor

-----------------------------------------------------------------------------
(* How resources are written.                                              *)

\* A resource is deleted, created, or changed in its spec, its label or its
\* DataCollected condition.
StoresKnown ==
    \E d \in Names :
        \/ d \in Disks /\ Stores(d, NoCR)
        \/ ~Exists(d) /\ \E l \in BOOLEAN : Stores(d, [NewCR EXCEPT !.label = l])
        \/ /\ Exists(d)
           /\ \E l \in BOOLEAN, a \in Args, c \in {crs[d].collected, "DiskMissing"} :
                 Stores(d, [crs[d] EXCEPT !.label = l, !.args = a,
                                          !.collected = c])

\* A patch that was to be stored may get lost instead, an event be emitted.
StoresNothing ==
    /\ UNCHANGED <<crs, others>> /\ lost \subseteq lost'
    /\ UNCHANGED told \/ \E w \in Workers : ApplyResult(w)

\* deleteIfExcluded deletes a resource of this node or finds none.
LEMMA DeleteExcludedStores ==
    ASSUME NEW w, NEW s, NEW d \in Disks, DeleteExcluded(w, s, d)
    PROVE  StoresNothing \/ StoresKnown
  BY DEF DeleteExcluded, StoresNothing, StoresKnown, Names, api

\* A user operation is counted.
LEMMA UserCounted ==
    ASSUME TypeOK, NEW op, UseUser(op)
    PROVE  ByUser
<1>1. left \in [host : 0 .. MaxHost, user : 0 .. MaxUser, fault : 0 .. MaxFault,
               restart : 0 .. MaxRestart, total : 0 .. MaxTotal]
  BY DEF TypeOK
<1>2. left.user \in Nat
  BY <1>1, BoundsAssumption
<1>3. left'.user = left.user - 1
  BY <1>1 DEF UseUser, Use
<1> QED BY <1>2, <1>3 DEF ByUser

\* A change of the label or of the spec leaves the other fields as they are.
LEMMA SameFields ==
    ASSUME NEW cr \in CR, NEW l \in BOOLEAN, NEW a \in Args
    PROVE  /\ [cr EXCEPT !.label = l] =
                [cr EXCEPT !.label = l, !.args = cr.args, !.collected = cr.collected]
           /\ [cr EXCEPT !.args = a] =
                [cr EXCEPT !.label = cr.label, !.args = a, !.collected = cr.collected]
           /\ cr.label \in BOOLEAN /\ cr.args \in Args
  BY DEF CR

\* These, and the merge patch of reconcileDisk, are all the writes there are.
LEMMA StepStores ==
    ASSUME IInv, [Next]_vars
    PROVE  \/ StoresNothing \/ StoresKnown
           \/ \E w \in Workers : PatchStatus(w)
<1>0. TypeOK /\ WorkersSound
  BY DEF IInv
<1>1. CASE UNCHANGED vars
  BY <1>1 DEF vars, api, StoresNothing
<1>2. CASE ReconcileAll
  <2>1. CASE AbsentDelete
    <3>1. PICK d \in DOMAIN worker["scan"].items :
              \/ DeleteExcluded("scan", Without(worker["scan"], d), d)
              \/ UNCHANGED api
      BY <2>1 DEF AbsentDelete
    <3>2. d \in Disks
      BY <1>0, <2>1, <3>1 DEF AbsentDelete, WorkersSound, Sound
    <3> QED BY <3>1, <3>2, DeleteExcludedStores DEF api, StoresNothing
  <2>2. CASE ~AbsentDelete
    BY <1>2, <2>2
    DEF ReconcileAll, ScanDiscovers, ListDisks, ListFails, AbsentMark, AbsentDone,
        ScanNext, api, StoresNothing
  <2> QED BY <2>1, <2>2
<1>3. CASE Reconcile
  <2>1. CASE RecDelete
    <3>1. Disk("rec") \in Disks
      BY <1>0, <2>1 DEF RecDelete, At, Disk, WorkersSound, Sound, OnDisk
    <3> QED BY <2>1, <3>1, DeleteExcludedStores DEF RecDelete
  <2>2. CASE ~RecDelete
    BY <1>3, <2>2 DEF Reconcile, TakeRequest, RecGet, RecDiscovers, api, StoresNothing
  <2> QED BY <2>1, <2>2
<1>4. ASSUME NEW w \in Workers, WorkerStep(w)
      PROVE  StoresNothing \/ StoresKnown \/ PatchStatus(w)
  <2> DEFINE s == worker[w]
             d == Disk(w)
  <2>0. Sound(s) /\ s.disk = d
    BY <1>0 DEF WorkersSound, Disk
  <2>1. CASE CreateDisk(w)
    <3>1. d \in Disks /\ ~Exists(d) /\ Stores(d, NewCR)
      BY <2>0, <2>1 DEF CreateDisk, At, Sound, OnDisk
    <3>2. NewCR = [NewCR EXCEPT !.label = TRUE]
      BY NewCRConsistent DEF Consistent, NewCR, CR
    <3> QED BY <3>1, <3>2 DEF StoresKnown, Names
  <2>2. CASE LabelDisk(w)
    <3>1. d \in Disks
      BY <2>0, <2>2 DEF LabelDisk, At, Sound, OnDisk
    <3>2. CASE UNCHANGED api
      BY <3>2 DEF api, StoresNothing
    <3>3. CASE Exists(d) /\ Stores(d, [crs[d] EXCEPT !.label = TRUE])
      <4>1. crs[d] \in CR
        BY <3>1, <3>3 DEF IInv, Consistent, Names
      <4>2. PICK l \in BOOLEAN, a \in Args :
                Stores(d, [crs[d] EXCEPT !.label = l, !.args = a,
                                         !.collected = crs[d].collected])
        BY <3>3, <4>1, ArgsAssumption, SameFields
      <4> QED BY <3>1, <3>3, <4>2 DEF StoresKnown, Names
    <3> QED BY <2>2, <3>2, <3>3 DEF LabelDisk
  <2>3. CASE MissingUpdate(w)
    <3>1. d \in Disks /\ Exists(d) /\ s.base = crs[d]
      BY <2>0, <2>3 DEF MissingUpdate, At, Sound, OnDisk, IInv, LatestIsStored
    <3>2. crs[d] \in CR
      BY <3>1 DEF IInv, Consistent, Names
    <3>3. Stores(d, [crs[d] EXCEPT !.collected = "DiskMissing"])
      BY <2>3, <3>1 DEF MissingUpdate
    <3> DEFINE cr == crs[d]
    <3>4. /\ [cr EXCEPT !.collected = "DiskMissing"] =
                [cr EXCEPT !.label = cr.label, !.args = cr.args,
                           !.collected = "DiskMissing"]
          /\ cr.label \in BOOLEAN /\ cr.args \in Args
      BY <3>2 DEF CR
    <3>5. PICK l \in BOOLEAN, a \in Args :
              Stores(d, [cr EXCEPT !.label = l, !.args = a,
                                   !.collected = "DiskMissing"])
      BY <3>3, <3>4
    <3> QED BY <3>1, <3>5 DEF StoresKnown, Names
  <2>4. CASE GetDisk(w) \/ Collect(w) \/ ApplyResult(w) \/ MissingGet(w)
             \/ MissingConflict(w) \/ DropMetrics(w) \/ CallRefused(w) \/ CallFails(w)
    BY <2>4
    DEF GetDisk, Collect, ApplyResult, MissingGet, MissingConflict, DropMetrics,
        CallRefused, CallFails, Fails, api, StoresNothing
  <2> QED BY <1>4, <2>1, <2>2, <2>3, <2>4
          DEF WorkerStep, ReconcileDisk, MarkDiskMissing
<1>5. CASE Users
  <2>2. CASE UserEdits
    <3>1. PICK d \in Names, a \in Args :
              Exists(d) /\ Stores(d, [crs[d] EXCEPT !.args = a])
      BY <2>2 DEF UserEdits, UserStores
    <3>2. crs[d] \in CR
      BY <3>1 DEF IInv, Consistent
    <3>3. PICK l \in BOOLEAN :
              Stores(d, [crs[d] EXCEPT !.label = l, !.args = a,
                                       !.collected = crs[d].collected])
      BY <3>1, <3>2, ArgsAssumption, SameFields
    <3> QED BY <3>1, <3>3 DEF StoresKnown
  <2>3. CASE UserDeletes
    BY <2>3 DEF UserDeletes, UserStores, StoresKnown, Names
  <2>4. CASE UserUnlabels
    <3>1. PICK d \in Disks :
              Exists(d) /\ Stores(d, [crs[d] EXCEPT !.label = FALSE])
      BY <2>4 DEF UserUnlabels, UserStores
    <3>2. crs[d] \in CR
      BY <3>1 DEF IInv, Consistent, Names
    <3>3. PICK a \in Args :
              Stores(d, [crs[d] EXCEPT !.label = FALSE, !.args = a,
                                       !.collected = crs[d].collected])
      BY <3>1, <3>2, ArgsAssumption, SameFields
    <3> QED BY <3>1, <3>3 DEF StoresKnown, Names
  <2>5. CASE UserCreates
    BY <2>5 DEF UserCreates, UserStores, StoresKnown, Names
  <2> QED BY <1>5, <2>2, <2>3, <2>4, <2>5 DEF Users
<1>6. CASE Attach \/ Detach \/ Degrade \/ Restart
  BY <1>6 DEF Attach, Detach, Degrade, UseHost, Restart, api, StoresNothing
<1> QED BY <1>1, <1>2, <1>3, <1>4, <1>5, <1>6 DEF Next, Monitor, Environment

\* A merge patch takes the two conditions from one copy, so that whatever is merged
\* into whatever, what is stored is consistent.
LEMMA MergedConsistent ==
    ASSUME NEW stored, Consistent(stored), NEW base, Consistent(base),
           NEW out, Consistent(out), NEW reworded \in BOOLEAN
    PROVE  Consistent(Merged(stored, base, out, reworded))
  BY DEF Consistent, Merged, CR

\* Equal statuses have equal fields.
LEMMA StatusFields ==
    ASSUME NEW a, NEW b, Status(a) = Status(b)
    PROVE  a.health = b.health /\ a.degraded = b.degraded
  BY DEF Status

\* A patch of the copy that is stored leaves the status that was computed.
LEMMA MergedUpToDate ==
    ASSUME NEW stored \in CR, NEW base \in CR, NEW out \in CR,
           NEW reworded \in BOOLEAN, Status(base) = Status(stored)
    PROVE  Status(Merged(stored, base, out, reworded)) = Status(out)
  BY DEF Merged, Status, CR

\* What PatchStatus stores, and that the disk counts as lost unless it is the
\* status that was computed.
LEMMA PatchStores ==
    ASSUME IInv, NEW w \in Workers, PatchStatus(w)
    PROVE  LET d == Disk(w)
               s == worker[w]
           IN /\ d \in Disks /\ Exists(d) /\ Consistent(s.base) /\ s.result \in Results
              /\ s.out = Apply([s.base EXCEPT !.place = s.inv[d]], s.result)
              /\ s.inv[d] \in Labels /\ At(w, "patch")
              /\ crs' \in [Names -> CR \cup {NoCR}] /\ Consistent(crs'[d])
              /\ \A e \in Names \ {d} : crs'[e] = crs[e]
              /\ d \notin lost' => /\ Status(s.base) = Status(crs[d])
                                   /\ Status(crs'[d]) = Status(s.out)
                                   /\ Agrees(s.result, told[d])
                                   /\ s.result \in Assessed \/ d \notin lost
              /\ \A e \in Names \ {d} : e \notin lost' => e \notin lost
              /\ lost' \subseteq Disks
<1> DEFINE d == Disk(w)
           s == worker[w]
<1>1. Sound(s) /\ s.disk = d /\ s.pc = "patch" /\ Exists(d)
  BY DEF IInv, WorkersSound, Disk, PatchStatus, At
<1>2. /\ d \in Disks /\ Consistent(s.base) /\ s.result \in Results
      /\ s.out = Apply([s.base EXCEPT !.place = s.inv[d]], s.result)
      /\ s.inv[d] \in Labels
  BY <1>1 DEF Sound, OnDisk, OnCopy, WorkerType, Inventory
<1>3. Consistent(s.out)
  BY <1>2, ApplyConsistent DEF Labels
<1>4. Consistent(crs[d])
  BY <1>1, <1>2 DEF IInv, Names
<1>5. PICK reworded \in BOOLEAN :
          /\ crs' = [crs EXCEPT ![d] = Merged(crs[d], s.base, s.out, reworded)]
          /\ lost' = IF ~UpToDate(w) \/ ~Agrees(s.result, told[d])
                     THEN lost \cup {d}
                     ELSE IF s.result \in Assessed THEN lost \ {d}
                     ELSE lost
  BY DEF PatchStatus
<1> DEFINE new == Merged(crs[d], s.base, s.out, reworded)
<1>6. Consistent(new)
  BY <1>2, <1>3, <1>4, MergedConsistent
<1>7. ASSUME UpToDate(w)
      PROVE  Status(s.base) = Status(crs[d]) /\ Status(new) = Status(s.out)
  <2>1. Status(s.base) = Status(crs[d])
    BY <1>7 DEF UpToDate
  <2> QED BY <1>2, <1>3, <1>4, <2>1, MergedUpToDate DEF Consistent
<1>8. d \notin lost' => UpToDate(w) /\ Agrees(s.result, told[d])
                       /\ (s.result \in Assessed \/ d \notin lost)
  BY <1>5
<1>9. /\ \A e \in Names \ {d} : e \notin lost' => e \notin lost
      /\ lost' \subseteq Disks
  BY <1>2, <1>5 DEF IInv, TypeOK
<1>10. /\ crs'[d] = new /\ crs' \in [Names -> CR \cup {NoCR}]
       /\ \A e \in Names \ {d} : crs'[e] = crs[e]
  BY <1>2, <1>5, <1>6 DEF IInv, TypeOK, Names, Consistent
<1> HIDE DEF new
<1> QED BY <1>1, <1>2, <1>6, <1>7, <1>8, <1>9, <1>10 DEF At

\* No step gives a resource to another node, and none takes one away but with the
\* resource itself.
LEMMA StepNames ==
    ASSUME IInv, [Next]_vars
    PROVE  /\ others' \subseteq others
           /\ Foreign \subseteq others'
           /\ (\A d \in others : Exists(d)) => \A d \in others' : Exists(d)'
<1>0. /\ Foreign \subseteq others /\ others \subseteq Names
      /\ crs \in [Names -> CR \cup {NoCR}]
  BY NamesAssumption DEF IInv, TypeOK, Names
<1>1. CASE StoresNothing
  BY <1>0, <1>1 DEF StoresNothing, Exists
<1>2. ASSUME NEW d \in Names, NEW cr, Stores(d, cr), cr = NoCR => d \in Disks
      PROVE  /\ others' \subseteq others
             /\ Foreign \subseteq others'
             /\ (\A e \in others : Exists(e)) => \A e \in others' : Exists(e)'
  <2>1. /\ crs' = [crs EXCEPT ![d] = cr]
        /\ others' = IF cr = NoCR THEN others \ {d} ELSE others
    BY <1>2 DEF Stores
  <2> QED BY <1>0, <1>2, <2>1, NamesAssumption DEF Exists
<1>3. CASE StoresKnown
  <2>1. PICK d \in Names :
            \/ d \in Disks /\ Stores(d, NoCR)
            \/ \E l \in BOOLEAN : Stores(d, [NewCR EXCEPT !.label = l])
            \/ /\ Exists(d)
               /\ \E l \in BOOLEAN, a \in Args,
                     c \in {crs[d].collected, "DiskMissing"} :
                     Stores(d, [crs[d] EXCEPT !.label = l, !.args = a,
                                              !.collected = c])
    BY <1>3 DEF StoresKnown
  <2>2. ASSUME NEW l \in BOOLEAN
        PROVE  [NewCR EXCEPT !.label = l] # NoCR
    BY NewCRConsistent, CRExists DEF Consistent, CR
  <2>3. ASSUME Exists(d), NEW l \in BOOLEAN, NEW a \in Args,
               NEW c \in {crs[d].collected, "DiskMissing"}
        PROVE  [crs[d] EXCEPT !.label = l, !.args = a, !.collected = c] # NoCR
    <3>1. crs[d] \in CR
      BY <1>0, <2>3 DEF Exists
    <3>2. [crs[d] EXCEPT !.label = l, !.args = a, !.collected = c] \in CR
      BY <2>3, <3>1 DEF CR, CollectedReasons, Failures
    <3> QED BY <3>2, CRExists
  <2>4. CASE d \in Disks /\ Stores(d, NoCR)
    BY <1>2, <2>4
  <2>5. ASSUME NEW l \in BOOLEAN, Stores(d, [NewCR EXCEPT !.label = l])
        PROVE  \E cr : Stores(d, cr) /\ cr # NoCR
    BY <2>2, <2>5
  <2>6. ASSUME Exists(d), NEW l \in BOOLEAN, NEW a \in Args,
               NEW c \in {crs[d].collected, "DiskMissing"},
               Stores(d, [crs[d] EXCEPT !.label = l, !.args = a, !.collected = c])
        PROVE  \E cr : Stores(d, cr) /\ cr # NoCR
    BY <2>3, <2>6
  <2> QED BY <1>2, <2>1, <2>4, <2>5, <2>6
<1>4. ASSUME NEW w \in Workers, PatchStatus(w)
      PROVE  /\ others' = others
             /\ \A d \in Names : Exists(d) => Exists(d)'
  <2>1. /\ Consistent(crs'[Disk(w)])
        /\ \A e \in Names \ {Disk(w)} : crs'[e] = crs[e]
    BY <1>4, PatchStores
  <2>2. crs'[Disk(w)] # NoCR
    BY <2>1, CRExists DEF Consistent
  <2> QED BY <1>4, <2>1, <2>2 DEF PatchStatus, Exists
<1> QED BY <1>0, <1>1, <1>3, <1>4, StepStores

\* What applyCollectionSuccess and applyCollectionFailure make of a copy: a
\* successful collection sets the health and the condition, a failed one leaves
\* them or, if there is none yet, makes both Unknown.
LEMMA ApplyHealth ==
    ASSUME NEW cr \in CR, NEW p, NEW r \in Results
    PROVE  LET out == Apply([cr EXCEPT !.place = p], r) IN
           /\ r \in Assessed => out.health = r /\ out.degraded = r
           /\ r \notin Assessed => \/ out.health = cr.health /\ out.degraded = cr.degraded
                                     /\ cr.health # None
                                  \/ /\ cr.health = None
                                     /\ out.health = "Unknown" /\ out.degraded = "Unknown"
  BY DEF Apply, SetHealth, CR

\* What a step may do to a resource that is there before and after it.
HealthKept(d) ==
    Exists(d) /\ crs[d].health \in Assessed /\ crs'[d] # NoCR /\ d \notin lost' =>
        crs'[d].health \in Assessed

\* Every step leaves consistent resources whose health is their condition unless a
\* patch got lost, and keeps a known health.
LEMMA StepResources ==
    ASSUME IInv, [Next]_vars
    PROVE  /\ crs' \in [Names -> CR \cup {NoCR}]
           /\ \A d \in Names : Exists(d)' => Consistent(crs'[d])
           /\ HealthMatchesUnlessRaced'
           /\ \A d \in Names : HealthKept(d)
<1>0. /\ crs \in [Names -> CR \cup {NoCR}] /\ lost \subseteq Disks
      /\ \A d \in Names : Exists(d) => Consistent(crs[d])
      /\ HealthMatchesUnlessRaced
  BY DEF IInv, TypeOK
<1>1. CASE StoresNothing
  <2>1. /\ crs' = crs /\ \A d : d \notin lost' => d \notin lost
        /\ \A d : Exists(d)' <=> Exists(d)
    BY <1>1 DEF StoresNothing, Exists
  <2> QED BY <1>0, <2>1 DEF HealthMatchesUnlessRaced, HealthKept
<1>2. CASE StoresKnown
  <2>1. PICK d \in Names :
            \/ Stores(d, NoCR)
            \/ /\ ~Exists(d)
               /\ \E l \in BOOLEAN : Stores(d, [NewCR EXCEPT !.label = l])
            \/ /\ Exists(d)
               /\ \E l \in BOOLEAN, a \in Args,
                     c \in {crs[d].collected, "DiskMissing"} :
                     Stores(d, [crs[d] EXCEPT !.label = l, !.args = a,
                                              !.collected = c])
    BY <1>2 DEF StoresKnown
  <2>2. \E cr : /\ Stores(d, cr)
                /\ \/ cr = NoCR
                   \/ /\ Consistent(cr)
                      /\ d \notin lost => cr.health = cr.degraded
                      /\ Exists(d) => cr.health = crs[d].health
    <3>1. CASE Stores(d, NoCR)
      BY <3>1
    <3>2. ASSUME ~Exists(d), NEW l \in BOOLEAN, Stores(d, [NewCR EXCEPT !.label = l])
          PROVE  <2>2
      <4> DEFINE cr == [NewCR EXCEPT !.label = l]
      <4>1. Consistent(cr) /\ cr.health = cr.degraded
        BY NewCRConsistent DEF Consistent, CR, NewCR
      <4> HIDE DEF cr
      <4> QED BY <3>2, <4>1 DEF cr
    <3>3. ASSUME Exists(d), NEW l \in BOOLEAN, NEW a \in Args,
                 NEW c \in {crs[d].collected, "DiskMissing"},
                 Stores(d, [crs[d] EXCEPT !.label = l, !.args = a, !.collected = c])
          PROVE  <2>2
      <4> DEFINE cr == [crs[d] EXCEPT !.label = l, !.args = a, !.collected = c]
      <4>1. Consistent(crs[d]) /\ (d \notin lost => crs[d].health = crs[d].degraded)
        BY <1>0, <3>3 DEF HealthMatchesUnlessRaced
      <4>2. Consistent(cr) /\ cr.health = crs[d].health /\ cr.degraded = crs[d].degraded
        BY <3>3, <4>1 DEF Consistent, CR, CollectedReasons, Failures
      <4> HIDE DEF cr
      <4> QED BY <3>3, <4>1, <4>2 DEF cr
    <3> QED BY <2>1, <3>1, <3>2, <3>3
  <2>3. PICK cr : /\ Stores(d, cr)
                  /\ \/ cr = NoCR
                     \/ /\ Consistent(cr)
                        /\ d \notin lost => cr.health = cr.degraded
                        /\ Exists(d) => cr.health = crs[d].health
    BY <2>2
  <2>4. /\ crs' = [crs EXCEPT ![d] = cr]
        /\ lost' = IF cr = NoCR THEN lost \ {d} ELSE lost
    BY <2>3 DEF Stores
  <2>5. crs' \in [Names -> CR \cup {NoCR}]
    BY <1>0, <2>3, <2>4 DEF Consistent
  <2>6. \A e \in Names : Exists(e)' => Consistent(crs'[e])
    BY <1>0, <2>3, <2>4 DEF Exists
  <2>7. HealthMatchesUnlessRaced'
    BY <1>0, <2>3, <2>4 DEF HealthMatchesUnlessRaced, Exists
  <2>8. \A e \in Names : HealthKept(e)
    BY <1>0, <2>3, <2>4 DEF HealthKept
  <2> QED BY <2>5, <2>6, <2>7, <2>8
<1>3. ASSUME NEW w \in Workers, PatchStatus(w)
      PROVE  /\ crs' \in [Names -> CR \cup {NoCR}]
             /\ \A d \in Names : Exists(d)' => Consistent(crs'[d])
             /\ HealthMatchesUnlessRaced'
             /\ \A d \in Names : HealthKept(d)
  <2> DEFINE d == Disk(w)
             s == worker[w]
             new == crs'[d]
  <2>1. /\ d \in Disks /\ Exists(d) /\ Consistent(s.base) /\ s.result \in Results
        /\ s.out = Apply([s.base EXCEPT !.place = s.inv[d]], s.result)
        /\ d \notin lost' => s.result \in Assessed \/ d \notin lost
        /\ \A e \in Names \ {d} : e \notin lost' => e \notin lost
    BY <1>3, PatchStores
  <2>2. /\ crs' \in [Names -> CR \cup {NoCR}] /\ Consistent(new)
        /\ \A e \in Names \ {d} : crs'[e] = crs[e]
        /\ d \notin lost' => /\ Status(s.base) = Status(crs[d])
                             /\ Status(new) = Status(s.out)
                             /\ Agrees(s.result, told[d])
                             /\ s.result \in Assessed \/ d \notin lost
    BY <1>3, PatchStores
  <2>3. /\ s.result \in Assessed => s.out.health = s.result /\ s.out.degraded = s.result
        /\ s.result \notin Assessed =>
              \/ /\ s.out.health = s.base.health /\ s.out.degraded = s.base.degraded
                 /\ s.base.health # None
              \/ /\ s.base.health = None
                 /\ s.out.health = "Unknown" /\ s.out.degraded = "Unknown"
    BY <2>1, ApplyHealth DEF Consistent
  <2>4. ASSUME d \notin lost'
        PROVE  /\ new.health = new.degraded
               /\ crs[d].health \in Assessed => new.health \in Assessed
    <3>1. /\ s.base.health = crs[d].health /\ s.base.degraded = crs[d].degraded
          /\ new.health = s.out.health /\ new.degraded = s.out.degraded
      BY <2>2, <2>4, StatusFields
    <3>2. s.result \in Assessed \/ crs[d].health = crs[d].degraded
      BY <1>0, <2>1, <2>4 DEF HealthMatchesUnlessRaced, Names
    <3> QED BY <2>3, <3>1, <3>2 DEF Assessed, None
  <2> HIDE DEF d, s, new
  <2>6. \A e \in Names : Exists(e)' => Consistent(crs'[e])
    BY <1>0, <2>2 DEF Exists, new
  <2>7. HealthMatchesUnlessRaced'
    BY <1>0, <2>1, <2>2, <2>4 DEF HealthMatchesUnlessRaced, Exists, new
  <2>8. \A e \in Names : HealthKept(e)
    BY <1>0, <2>2, <2>4 DEF HealthKept, new
  <2> QED BY <2>2, <2>6, <2>7, <2>8
<1> QED BY <1>1, <1>2, <1>3, StepStores

-----------------------------------------------------------------------------
(* Copies and pending patches.                                             *)

\* No goroutine gives up a status it is about to patch.
PatchersKept ==
    \A v \in Workers :
        At(v, "patch") => /\ worker'[v].pc = "patch" /\ worker'[v].disk = Disk(v)
                          /\ worker'[v].out = worker[v].out

\* What the loss of the latest version leaves as it is.
LEMMA OutdatedKeeps ==
    ASSUME NEW ws \in [Workers -> WorkerType], NEW v \in Workers, NEW d
    PROVE  LET t == Outdated(ws, d)[v]
               s == ws[v]
           IN /\ t.pc = s.pc /\ t.disk = s.disk /\ t.base = s.base /\ t.out = s.out
              /\ t.latest => s.latest /\ s.disk # d
  BY DEF Outdated, WorkerType

\* A goroutine that goes on without writing makes no other copy outdated.
LEMMA MoveFacts ==
    ASSUME IInv, NEW w \in Workers, NEW s, Becomes(w, s), crs' = crs,
           s.pc = "missUpdate" => s.base = crs[s.disk]
    PROVE  LatestIsStored' /\ (~At(w, "patch") => PatchersKept)
<1>1. /\ worker'[w] = s
      /\ \A v \in Workers \ {w} : worker'[v] = worker[v]
  BY DEF IInv, WorkersSound, Becomes
<1>2. LatestIsStored'
  BY <1>1 DEF IInv, LatestIsStored, At, Disk
<1> QED BY <1>1, <1>2 DEF PatchersKept, At, Disk

\* A write takes the latest version away from everyone who holds one of its
\* resource.
LEMMA WriteFacts ==
    ASSUME IInv, NEW w \in Workers, NEW s \in WorkerType, NEW d,
           BecomesAfterWrite(w, s, d), \A e \in Names \ {d} : crs'[e] = crs[e],
           s.pc # "missUpdate"
    PROVE  LatestIsStored' /\ (~At(w, "patch") => PatchersKept)
<1> DEFINE ws == [worker EXCEPT ![w] = s]
<1>1. /\ ws \in [Workers -> WorkerType] /\ ws[w] = s
      /\ \A v \in Workers \ {w} : ws[v] = worker[v]
  BY DEF IInv, WorkersSound
<1>2. worker' = Outdated(ws, d)
  BY DEF BecomesAfterWrite
<1> HIDE DEF ws
<1>3. \A v \in Workers :
          /\ worker'[v].pc = ws[v].pc /\ worker'[v].disk = ws[v].disk
          /\ worker'[v].base = ws[v].base /\ worker'[v].out = ws[v].out
          /\ worker'[v].latest => ws[v].latest /\ ws[v].disk # d
  BY <1>1, <1>2, OutdatedKeeps
<1>4. ASSUME NEW v \in Workers, worker'[v].pc = "missUpdate", worker'[v].latest
      PROVE  worker'[v].base = crs'[worker'[v].disk]
  <2>1. /\ v # w /\ worker[v].pc = "missUpdate" /\ worker[v].latest
        /\ worker'[v].base = worker[v].base /\ worker'[v].disk = worker[v].disk
        /\ worker[v].disk # d
    BY <1>1, <1>3, <1>4
  <2>2. worker[v].base = crs[worker[v].disk]
    BY <2>1 DEF IInv, LatestIsStored, At, Disk
  <2>3. worker[v].disk \in Names
    BY <2>1 DEF IInv, WorkersSound, Sound, OnDisk, Names
  <2> QED BY <2>1, <2>2, <2>3
<1>5. LatestIsStored'
  BY <1>4 DEF LatestIsStored, At, Disk
<1> QED BY <1>1, <1>3, <1>5 DEF PatchersKept, At, Disk

\* So does a write by a user.
LEMMA UserFacts ==
    ASSUME IInv, NEW d \in Names, NEW cr, UserStores(d, cr)
    PROVE  LatestIsStored' /\ PatchersKept
<1>1. /\ worker \in [Workers -> WorkerType] /\ worker' = Outdated(worker, d)
      /\ \A e \in Names \ {d} : crs'[e] = crs[e]
  BY DEF IInv, WorkersSound, TypeOK, UserStores, Stores
<1>2. \A v \in Workers :
          /\ worker'[v].pc = worker[v].pc /\ worker'[v].disk = worker[v].disk
          /\ worker'[v].base = worker[v].base /\ worker'[v].out = worker[v].out
          /\ worker'[v].latest => worker[v].latest /\ worker[v].disk # d
  BY <1>1, OutdatedKeeps
<1>3. ASSUME NEW v \in Workers, worker'[v].pc = "missUpdate", worker'[v].latest
      PROVE  worker'[v].base = crs'[worker'[v].disk]
  <2>1. worker[v].base = crs[worker[v].disk]
    BY <1>2, <1>3 DEF IInv, LatestIsStored, At, Disk
  <2>2. worker[v].disk \in Names
    BY <1>2, <1>3 DEF IInv, WorkersSound, Sound, OnDisk, Names
  <2> QED BY <1>1, <1>2, <1>3, <2>1, <2>2
<1>4. LatestIsStored'
  BY <1>3 DEF LatestIsStored, At, Disk
<1> QED BY <1>2, <1>4 DEF PatchersKept, At, Disk

\* The end of a resource is no copy of it.
LEMMA DonePC ==
    ASSUME NEW w \in Workers, NEW s \in WorkerType
    PROVE  Done(w, s).pc \in {"idle", "absent", "next"}
  BY DEF Done, Idle, WorkerType

\* deleteIfExcluded writes at most its own resource.
LEMMA DeleteFacts ==
    ASSUME IInv, NEW w \in Workers, NEW s \in WorkerType, NEW d \in Names,
           DeleteExcluded(w, s, d)
    PROVE  LatestIsStored' /\ (~At(w, "patch") => PatchersKept)
<1> DEFINE t == Dropping(s, d)
<1>0. t \in WorkerType /\ t.pc # "missUpdate"
  BY DroppingIs
<1>3. \/ Becomes(w, t) /\ UNCHANGED api
      \/ Stores(d, NoCR) /\ BecomesAfterWrite(w, t, d)
  BY DEF DeleteExcluded
<1> HIDE DEF t
<1>1. CASE Becomes(w, t) /\ UNCHANGED api
  BY <1>0, <1>1, MoveFacts DEF api
<1>2. CASE Stores(d, NoCR) /\ BecomesAfterWrite(w, t, d)
  <2>1. \A e \in Names \ {d} : crs'[e] = crs[e]
    BY <1>2 DEF Stores, IInv, TypeOK
  <2> QED BY <1>0, <1>2, <2>1, WriteFacts
<1> QED BY <1>1, <1>2, <1>3

\* After every step a copy that counts as the latest is the stored resource, and
\* only a patch, a failing call and a restart end a pending patch.
LEMMA StepCopies ==
    ASSUME IInv, [Next]_vars
    PROVE  /\ LatestIsStored'
           /\ \/ PatchersKept \/ Restart
              \/ \E w \in Workers : PatchStatus(w) \/ Fails(w)
<1>0. /\ TypeOK /\ WorkersSound
      /\ \A w \in Workers : worker[w] \in WorkerType /\ Sound(worker[w])
  BY DEF IInv, WorkersSound
<1>1. CASE UNCHANGED <<worker, crs>>
  BY <1>1 DEF IInv, LatestIsStored, PatchersKept, At, Disk
<1>2. CASE ReconcileAll
  <2> DEFINE s == worker["scan"]
  <2>0. "scan" \in Workers /\ s \in WorkerType /\ ~At("scan", "patch")
    BY <1>0, <1>2 DEF ReconcileAll, ScanDiscovers, ListDisks, ListFails,
                      AbsentDelete, AbsentMark, AbsentDone, ScanNext, At
  <2>1. CASE ScanDiscovers
    <3> DEFINE t == [Idle EXCEPT !.pc = "list", !.inv = Discovered]
    <3>1. t.pc = "list"
      BY DEF Idle
    <3>2. Becomes("scan", t) /\ crs' = crs
      BY <2>1 DEF ScanDiscovers, api
    <3> HIDE DEF t
    <3> QED BY <2>0, <3>1, <3>2, MoveFacts
  <2>2. CASE ListDisks
    <3> DEFINE t == [s EXCEPT !.pc = "absent",
                              !.items = [d \in Absent(s.inv) |-> crs[d].place]]
    <3>1. t.pc = "absent"
      BY <2>0 DEF WorkerType
    <3>2. Becomes("scan", t) /\ crs' = crs
      BY <2>2 DEF ListDisks, api
    <3> HIDE DEF t
    <3> QED BY <2>0, <3>1, <3>2, MoveFacts
  <2>3. CASE ListFails \/ AbsentDone
    <3>1. ToReconcile(s).pc = "next"
      BY <2>0 DEF ToReconcile, WorkerType
    <3>2. Becomes("scan", ToReconcile(s)) /\ crs' = crs
      BY <2>3 DEF ListFails, AbsentDone, api
    <3> QED BY <2>0, <3>1, <3>2, MoveFacts
  <2>4. ASSUME NEW d \in DOMAIN s.items, s.pc = "absent"
        PROVE  Without(s, d) \in WorkerType /\ Without(s, d).pc = "absent"
    <3>1. PICK S \in SUBSET Names : s.items \in [S -> Labels]
      BY <2>0 DEF WorkerType
    <3>2. [e \in DOMAIN s.items \ {d} |-> s.items[e]] \in [S \ {d} -> Labels]
      BY <3>1
    <3> QED BY <2>0, <2>4, <3>2 DEF Without, WorkerType
  <2>5. CASE AbsentDelete
    <3>1. PICK d \in DOMAIN s.items :
              \/ DeleteExcluded("scan", Without(s, d), d)
              \/ Becomes("scan", Without(s, d)) /\ crs' = crs
      BY <2>5 DEF AbsentDelete, api
    <3>2. Without(s, d) \in WorkerType /\ Without(s, d).pc = "absent"
      BY <2>4, <2>5 DEF AbsentDelete, At
    <3>3. d \in Names
      BY <1>0, <2>0, <3>1 DEF Sound, Names
    <3> QED BY <2>0, <3>1, <3>2, <3>3, DeleteFacts, MoveFacts
  <2>6. CASE AbsentMark
    <3>1. PICK d \in DOMAIN s.items :
              Becomes("scan", [Without(s, d) EXCEPT !.pc = "missGet", !.disk = d])
      BY <2>6 DEF AbsentMark
    <3> DEFINE t == [Without(s, d) EXCEPT !.pc = "missGet", !.disk = d]
    <3>2. t.pc = "missGet"
      BY <2>4, <2>6 DEF AbsentMark, At, WorkerType
    <3>3. crs' = crs
      BY <2>6 DEF AbsentMark, api
    <3> HIDE DEF t
    <3> QED BY <2>0, <3>1, <3>2, <3>3, MoveFacts DEF t
  <2>7. CASE ScanNext
    <3>1. crs' = crs
      BY <2>7 DEF ScanNext, api
    <3>2. CASE Becomes("scan", Idle)
      BY <2>0, <3>1, <3>2, MoveFacts DEF Idle
    <3>3. ASSUME NEW d \in s.todo,
                 Becomes("scan", [s EXCEPT !.pc = "get", !.disk = d, !.todo = @ \ {d}])
          PROVE  LatestIsStored' /\ PatchersKept
      <4> DEFINE t == [s EXCEPT !.pc = "get", !.disk = d, !.todo = @ \ {d}]
      <4>1. t.pc = "get"
        BY <2>0 DEF WorkerType
      <4> HIDE DEF t
      <4> QED BY <2>0, <3>1, <3>3, <4>1, MoveFacts DEF t
    <3> QED BY <2>7, <3>2, <3>3 DEF ScanNext
  <2> QED BY <1>2, <2>1, <2>2, <2>3, <2>5, <2>6, <2>7 DEF ReconcileAll
<1>3. CASE Reconcile
  <2> DEFINE s == worker["rec"]
  <2>0. "rec" \in Workers /\ s \in WorkerType /\ ~At("rec", "patch")
    BY <1>0, <1>3 DEF Reconcile, TakeRequest, RecGet, RecDiscovers, RecDelete, At
  <2>1. CASE TakeRequest
    <3>1. PICK d \in queue : Becomes("rec", [Idle EXCEPT !.pc = "recGet", !.disk = d])
      BY <2>1 DEF TakeRequest
    <3> DEFINE t == [Idle EXCEPT !.pc = "recGet", !.disk = d]
    <3>2. t.pc = "recGet"
      BY DEF Idle
    <3>3. crs' = crs
      BY <2>1 DEF TakeRequest, api
    <3> HIDE DEF t
    <3> QED BY <2>0, <3>1, <3>2, <3>3, MoveFacts DEF t
  <2>2. CASE RecGet
    <3> DEFINE d == Disk("rec")
               t == IF ~Exists(d) \/ d \in others THEN Idle
                    ELSE [s EXCEPT !.pc = "recDiscover", !.base = crs[d]]
    <3>1. t.pc # "missUpdate"
      BY <2>0 DEF Idle, WorkerType
    <3>2. Becomes("rec", t) /\ crs' = crs
      BY <2>2 DEF RecGet, api
    <3> HIDE DEF t
    <3> QED BY <2>0, <3>1, <3>2, MoveFacts
  <2>3. CASE RecDiscovers
    <3> DEFINE d == Disk("rec")
               found == Discovered[d] # None
               excluded == ~found /\ Excluded(d, s.base.place)
               t == [s EXCEPT !.pc = IF found THEN "get"
                                     ELSE IF excluded THEN "recDelete" ELSE "missGet",
                              !.inv = IF found THEN Discovered ELSE @,
                              !.base = NoCR]
    <3>1. t.pc # "missUpdate"
      BY <2>0 DEF WorkerType
    <3>2. Becomes("rec", t) /\ crs' = crs
      BY <2>3 DEF RecDiscovers, api
    <3> HIDE DEF t
    <3> QED BY <2>0, <3>1, <3>2, MoveFacts
  <2>4. CASE RecDelete
    <3>1. Disk("rec") \in Names
      BY <1>0, <2>0, <2>4 DEF RecDelete, At, Disk, Sound, OnDisk, Names
    <3> QED BY <2>0, <2>4, <3>1, DeleteFacts DEF RecDelete
  <2> QED BY <1>3, <2>1, <2>2, <2>3, <2>4 DEF Reconcile
<1>4. ASSUME NEW w \in Workers, WorkerStep(w)
      PROVE  LatestIsStored' /\ (PatchersKept \/ PatchStatus(w) \/ Fails(w))
  <2> DEFINE s == worker[w]
             d == Disk(w)
  <2>0. s \in WorkerType /\ s.disk = d
    BY <1>0 DEF Disk
  <2>1. Done(w, s).pc # "missUpdate" /\ Done(w, s) \in WorkerType
    BY <1>0, DonePC, DoneSound DEF Sound
  <2>2. ASSUME NEW cr
        PROVE  HoldCopy(s, cr).pc = "collect"
    BY <2>0 DEF HoldCopy, WorkerType
  <2>3. ASSUME NEW cr, Stores(d, cr)
        PROVE  \A e \in Names \ {d} : crs'[e] = crs[e]
    BY <1>0, <2>3 DEF Stores, TypeOK
  <2>4. CASE GetDisk(w)
    <3> DEFINE t == IF ~Exists(d) THEN [s EXCEPT !.pc = "create"]
                    ELSE IF crs[d].label THEN HoldCopy(s, crs[d])
                    ELSE [s EXCEPT !.pc = "label", !.base = crs[d]]
    <3>1. t.pc # "missUpdate"
      BY <2>0, <2>2 DEF WorkerType
    <3>2. Becomes(w, t) /\ crs' = crs /\ ~At(w, "patch")
      BY <2>4 DEF GetDisk, api, At
    <3> HIDE DEF t
    <3> QED BY <3>1, <3>2, MoveFacts
  <2>5. CASE CreateDisk(w)
    <3>1. BecomesAfterWrite(w, HoldCopy(s, NewCR), d) /\ Stores(d, NewCR)
          /\ s.pc = "create"
      BY <2>5 DEF CreateDisk, At
    <3>2. HoldCopy(s, NewCR) \in WorkerType
      BY <2>0, NewCRConsistent DEF HoldCopy, WorkerType, PCs, Consistent
    <3> QED BY <2>2, <2>3, <3>1, <3>2, WriteFacts DEF At
  <2>6. CASE LabelDisk(w)
    <3>1. ~At(w, "patch") /\ d \in Disks
      BY <1>0, <2>6 DEF LabelDisk, At, Sound, OnDisk, Disk
    <3>2. ASSUME Exists(d), Stores(d, [crs[d] EXCEPT !.label = TRUE]),
                 BecomesAfterWrite(w, HoldCopy(s, [crs[d] EXCEPT !.label = TRUE]), d)
          PROVE  LatestIsStored' /\ PatchersKept
      <4>1. [crs[d] EXCEPT !.label = TRUE] \in CR
        <5>1. crs[d] \in CR
          BY <3>1, <3>2 DEF IInv, Consistent, Names
        <5> QED BY <5>1 DEF CR
      <4>2. HoldCopy(s, [crs[d] EXCEPT !.label = TRUE]) \in WorkerType
        BY <2>0, <4>1 DEF HoldCopy, WorkerType, PCs
      <4> QED BY <2>2, <2>3, <3>1, <3>2, <4>2, WriteFacts
    <3>3. ASSUME NEW cr, Becomes(w, HoldCopy(s, cr)), UNCHANGED api
          PROVE  LatestIsStored' /\ PatchersKept
      BY <2>2, <3>1, <3>3, MoveFacts DEF api
    <3> QED BY <2>6, <3>2, <3>3 DEF LabelDisk
  <2>7. CASE Collect(w)
    <3>1. PICK r \in Results : Becomes(w, [s EXCEPT !.pc = "apply", !.result = r])
      BY <2>7 DEF Collect
    <3>2. [s EXCEPT !.pc = "apply", !.result = r].pc = "apply"
      BY <2>0 DEF WorkerType
    <3>3. crs' = crs /\ ~At(w, "patch")
      BY <2>7 DEF Collect, api, At
    <3> QED BY <3>1, <3>2, <3>3, MoveFacts
  <2>8. CASE ApplyResult(w)
    <3> DEFINE out == Apply([s.base EXCEPT !.place = s.inv[d]], s.result)
    <3>1. Becomes(w, [s EXCEPT !.pc = "patch", !.out = out]) /\ crs' = crs
          /\ ~At(w, "patch")
      BY <2>8 DEF ApplyResult, At
    <3> HIDE DEF out
    <3>2. [s EXCEPT !.pc = "patch", !.out = out].pc = "patch"
      BY <2>0 DEF WorkerType
    <3> QED BY <3>1, <3>2, MoveFacts
  <2>9. CASE PatchStatus(w)
    <3>1. d \in Disks /\ \A e \in Names \ {d} : crs'[e] = crs[e]
      BY <2>9, PatchStores
    <3>2. CASE BecomesAfterWrite(w, Done(w, s), d)
      BY <2>1, <2>9, <3>1, <3>2, WriteFacts
    <3>3. CASE Becomes(w, Done(w, s)) /\ crs' = crs
      BY <2>1, <2>9, <3>3, MoveFacts
    <3>4. ASSUME NEW new, crs' = [crs EXCEPT ![d] = new], new = crs[d]
          PROVE  crs' = crs
      BY <1>0, <3>1, <3>4 DEF TypeOK, Names
    <3> QED BY <2>9, <3>2, <3>3, <3>4 DEF PatchStatus
  <2>10. CASE MissingGet(w)
    <3> DEFINE t == [s EXCEPT !.pc = "missUpdate", !.latest = TRUE, !.base = crs[d]]
    <3>1. t.base = crs[t.disk]
      BY <2>0 DEF WorkerType
    <3>2. crs' = crs /\ ~At(w, "patch") /\ (Becomes(w, t) \/ Becomes(w, Done(w, s)))
      BY <2>10 DEF MissingGet, api, At
    <3> HIDE DEF t
    <3> QED BY <2>1, <3>1, <3>2, MoveFacts
  <2>11. CASE MissingUpdate(w)
    <3>1. /\ BecomesAfterWrite(w, Done(w, s), d) /\ ~At(w, "patch")
          /\ Stores(d, [s.base EXCEPT !.collected = "DiskMissing"])
      BY <2>11 DEF MissingUpdate, At
    <3> QED BY <2>1, <2>3, <3>1, WriteFacts
  <2>12. CASE MissingConflict(w)
    <3>1. [s EXCEPT !.pc = "missGet", !.base = NoCR].pc = "missGet"
      BY <2>0 DEF WorkerType
    <3>2. /\ Becomes(w, [s EXCEPT !.pc = "missGet", !.base = NoCR])
          /\ crs' = crs /\ ~At(w, "patch")
      BY <2>12 DEF MissingConflict, api, At
    <3> QED BY <3>1, <3>2, MoveFacts
  <2>13. CASE CallRefused(w) \/ CallFails(w)
    <3>1. Fails(w)
      BY <2>13 DEF CallRefused, CallFails
    <3> QED BY <2>1, <3>1, MoveFacts DEF Fails
  <2>14. CASE DropMetrics(w)
    <3>1. Becomes(w, Done(w, s)) /\ crs' = crs /\ ~At(w, "patch")
      BY <2>14 DEF DropMetrics, api, At
    <3> QED BY <2>1, <3>1, MoveFacts
  <2> QED
    BY <1>4, <2>4, <2>5, <2>6, <2>7, <2>8, <2>9, <2>10, <2>11, <2>12, <2>13, <2>14
    DEF WorkerStep, ReconcileDisk, MarkDiskMissing
<1>5. CASE Users
  <2>1. \E d \in Names : \E cr : UserStores(d, cr)
    BY <1>5 DEF Users, UserEdits, UserDeletes, UserUnlabels, UserCreates, Names
  <2> QED BY <2>1, UserFacts
<1>6. CASE Attach \/ Detach \/ Degrade
  BY <1>1, <1>6 DEF Attach, Detach, Degrade, UseHost, api
<1>7. CASE Restart
  BY <1>7 DEF Restart, LatestIsStored, At, Disk, Idle
<1>8. CASE UNCHANGED vars
  BY <1>1, <1>8 DEF vars, api
<1> QED BY <1>2, <1>3, <1>4, <1>5, <1>6, <1>7, <1>8 DEF Next, Monitor, Environment

-----------------------------------------------------------------------------
(* Events.                                                                 *)

\* As long as no pending patch is given up and neither the condition nor the last
\* event changes, the event remains accounted for.
LEMMA AnnouncedKept ==
    ASSUME NEW d, PatchersKept, Announced(d), told'[d] = told[d],
           Exists(d) => crs'[d] # NoCR /\ crs'[d].degraded = crs[d].degraded
    PROVE  Announced(d)'
<1>1. CASE told[d] = None
  BY <1>1 DEF Announced
<1>2. CASE Exists(d) /\ told[d] = crs[d].degraded
  BY <1>2 DEF Announced, Exists
<1>3. ASSUME NEW w \in Workers,
             At(w, "patch") /\ Disk(w) = d /\ told[d] = worker[w].out.degraded
      PROVE  Announced(d)'
  BY <1>3 DEF Announced, PatchersKept, At, Disk
<1> QED BY <1>1, <1>2, <1>3 DEF Announced

\* The other goroutines keep their pending patches.
LEMMA OthersKept ==
    ASSUME IInv, NEW w \in Workers, NEW s, NEW d,
           Becomes(w, s) \/ BecomesAfterWrite(w, s, d)
    PROVE  \A v \in Workers \ {w} :
               /\ worker'[v].pc = worker[v].pc /\ worker'[v].disk = worker[v].disk
               /\ worker'[v].out = worker[v].out
<1> SUFFICES ASSUME NEW v \in Workers \ {w}
             PROVE  worker'[v] \in {worker[v], [worker[v] EXCEPT !.latest = FALSE]}
  BY DEF IInv, WorkersSound, WorkerType
<1> QED BY DEF IInv, WorkersSound, Becomes, BecomesAfterWrite, Outdated

\* The event of a step is about the status that the same goroutine is going to
\* patch; the patch stores it, or the disk counts as lost.
LEMMA StepTold ==
    ASSUME IInv, [Next]_vars
    PROVE  ToldIsStored'
<1>0. /\ told \in [Names -> Healths] /\ crs \in [Names -> CR \cup {NoCR}]
      /\ worker \in [Workers -> WorkerType] /\ lost \subseteq Disks
      /\ ToldIsStored
  BY DEF IInv, TypeOK
<1>1. ASSUME NEW w \in Workers, ApplyResult(w), PatchersKept
      PROVE  ToldIsStored'
  <2> DEFINE d == Disk(w)
             s == worker[w]
             out == Apply([s.base EXCEPT !.place = s.inv[d]], s.result)
  <2>1. /\ crs' = crs /\ lost' = lost
        /\ worker' = [worker EXCEPT ![w] = [s EXCEPT !.pc = "patch", !.out = out]]
        /\ told' = IF Reports(s.base.degraded, out.degraded)
                   THEN [told EXCEPT ![d] = out.degraded] ELSE told
    BY <1>1 DEF ApplyResult, Becomes
  <2>2. d \in Names /\ s.disk = d /\ s \in WorkerType
    BY <1>1 DEF IInv, WorkersSound, Sound, ApplyResult, At, Disk, OnDisk, Names
  <2> HIDE DEF out, d
  <2>3. /\ worker'[w].pc = "patch" /\ worker'[w].disk = d
        /\ worker'[w].out = out
    BY <1>0, <2>1, <2>2 DEF WorkerType
  <2> SUFFICES ASSUME NEW e \in Names, e \notin lost' PROVE Announced(e)'
    BY DEF ToldIsStored
  <2>4. Announced(e)
    BY <1>0, <2>1 DEF ToldIsStored
  <2>5. CASE told'[e] = told[e]
    BY <1>1, <2>1, <2>4, <2>5, AnnouncedKept DEF Exists
  <2>6. CASE told'[e] # told[e]
    <3>1. e = d /\ told'[e] = out.degraded
      BY <1>0, <2>1, <2>2, <2>6
    <3> QED BY <2>3, <3>1 DEF Announced, At, Disk
  <2> QED BY <2>5, <2>6
<1>2. ASSUME StoresNothing, UNCHANGED told, PatchersKept
      PROVE  ToldIsStored'
  <2> SUFFICES ASSUME NEW e \in Names, e \notin lost' PROVE Announced(e)'
    BY DEF ToldIsStored
  <2>1. Announced(e) /\ crs' = crs
    BY <1>0, <1>2 DEF ToldIsStored, StoresNothing
  <2> QED BY <1>2, <2>1, AnnouncedKept DEF Exists
<1>3. ASSUME StoresKnown, PatchersKept
      PROVE  ToldIsStored'
  <2>0. PICK d \in Names : \E cr :
            /\ Stores(d, cr)
            /\ cr # NoCR => ~Exists(d) \/ (cr.degraded = crs[d].degraded)
    <3>1. ASSUME NEW d \in Names, Exists(d), NEW l \in BOOLEAN, NEW a \in Args, NEW c
          PROVE  [crs[d] EXCEPT !.label = l, !.args = a, !.collected = c].degraded
                    = crs[d].degraded
      BY <1>0, <3>1 DEF Exists, CR
    <3>2. PICK d \in Names :
              \/ Stores(d, NoCR)
              \/ ~Exists(d) /\ \E cr : Stores(d, cr)
              \/ /\ Exists(d)
                 /\ \E l \in BOOLEAN, a \in Args, c \in {crs[d].collected, "DiskMissing"} :
                       Stores(d, [crs[d] EXCEPT !.label = l, !.args = a,
                                                !.collected = c])
      BY <1>3 DEF StoresKnown
    <3>3. ASSUME Exists(d), NEW l \in BOOLEAN, NEW a \in Args, NEW c,
                 Stores(d, [crs[d] EXCEPT !.label = l, !.args = a, !.collected = c])
          PROVE  \E cr : Stores(d, cr) /\ cr.degraded = crs[d].degraded
      <4> DEFINE cr == [crs[d] EXCEPT !.label = l, !.args = a, !.collected = c]
      <4>1. cr.degraded = crs[d].degraded
        BY <3>1, <3>3
      <4> HIDE DEF cr
      <4> QED BY <3>3, <4>1 DEF cr
    <3> QED BY <3>2, <3>3
  <2>1. PICK cr :
            /\ Stores(d, cr)
            /\ cr # NoCR => ~Exists(d) \/ (cr.degraded = crs[d].degraded)
    BY <2>0
  <2>2. /\ crs' = [crs EXCEPT ![d] = cr]
        /\ told' = IF cr = NoCR THEN [told EXCEPT ![d] = None] ELSE told
        /\ lost' = IF cr = NoCR THEN lost \ {d} ELSE lost
    BY <2>1 DEF Stores
  <2> SUFFICES ASSUME NEW e \in Names, e \notin lost' PROVE Announced(e)'
    BY DEF ToldIsStored
  <2>3. CASE cr = NoCR /\ e = d
    BY <1>0, <2>2, <2>3 DEF Announced
  <2>4. CASE cr # NoCR \/ e # d
    <3>1. Announced(e) /\ told'[e] = told[e]
      BY <1>0, <2>2, <2>4 DEF ToldIsStored
    <3>2. Exists(e) => crs'[e] # NoCR /\ crs'[e].degraded = crs[e].degraded
      BY <1>0, <2>1, <2>2, <2>4 DEF Exists
    <3> QED BY <1>3, <3>1, <3>2, AnnouncedKept
  <2> QED BY <2>3, <2>4
<1>4. ASSUME NEW w \in Workers, PatchStatus(w)
      PROVE  ToldIsStored'
  <2> DEFINE d == Disk(w)
             s == worker[w]
  <2>1. /\ d \in Disks /\ Exists(d) /\ Consistent(s.base) /\ s.result \in Results
        /\ s.out = Apply([s.base EXCEPT !.place = s.inv[d]], s.result)
        /\ Consistent(crs'[d])
        /\ \A e \in Names \ {d} : crs'[e] = crs[e]
        /\ d \notin lost' => /\ Status(s.base) = Status(crs[d])
                             /\ Status(crs'[d]) = Status(s.out)
                             /\ Agrees(s.result, told[d])
                             /\ s.result \in Assessed \/ d \notin lost
        /\ \A e \in Names \ {d} : e \notin lost' => e \notin lost
    BY <1>4, PatchStores
  <2>2. told' = told
    BY <1>4 DEF PatchStatus
  <2>3. \A v \in Workers \ {w} :
            /\ worker'[v].pc = worker[v].pc /\ worker'[v].disk = worker[v].disk
            /\ worker'[v].out = worker[v].out
    BY <1>4, OthersKept DEF PatchStatus
  <2> SUFFICES ASSUME NEW e \in Names, e \notin lost' PROVE Announced(e)'
    BY DEF ToldIsStored
  <2>4. ASSUME NEW v \in Workers \ {w}, At(v, "patch"), Disk(v) = e,
               told[e] = worker[v].out.degraded
        PROVE  Announced(e)'
    BY <2>2, <2>3, <2>4 DEF Announced, At, Disk
  <2>5. CASE e # d
    <3>1. Announced(e) /\ crs'[e] = crs[e]
      BY <1>0, <2>1, <2>5 DEF ToldIsStored
    <3>2. CASE told[e] = None \/ (Exists(e) /\ told[e] = crs[e].degraded)
      BY <2>2, <3>1, <3>2 DEF Announced, Exists
    <3>3. CASE \E v \in Workers : At(v, "patch") /\ Disk(v) = e
                                  /\ told[e] = worker[v].out.degraded
      BY <2>4, <2>5, <3>3
    <3> QED BY <3>1, <3>2, <3>3 DEF Announced
  <2>6. CASE e = d
    <3>1. /\ s.base.health = crs[d].health /\ s.base.degraded = crs[d].degraded
          /\ crs'[d].degraded = s.out.degraded
      BY <2>1, <2>6, StatusFields
    <3>2. crs'[d] # NoCR
      BY <2>1, CRExists DEF Consistent
    <3>3. /\ s.result \in Assessed => s.out.degraded = s.result
          /\ s.result \notin Assessed => s.out.degraded = s.base.degraded
                                         \/ s.base.health = None
      BY <2>1, ApplyHealth DEF Consistent
    <3>4. CASE s.result \in Assessed
      BY <2>1, <2>2, <2>6, <3>1, <3>2, <3>3, <3>4 DEF Agrees, Announced, Exists
    <3>5. CASE s.result \notin Assessed
      <4>1. Announced(d) /\ crs[d].health = crs[d].degraded
        BY <2>1, <2>6, <3>5 DEF IInv, ToldIsStored, HealthMatchesUnlessRaced
      <4>2. CASE told[d] = None \/ told[d] = crs[d].degraded
                 \/ told[d] = s.out.degraded
        BY <2>2, <2>6, <3>1, <3>2, <3>3, <3>5, <4>1, <4>2 DEF Announced, Exists
      <4>3. CASE \E v \in Workers \ {w} : At(v, "patch") /\ Disk(v) = d
                                           /\ told[d] = worker[v].out.degraded
        BY <2>4, <2>6, <4>3
      <4> QED BY <4>1, <4>2, <4>3 DEF Announced
    <3> QED BY <3>4, <3>5
  <2> QED BY <2>5, <2>6
<1>5. ASSUME NEW w \in Workers, Fails(w)
      PROVE  ToldIsStored'
  <2>1. /\ crs' = crs /\ told' = told
        /\ lost' = lost \cup {d \in Disks : At(w, "patch") /\ d = Disk(w)}
    BY <1>5 DEF Fails
  <2>2. \A v \in Workers \ {w} : worker'[v] = worker[v]
    BY <1>0, <1>5 DEF Fails, Becomes
  <2>3. At(w, "patch") => Disk(w) \in lost'
    BY <2>1 DEF IInv, WorkersSound, Sound, OnDisk, At, Disk
  <2> SUFFICES ASSUME NEW e \in Names, e \notin lost' PROVE Announced(e)'
    BY DEF ToldIsStored
  <2>4. Announced(e)
    BY <1>0, <2>1 DEF ToldIsStored
  <2>5. CASE told[e] = None \/ (Exists(e) /\ told[e] = crs[e].degraded)
    BY <2>1, <2>5 DEF Announced, Exists
  <2>6. ASSUME NEW v \in Workers, At(v, "patch"), Disk(v) = e,
               told[e] = worker[v].out.degraded
        PROVE  Announced(e)'
    <3>1. v # w
      BY <2>3, <2>6
    <3> QED BY <2>1, <2>2, <2>6, <3>1 DEF Announced, At, Disk
  <2> QED BY <2>4, <2>5, <2>6 DEF Announced
<1>6. CASE Restart
  <2>1. /\ crs' = crs /\ told' = told
        /\ lost' = lost \cup {d \in Disks : \E w \in Workers :
                                             At(w, "patch") /\ Disk(w) = d}
    BY <1>6 DEF Restart
  <2>2. \A w \in Workers : At(w, "patch") => Disk(w) \in lost'
    BY <2>1 DEF IInv, WorkersSound, Sound, OnDisk, At, Disk
  <2> SUFFICES ASSUME NEW e \in Names, e \notin lost' PROVE Announced(e)'
    BY DEF ToldIsStored
  <2>3. Announced(e) /\ ~\E w \in Workers : At(w, "patch") /\ Disk(w) = e
    BY <1>0, <2>1, <2>2 DEF ToldIsStored
  <2>4. told[e] = None \/ (Exists(e) /\ told[e] = crs[e].degraded)
    BY <2>3 DEF Announced
  <2> QED BY <2>1, <2>4 DEF Announced, Exists
<1> QED BY <1>1, <1>2, <1>3, <1>4, <1>5, <1>6, StepStores, StepCopies
        DEF StoresNothing

-----------------------------------------------------------------------------
(* The other variables.                                                    *)

Budget == [host : 0 .. MaxHost, user : 0 .. MaxUser, fault : 0 .. MaxFault,
           restart : 0 .. MaxRestart, total : 0 .. MaxTotal]

\* A disturbance is taken from what is left of its bound.
LEMMA UseType ==
    ASSUME left \in Budget, NEW kind \in {"host", "user", "fault", "restart"}, Use(kind)
    PROVE  left' \in Budget
<1> USE BoundsAssumption
<1>0. /\ left.host \in 0 .. MaxHost /\ left.user \in 0 .. MaxUser
      /\ left.fault \in 0 .. MaxFault /\ left.restart \in 0 .. MaxRestart
      /\ left.total \in 0 .. MaxTotal /\ left.total > 0 /\ left[kind] > 0
  BY DEF Budget, Use
<1>1. left.total - 1 \in 0 .. MaxTotal
  BY <1>0
<1>2. CASE kind = "host"
  <2>1. left.host - 1 \in 0 .. MaxHost
    BY <1>0, <1>2 DEF Budget
  <2>2. left' = [left EXCEPT !.host = left.host - 1, !.total = left.total - 1]
    BY <1>2 DEF Use, Budget
  <2> QED BY <1>1, <2>1, <2>2 DEF Budget
<1>3. CASE kind = "user"
  <2>1. left.user - 1 \in 0 .. MaxUser
    BY <1>0, <1>3 DEF Budget
  <2>2. left' = [left EXCEPT !.user = left.user - 1, !.total = left.total - 1]
    BY <1>3 DEF Use, Budget
  <2> QED BY <1>1, <2>1, <2>2 DEF Budget
<1>4. CASE kind = "fault"
  <2>1. left.fault - 1 \in 0 .. MaxFault
    BY <1>0, <1>4 DEF Budget
  <2>2. left' = [left EXCEPT !.fault = left.fault - 1, !.total = left.total - 1]
    BY <1>4 DEF Use, Budget
  <2> QED BY <1>1, <2>1, <2>2 DEF Budget
<1>5. CASE kind = "restart"
  <2>1. left.restart - 1 \in 0 .. MaxRestart
    BY <1>0, <1>5 DEF Budget
  <2>2. left' = [left EXCEPT !.restart = left.restart - 1, !.total = left.total - 1]
    BY <1>5 DEF Use, Budget
  <2> QED BY <1>1, <2>1, <2>2 DEF Budget
<1> QED BY <1>2, <1>3, <1>4, <1>5

\* The type of everything but resources and goroutines.
OthersOK ==
    /\ host \in Inventory /\ hw \in [Disks -> Assessed]
    /\ queue \subseteq Names
    /\ readings \in [Names -> SUBSET Places]
    /\ success \in [Names -> [Labels -> {"ok", "failed", None}]]
    /\ told \in [Names -> Healths] /\ lost \subseteq Disks
    /\ left \in Budget

\* A write keeps the history typed.
LEMMA StoresType ==
    ASSUME OthersOK, NEW d, NEW cr, Stores(d, cr)
    PROVE  told' \in [Names -> Healths] /\ lost' \subseteq Disks
  BY DEF OthersOK, Stores, Healths

\* So do the deletion of all metrics and of the readings of a disk.
LEMMA PruneType ==
    ASSUME OthersOK, NEW d, NEW p \in Labels, Prune(d, p)
    PROVE  /\ readings' \in [Names -> SUBSET Places]
           /\ success' \in [Names -> [Labels -> {"ok", "failed", None}]]
  BY DEF OthersOK, Prune

\* Deleting an excluded disk's resource keeps the types of what it touches.
LEMMA DeleteExcludedType ==
    ASSUME OthersOK, NEW w, NEW s, NEW d, DeleteExcluded(w, s, d)
    PROVE  told' \in [Names -> Healths] /\ lost' \subseteq Disks /\ UNCHANGED metrics
  BY StoresType DEF OthersOK, DeleteExcluded, api

\* Dropping its metrics does, too.
LEMMA DropMetricsType ==
    ASSUME OthersOK, NEW w, DropMetrics(w)
    PROVE  OthersOK'
<1>1. readings' \in [Names -> SUBSET Places]
  BY DEF OthersOK, DropMetrics
<1>2. success' \in [Names -> [Labels -> {"ok", "failed", None}]]
  BY DEF OthersOK, DropMetrics, NoSeries
<1> QED BY <1>1, <1>2 DEF OthersOK, DropMetrics, hardware, api

\* An error queues the request again.
LEMMA FailsType ==
    ASSUME IInv, OthersOK, NEW w \in Workers, Fails(w), left' \in Budget,
           worker[w].pc \in OnDisk \cup {"recGet"}
    PROVE  OthersOK'
<1>1. Disk(w) \in Names
  BY DEF IInv, WorkersSound, Sound, Disk, Names
<1> QED BY <1>1 DEF OthersOK, Fails, hardware, metrics

\* Every step keeps these variables in their types.
LEMMA StepOthers ==
    ASSUME IInv, [Next]_vars
    PROVE  OthersOK'
<1>0. /\ OthersOK /\ WorkersSound /\ crs \in [Names -> CR \cup {NoCR}]
      /\ host \in Inventory
  BY DEF IInv, TypeOK, OthersOK, Budget
<1> DEFINE MetricsOK == /\ readings \in [Names -> SUBSET Places]
                        /\ success \in [Names -> [Labels -> {"ok", "failed", None}]]
<1>1. CASE UNCHANGED vars
  BY <1>0, <1>1 DEF vars, hardware, api, metrics, OthersOK
<1>2. CASE ReconcileAll
  <2> DEFINE s == worker["scan"]
  <2>0. "scan" \in Workers /\ s \in WorkerType
    BY <1>0, <1>2 DEF ReconcileAll, ScanDiscovers, ListDisks, ListFails,
                      AbsentDelete, AbsentMark, AbsentDone, ScanNext, WorkersSound
  <2>1. CASE ScanDiscovers \/ ListDisks \/ AbsentDone \/ ScanNext
    BY <1>0, <2>1 DEF ScanDiscovers, ListDisks, AbsentDone, ScanNext, hardware, api,
                      metrics, OthersOK
  <2>2. CASE ListFails
    BY <1>0, <2>2, UseType DEF ListFails, UseFault, hardware, api, metrics, OthersOK
  <2>3. CASE AbsentDelete
    <3>1. PICK d \in DOMAIN s.items :
              \/ DeleteExcluded("scan", Without(s, d), d) /\ UNCHANGED left
              \/ UseFault /\ UNCHANGED <<api, metrics>>
      BY <2>3 DEF AbsentDelete
    <3>2. UNCHANGED <<hardware, queue>>
      BY <2>3 DEF AbsentDelete
    <3>3. CASE DeleteExcluded("scan", Without(s, d), d) /\ UNCHANGED left
      BY <1>0, <3>2, <3>3, DeleteExcludedType DEF hardware, metrics, OthersOK
    <3>4. CASE UseFault /\ UNCHANGED <<api, metrics>>
      BY <1>0, <3>2, <3>4, UseType DEF UseFault, hardware, api, metrics, OthersOK
    <3> QED BY <3>1, <3>3, <3>4
  <2>4. CASE AbsentMark
    <3>1. PICK d \in DOMAIN s.items : Prune(d, s.items[d])
      BY <2>4 DEF AbsentMark
    <3>2. s.items[d] \in Labels
      BY <2>0, <3>1 DEF WorkerType
    <3>3. MetricsOK'
      BY <1>0, <3>1, <3>2, PruneType
    <3> QED BY <1>0, <2>4, <3>3 DEF AbsentMark, hardware, api, OthersOK
  <2> QED BY <1>2, <2>1, <2>2, <2>3, <2>4 DEF ReconcileAll
<1>3. CASE Reconcile
  <2> DEFINE s == worker["rec"]
  <2>0. "rec" \in Workers /\ s \in WorkerType /\ Sound(s)
    BY <1>0, <1>3 DEF Reconcile, TakeRequest, RecGet, RecDiscovers, RecDelete,
                      WorkersSound
  <2>1. CASE TakeRequest \/ RecGet
    BY <1>0, <2>1 DEF TakeRequest, RecGet, hardware, api, metrics, OthersOK
  <2>2. CASE RecDiscovers
    <3>1. s.base.place \in Labels
      BY <2>0, <2>2 DEF RecDiscovers, At, Sound, OnCopy, Consistent, CR, Labels
    <3>2. UNCHANGED metrics \/ Prune(Disk("rec"), s.base.place)
      BY <2>2 DEF RecDiscovers
    <3>3. MetricsOK'
      BY <1>0, <3>1, <3>2, PruneType DEF metrics, OthersOK
    <3> QED BY <1>0, <2>2, <3>3 DEF RecDiscovers, hardware, api, OthersOK
  <2>3. CASE RecDelete
    BY <1>0, <2>3, DeleteExcludedType DEF RecDelete, hardware, metrics, OthersOK
  <2> QED BY <1>3, <2>1, <2>2, <2>3 DEF Reconcile
<1>4. ASSUME NEW w \in Workers, WorkerStep(w)
      PROVE  OthersOK'
  <2> DEFINE s == worker[w]
             d == Disk(w)
  <2>0. Sound(s) /\ s \in WorkerType /\ s.disk = d
    BY <1>0 DEF WorkersSound, Disk
  <2>1. CASE GetDisk(w) \/ MissingGet(w) \/ MissingConflict(w)
    BY <1>0, <2>1 DEF GetDisk, MissingGet, MissingConflict, hardware, api, metrics,
                      OthersOK
  <2>2. CASE CreateDisk(w) \/ MissingUpdate(w)
    <3>1. PICK cr : Stores(d, cr)
      BY <2>2 DEF CreateDisk, MissingUpdate
    <3>2. told' \in [Names -> Healths] /\ lost' \subseteq Disks
      BY <1>0, <3>1, StoresType
    <3> QED BY <1>0, <2>2, <3>2 DEF CreateDisk, MissingUpdate, hardware, metrics, OthersOK
  <2>3. CASE LabelDisk(w)
    <3>1. told' \in [Names -> Healths] /\ lost' \subseteq Disks
      BY <1>0, <2>3, StoresType DEF LabelDisk, api, OthersOK
    <3>2. left' \in Budget
      BY <1>0, <2>3, UseType DEF LabelDisk, UseFault, OthersOK
    <3> QED BY <1>0, <2>3, <3>1, <3>2 DEF LabelDisk, hardware, metrics, OthersOK
  <2>4. CASE Collect(w)
    <3>1. left' \in Budget
      BY <1>0, <2>4, UseType DEF Collect, UseFault, OthersOK
    <3> QED BY <1>0, <2>4, <3>1 DEF Collect, hardware, api, metrics, OthersOK
  <2>5. CASE ApplyResult(w)
    <3> DEFINE place == s.inv[d]
               out == Apply([s.base EXCEPT !.place = place], s.result)
    <3>1. /\ d \in Disks /\ place \in Places /\ Consistent(s.base)
          /\ s.result \in Results
      BY <2>0, <2>5 DEF ApplyResult, At, Sound, OnDisk, OnPlace, OnCopy, WorkerType,
                        Inventory, Labels
    <3>2. out.degraded \in Healths
      BY <3>1, ApplyConsistent
    <3>3. success' = [success EXCEPT ![d][place] =
                        IF s.result \in Assessed THEN "ok" ELSE "failed"]
      BY <2>5 DEF ApplyResult
    <3>4. readings' = IF s.result \in Assessed
                      THEN [readings EXCEPT ![d] = @ \cup {place}] ELSE readings
      BY <2>5 DEF ApplyResult
    <3>5. told' = IF Reports(s.base.degraded, out.degraded)
                  THEN [told EXCEPT ![d] = out.degraded] ELSE told
      BY <2>5 DEF ApplyResult
    <3> HIDE DEF place, out
    <3>6. MetricsOK'
      BY <1>0, <3>1, <3>3, <3>4 DEF OthersOK, Names
    <3>7. told' \in [Names -> Healths]
      BY <1>0, <3>2, <3>5 DEF OthersOK
    <3> QED BY <1>0, <2>5, <3>6, <3>7 DEF ApplyResult, hardware, OthersOK
  <2>6. CASE PatchStatus(w)
    <3>1. lost' \subseteq Disks
      BY <2>6, PatchStores
    <3> QED BY <1>0, <2>6, <3>1 DEF PatchStatus, hardware, metrics, OthersOK
  <2>7. CASE CallRefused(w)
    <3>1. s.pc \in OnDisk /\ Fails(w) /\ left' = left
      BY <2>7 DEF CallRefused, At, OnDisk
    <3> QED BY <1>0, <3>1, FailsType DEF OthersOK
  <2>8. CASE CallFails(w)
    <3>1. s.pc \in OnDisk \cup {"recGet"} /\ Fails(w) /\ Use("fault")
      BY <2>8 DEF CallFails, OnDisk, UseFault
    <3>2. left' \in Budget
      BY <1>0, <3>1, UseType DEF OthersOK
    <3> QED BY <1>0, <3>1, <3>2, FailsType
  <2>9. CASE DropMetrics(w)
    BY <1>0, <2>9, DropMetricsType
  <2> QED BY <1>4, <2>1, <2>2, <2>3, <2>4, <2>5, <2>6, <2>7, <2>8, <2>9
          DEF WorkerStep, ReconcileDisk, MarkDiskMissing
<1>5. CASE Users
  <2>1. /\ Use("user") /\ UNCHANGED <<hardware, metrics>>
        /\ \E d, cr : Stores(d, cr)
    BY <1>5 DEF Users, UserEdits, UserDeletes, UserUnlabels, UserCreates, UseUser,
                UserStores
  <2>2. queue' \subseteq Names
    BY <1>0, <1>5 DEF Users, UserEdits, UserDeletes, UserUnlabels, UserCreates, OthersOK
  <2>3. left' \in Budget /\ told' \in [Names -> Healths] /\ lost' \subseteq Disks
    BY <1>0, <2>1, UseType, StoresType DEF OthersOK
  <2> QED BY <1>0, <2>1, <2>2, <2>3 DEF hardware, metrics, OthersOK
<1>6. CASE Attach \/ Detach \/ Degrade
  <2>1. left' \in Budget /\ UNCHANGED <<api, queue, metrics>>
    BY <1>0, <1>6, UseType DEF Attach, Detach, Degrade, UseHost, OthersOK
  <2>2. host' \in Inventory /\ hw' \in [Disks -> Assessed]
    BY <1>0, <1>6 DEF Attach, Detach, Degrade, OthersOK, Inventory, Labels, Assessed
  <2> QED BY <1>0, <2>1, <2>2 DEF api, metrics, OthersOK
<1>7. CASE Restart
  <2>1. left' \in Budget
    BY <1>0, <1>7, UseType DEF Restart, OthersOK
  <2>2. MetricsOK'
    BY <1>7 DEF Restart, NoReadings, NoSeries
  <2>3. host' \in Inventory
    BY <1>7 DEF Restart, Placements
  <2>4. lost' \subseteq Disks
    BY <1>0, <1>7 DEF Restart, OthersOK
  <2> QED BY <1>0, <1>7, <2>1, <2>2, <2>3, <2>4 DEF Restart, OthersOK
<1> QED BY <1>1, <1>2, <1>3, <1>4, <1>5, <1>6, <1>7 DEF Next, Monitor, Environment

-----------------------------------------------------------------------------
(* The theorems.                                                           *)

\* What an earlier run and the daemon of another node leave behind is in order.
LEMMA FoundConsistent ==
    \A cr \in Inherited \cup Elsewhere \cup {NewCR} :
        Consistent(cr) /\ cr.health = cr.degraded
<1>1. Consistent(NewCR) /\ NewCR.health = NewCR.degraded
  BY NewCRConsistent DEF NewCR
<1>2. ASSUME NEW p \in Places
      PROVE  LET cr == [NewCR EXCEPT !.place = p, !.health = "Good",
                                     !.degraded = "Good", !.collected = "Succeeded"]
             IN  Consistent(cr) /\ cr.health = cr.degraded
  BY <1>1 DEF Consistent, CR, Healths, Assessed, CollectedReasons
<1>3. \A cr \in Inherited : Consistent(cr) /\ cr.health = cr.degraded
  BY <1>2 DEF Inherited
<1>4. ASSUME NEW cr \in Inherited
      PROVE  LET other == [cr EXCEPT !.label = FALSE]
             IN  Consistent(other) /\ other.health = other.degraded
  BY <1>3 DEF Consistent, CR
<1>5. \A cr \in Elsewhere : Consistent(cr) /\ cr.health = cr.degraded
  BY <1>4 DEF Elsewhere
<1> QED BY <1>1, <1>3, <1>5

\* Whatever an earlier run left behind, the daemon starts in order.
LEMMA InitIInv == Init => IInv
<1> SUFFICES ASSUME Init PROVE IInv
  OBVIOUS
<1>1. worker \in [Workers -> WorkerType] /\ \A w \in Workers : Sound(worker[w])
  BY IdleSound DEF Init, Sound
<1>2. \A cr \in Inherited \cup Elsewhere \cup {NewCR} :
          Consistent(cr) /\ cr.health = cr.degraded
  BY FoundConsistent
<1>3. \A d \in Names : crs[d] \in Inherited \cup Elsewhere \cup {NewCR, NoCR}
  BY DEF Init
<1>4. crs \in [Names -> CR \cup {NoCR}]
  BY <1>2, <1>3 DEF Init, Consistent
<1>5. OthersOK
  <2>1. left \in Budget
    BY BoundsAssumption DEF Init, Budget
  <2>2. hw \in [Disks -> Assessed] /\ host \in Inventory
    BY DEF Init, Assessed, Placements
  <2>3. /\ readings \in [Names -> SUBSET Places]
        /\ success \in [Names -> [Labels -> {"ok", "failed", None}]]
    BY DEF Init, NoReadings, NoSeries
  <2>4. told \in [Names -> Healths]
    BY DEF Init, Healths
  <2> QED BY <2>1, <2>2, <2>3, <2>4 DEF OthersOK, Init
<1>6. TypeOK
  <2>1. Foreign \subseteq others /\ others \subseteq Foreign \cup Shared
    BY DEF Init
  <2> QED BY <1>1, <1>4, <1>5, <2>1 DEF TypeOK, OthersOK, Budget
<1>7. HealthMatchesUnlessRaced /\ \A d \in Names : Exists(d) => Consistent(crs[d])
  BY <1>2, <1>3 DEF HealthMatchesUnlessRaced, Exists
<1>8. LatestIsStored /\ ToldIsStored
  BY DEF Init, Idle, At, LatestIsStored, ToldIsStored, Announced
<1> QED BY <1>1, <1>6, <1>7, <1>8 DEF IInv, WorkersSound

\* Every step keeps the invariant.
LEMMA StepIInv == IInv /\ [Next]_vars => IInv'
<1> SUFFICES ASSUME IInv, [Next]_vars PROVE IInv'
  OBVIOUS
<1>1. WorkersSound'
  BY StepSound
<1>2. /\ crs' \in [Names -> CR \cup {NoCR}] /\ HealthMatchesUnlessRaced'
      /\ \A d \in Names : Exists(d)' => Consistent(crs'[d])
  BY StepResources
<1>3. OthersOK'
  BY StepOthers
<1>4. Foreign \subseteq others' /\ others' \subseteq Foreign \cup Shared
  BY StepNames DEF IInv, TypeOK
<1>5. TypeOK'
  BY <1>1, <1>2, <1>3, <1>4 DEF TypeOK, OthersOK, Budget, WorkersSound
<1> QED BY <1>1, <1>2, <1>5, StepCopies, StepTold DEF IInv

\* What the goroutines hold and what the API server stores stay in step, whatever
\* goroutines, users, hot-plug, failing calls and restarts do in whatever order.
THEOREM Invariant == Spec => []IInv
  BY InitIInv, StepIInv, PTL DEF Spec

-----------------------------------------------------------------------------
(* Resources of other nodes.                                               *)

\* The steps that delete or mark, once spec.nodeName has been compared.
OnOwn == {"recDiscover", "recDelete", "missGet", "missUpdate"}

\* A goroutine deletes, marks and has still to check none of O.
Apart(s, O) == (s.pc \in OnOwn => s.disk \notin O) /\ DOMAIN s.items \cap O = {}

\* The daemon creates none of another node's resources either, as they all exist.
KeptApart ==
    /\ \A d \in others : Exists(d)
    /\ \A w \in Workers : Apart(worker[w], others)

\* A goroutine at rest.
LEMMA IdleApart == \A O : Apart(Idle, O)
<1>1. Idle.pc = "idle" /\ DOMAIN Idle.items = {}
  BY DEF Idle
<1> QED BY <1>1 DEF Apart, OnOwn

\* The end of a resource.
LEMMA DoneApart ==
    ASSUME NEW w \in Workers, NEW s \in WorkerType, NEW O, Apart(s, O)
    PROVE  Apart(Done(w, s), O)
<1>1. CASE w = "rec"
  BY <1>1, IdleApart DEF Done
<1>2. CASE w # "rec"
  <2> DEFINE t == Done(w, s)
  <2>1. t.pc \in {"absent", "next"} /\ t.items = s.items
    BY <1>2, ZenonT(60) DEF Done, WorkerType
  <2> HIDE DEF t
  <2>2. Apart(t, O)
    BY <2>1 DEF Apart, OnOwn
  <2> QED BY <2>2 DEF t
<1> QED BY <1>1, <1>2

\* The loss of the latest version.
LEMMA OutdatedApart ==
    ASSUME NEW ws \in [Workers -> WorkerType], NEW O, NEW d,
           \A w \in Workers : Apart(ws[w], O)
    PROVE  \A w \in Workers : Apart(Outdated(ws, d)[w], O)
<1> SUFFICES ASSUME NEW w \in Workers PROVE Apart(Outdated(ws, d)[w], O)
  OBVIOUS
<1> DEFINE s == ws[w]
           t == Outdated(ws, d)[w]
<1>1. t.pc = s.pc /\ t.disk = s.disk /\ t.items = s.items
  BY DEF Outdated, WorkerType
<1> HIDE DEF s, t
<1>2. Apart(s, O)
  BY DEF s
<1>3. Apart(t, O)
  BY <1>1, <1>2 DEF Apart
<1> QED BY <1>3 DEF t

\* A goroutine goes on, having written or not.
LEMMA BecomesApart ==
    ASSUME IInv, KeptApart, NEW w \in Workers, NEW s \in WorkerType,
           Apart(s, others), NEW d,
           Becomes(w, s) \/ BecomesAfterWrite(w, s, d)
    PROVE  \A v \in Workers : Apart(worker'[v], others)
<1> DEFINE ws == [worker EXCEPT ![w] = s]
<1>1. /\ ws \in [Workers -> WorkerType]
      /\ \A v \in Workers : Apart(ws[v], others)
  BY DEF IInv, WorkersSound, KeptApart
<1>2. worker' = ws \/ worker' = Outdated(ws, d)
  BY DEF Becomes, BecomesAfterWrite
<1> HIDE DEF ws
<1> QED BY <1>1, <1>2, OutdatedApart

\* The same for a deletion.
LEMMA DeleteApart ==
    ASSUME IInv, KeptApart, NEW w \in Workers, NEW s \in WorkerType,
           Apart(s, others), NEW d \in Names, DeleteExcluded(w, s, d)
    PROVE  \A v \in Workers : Apart(worker'[v], others)
<1> DEFINE t == Dropping(s, d)
<1>1. t \in WorkerType /\ t.pc = "drop" /\ t.items = s.items
  BY DroppingIs
<1>2. Becomes(w, t) \/ BecomesAfterWrite(w, t, d)
  BY DEF DeleteExcluded
<1> HIDE DEF t
<1>3. Apart(t, others)
  BY <1>1 DEF Apart, OnOwn
<1> QED BY <1>1, <1>2, <1>3, BecomesApart

\* ReconcileAll and markAbsentDisks: the list leaves other nodes' resources out.
LEMMA ReconcileAllApart ==
    ASSUME IInv, KeptApart, ReconcileAll
    PROVE  \A v \in Workers : Apart(worker'[v], others)
<1> DEFINE s == worker["scan"]
<1>1. /\ "scan" \in Workers /\ s \in WorkerType /\ Apart(s, others)
      /\ worker \in [Workers -> WorkerType]
  BY DEF IInv, WorkersSound, KeptApart, ReconcileAll, ScanDiscovers, ListDisks,
         ListFails, AbsentDelete, AbsentMark, AbsentDone, ScanNext
<1>0. worker'["scan"] \in WorkerType
  BY <1>1, ReconcileAllSound DEF WorkersSound
<1>2. CASE ScanDiscovers
  <2> DEFINE t == [Idle EXCEPT !.pc = "list", !.inv = Discovered]
  <2>1. t.pc = "list" /\ t.items = Idle.items
    BY DEF Idle
  <2>2. Becomes("scan", t)
    BY <1>2 DEF ScanDiscovers
  <2>3. t \in WorkerType
    BY <1>0, <1>1, <2>2 DEF Becomes
  <2> HIDE DEF t
  <2>4. Apart(t, others)
    BY <2>1, IdleApart DEF Apart, OnOwn
  <2> QED BY <1>1, <2>2, <2>3, <2>4, BecomesApart
<1>3. CASE ListDisks
  <2> DEFINE items == [d \in Absent(s.inv) |-> crs[d].place]
             t == [s EXCEPT !.pc = "absent", !.items = items]
  <2>1. DOMAIN items \cap others = {}
    BY DEF Absent
  <2>2. Becomes("scan", t)
    BY <1>3 DEF ListDisks
  <2>3. t \in WorkerType
    BY <1>0, <1>1, <2>2 DEF Becomes
  <2> HIDE DEF items
  <2>4. t.pc = "absent" /\ t.items = items
    BY <1>1 DEF WorkerType
  <2> HIDE DEF t
  <2>5. Apart(t, others)
    BY <2>1, <2>4 DEF Apart, OnOwn
  <2> QED BY <1>1, <2>2, <2>3, <2>5, BecomesApart
<1>4. ASSUME Becomes("scan", ToReconcile(s))
      PROVE  \A v \in Workers : Apart(worker'[v], others)
  <2> DEFINE t == ToReconcile(s)
  <2>1. t.pc = "next" /\ t.items = s.items
    BY <1>1 DEF ToReconcile, WorkerType
  <2>2. t \in WorkerType
    BY <1>0, <1>1, <1>4 DEF Becomes
  <2> HIDE DEF t
  <2>3. Apart(t, others)
    BY <1>1, <2>1 DEF Apart, OnOwn
  <2> QED BY <1>1, <1>4, <2>2, <2>3, BecomesApart DEF t
<1>5. ASSUME NEW d \in DOMAIN s.items, s.pc = "absent"
      PROVE  LET t == Without(s, d) IN
             /\ d \notin others /\ t \in WorkerType /\ Apart(t, others)
  <2> DEFINE t == Without(s, d)
  <2>1. PICK S \in SUBSET Names : s.items \in [S -> Labels]
    BY <1>1 DEF WorkerType
  <2>2. [e \in DOMAIN s.items \ {d} |-> s.items[e]] \in [S \ {d} -> Labels]
    BY <2>1
  <2>3. t \in WorkerType /\ t.pc = "absent" /\ DOMAIN t.items = DOMAIN s.items \ {d}
    BY <1>1, <1>5, <2>2 DEF Without, WorkerType
  <2>4. d \notin others
    BY <1>1, <1>5 DEF Apart
  <2> HIDE DEF t
  <2>5. Apart(t, others)
    BY <1>1, <2>3 DEF Apart, OnOwn
  <2> QED BY <2>3, <2>4, <2>5 DEF t
<1>6. CASE AbsentDelete
  <2>1. PICK d \in DOMAIN s.items :
            \/ DeleteExcluded("scan", Without(s, d), d)
            \/ Becomes("scan", Without(s, d))
    BY <1>6 DEF AbsentDelete
  <2>2. Without(s, d) \in WorkerType /\ Apart(Without(s, d), others)
    BY <1>5, <1>6 DEF AbsentDelete, At
  <2>3. d \in Names
    BY <1>1 DEF WorkerType
  <2> QED BY <1>1, <2>1, <2>2, <2>3, DeleteApart, BecomesApart
<1>7. CASE AbsentMark
  <2>1. PICK d \in DOMAIN s.items :
            Becomes("scan", [Without(s, d) EXCEPT !.pc = "missGet", !.disk = d])
    BY <1>7 DEF AbsentMark
  <2> DEFINE u == Without(s, d)
             t == [u EXCEPT !.pc = "missGet", !.disk = d]
  <2>2. d \notin others /\ u \in WorkerType /\ Apart(u, others)
    BY <1>5, <1>7 DEF AbsentMark, At
  <2>3. Becomes("scan", t)
    BY <2>1
  <2>4. t \in WorkerType
    BY <1>0, <1>1, <2>3 DEF Becomes
  <2> HIDE DEF u
  <2>5. t.pc = "missGet" /\ t.disk = d /\ t.items = u.items
    BY <2>2 DEF WorkerType
  <2> HIDE DEF t
  <2>6. Apart(t, others)
    BY <2>2, <2>5 DEF Apart, OnOwn
  <2> QED BY <1>1, <2>3, <2>4, <2>6, BecomesApart
<1>8. CASE ScanNext
  <2>1. CASE Becomes("scan", Idle)
    BY <1>1, <2>1, IdleApart, IdleSound, BecomesApart DEF Sound
  <2>2. ASSUME NEW d \in s.todo,
               Becomes("scan", [s EXCEPT !.pc = "get", !.disk = d, !.todo = @ \ {d}])
        PROVE  \A v \in Workers : Apart(worker'[v], others)
    <3> DEFINE t == [s EXCEPT !.pc = "get", !.disk = d, !.todo = @ \ {d}]
    <3>1. t.pc = "get" /\ t.items = s.items
      BY <1>1 DEF WorkerType
    <3>2. t \in WorkerType
      BY <1>0, <1>1, <2>2 DEF Becomes
    <3> HIDE DEF t
    <3>3. Apart(t, others)
      BY <1>1, <3>1 DEF Apart, OnOwn
    <3> QED BY <1>1, <2>2, <3>2, <3>3, BecomesApart DEF t
  <2> QED BY <1>8, <2>1, <2>2 DEF ScanNext
<1> QED BY <1>2, <1>3, <1>4, <1>6, <1>7, <1>8
        DEF ReconcileAll, ListFails, AbsentDone

\* Reconcile: a resource of another node is dropped as soon as it has been read.
LEMMA ReconcileApart ==
    ASSUME IInv, KeptApart, Reconcile
    PROVE  \A v \in Workers : Apart(worker'[v], others)
<1> DEFINE s == worker["rec"]
<1>1. /\ "rec" \in Workers /\ s \in WorkerType /\ Apart(s, others)
      /\ worker \in [Workers -> WorkerType]
  BY DEF IInv, WorkersSound, KeptApart, Reconcile, TakeRequest, RecGet, RecDiscovers,
         RecDelete
<1>2. worker'["rec"] \in WorkerType
  BY <1>1, ReconcileSound DEF WorkersSound
<1>3. CASE TakeRequest
  <2>1. PICK d \in queue : Becomes("rec", [Idle EXCEPT !.pc = "recGet", !.disk = d])
    BY <1>3 DEF TakeRequest
  <2> DEFINE t == [Idle EXCEPT !.pc = "recGet", !.disk = d]
  <2>2. t.pc = "recGet" /\ t.items = Idle.items
    BY DEF Idle
  <2>3. t \in WorkerType
    BY <1>1, <1>2, <2>1 DEF Becomes
  <2> HIDE DEF t
  <2>4. Apart(t, others)
    BY <2>2, IdleApart DEF Apart, OnOwn
  <2> QED BY <1>1, <2>1, <2>3, <2>4, BecomesApart DEF t
<1>4. CASE RecGet
  <2> DEFINE d == Disk("rec")
             t == [s EXCEPT !.pc = "recDiscover", !.base = crs[d]]
  <2>1. CASE Becomes("rec", Idle)
    BY <1>1, <2>1, IdleApart, IdleSound, BecomesApart DEF Sound
  <2>2. CASE d \notin others /\ Becomes("rec", t)
    <3>1. t.pc = "recDiscover" /\ t.items = s.items /\ t.disk = d
      BY <1>1 DEF WorkerType, Disk
    <3>2. t \in WorkerType
      BY <1>1, <1>2, <2>2 DEF Becomes
    <3> HIDE DEF t, d
    <3>3. Apart(t, others)
      BY <1>1, <2>2, <3>1 DEF Apart, OnOwn
    <3> QED BY <1>1, <2>2, <3>2, <3>3, BecomesApart
  <2> QED BY <1>4, <2>1, <2>2 DEF RecGet
<1>5. CASE RecDiscovers
  <2> DEFINE d == Disk("rec")
             found == Discovered[d] # None
             excluded == ~found /\ Excluded(d, s.base.place)
             t == [s EXCEPT !.pc = IF found THEN "get"
                                   ELSE IF excluded THEN "recDelete" ELSE "missGet",
                            !.inv = IF found THEN Discovered ELSE @,
                            !.base = NoCR]
  <2>1. Becomes("rec", t) /\ s.pc = "recDiscover"
    BY <1>5 DEF RecDiscovers, At
  <2>2. t.items = s.items /\ t.disk = s.disk
    BY <1>1 DEF WorkerType
  <2>3. t \in WorkerType
    BY <1>1, <1>2, <2>1 DEF Becomes
  <2> HIDE DEF t
  <2>4. Apart(t, others)
    BY <1>1, <2>1, <2>2 DEF Apart, OnOwn
  <2> QED BY <1>1, <2>1, <2>3, <2>4, BecomesApart
<1>6. CASE RecDelete
  <2>1. Disk("rec") \in Names
    BY <1>1, <1>6 DEF IInv, WorkersSound, Sound, RecDelete, At, Disk, OnDisk, Names
  <2> QED BY <1>1, <1>6, <2>1, DeleteApart DEF RecDelete
<1> QED BY <1>3, <1>4, <1>5, <1>6 DEF Reconcile

\* reconcileDisk and markDiskMissing keep their disk or give it up.
LEMMA WorkerStepApart ==
    ASSUME IInv, KeptApart, NEW w \in Workers, WorkerStep(w)
    PROVE  \A v \in Workers : Apart(worker'[v], others)
<1> DEFINE s == worker[w]
           d == Disk(w)
<1>1. /\ s \in WorkerType /\ Apart(s, others) /\ s.disk = d
      /\ worker \in [Workers -> WorkerType]
  BY DEF IInv, WorkersSound, KeptApart, Disk
<1>2. ASSUME NEW t \in WorkerType, t.items = s.items, t.disk = s.disk,
             t.pc \in OnOwn => s.pc \in OnOwn,
             NEW e, Becomes(w, t) \/ BecomesAfterWrite(w, t, e)
      PROVE  \A v \in Workers : Apart(worker'[v], others)
  <2>1. Apart(t, others)
    BY <1>1, <1>2 DEF Apart
  <2> QED BY <1>2, <2>1, BecomesApart
<1>3. ASSUME NEW e, Becomes(w, Done(w, s)) \/ BecomesAfterWrite(w, Done(w, s), e)
      PROVE  \A v \in Workers : Apart(worker'[v], others)
  <2>1. Sound(s)
    BY DEF IInv, WorkersSound
  <2>2. Done(w, s) \in WorkerType /\ Apart(Done(w, s), others)
    BY <1>1, <2>1, DoneSound, DoneApart DEF Sound
  <2> QED BY <1>3, <2>2, BecomesApart
<1>4. ASSUME NEW cr \in CR, NEW e, \/ Becomes(w, HoldCopy(s, cr))
                                   \/ BecomesAfterWrite(w, HoldCopy(s, cr), e)
      PROVE  \A v \in Workers : Apart(worker'[v], others)
  <2> DEFINE t == HoldCopy(s, cr)
  <2>1. t \in WorkerType /\ t.pc = "collect" /\ t.items = s.items /\ t.disk = s.disk
    BY <1>1 DEF HoldCopy, WorkerType, PCs
  <2> HIDE DEF t
  <2> QED BY <1>2, <1>4, <2>1 DEF OnOwn, t
<1>5. ASSUME d \in Disks, Exists(d)
      PROVE  crs[d] \in CR /\ [crs[d] EXCEPT !.label = TRUE] \in CR
  <2>1. crs[d] \in CR
    BY <1>5 DEF IInv, Consistent, Names
  <2> QED BY <2>1 DEF CR
<1>6. s.pc \in OnDisk => d \in Disks
  BY <1>1 DEF IInv, WorkersSound, Sound
<1>7. CASE GetDisk(w)
  <2>1. d \in Disks
    BY <1>6, <1>7 DEF GetDisk, At, OnDisk
  <2>2. CASE ~Exists(d)
    <3> DEFINE t == [s EXCEPT !.pc = "create"]
    <3>1. t \in WorkerType /\ t.pc = "create" /\ t.items = s.items /\ t.disk = s.disk
      BY <1>1 DEF WorkerType, PCs
    <3>2. Becomes(w, t)
      BY <1>7, <2>2 DEF GetDisk
    <3> HIDE DEF t
    <3> QED BY <1>2, <3>1, <3>2 DEF OnOwn
  <2>3. CASE Exists(d) /\ crs[d].label
    BY <1>4, <1>5, <1>7, <2>1, <2>3 DEF GetDisk
  <2>4. CASE Exists(d) /\ ~crs[d].label
    <3> DEFINE t == [s EXCEPT !.pc = "label", !.base = crs[d]]
    <3>1. t \in WorkerType /\ t.pc = "label" /\ t.items = s.items /\ t.disk = s.disk
      BY <1>1, <1>5, <2>1, <2>4 DEF WorkerType, PCs
    <3>2. Becomes(w, t)
      BY <1>7, <2>4 DEF GetDisk
    <3> HIDE DEF t
    <3> QED BY <1>2, <3>1, <3>2 DEF OnOwn
  <2> QED BY <2>2, <2>3, <2>4
<1>8. CASE CreateDisk(w)
  BY <1>4, <1>8, NewCRConsistent DEF CreateDisk, Consistent
<1>9. CASE LabelDisk(w)
  <2>1. d \in Disks
    BY <1>6, <1>9 DEF LabelDisk, At, OnDisk
  <2>2. [s.base EXCEPT !.label = TRUE] \in CR
    <3>1. s.base \in CR
      BY <1>9 DEF IInv, WorkersSound, Sound, LabelDisk, At, OnCopy, Consistent
    <3> QED BY <3>1 DEF CR
  <2> QED BY <1>4, <1>5, <1>9, <2>1, <2>2 DEF LabelDisk
<1>10. CASE Collect(w)
  <2>1. PICK r \in Results : Becomes(w, [s EXCEPT !.pc = "apply", !.result = r])
    BY <1>10 DEF Collect
  <2> DEFINE t == [s EXCEPT !.pc = "apply", !.result = r]
  <2>2. t \in WorkerType /\ t.pc = "apply" /\ t.items = s.items /\ t.disk = s.disk
    BY <1>1 DEF WorkerType, PCs
  <2> HIDE DEF t
  <2> QED BY <1>2, <2>1, <2>2 DEF OnOwn, t
<1>11. CASE ApplyResult(w)
  <2> DEFINE out == Apply([s.base EXCEPT !.place = s.inv[d]], s.result)
             t == [s EXCEPT !.pc = "patch", !.out = out]
  <2>1. Becomes(w, t)
    BY <1>11 DEF ApplyResult
  <2>2. t \in WorkerType
    BY <1>1, <2>1, WorkerStepSound DEF WorkersSound, Becomes
  <2> HIDE DEF out
  <2>3. t.pc = "patch" /\ t.items = s.items /\ t.disk = s.disk
    BY <1>1 DEF WorkerType
  <2> HIDE DEF t
  <2> QED BY <1>2, <2>1, <2>2, <2>3 DEF OnOwn
<1>12. CASE PatchStatus(w) \/ MissingUpdate(w)
  BY <1>3, <1>12 DEF PatchStatus, MissingUpdate
<1>13. CASE MissingGet(w)
  <2> DEFINE t == [s EXCEPT !.pc = "missUpdate", !.latest = TRUE, !.base = crs[d]]
  <2>1. /\ d \in Disks /\ Exists(d) /\ s.pc = "missGet"
        /\ Becomes(w, t) \/ Becomes(w, Done(w, s))
    BY <1>6, <1>13 DEF MissingGet, At, OnDisk
  <2>2. t \in WorkerType /\ t.items = s.items /\ t.disk = s.disk
    BY <1>1, <1>5, <2>1 DEF WorkerType, PCs
  <2> HIDE DEF t
  <2> QED BY <1>2, <1>3, <2>1, <2>2 DEF OnOwn
<1>14. CASE MissingConflict(w)
  <2> DEFINE t == [s EXCEPT !.pc = "missGet", !.base = NoCR]
  <2>1. Becomes(w, t) /\ s.pc = "missUpdate"
    BY <1>14 DEF MissingConflict, At
  <2>2. t \in WorkerType /\ t.items = s.items /\ t.disk = s.disk
    BY <1>1 DEF WorkerType, PCs
  <2> HIDE DEF t
  <2> QED BY <1>2, <2>1, <2>2 DEF OnOwn
<1>15. CASE CallRefused(w) \/ CallFails(w) \/ DropMetrics(w)
  BY <1>3, <1>15 DEF CallRefused, CallFails, Fails, DropMetrics
<1> QED
  BY <1>7, <1>8, <1>9, <1>10, <1>11, <1>12, <1>13, <1>14, <1>15
  DEF WorkerStep, ReconcileDisk, MarkDiskMissing

\* Every step keeps the goroutines apart from other nodes' resources.
LEMMA StepApart ==
    ASSUME IInv, KeptApart, [Next]_vars
    PROVE  KeptApart'
<1>0. /\ others' \subseteq others /\ \A d \in others' : Exists(d)'
      /\ worker \in [Workers -> WorkerType]
      /\ \A w \in Workers : Apart(worker[w], others)
  BY StepNames DEF KeptApart, IInv, WorkersSound
<1>1. ASSUME \A v \in Workers : Apart(worker'[v], others)
      PROVE  KeptApart'
  BY <1>0, <1>1 DEF KeptApart, Apart
<1>2. CASE ReconcileAll \/ Reconcile
  BY <1>1, <1>2, ReconcileAllApart, ReconcileApart
<1>3. CASE \E w \in Workers : WorkerStep(w)
  BY <1>1, <1>3, WorkerStepApart
<1>4. CASE Users
  <2>1. PICK d : worker' = Outdated(worker, d)
    BY <1>4 DEF Users, UserEdits, UserDeletes, UserUnlabels, UserCreates, UserStores
  <2> QED BY <1>0, <1>1, <2>1, OutdatedApart
<1>5. CASE Attach \/ Detach \/ Degrade \/ UNCHANGED vars
  BY <1>0, <1>1, <1>5 DEF Attach, Detach, Degrade, UseHost, vars
<1>6. CASE Restart
  BY <1>1, <1>6, IdleApart DEF Restart
<1> QED BY <1>2, <1>3, <1>4, <1>5, <1>6 DEF Next, Monitor, Environment

\* The resources of other nodes are there before the daemon has started anything.
LEMMA InitApart == Init => KeptApart
<1> SUFFICES ASSUME Init PROVE KeptApart
  OBVIOUS
<1>1. ASSUME NEW d \in others
      PROVE  Exists(d)
  <2>1. d \in Names /\ (d \in Foreign => crs[d] = NewCR)
        /\ (d \notin Foreign => crs[d] \in Elsewhere)
    BY <1>1, NamesAssumption DEF Init, Names
  <2>2. crs[d] \in CR
    BY <2>1, FoundConsistent DEF Consistent
  <2> QED BY <2>2, CRExists DEF Exists
<1> QED BY <1>1, IdleApart DEF Init, KeptApart

\* The daemon deletes and marks only resources of its own node: markAbsentDisks and
\* Reconcile compare spec.nodeName before they do.
THEOREM Separation == Spec => []KeptApart
<1>1. IInv /\ KeptApart /\ [Next]_vars => KeptApart'
  BY StepApart
<1> QED BY Invariant, InitApart, <1>1, PTL DEF Spec

\* Of all writes only reconcileDisk's reach another node's resource.
LEMMA StepForeign ==
    ASSUME IInv, KeptApart, [Next]_vars, NEW d \in others, crs'[d] # crs[d]
    PROVE  ByUser \/ (Reconciled(d) /\ crs'[d] # NoCR)
<1>0. /\ crs \in [Names -> CR \cup {NoCR}] /\ d \in Names /\ Exists(d)
      /\ \A w \in Workers : Sound(worker[w]) /\ Apart(worker[w], others)
  BY NamesAssumption DEF IInv, TypeOK, WorkersSound, KeptApart, Names
<1>1. ASSUME NEW e, NEW cr, Stores(e, cr)
      PROVE  e = d /\ crs'[d] = cr
  BY <1>0, <1>1 DEF Stores
<1>2. ASSUME NEW w, NEW s, NEW e, DeleteExcluded(w, s, e)
      PROVE  e = d
  BY <1>1, <1>2 DEF DeleteExcluded, api
<1>3. CASE ReconcileAll
  <2>1. AbsentDelete
    BY <1>3 DEF ReconcileAll, ScanDiscovers, ListDisks, ListFails, AbsentMark,
                AbsentDone, ScanNext, api
  <2>2. d \in DOMAIN worker["scan"].items /\ "scan" \in Workers
    BY <1>2, <2>1 DEF AbsentDelete, api
  <2> QED BY <1>0, <2>2 DEF Apart
<1>4. CASE Reconcile
  <2>1. RecDelete
    BY <1>4 DEF Reconcile, TakeRequest, RecGet, RecDiscovers, api
  <2>2. worker["rec"].disk = d /\ worker["rec"].pc \in OnOwn /\ "rec" \in Workers
    BY <1>2, <2>1 DEF RecDelete, Disk, At, OnOwn
  <2> QED BY <1>0, <2>2 DEF Apart
<1>5. ASSUME NEW w \in Workers, WorkerStep(w)
      PROVE  Reconciled(d) /\ crs'[d] # NoCR
  <2>0. ASSUME Disk(w) = d, worker[w].pc \in {"label", "patch"}
        PROVE  Reconciled(d)
    BY <1>0, <2>0 DEF Reconciled, Sound, OnDisk, OnPlace, Disk
  <2>1. CASE LabelDisk(w)
    <3>1. Disk(w) = d /\ crs'[d] = [crs[d] EXCEPT !.label = TRUE]
      BY <1>1, <2>1 DEF LabelDisk, api
    <3>2. [crs[d] EXCEPT !.label = TRUE] \in CR
      BY <1>0 DEF Exists, CR
    <3> QED BY <2>0, <2>1, <3>1, <3>2, CRExists DEF LabelDisk, At
  <2>2. CASE PatchStatus(w)
    <3>1. /\ Consistent(crs'[Disk(w)]) /\ At(w, "patch")
          /\ \A e \in Names \ {Disk(w)} : crs'[e] = crs[e]
      BY <2>2, PatchStores
    <3>2. Disk(w) = d
      BY <1>0, <3>1
    <3> QED BY <2>0, <3>1, <3>2, CRExists DEF Consistent, At
  <2>3. ~CreateDisk(w)
    BY <1>0, <1>1 DEF CreateDisk
  <2>4. ~MissingUpdate(w)
    <3>1. ASSUME MissingUpdate(w)
          PROVE  worker[w].disk = d /\ worker[w].pc \in OnOwn
      BY <1>1, <3>1 DEF MissingUpdate, At, OnOwn, Disk
    <3> QED BY <1>0, <3>1 DEF Apart
  <2>5. CASE GetDisk(w) \/ Collect(w) \/ ApplyResult(w) \/ MissingGet(w)
             \/ MissingConflict(w) \/ DropMetrics(w) \/ CallRefused(w) \/ CallFails(w)
    BY <2>5 DEF GetDisk, Collect, ApplyResult, MissingGet, MissingConflict,
                DropMetrics, CallRefused, CallFails, Fails, api
  <2> QED BY <1>5, <2>1, <2>2, <2>3, <2>4, <2>5
          DEF WorkerStep, ReconcileDisk, MarkDiskMissing
<1>6. CASE Users
  BY <1>6, UserCounted
  DEF IInv, Users, UserEdits, UserDeletes, UserUnlabels, UserCreates
<1>7. CASE Attach \/ Detach \/ Degrade \/ Restart \/ UNCHANGED vars
  BY <1>7 DEF Attach, Detach, Degrade, UseHost, Restart, vars, api
<1> QED BY <1>3, <1>4, <1>5, <1>6, <1>7 DEF Next, Monitor, Environment

-----------------------------------------------------------------------------
(* The properties.                                                         *)

\* Every variable keeps its type.
THEOREM TypeCorrect == Spec => []TypeOK
<1>1. IInv => TypeOK
  BY DEF IInv
<1> QED BY Invariant, <1>1, PTL

\* No merge of patches stores a successful collection beside an unassessed Degraded
\* condition (applyCollectionSuccess and the patch of reconcileDisk).
THEOREM SuccessIsAssessed == Spec => []SucceededIsAssessed
<1>1. IInv => SucceededIsAssessed
  BY DEF IInv, SucceededIsAssessed, Consistent, Names
<1> QED BY Invariant, <1>1, PTL

\* Health and Degraded condition part only through a patch that got lost or was
\* computed from a status that is no longer stored.
THEOREM HealthMatches == Spec => []HealthMatchesUnlessRaced
<1>1. IInv => HealthMatchesUnlessRaced
  BY DEF IInv
<1> QED BY Invariant, <1>1, PTL

\* Only such a patch takes a known health away.
THEOREM HealthPreserved == Spec => KnownHealthPreserved
<1>1. IInv /\ [Next]_vars =>
        [\A d \in Names :
            /\ Exists(d) /\ crs[d].health \in Assessed
            /\ crs'[d] # NoCR /\ d \notin lost'
            => crs'[d].health \in Assessed]_vars
  BY StepResources DEF HealthKept
<1> QED BY Invariant, <1>1, PTL DEF Spec, KnownHealthPreserved

\* What the daemon does to the resource of another node, it does in reconcileDisk to
\* one that is named like a disk it has discovered: the guards on spec.nodeName in
\* Reconcile and markAbsentDisks cover every other write.
THEOREM ForeignWrittenByNameOnly == Spec => ForeignOnlyByName
<1>1. IInv /\ KeptApart /\ [Next]_vars =>
        [\A d \in others :
            crs'[d] # crs[d] => ByUser \/ (Reconciled(d) /\ crs'[d] # NoCR)]_vars
  BY StepForeign
<1> QED BY Invariant, Separation, <1>1, PTL DEF Spec, ForeignOnlyByName

\* The only step that writes and ends the marking of a disk is its own update.
LEMMA OnlyMissingUpdate ==
    ASSUME IInv, [Next]_vars, NEW w \in Workers, At(w, "missUpdate"),
           worker'[w].pc # "missUpdate", crs' # crs
    PROVE  MissingUpdate(w)
<1>0. WorkersSound /\ worker[w].pc = "missUpdate" /\ worker \in [Workers -> WorkerType]
  BY DEF IInv, At, WorkersSound
<1>1. ASSUME NEW v \in Workers, v # w, NEW s, NEW d,
             Becomes(v, s) \/ BecomesAfterWrite(v, s, d)
      PROVE  FALSE
  BY <1>0, <1>1, OthersKept
<1>2. CASE ReconcileAll
  <2>1. AbsentDelete
    BY <1>2 DEF ReconcileAll, ScanDiscovers, ListDisks, ListFails, AbsentMark,
                AbsentDone, ScanNext, api
  <2>2. "scan" \in Workers /\ "scan" # w
    BY <1>0, <2>1 DEF AbsentDelete, At
  <2>3. PICK d, s : Becomes("scan", s) \/ BecomesAfterWrite("scan", s, d)
    BY <2>1 DEF AbsentDelete, DeleteExcluded
  <2> QED BY <1>1, <2>2, <2>3
<1>3. CASE Reconcile
  <2>1. RecDelete
    BY <1>3 DEF Reconcile, TakeRequest, RecGet, RecDiscovers, api
  <2>2. "rec" \in Workers /\ "rec" # w
    BY <1>0, <2>1 DEF RecDelete, At
  <2> QED BY <1>1, <2>1, <2>2 DEF RecDelete, DeleteExcluded
<1>4. ASSUME NEW v \in Workers, WorkerStep(v)
      PROVE  MissingUpdate(w)
  <2>1. CASE CreateDisk(v) \/ LabelDisk(v) \/ PatchStatus(v)
    <3>1. v # w
      BY <1>0, <2>1 DEF CreateDisk, LabelDisk, PatchStatus, At
    <3>2. PICK d, s : Becomes(v, s) \/ BecomesAfterWrite(v, s, d)
      BY <2>1 DEF CreateDisk, LabelDisk, PatchStatus
    <3> QED BY <1>1, <3>1, <3>2
  <2>2. CASE MissingUpdate(v)
    <3>1. CASE v = w
      BY <2>2, <3>1
    <3>2. CASE v # w
      BY <1>1, <2>2, <3>2 DEF MissingUpdate
    <3> QED BY <3>1, <3>2
  <2>3. CASE GetDisk(v) \/ Collect(v) \/ ApplyResult(v) \/ MissingGet(v)
             \/ MissingConflict(v) \/ DropMetrics(v) \/ CallRefused(v) \/ CallFails(v)
    BY <2>3 DEF GetDisk, Collect, ApplyResult, MissingGet, MissingConflict,
                DropMetrics, CallRefused, CallFails, Fails, api
  <2> QED BY <1>4, <2>1, <2>2, <2>3 DEF WorkerStep, ReconcileDisk, MarkDiskMissing
<1>5. CASE Users
  <2>1. PICK d : worker' = Outdated(worker, d)
    BY <1>5 DEF Users, UserEdits, UserDeletes, UserUnlabels, UserCreates, UserStores
  <2> QED BY <1>0, <2>1, OutdatedKeeps
<1>6. CASE Attach \/ Detach \/ Degrade \/ Restart \/ UNCHANGED vars
  BY <1>6 DEF Attach, Detach, Degrade, UseHost, Restart, vars, api
<1> QED BY <1>2, <1>3, <1>4, <1>5, <1>6 DEF Next, Monitor, Environment

\* markDiskMissing changes the DataCollected condition and nothing a concurrent
\* writer has stored, however often it has to retry.
THEOREM MarkingKeeps == Spec => MarkingKeepsTheRest
<1>1. ASSUME IInv, [Next]_vars, NEW w \in Workers, At(w, "missUpdate"),
             worker'[w].pc # "missUpdate", crs' # crs
      PROVE  crs' = [crs EXCEPT ![Disk(w)].collected = "DiskMissing"]
  <2>1. MissingUpdate(w)
    BY <1>1, OnlyMissingUpdate
  <2>2. worker[w].base = crs[Disk(w)]
    BY <1>1, <2>1 DEF MissingUpdate, IInv, LatestIsStored
  <2> QED BY <2>1, <2>2 DEF MissingUpdate, Stores
<1>2. IInv /\ [Next]_vars =>
        [\A w \in Workers :
            At(w, "missUpdate") /\ worker'[w].pc # "missUpdate" /\ crs' # crs =>
              crs' = [crs EXCEPT ![Disk(w)].collected = "DiskMissing"]]_vars
  BY <1>1
<1> QED BY Invariant, <1>2, PTL DEF Spec, MarkingKeepsTheRest

\* setHealth does not repeat an event as long as patches are stored: the last event
\* is about the stored condition, or about one that is going to be stored.
THEOREM ReportedOnce == Spec => TransitionReportedOnce
<1>1. ASSUME IInv, NEW w \in Workers, At(w, "apply"), UpToDate(w),
             Disk(w) \notin lost,
             \A v \in Workers : ~(At(v, "patch") /\ Disk(v) = Disk(w)),
             NEW after, Reports(worker[w].base.degraded, after)
      PROVE  told[Disk(w)] # after
  <2>1. Disk(w) \in Names
    BY <1>1 DEF IInv, WorkersSound, Sound, At, Disk, OnDisk, Names
  <2>2. told[Disk(w)] \in {None, crs[Disk(w)].degraded}
    BY <1>1, <2>1 DEF IInv, ToldIsStored, Announced
  <2>3. worker[w].base.degraded = crs[Disk(w)].degraded
    BY <1>1, StatusFields DEF UpToDate
  <2> QED BY <1>1, <2>2, <2>3 DEF Reports, Assessed, None
<1>2. IInv /\ [Next]_vars =>
        [\A w \in Workers :
            /\ At(w, "apply") /\ worker'[w].pc = "patch"
            /\ UpToDate(w) /\ Disk(w) \notin lost
            /\ \A v \in Workers : ~(At(v, "patch") /\ Disk(v) = Disk(w))
            /\ Reports(worker[w].base.degraded, worker'[w].out.degraded)
            => told[Disk(w)] # worker'[w].out.degraded]_vars
  BY <1>1
<1> QED BY Invariant, <1>2, PTL DEF Spec, TransitionReportedOnce
=============================================================================
