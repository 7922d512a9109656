-------------------------- MODULE DiscoveryProofs --------------------------
(***************************************************************************)
(* Proofs about the walk of DiscoverDisks: what it returns for the entries *)
(* nothing happens to, when it fails, and that an outdated inventory is    *)
(* followed by a broadcast.                                                *)
(***************************************************************************)
EXTENDS Discovery, SequenceTheorems, WellFoundedInduction, TLAPS

-----------------------------------------------------------------------------
(* The inductive invariant.                                                *)

\* The kernel gives an entry and a number to one disk at a time.
Placed ==
    /\ \A e \in Attached : Fits(e, at[e].disk)
    /\ \A e, f \in Attached : e # f =>
        at[e].disk # at[f].disk /\ at[e].num # at[f].num

\* The record of a number is the one of the disk behind it.
Settled(num) ==
    IF EntriesOf(num) = {} THEN db[num] = None
    ELSE \A e \in EntriesOf(num) : db[num] = at[e].disk

\* The last event udevd has to process is about the present state of the number.
Owed(num) ==
    pending[num][Len(pending[num])] = "add" <=> EntriesOf(num) # {}

RecordsSettle ==
    \A num \in Numbers :
        IF pending[num] = <<>> THEN Settled(num) ELSE Owed(num)

\* The type of walk, and the parts of TypeOK about it.
WalkType ==
    [pc : {"idle", "next", "partition", "record", "link", "size", "medium", "done"},
     todo : SUBSET Entries, entry : Entries \cup {0},
     num : Numbers \cup {None}, disk : Found, link : Found, size : Found,
     whole : BOOLEAN, recorded : BOOLEAN, out : SUBSET InfoType,
     result : {None, "ok", "no sysfs", "no database"}]

Filtered(w) ==
    /\ w.out # {} => w.recorded
    /\ \A i \in w.out : ~ShouldIgnore(i.entry, i.disk) /\ ~IsExcluded(i.entry, i.disk)

\* It has the record of the entry it visits.
Identified(w) == w.pc \in {"link", "size", "medium"}
Visiting(w) == w.pc \in {"partition", "record"} \/ Identified(w)

\* What the walk knows by itself.
Sound(w) ==
    /\ Visiting(w) => w.entry \in w.todo /\ w.num \in Numbers
    /\ Identified(w) =>
        w.disk \in Disks /\ w.recorded /\ ~ShouldIgnore(w.entry, w.disk)
    /\ w.pc # "done" => w.result = None
    /\ w.pc = "done" /\ w.result # "no sysfs" =>
        /\ w.todo = {}
        /\ w.result = IF w.whole /\ ~w.recorded THEN "no database" ELSE "ok"
    /\ w.recorded => mounted
    /\ \A i \in w.out : i.entry \notin w.todo

Listed(w, e) == {i \in w.out : i.entry = e}

\* A steady entry with the disk of its record, all read from one disk.
Exactly(e, d) == Info(e, at[e].num, d, at[e].disk, at[e].disk, at[e].disk)

Listable(e) ==
    /\ at[e].disk \notin Partitions /\ Readable(at[e].num)
    /\ ~ShouldIgnore(e, db[at[e].num]) /\ ~IsExcluded(e, db[at[e].num])

\* What the walk has made of an attached entry it is through with.
Seen(w, e) ==
    /\ at[e].disk \notin Partitions => w.whole
    /\ at[e].disk \notin Partitions /\ Readable(at[e].num) => w.recorded
    /\ Listed(w, e) = IF Listable(e)
                      THEN {Exactly(e, db[at[e].num])} ELSE {}

Walking(w) == w.pc # "idle" /\ w.result # "no sysfs"

\* What the walk has made of an entry that is as it was when the walk began.
Through(w, e) ==
    IF e \in Attached THEN e \in w.todo \/ Seen(w, e)
    ELSE e \notin w.todo /\ Listed(w, e) = {}

\* What it has read of the entry it visits, if that is one of these.
UnderWay(w) ==
    Visiting(w) /\ w.entry \in steady =>
        /\ w.num = at[w.entry].num
        /\ w.pc # "partition" => at[w.entry].disk \notin Partitions /\ w.whole
        /\ Identified(w) => w.disk = db[w.num]
        /\ w.pc \in {"size", "medium"} => w.link = at[w.entry].disk
        /\ w.pc = "medium" => w.size = at[w.entry].disk

Exact(w) ==
    Walking(w) => UnderWay(w) /\ \A e \in steady : Through(w, e)

\* While nothing is broadcast and udevd owes nothing, nothing has happened.
Quiet ==
    Walking(walk) /\ ~announced /\ (\A num \in Numbers : pending[num] = <<>>)
        => steady = Entries

IInv ==
    /\ TypeOK /\ Placed /\ RecordsSettle
    /\ Sound(walk) /\ Exact(walk) /\ Quiet

-----------------------------------------------------------------------------
(* Operators.                                                              *)

\* A set of numbers has a smallest one.
LEMMA Smallest ==
    ASSUME NEW S, S \subseteq Nat, S # {}
    PROVE  \E x \in S : \A y \in S : x <= y
<1> DEFINE R == OpToRel(<, Nat)
<1>1. IsWellFoundedOn(R, Nat)  BY NatLessThanWellFounded, Zenon
<1>2. \A y, x \in Nat : y < x => <<y, x>> \in R  BY Zenon DEF OpToRel
<1> HIDE DEF R
<1>3. PICK x \in S : \A y \in S : ~(<<y, x>> \in R)
  <2>1. \E x \in S : \A y \in S : ~(<<y, x>> \in R)  BY <1>1, WFMin
  <2> QED BY <2>1
<1>4. \A y \in S : x <= y
  <2> SUFFICES ASSUME NEW y \in S PROVE x <= y  OBVIOUS
  <2>1. x \in Nat /\ y \in Nat  OBVIOUS
  <2>2. ~(y < x)  BY <1>2, <1>3, <2>1, Zenon
  <2> QED BY <2>1, <2>2
<1> QED BY <1>4

\* ReadDir's order has a first entry: First(S) is in S.
LEMMA FirstIn ==
    ASSUME NEW S, S \subseteq Nat, S # {}
    PROVE  First(S) \in S
BY Smallest DEF First

\* The last event of a queue, when udevd takes the first one or the kernel adds one.
LEMMA TailLast ==
    ASSUME NEW S, NEW s \in Seq(S), s # <<>>
    PROVE  /\ Head(s) \in S /\ Tail(s) \in Seq(S)
           /\ Tail(s) = <<>> => s[Len(s)] = Head(s)
           /\ Tail(s) # <<>> => Tail(s)[Len(Tail(s))] = s[Len(s)]
<1>1. Len(s) \in Nat \ {0} /\ Head(s) = s[1]  BY EmptySeq
<1>2. /\ Head(s) \in S /\ Tail(s) \in Seq(S)
      /\ Len(Tail(s)) = Len(s) - 1
      /\ \A i \in 1 .. Len(Tail(s)) : Tail(s)[i] = s[i + 1]
  BY HeadTailProperties
<1>3. ASSUME Tail(s) = <<>> PROVE s[Len(s)] = Head(s)
  <2>1. Len(Tail(s)) = 0  BY <1>3, EmptySeq
  <2>2. Len(s) - 1 = 0  BY <1>2, <2>1, Zenon
  <2>3. Len(s) = 1  BY <1>1, <2>2
  <2> QED BY <1>1, <2>3
<1>4. ASSUME Tail(s) # <<>> PROVE Tail(s)[Len(Tail(s))] = s[Len(s)]
  <2>1. Len(Tail(s)) \in Nat \ {0}  BY <1>2, <1>4, EmptySeq
  <2>2. Tail(s)[Len(Tail(s))] = s[Len(Tail(s)) + 1]  BY <1>2, <2>1
  <2>3. Len(Tail(s)) + 1 = Len(s)  BY <1>1, <1>2
  <2> QED BY <2>2, <2>3
<1> QED BY <1>2, <1>3, <1>4

\* The kernel adds an event at the end of a queue.
LEMMA AppendLast ==
    ASSUME NEW S, NEW s \in Seq(S), NEW x \in S
    PROVE  /\ Append(s, x) \in Seq(S) /\ Append(s, x) # <<>>
           /\ Append(s, x)[Len(Append(s, x))] = x
<1>1. Append(s, x) \in Seq(S) /\ Len(Append(s, x)) = Len(s) + 1 /\ Len(s) \in Nat
  OBVIOUS
<1>2. Append(s, x)[Len(s) + 1] = x  BY <1>1
<1> QED BY <1>1, <1>2

\* What an attached entry holds.
LEMMA DeviceFacts ==
    ASSUME TypeOK
    PROVE  /\ \A e \in Attached : /\ e \in Entries /\ at[e] \in Device
                                  /\ at[e].disk \in Disks /\ at[e].num \in Numbers
           /\ \A e \in Entries \ Attached : at[e] = NoDevice /\ at[e].disk = None
           /\ \A d \in Device : d # NoDevice
<1>1. \A d \in Device : d # NoDevice /\ d.disk \in Disks /\ d.num \in Numbers
  BY NoneAssumption DEF Device, NoDevice
<1>2. \A e \in Entries : at[e] \in Device \cup {NoDevice}  BY DEF TypeOK
<1>3. NoDevice.disk = None  BY DEF NoDevice
<1> QED BY <1>1, <1>2, <1>3 DEF Attached

\* A number has at most one disk, the one udevd finds there.
LEMMA BehindFacts ==
    ASSUME Placed, NEW num \in Numbers
    PROVE  /\ Behind(num) = {} <=> EntriesOf(num) = {}
           /\ \A e \in EntriesOf(num) : /\ EntriesOf(num) = {e}
                                        /\ DiskBehind(num) = at[e].disk
<1>1. Behind(num) = {} <=> EntriesOf(num) = {}  BY DEF Behind
<1>2. ASSUME NEW e \in EntriesOf(num)
      PROVE  EntriesOf(num) = {e} /\ DiskBehind(num) = at[e].disk
  <2>1. \A f \in EntriesOf(num) : f = e  BY DEF EntriesOf, Placed
  <2>2. EntriesOf(num) = {e}  BY <2>1
  <2>3. Behind(num) = {at[e].disk}  BY <2>2 DEF Behind
  <2>4. DiskBehind(num) \in Behind(num)  BY <2>3 DEF DiskBehind
  <2> QED BY <2>2, <2>3, <2>4
<1> QED BY <1>1, <1>2

-----------------------------------------------------------------------------
(* Steps of the environment.                                               *)

\* The walk's knowledge about steady entries outlives a step that leaves these
\* alone and takes the entries it touches out of steady.
LEMMA Undisturbed ==
    ASSUME IInv, walk' = walk, mounted' = mounted, steady' \subseteq steady,
           \A e \in steady' : at'[e] = at[e],
           \A e \in steady' \cap Attached : db'[at[e].num] = db[at[e].num]
    PROVE  Sound(walk)' /\ Exact(walk)'
<1>1. Sound(walk)'  BY DEF IInv, Sound, Visiting, Identified, ShouldIgnore
<1>2. ASSUME NEW e \in steady', Through(walk, e) PROVE Through(walk, e)'
  <2>1. e \in Entries /\ e \in steady /\ at'[e] = at[e]  BY DEF IInv, TypeOK
  <2>2. e \in Attached' <=> e \in Attached  BY <2>1 DEF Attached
  <2>3. Listed(walk, e)' = Listed(walk, e)  BY DEF Listed
  <2>4. CASE e \in Attached
    <3>1. db'[at[e].num] = db[at[e].num]  BY <2>4
    <3>2. Readable(at[e].num)' <=> Readable(at[e].num)  BY <2>1, <3>1 DEF Readable
    <3>3. Listable(e)' <=> Listable(e)
      BY <2>1, <3>1, <3>2 DEF Listable, ShouldIgnore, IsExcluded
    <3>4. Seen(walk, e)' <=> Seen(walk, e)
      BY <2>1, <2>3, <3>1, <3>2, <3>3 DEF Seen, Exactly, Info
    <3> QED BY <1>2, <2>2, <2>4, <3>4 DEF Through
  <2>5. CASE e \notin Attached
    BY <1>2, <2>2, <2>3, <2>5 DEF Through
  <2> QED BY <2>4, <2>5
<1>3. ASSUME UnderWay(walk), Walking(walk), \A e \in steady : Through(walk, e)
      PROVE  UnderWay(walk)'
  <2> SUFFICES ASSUME Visiting(walk), walk.entry \in steady'
               PROVE  /\ walk.num = at'[walk.entry].num
                      /\ walk.pc # "partition" =>
                            at'[walk.entry].disk \notin Partitions /\ walk.whole
                      /\ Identified(walk) => walk.disk = db'[walk.num]
                      /\ walk.pc \in {"size", "medium"} =>
                            walk.link = at'[walk.entry].disk
                      /\ walk.pc = "medium" => walk.size = at'[walk.entry].disk
    BY DEF UnderWay, Visiting, Identified
  <2>1. walk.entry \in steady /\ at'[walk.entry] = at[walk.entry]  OBVIOUS
  <2>2. walk.entry \in Attached
    BY <1>3, <2>1 DEF Through, IInv, Sound
  <2>3. db'[at[walk.entry].num] = db[at[walk.entry].num]  BY <2>2
  <2> QED BY <1>3, <2>1, <2>3 DEF UnderWay
<1> QED BY <1>1, <1>2, <1>3 DEF IInv, Exact, Walking

\* What a disk that comes or goes changes.
LEMMA ChangesFacts ==
    ASSUME IInv, NEW e \in Entries, NEW device \in Device \cup {NoDevice},
           NEW num \in Numbers, NEW event \in {"add", "remove"},
           Changes(e, device, num, event)
    PROVE  /\ TypeOK' /\ Sound(walk)' /\ Exact(walk)' /\ Quiet'
           /\ at'[e] = device /\ \A f \in Entries \ {e} : at'[f] = at[f]
           /\ pending'[num] # <<>> /\ pending'[num][Len(pending'[num])] = event
           /\ \A m \in Numbers \ {num} : pending'[m] = pending[m]
           /\ db' = db
<1> USE DEF Changes
<1>1. at \in [Entries -> Device \cup {NoDevice}]
      /\ pending \in [Numbers -> Seq({"add", "remove"})]
  BY DEF IInv, TypeOK
<1>2. /\ at' \in [Entries -> Device \cup {NoDevice}]
      /\ at'[e] = device /\ \A f \in Entries \ {e} : at'[f] = at[f]
  BY <1>1
<1>3. pending[num] \in Seq({"add", "remove"})  BY <1>1
<1>4. /\ pending'[num] = Append(pending[num], event)
      /\ \A m \in Numbers \ {num} : pending'[m] = pending[m]
  BY <1>1
<1>5. /\ Append(pending[num], event) \in Seq({"add", "remove"})
      /\ pending'[num] # <<>> /\ pending'[num][Len(pending'[num])] = event
  BY <1>3, <1>4, AppendLast
<1>6. pending' \in [Numbers -> Seq({"add", "remove"})]  BY <1>1, <1>5
<1>7. hotplug' \in 0 .. MaxHotplug
  <2>1. hotplug \in 0 .. MaxHotplug  BY DEF IInv, TypeOK
  <2>2. hotplug > 0 /\ hotplug' = hotplug - 1  OBVIOUS
  <2> QED BY <2>1, <2>2, BoundAssumption
<1>8. TypeOK'
  BY <1>2, <1>6, <1>7, ZenonT(60) DEF IInv, TypeOK, ShouldIgnore, IsExcluded
<1>9. Sound(walk)' /\ Exact(walk)'
  <2>1. steady' \subseteq Entries /\ e \notin steady'  BY DEF IInv, TypeOK
  <2> QED BY <1>2, <2>1, Undisturbed
<1>10. Quiet'  BY <1>5 DEF Quiet
<1> QED BY <1>2, <1>4, <1>5, <1>8, <1>9, <1>10

\* A number none of whose disks changes keeps its record and its events.
LEMMA OtherNumber ==
    ASSUME NEW num \in Numbers,
           IF pending[num] = <<>> THEN Settled(num) ELSE Owed(num),
           EntriesOf(num)' = EntriesOf(num),
           \A e \in EntriesOf(num) : at'[e] = at[e],
           pending'[num] = pending[num], db'[num] = db[num]
    PROVE  IF pending'[num] = <<>> THEN Settled(num)' ELSE Owed(num)'
BY DEF Settled, Owed

\* A disk comes: its entry, its disk and its number were free, and udevd owes an "add".
LEMMA AttachIInv ==
    ASSUME IInv, Attach
    PROVE  IInv'
<1>1. PICK e \in Entries \ Attached, num \in Numbers, d \in Disks :
        /\ Fits(e, d) /\ Behind(num) = {} /\ \A f \in Attached : at[f].disk # d
        /\ Changes(e, [disk |-> d, num |-> num], num, "add")
  BY DEF Attach
<1> DEFINE device == [disk |-> d, num |-> num]
<1>2. device \in Device /\ device.disk = d /\ device.num = num  BY DEF Device
<1>3. /\ TypeOK' /\ Sound(walk)' /\ Exact(walk)' /\ Quiet'
      /\ at'[e] = device /\ \A f \in Entries \ {e} : at'[f] = at[f]
      /\ pending'[num] # <<>> /\ pending'[num][Len(pending'[num])] = "add"
      /\ \A m \in Numbers \ {num} : pending'[m] = pending[m]
      /\ db' = db
  BY <1>1, <1>2, ChangesFacts
<1> HIDE DEF device
<1>4. TypeOK /\ Placed /\ RecordsSettle  BY DEF IInv
<1>5. Attached' = Attached \cup {e} /\ e \notin Attached /\ Attached \subseteq Entries
  <2>1. device # NoDevice  BY <1>2, <1>4, DeviceFacts
  <2> QED BY <1>3, <2>1 DEF Attached
<1>6. EntriesOf(num) = {}  BY <1>1, <1>4, BehindFacts
<1>7. Placed'
  <2>1. \A f \in Attached : at'[f] = at[f]  BY <1>3, <1>5
  <2>2. \A f \in Attached : at[f].disk # d /\ at[f].num # num
    BY <1>1, <1>6 DEF EntriesOf
  <2>3. \A f \in Attached' : Fits(f, at[f].disk)'
    BY <1>1, <1>2, <1>3, <1>4, <1>5, <2>1 DEF Placed, Fits
  <2>4. ASSUME NEW f \in Attached', NEW g \in Attached', f # g
        PROVE  at'[f].disk # at'[g].disk /\ at'[f].num # at'[g].num
    <3>1. CASE f = e
      BY <1>2, <1>3, <1>5, <2>1, <2>2, <2>4, <3>1
    <3>2. CASE g = e
      BY <1>2, <1>3, <1>5, <2>1, <2>2, <2>4, <3>2
    <3>3. CASE f # e /\ g # e
      BY <1>4, <1>5, <2>1, <2>4, <3>3 DEF Placed
    <3> QED BY <3>1, <3>2, <3>3
  <2> QED BY <2>3, <2>4 DEF Placed
<1>8. ASSUME NEW m \in Numbers
      PROVE  IF pending'[m] = <<>> THEN Settled(m)' ELSE Owed(m)'
  <2>1. CASE m = num
    <3>1. e \in EntriesOf(num)'  BY <1>2, <1>3, <1>5 DEF EntriesOf
    <3> QED BY <1>3, <2>1, <3>1 DEF Owed
  <2>2. CASE m # num
    <3>1. EntriesOf(m)' = EntriesOf(m) /\ \A f \in EntriesOf(m) : at'[f] = at[f]
      BY <1>2, <1>3, <1>5, <2>2 DEF EntriesOf
    <3> QED BY <1>3, <1>4, <2>2, <3>1, OtherNumber DEF RecordsSettle
  <2> QED BY <2>1, <2>2
<1> QED BY <1>3, <1>7, <1>8 DEF IInv, RecordsSettle

\* A disk goes: no other disk has its number, and udevd owes a "remove".
LEMMA DetachIInv ==
    ASSUME IInv, Detach
    PROVE  IInv'
<1>1. PICK e \in Attached : Changes(e, NoDevice, at[e].num, "remove")  BY DEF Detach
<1>2. TypeOK /\ Placed /\ RecordsSettle  BY DEF IInv
<1> DEFINE num == at[e].num
<1>3. e \in Entries /\ num \in Numbers  BY <1>2, DeviceFacts
<1>4. /\ TypeOK' /\ Sound(walk)' /\ Exact(walk)' /\ Quiet'
      /\ at'[e] = NoDevice /\ \A f \in Entries \ {e} : at'[f] = at[f]
      /\ pending'[num] # <<>> /\ pending'[num][Len(pending'[num])] = "remove"
      /\ \A m \in Numbers \ {num} : pending'[m] = pending[m]
      /\ db' = db
  BY <1>1, <1>3, ChangesFacts
<1>5. /\ Attached' = Attached \ {e} /\ Attached \subseteq Entries
      /\ \A f \in Attached \ {e} : at'[f] = at[f]
  BY <1>4 DEF Attached
<1>6. Placed'  BY <1>2, <1>5 DEF Placed, Fits
<1>7. ASSUME NEW m \in Numbers
      PROVE  IF pending'[m] = <<>> THEN Settled(m)' ELSE Owed(m)'
  <2>1. CASE m = num
    <3>1. \A f \in Attached \ {e} : at[f].num # num  BY <1>2 DEF Placed
    <3>2. EntriesOf(m)' = {}  BY <1>5, <2>1, <3>1 DEF EntriesOf
    <3> QED BY <1>4, <2>1, <3>2 DEF Owed
  <2>2. CASE m # num
    <3>1. EntriesOf(m)' = EntriesOf(m) /\ \A f \in EntriesOf(m) : at'[f] = at[f]
      BY <1>5, <2>2 DEF EntriesOf
    <3> QED BY <1>2, <1>4, <2>2, <3>1, OtherNumber DEF RecordsSettle
  <2> QED BY <2>1, <2>2
<1> QED BY <1>4, <1>6, <1>7 DEF IInv, RecordsSettle

\* udevd processes an event: once the queue of a number is empty, its record is
\* the one of the disk behind it, or there is none.
LEMMA UdevdIInv ==
    ASSUME IInv, UdevdProcesses
    PROVE  IInv'
<1>1. PICK num \in Numbers :
        /\ pending[num] # <<>>
        /\ pending' = [pending EXCEPT ![num] = Tail(@)]
        /\ db' = [db EXCEPT ![num] =
              IF Head(pending[num]) = "remove" THEN None
              ELSE IF Behind(num) = {} THEN @
              ELSE DiskBehind(num)]
        /\ steady' = IF db'[num] = db[num] THEN steady
                     ELSE steady \ EntriesOf(num)
        /\ announced' = TRUE
        /\ UNCHANGED <<at, mounted, walk, hotplug>>
  BY DEF UdevdProcesses
<1>2. TypeOK /\ Placed /\ RecordsSettle  BY DEF IInv
<1>3. /\ db \in [Numbers -> Disks \cup {None}]
      /\ pending \in [Numbers -> Seq({"add", "remove"})]
  BY <1>2 DEF TypeOK
<1>4. pending[num] \in Seq({"add", "remove"})  BY <1>3
<1> DEFINE s == pending[num]
<1>5. /\ Head(s) \in {"add", "remove"} /\ Tail(s) \in Seq({"add", "remove"})
      /\ Tail(s) = <<>> => s[Len(s)] = Head(s)
      /\ Tail(s) # <<>> => Tail(s)[Len(Tail(s))] = s[Len(s)]
  BY <1>1, <1>4, TailLast
<1>6. /\ pending'[num] = Tail(s)
      /\ \A m \in Numbers \ {num} : pending'[m] = pending[m] /\ db'[m] = db[m]
      /\ Head(s) = "remove" => db'[num] = None
      /\ Head(s) # "remove" /\ Behind(num) = {} => db'[num] = db[num]
      /\ Head(s) # "remove" /\ Behind(num) # {} => db'[num] = DiskBehind(num)
  BY <1>1, <1>3
<1>7. pending' \in [Numbers -> Seq({"add", "remove"})]  BY <1>1, <1>3, <1>5
<1>8. Behind(num) = {} <=> EntriesOf(num) = {}  BY <1>2, BehindFacts
<1>9. \A e \in EntriesOf(num) : DiskBehind(num) = at[e].disk /\ at[e].disk \in Disks
  BY <1>2, BehindFacts, DeviceFacts DEF EntriesOf
<1>10. db' \in [Numbers -> Disks \cup {None}]
  <2>1. db'[num] \in Disks \cup {None}  BY <1>3, <1>6, <1>8, <1>9
  <2> QED BY <1>1, <1>3, <2>1
<1>11. TypeOK'
  <2>1. steady' \subseteq Entries  BY <1>1, <1>2 DEF TypeOK
  <2> QED BY <1>1, <1>2, <1>7, <1>10, <2>1, ZenonT(60) DEF TypeOK, ShouldIgnore, IsExcluded
<1>12. Sound(walk)' /\ Exact(walk)'
  <2>1. steady' \subseteq steady  BY <1>1
  <2>2. ASSUME NEW e \in steady' \cap Attached PROVE db'[at[e].num] = db[at[e].num]
    <3>1. at[e].num \in Numbers  BY <1>2, DeviceFacts
    <3>2. CASE at[e].num = num  BY <1>1, <3>2 DEF EntriesOf
    <3>3. CASE at[e].num # num  BY <1>6, <3>1, <3>3
    <3> QED BY <3>2, <3>3
  <2> QED BY <1>1, <2>1, <2>2, Undisturbed
<1>13. Placed' /\ \A m \in Numbers : EntriesOf(m)' = EntriesOf(m)
  BY <1>1, <1>2 DEF Placed, Fits, Attached, EntriesOf
<1>14. ASSUME NEW m \in Numbers
       PROVE  IF pending'[m] = <<>> THEN Settled(m)' ELSE Owed(m)'
  <2>1. CASE m = num
    <3>1. s[Len(s)] = "add" <=> EntriesOf(num) # {}
      BY <1>1, <1>2 DEF RecordsSettle, Owed
    <3>2. CASE Tail(s) = <<>>
      <4>1. Head(s) = "add" <=> EntriesOf(num) # {}  BY <1>5, <3>1, <3>2
      <4>2. CASE EntriesOf(num) = {}
        BY <1>1, <1>5, <1>6, <1>13, <2>1, <3>2, <4>1, <4>2 DEF Settled
      <4>3. CASE EntriesOf(num) # {}
        <5>1. \A e \in EntriesOf(num) : db'[num] = at[e].disk
          BY <1>6, <1>8, <1>9, <4>1, <4>3
        <5> QED BY <1>1, <1>6, <1>13, <2>1, <3>2, <4>3, <5>1 DEF Settled
      <4> QED BY <4>2, <4>3
    <3>3. CASE Tail(s) # <<>>
      BY <1>5, <1>6, <1>13, <2>1, <3>1, <3>3 DEF Owed
    <3> QED BY <3>2, <3>3
  <2>2. CASE m # num
    BY <1>1, <1>2, <1>6, <1>13, <2>2, OtherNumber DEF RecordsSettle
  <2> QED BY <2>1, <2>2
<1>15. Quiet'  BY <1>1 DEF Quiet
<1> QED BY <1>11, <1>12, <1>13, <1>14, <1>15 DEF IInv, RecordsSettle

-----------------------------------------------------------------------------
(* Steps of the walk.                                                      *)

\* A step of the walk disturbs nothing else.
LEMMA StepIInv ==
    ASSUME IInv, NEW w, Step(w), w \in WalkType, Filtered(w), Sound(w), Exact(w),
           Walking(w) => Walking(walk)
    PROVE  IInv'
<1>1. UNCHANGED <<at, pending, hotplug, db, mounted, announced, steady>> /\ walk' = w
  BY DEF Step, host
<1>2. TypeOK'
  <2>1. /\ at' \in [Entries -> Device \cup {NoDevice}]
        /\ db' \in [Numbers -> Disks \cup {None}] /\ mounted' \in BOOLEAN
        /\ pending' \in [Numbers -> Seq({"add", "remove"})]
        /\ announced' \in BOOLEAN /\ steady' \subseteq Entries
        /\ hotplug' \in 0 .. MaxHotplug
    BY <1>1, Zenon DEF IInv, TypeOK
  <2>2. /\ w.out # {} => w.recorded
        /\ \A i \in w.out : ~ShouldIgnore(i.entry, i.disk) /\ ~IsExcluded(i.entry, i.disk)
    BY Zenon DEF Filtered
  <2>3. /\ walk'.out # {} => walk'.recorded
        /\ \A i \in walk'.out :
             ~ShouldIgnore(i.entry, i.disk)' /\ ~IsExcluded(i.entry, i.disk)'
    BY <1>1, <2>2, Zenon DEF ShouldIgnore, IsExcluded
  <2>4. walk' \in WalkType  BY <1>1, Zenon
  <2> QED BY <2>1, <2>3, <2>4, ZenonT(60) DEF TypeOK, WalkType
<1>3. Attached' = Attached /\ \A m : EntriesOf(m)' = EntriesOf(m)
  BY <1>1 DEF Attached, EntriesOf
<1>4. Placed' /\ RecordsSettle'
  BY <1>1, <1>3 DEF IInv, Placed, Fits, RecordsSettle, Settled, Owed
<1>5. Sound(walk)'  BY <1>1 DEF Sound, Visiting, Identified, ShouldIgnore
<1>6. Exact(walk)'
  <2>1. ASSUME NEW e PROVE Through(walk, e)' <=> Through(w, e)
    <3>1. Listed(walk, e)' = Listed(w, e)  BY <1>1 DEF Listed
    <3>2. Listable(e)' <=> Listable(e)
      BY <1>1 DEF Listable, Readable, ShouldIgnore, IsExcluded
    <3>3. Seen(walk, e)' <=> Seen(w, e)
      BY <1>1, <3>1, <3>2 DEF Seen, Readable, Exactly, Info
    <3> QED BY <1>1, <1>3, <3>1, <3>3 DEF Through
  <2>2. UnderWay(walk)' <=> UnderWay(w)  BY <1>1 DEF UnderWay, Visiting, Identified
  <2> QED BY <1>1, <2>1, <2>2 DEF Exact, Walking
<1>7. Quiet'  BY <1>1 DEF IInv, Quiet, Walking
<1> QED BY <1>2, <1>4, <1>5, <1>6, <1>7 DEF IInv

\* The walk's fields after an entry is done with.
LEMMA ContinueFacts ==
    ASSUME NEW w \in WalkType
    PROVE  /\ Continue(w) \in WalkType
           /\ Continue(w).pc = "next" /\ Continue(w).todo = w.todo \ {w.entry}
           /\ Continue(w).whole = w.whole /\ Continue(w).recorded = w.recorded
           /\ Continue(w).out = w.out /\ Continue(w).result = w.result
BY DEF Continue, WalkType, Found

\* Going on with the next entry is sound if this one is through, should it be steady.
LEMMA EntryDone ==
    ASSUME IInv, NEW w \in WalkType, NEW e, walk.todo \subseteq Entries,
           w.pc = "next", w.todo = walk.todo \ {e}, w.result = walk.result,
           walk.whole => w.whole, walk.recorded => w.recorded, w.recorded => mounted,
           walk.pc \notin {"idle", "done"}, e \in walk.todo,
           \A i \in w.out : i \in walk.out \/ i.entry = e,
           walk.out \subseteq w.out,
           e \in steady => Seen(w, e)
    PROVE  Sound(w) /\ Exact(w)
<1>1. Sound(walk) /\ Exact(walk) /\ walk.result = None  BY DEF IInv, Sound
<1>2. Sound(w)  BY <1>1 DEF Sound, Visiting, Identified
<1>3. Walking(walk) /\ \A f \in steady : Through(walk, f)
  BY <1>1 DEF Exact, Walking, None
<1>4. ASSUME NEW f \in steady PROVE Through(w, f)
  <2>1. CASE f = e
    BY <1>3, <2>1 DEF Through
  <2>2. CASE f # e
    <3>1. Listed(w, f) = Listed(walk, f)  BY <2>2 DEF Listed
    <3> QED BY <1>3, <2>2, <3>1 DEF Through, Seen
  <2> QED BY <2>1, <2>2
<1>5. UnderWay(w)  BY DEF UnderWay, Visiting, Identified
<1> QED BY <1>2, <1>4, <1>5 DEF Exact

\* A walk begins with every entry steady, and with all the attached ones to visit.
LEMMA ReadBlockDirIInv ==
    ASSUME IInv, ReadBlockDir
    PROVE  IInv'
<1>1. /\ UNCHANGED <<at, pending, hotplug, db, mounted>>
      /\ announced' = FALSE /\ steady' = Entries
      /\ walk' = [Idle EXCEPT !.pc = "next", !.todo = Attached]
  BY DEF ReadBlockDir, host
<1>2. Attached \subseteq Entries  BY DEF Attached
<1>3. /\ walk' \in WalkType /\ walk'.pc = "next" /\ walk'.todo = Attached
      /\ walk'.recorded = FALSE /\ walk'.out = {} /\ walk'.result = None
  BY <1>1, <1>2 DEF Idle, WalkType, Found
<1>4. TypeOK'  BY <1>1, <1>3 DEF IInv, TypeOK, WalkType
<1>5. Attached' = Attached /\ \A m : EntriesOf(m)' = EntriesOf(m)
  BY <1>1 DEF Attached, EntriesOf
<1>6. Placed' /\ RecordsSettle'
  BY <1>1, <1>5 DEF IInv, Placed, Fits, RecordsSettle, Settled, Owed
<1>7. Sound(walk)'  BY <1>3 DEF Sound, Visiting, Identified
<1>8. Exact(walk)'
  <2>1. ASSUME NEW e PROVE Through(walk, e)'
    BY <1>3, <1>5 DEF Through, Listed
  <2>2. UnderWay(walk)'  BY <1>3 DEF UnderWay, Visiting, Identified
  <2> QED BY <2>1, <2>2 DEF Exact
<1>9. Quiet'  BY <1>1 DEF Quiet
<1> QED BY <1>4, <1>6, <1>7, <1>8, <1>9 DEF IInv

\* Between two walks nothing is known.
LEMMA IdleIInv ==
    ASSUME IInv, ReadBlockDirFails \/ Return
    PROVE  IInv'
<1> DEFINE Failed == [Idle EXCEPT !.pc = "done", !.result = "no sysfs"]
<1>1. Step(Idle) \/ Step(Failed)  BY DEF ReadBlockDirFails, Return
<1>2. /\ Idle \in WalkType /\ Idle.out = {} /\ Idle.recorded = FALSE
      /\ Idle.pc = "idle" /\ Idle.result = None
  BY DEF Idle, WalkType, Found
<1>3. /\ Failed \in WalkType /\ Failed.out = {} /\ Failed.recorded = FALSE
      /\ Failed.pc = "done" /\ Failed.result = "no sysfs"
  BY DEF Idle, WalkType, Found
<1> HIDE DEF Failed
<1>4. ASSUME NEW w \in {Idle, Failed}, Step(w) PROVE IInv'
  <2>1. Filtered(w) /\ Sound(w) /\ ~Walking(w)
    BY <1>2, <1>3 DEF Filtered, Sound, Visiting, Identified, Walking
  <2> QED BY <1>2, <1>3, <1>4, <2>1, StepIInv DEF Exact
<1> QED BY <1>1, <1>4

\* An entry that has vanished is skipped, any other one visited.
LEMMA ReadDevNumberIInv ==
    ASSUME IInv, ReadDevNumber
    PROVE  IInv'
<1> DEFINE e == First(walk.todo)
           w == [walk EXCEPT !.entry = e]
           v == [w EXCEPT !.pc = "partition", !.num = at[e].num]
<1>1. /\ walk.pc = "next" /\ walk.todo # {}
      /\ Step(IF at[e] = NoDevice THEN Continue(w) ELSE v)
  BY DEF ReadDevNumber, At
<1>2. /\ walk \in WalkType /\ Filtered(walk) /\ Sound(walk) /\ Exact(walk)
      /\ TypeOK
  BY DEF IInv, TypeOK, WalkType, Filtered
<1>3. walk.todo \subseteq Entries  BY <1>2 DEF WalkType
<1>4. e \in walk.todo /\ e \in Entries
  BY <1>1, <1>3, FirstIn, EntriesAssumption
<1> HIDE DEF e
<1>5. Walking(walk) /\ walk.result = None /\ \A f \in steady : Through(walk, f)
  BY <1>1, <1>2 DEF Sound, Exact, Walking, None
<1>6. CASE at[e] = NoDevice
  <2>1. w \in WalkType /\ w.entry = e /\ w.todo = walk.todo /\ w.whole = walk.whole
        /\ w.recorded = walk.recorded /\ w.out = walk.out /\ w.result = walk.result
    BY <1>2, <1>4 DEF WalkType
  <2> DEFINE t == Continue(w)
  <2> HIDE DEF w
  <2>2. t \in WalkType /\ t.pc = "next" /\ t.todo = walk.todo \ {e}
        /\ t.whole = walk.whole /\ t.recorded = walk.recorded
        /\ t.out = walk.out /\ t.result = walk.result
    BY <2>1, ContinueFacts
  <2> HIDE DEF t
  <2>3. e \notin steady  BY <1>4, <1>5, <1>6 DEF Through, Attached
  <2>4. Sound(t) /\ Exact(t)
    BY <1>1, <1>2, <1>3, <1>4, <2>2, <2>3, EntryDone DEF Sound
  <2>5. Filtered(t)  BY <1>2, <2>2 DEF Filtered
  <2> QED BY <1>1, <1>5, <1>6, <2>2, <2>4, <2>5, StepIInv DEF t
<1>7. CASE at[e] # NoDevice
  <2>1. at[e].num \in Numbers  BY <1>2, <1>4, <1>7, DeviceFacts DEF Attached
  <2>2. v \in WalkType /\ v.pc = "partition" /\ v.entry = e /\ v.num = at[e].num
        /\ v.todo = walk.todo /\ v.whole = walk.whole
        /\ v.recorded = walk.recorded /\ v.out = walk.out /\ v.result = walk.result
    BY <1>2, <1>4, <2>1 DEF WalkType
  <2> HIDE DEF v
  <2>3. Sound(v)  BY <1>2, <1>4, <1>5, <2>1, <2>2 DEF Sound, Visiting, Identified
  <2>4. UnderWay(v)  BY <2>2 DEF UnderWay, Visiting, Identified
  <2>5. \A f \in steady : Through(v, f)  BY <1>5, <2>2 DEF Through, Seen, Listed
  <2>6. Filtered(v)  BY <1>2, <2>2 DEF Filtered
  <2> QED BY <1>1, <1>5, <1>7, <2>2, <2>3, <2>4, <2>5, <2>6, StepIInv DEF Exact
<1> QED BY <1>6, <1>7

\* A partition is skipped, a whole disk counted.
LEMMA StatPartitionIInv ==
    ASSUME IInv, StatPartition
    PROVE  IInv'
<1> DEFINE e == walk.entry
           t == Continue(walk)
           v == [walk EXCEPT !.pc = "record", !.whole = TRUE]
<1>1. /\ walk.pc = "partition"
      /\ Step(IF at[e].disk \in Partitions THEN t ELSE v)
  BY DEF StatPartition, At
<1>2. /\ walk \in WalkType /\ Filtered(walk) /\ Sound(walk) /\ Exact(walk)
      /\ TypeOK
  BY DEF IInv, TypeOK, WalkType, Filtered
<1>3. walk.todo \subseteq Entries /\ e \in walk.todo /\ walk.num \in Numbers
  BY <1>1, <1>2 DEF WalkType, Sound, Visiting, Identified
<1>4. /\ Walking(walk) /\ walk.result = None /\ UnderWay(walk)
      /\ \A f \in steady : Through(walk, f)
  BY <1>1, <1>2 DEF Sound, Exact, Walking, None
<1>5. CASE at[e].disk \in Partitions
  <2>1. t \in WalkType /\ t.pc = "next" /\ t.todo = walk.todo \ {e}
        /\ t.whole = walk.whole /\ t.recorded = walk.recorded
        /\ t.out = walk.out /\ t.result = walk.result
    BY <1>2, ContinueFacts
  <2> HIDE DEF t
  <2>2. Seen(t, e)
    <3>1. Listed(t, e) = {}  BY <1>2, <1>3, <2>1 DEF Listed, Sound
    <3> QED BY <1>5, <3>1 DEF Seen, Listable
  <2>3. Sound(t) /\ Exact(t)
    BY <1>1, <1>2, <1>3, <2>1, <2>2, EntryDone DEF Sound
  <2>4. Filtered(t)  BY <1>2, <2>1 DEF Filtered
  <2> QED BY <1>1, <1>4, <1>5, <2>1, <2>3, <2>4, StepIInv
<1>6. CASE at[e].disk \notin Partitions
  <2>1. v \in WalkType /\ v.pc = "record" /\ v.entry = e /\ v.num = walk.num
        /\ v.todo = walk.todo /\ v.whole = TRUE
        /\ v.recorded = walk.recorded /\ v.out = walk.out /\ v.result = walk.result
    BY <1>2 DEF WalkType
  <2> HIDE DEF v
  <2>2. Sound(v)  BY <1>2, <1>3, <1>4, <2>1 DEF Sound, Visiting, Identified
  <2>3. UnderWay(v)  BY <1>1, <1>4, <1>6, <2>1 DEF UnderWay, Visiting, Identified
  <2>4. \A f \in steady : Through(v, f)  BY <1>4, <2>1 DEF Through, Seen, Listed
  <2>5. Filtered(v)  BY <1>2, <2>1 DEF Filtered
  <2> QED BY <1>1, <1>4, <1>6, <2>1, <2>2, <2>3, <2>4, <2>5, StepIInv DEF Exact
<1> QED BY <1>5, <1>6

\* A disk without a record is skipped, one with a record counted and then filtered
\* by its name and its record.
LEMMA ReadRecordIInv ==
    ASSUME IInv, ReadRecord
    PROVE  IInv'
<1> DEFINE e == walk.entry
           d == db[walk.num]
           w == [walk EXCEPT !.recorded = TRUE]
           v == [w EXCEPT !.pc = "link", !.disk = d]
<1>1. /\ walk.pc = "record"
      /\ Step(IF ~Readable(walk.num) THEN Continue(walk)
              ELSE IF ShouldIgnore(e, d) THEN Continue(w) ELSE v)
  BY DEF ReadRecord, At
<1>2. /\ walk \in WalkType /\ Filtered(walk) /\ Sound(walk) /\ Exact(walk)
      /\ TypeOK
  BY DEF IInv, TypeOK, WalkType, Filtered
<1>3. walk.todo \subseteq Entries /\ e \in walk.todo /\ walk.num \in Numbers
  BY <1>1, <1>2 DEF WalkType, Sound, Visiting, Identified
<1>4. /\ Walking(walk) /\ walk.result = None /\ UnderWay(walk)
      /\ \A f \in steady : Through(walk, f)
  BY <1>1, <1>2 DEF Sound, Exact, Walking, None
<1>5. e \in steady => walk.num = at[e].num /\ walk.whole
  BY <1>1, <1>4 DEF UnderWay, Visiting, Identified
<1>6. w \in WalkType /\ w.entry = e /\ w.num = walk.num /\ w.todo = walk.todo
      /\ w.whole = walk.whole /\ w.recorded = TRUE
      /\ w.out = walk.out /\ w.result = walk.result
  BY <1>2 DEF WalkType
<1>7. CASE ~Readable(walk.num)
  <2> DEFINE t == Continue(walk)
  <2>1. t \in WalkType /\ t.pc = "next" /\ t.todo = walk.todo \ {e}
        /\ t.whole = walk.whole /\ t.recorded = walk.recorded
        /\ t.out = walk.out /\ t.result = walk.result
    BY <1>2, ContinueFacts
  <2> HIDE DEF t
  <2>2. e \in steady => Seen(t, e)
    <3>1. Listed(t, e) = {}  BY <1>2, <1>3, <2>1 DEF Listed, Sound
    <3> QED BY <1>5, <1>7, <2>1, <3>1 DEF Seen, Listable
  <2>3. Sound(t) /\ Exact(t)
    BY <1>1, <1>2, <1>3, <2>1, <2>2, EntryDone DEF Sound
  <2>4. Filtered(t)  BY <1>2, <2>1 DEF Filtered
  <2> QED BY <1>1, <1>4, <1>7, <2>1, <2>3, <2>4, StepIInv DEF t
<1>8. CASE Readable(walk.num) /\ ShouldIgnore(e, d)
  <2> DEFINE t == Continue(w)
  <2> HIDE DEF w
  <2>1. t \in WalkType /\ t.pc = "next" /\ t.todo = walk.todo \ {e}
        /\ t.whole = walk.whole /\ t.recorded = TRUE
        /\ t.out = walk.out /\ t.result = walk.result
    BY <1>6, ContinueFacts
  <2> HIDE DEF t
  <2>2. e \in steady => Seen(t, e)
    <3>1. Listed(t, e) = {}  BY <1>2, <1>3, <2>1 DEF Listed, Sound
    <3> QED BY <1>5, <1>8, <2>1, <3>1 DEF Seen, Listable
  <2>3. mounted  BY <1>8 DEF Readable
  <2>4. Sound(t) /\ Exact(t)
    BY <1>1, <1>2, <1>3, <2>1, <2>2, <2>3, EntryDone DEF Sound
  <2>5. Filtered(t)  BY <1>2, <2>1 DEF Filtered
  <2> QED BY <1>1, <1>4, <1>8, <2>1, <2>4, <2>5, StepIInv DEF t
<1>9. CASE Readable(walk.num) /\ ~ShouldIgnore(e, d)
  <2>1. mounted /\ d \in Disks  BY <1>2, <1>3, <1>9 DEF Readable, TypeOK
  <2>2. v \in WalkType /\ v.pc = "link" /\ v.entry = e /\ v.num = walk.num
        /\ v.todo = walk.todo /\ v.whole = walk.whole /\ v.disk = d
        /\ v.recorded = TRUE /\ v.out = walk.out /\ v.result = walk.result
    BY <1>2, <2>1 DEF WalkType, Found
  <2> HIDE DEF v
  <2>3. Sound(v)  BY <1>2, <1>3, <1>4, <1>9, <2>1, <2>2 DEF Sound, Visiting, Identified
  <2>4. UnderWay(v)  BY <1>1, <1>4, <2>2 DEF UnderWay, Visiting, Identified
  <2>5. \A f \in steady : Through(v, f)  BY <1>4, <2>2 DEF Through, Seen, Listed
  <2>6. Filtered(v)  BY <1>2, <2>2 DEF Filtered
  <2> QED BY <1>1, <1>4, <1>9, <2>2, <2>3, <2>4, <2>5, <2>6, StepIInv DEF Exact
<1> QED BY <1>7, <1>8, <1>9

\* A file of an entry tells of a disk or, once that has vanished, of none.
LEMMA AttributeFound ==
    ASSUME TypeOK, NEW e \in Entries
    PROVE  Attribute(e) \in Found /\ Attribute(e) = at[e].disk
BY DeviceFacts DEF Attribute, Found

\* The link of a steady entry is the one of its disk.
LEMMA ReadLinkIInv ==
    ASSUME IInv, ReadLink
    PROVE  IInv'
<1> DEFINE e == walk.entry
           v == [walk EXCEPT !.pc = "size", !.link = Attribute(e)]
<1>1. walk.pc = "link" /\ Step(v)  BY DEF ReadLink, At
<1>2. /\ walk \in WalkType /\ Filtered(walk) /\ Sound(walk) /\ Exact(walk)
      /\ TypeOK
  BY DEF IInv, TypeOK, WalkType, Filtered
<1>3. walk.todo \subseteq Entries /\ e \in walk.todo
  BY <1>1, <1>2 DEF WalkType, Sound, Visiting, Identified
<1>4. /\ Walking(walk) /\ UnderWay(walk)
      /\ \A f \in steady : Through(walk, f)
  BY <1>1, <1>2 DEF Sound, Exact, Walking, None
<1>5. Attribute(e) \in Found /\ Attribute(e) = at[e].disk
  BY <1>2, <1>3, AttributeFound
<1>6. v \in WalkType /\ v.pc = "size" /\ v.entry = e /\ v.num = walk.num
      /\ v.todo = walk.todo /\ v.whole = walk.whole /\ v.disk = walk.disk
      /\ v.link = at[e].disk
      /\ v.recorded = walk.recorded /\ v.out = walk.out /\ v.result = walk.result
  BY <1>2, <1>5 DEF WalkType
<1> HIDE DEF v
<1>7. Sound(v)  BY <1>1, <1>2, <1>6 DEF Sound, Visiting, Identified, ShouldIgnore
<1>8. UnderWay(v)  BY <1>1, <1>4, <1>6 DEF UnderWay, Visiting, Identified
<1>9. \A f \in steady : Through(v, f)  BY <1>4, <1>6 DEF Through, Seen, Listed
<1>10. Filtered(v)  BY <1>2, <1>6 DEF Filtered
<1> QED BY <1>1, <1>4, <1>6, <1>7, <1>8, <1>9, <1>10, StepIInv DEF Exact

\* So is the size.
LEMMA ReadSizeIInv ==
    ASSUME IInv, ReadSize
    PROVE  IInv'
<1> DEFINE e == walk.entry
           v == [walk EXCEPT !.pc = "medium", !.size = Attribute(e)]
<1>1. walk.pc = "size" /\ Step(v)  BY DEF ReadSize, At
<1>2. /\ walk \in WalkType /\ Filtered(walk) /\ Sound(walk) /\ Exact(walk)
      /\ TypeOK
  BY DEF IInv, TypeOK, WalkType, Filtered
<1>3. walk.todo \subseteq Entries /\ e \in walk.todo
  BY <1>1, <1>2 DEF WalkType, Sound, Visiting, Identified
<1>4. /\ Walking(walk) /\ UnderWay(walk)
      /\ \A f \in steady : Through(walk, f)
  BY <1>1, <1>2 DEF Sound, Exact, Walking, None
<1>5. Attribute(e) \in Found /\ Attribute(e) = at[e].disk
  BY <1>2, <1>3, AttributeFound
<1>6. v \in WalkType /\ v.pc = "medium" /\ v.entry = e /\ v.num = walk.num
      /\ v.todo = walk.todo /\ v.whole = walk.whole /\ v.disk = walk.disk
      /\ v.size = at[e].disk /\ v.link = walk.link
      /\ v.recorded = walk.recorded /\ v.out = walk.out /\ v.result = walk.result
  BY <1>2, <1>5 DEF WalkType
<1> HIDE DEF v
<1>7. Sound(v)  BY <1>1, <1>2, <1>6 DEF Sound, Visiting, Identified, ShouldIgnore
<1>8. UnderWay(v)  BY <1>1, <1>4, <1>6 DEF UnderWay, Visiting, Identified
<1>9. \A f \in steady : Through(v, f)  BY <1>4, <1>6 DEF Through, Seen, Listed
<1>10. Filtered(v)  BY <1>2, <1>6 DEF Filtered
<1> QED BY <1>1, <1>4, <1>6, <1>7, <1>8, <1>9, <1>10, StepIInv DEF Exact

\* A disk is listed with what its entry has by now, unless a rule excludes it.
LEMMA ReadMediumIInv ==
    ASSUME IInv, ReadMedium
    PROVE  IInv'
<1> DEFINE e == walk.entry
           d == walk.disk
           i == Complete
           t == Continue(walk)
           v == [t EXCEPT !.out = @ \cup {i}]
<1>1. /\ walk.pc = "medium"
      /\ Step(IF IsExcluded(e, d) THEN t ELSE v)
  BY DEF ReadMedium, At
<1>2. /\ walk \in WalkType /\ Filtered(walk) /\ Sound(walk) /\ Exact(walk)
      /\ TypeOK
  BY DEF IInv, TypeOK, WalkType, Filtered
<1>3. /\ walk.todo \subseteq Entries /\ e \in walk.todo /\ walk.num \in Numbers
      /\ d \in Disks /\ walk.recorded /\ mounted /\ ~ShouldIgnore(e, d)
  BY <1>1, <1>2 DEF WalkType, Sound, Visiting, Identified
<1>4. /\ Walking(walk) /\ walk.result = None /\ UnderWay(walk)
      /\ \A f \in steady : Through(walk, f)
  BY <1>1, <1>2 DEF Sound, Exact, Walking, None
<1>5. e \in steady => /\ walk.num = at[e].num /\ walk.whole
                      /\ at[e].disk \notin Partitions /\ d = db[at[e].num]
                      /\ walk.link = at[e].disk /\ walk.size = at[e].disk
  BY <1>1, <1>4 DEF UnderWay, Visiting, Identified
<1>6. t \in WalkType /\ t.pc = "next" /\ t.todo = walk.todo \ {e}
      /\ t.whole = walk.whole /\ t.recorded = walk.recorded
      /\ t.out = walk.out /\ t.result = walk.result
  BY <1>2, ContinueFacts
<1> HIDE DEF t
<1>7. Listed(t, e) = {}  BY <1>2, <1>3, <1>6 DEF Listed, Sound
<1>8. Readable(walk.num) <=> db[walk.num] # None  BY <1>3 DEF Readable
<1>9. e \in steady => Readable(at[e].num)
  BY <1>3, <1>5, <1>8, NoneAssumption
<1>10. CASE IsExcluded(e, d)
  <2>1. e \in steady => Seen(t, e)
    BY <1>3, <1>5, <1>6, <1>7, <1>10 DEF Seen, Listable
  <2>2. Sound(t) /\ Exact(t)
    BY <1>1, <1>2, <1>3, <1>6, <2>1, EntryDone
  <2>3. Filtered(t)  BY <1>2, <1>6 DEF Filtered
  <2> QED BY <1>1, <1>4, <1>6, <1>10, <2>2, <2>3, StepIInv
<1>11. CASE ~IsExcluded(e, d)
  <2>1. i \in InfoType /\ i.entry = e /\ i.disk = d
    <3>1. Attribute(e) \in Found /\ walk.link \in Found /\ walk.size \in Found
      BY <1>2, <1>3, AttributeFound DEF WalkType
    <3> QED BY <1>3, <3>1 DEF Complete, Info, InfoType
  <2>2. e \in steady => i = Exactly(e, db[at[e].num])
    BY <1>5 DEF Complete, Exactly, Attribute
  <2> HIDE DEF i
  <2>3. v \in WalkType /\ v.pc = "next" /\ v.todo = walk.todo \ {e}
        /\ v.whole = walk.whole /\ v.recorded = walk.recorded
        /\ v.out = t.out \cup {i} /\ v.result = walk.result
    BY <1>6, <2>1 DEF WalkType
  <2> HIDE DEF v
  <2>4. Listed(v, e) = {i}  BY <1>7, <2>1, <2>3 DEF Listed
  <2>5. e \in steady => Seen(v, e)
    BY <1>3, <1>5, <1>9, <1>11, <2>2, <2>3, <2>4 DEF Seen, Listable
  <2>6. (\A j \in v.out : j \in walk.out \/ j.entry = e) /\ walk.out \subseteq v.out
    BY <1>6, <2>1, <2>3
  <2>7. Sound(v) /\ Exact(v)
    BY <1>1, <1>2, <1>3, <2>3, <2>5, <2>6, EntryDone
  <2>8. Filtered(v)  BY <1>2, <1>3, <1>6, <1>11, <2>1, <2>3 DEF Filtered
  <2> QED BY <1>1, <1>4, <1>11, <2>3, <2>7, <2>8, StepIInv
<1> QED BY <1>10, <1>11

\* The result when all entries are visited.
LEMMA FinishIInv ==
    ASSUME IInv, Finish
    PROVE  IInv'
<1> DEFINE v == [walk EXCEPT !.pc = "done",
                   !.result = IF walk.whole /\ ~walk.recorded THEN "no database"
                              ELSE "ok"]
<1>1. walk.pc = "next" /\ walk.todo = {} /\ Step(v)  BY DEF Finish, At
<1>2. walk \in WalkType /\ Filtered(walk) /\ Sound(walk) /\ Exact(walk)
  BY DEF IInv, TypeOK, WalkType, Filtered
<1>3. Walking(walk) /\ \A f \in steady : Through(walk, f)
  BY <1>1, <1>2 DEF Sound, Exact, Walking, None
<1>4. v \in WalkType /\ v.pc = "done" /\ v.todo = walk.todo /\ v.whole = walk.whole
      /\ v.recorded = walk.recorded /\ v.out = walk.out
      /\ v.result = IF walk.whole /\ ~walk.recorded THEN "no database" ELSE "ok"
  BY <1>2 DEF WalkType
<1> HIDE DEF v
<1>5. Sound(v)  BY <1>1, <1>2, <1>4 DEF Sound, Visiting, Identified
<1>6. UnderWay(v)  BY <1>4 DEF UnderWay, Visiting, Identified
<1>7. \A f \in steady : Through(v, f)  BY <1>3, <1>4 DEF Through, Seen, Listed
<1>8. Filtered(v)  BY <1>2, <1>4 DEF Filtered
<1> QED BY <1>1, <1>3, <1>4, <1>5, <1>6, <1>7, <1>8, StepIInv DEF Exact

-----------------------------------------------------------------------------
(* Theorems.                                                               *)

\* The daemon starts on a host that has settled or that udevd is still busy with.
LEMMA InitIInv ==
    ASSUME Init
    PROVE  IInv
<1> USE DEF Init
<1>1. /\ at \in [Entries -> Device \cup {NoDevice}]
      /\ \A e \in Entries : at[e] # NoDevice => Fits(e, at[e].disk)
      /\ \A e, f \in Entries : e # f /\ at[e] # NoDevice /\ at[f] # NoDevice =>
            at[e].disk # at[f].disk /\ at[e].num # at[f].num
  BY DEF Placements
<1>2. Placed  BY <1>1 DEF Placed, Attached
<1>3. \A e \in Attached : at[e].disk \in Disks
  <2>1. \A e \in Attached : at[e] \in Device  BY <1>1 DEF Attached
  <2> QED BY <2>1 DEF Device
<1>4. \A num \in Numbers :
        /\ Behind(num) = {} <=> EntriesOf(num) = {}
        /\ \A e \in EntriesOf(num) :
              DiskBehind(num) = at[e].disk /\ at[e].disk \in Disks
  BY <1>2, <1>3, BehindFacts DEF EntriesOf
<1>5. /\ db \in [Numbers -> Disks \cup {None}]
      /\ pending \in [Numbers -> Seq({"add", "remove"})]
      /\ RecordsSettle
  <2>1. CASE /\ db = [num \in Numbers |->
                         IF Behind(num) = {} THEN None ELSE DiskBehind(num)]
             /\ pending = [num \in Numbers |-> <<>>]
    <3>1. ASSUME NEW num \in Numbers
          PROVE  db[num] \in Disks \cup {None} /\ Settled(num)
      BY <1>4, <2>1 DEF Settled
    <3>2. \A num \in Numbers : pending[num] = <<>>  BY <2>1
    <3>3. pending \in [Numbers -> Seq({"add", "remove"})]
      <4>1. <<>> \in Seq({"add", "remove"})  BY EmptySeq
      <4> QED BY <2>1, <4>1
    <3>4. db \in [Numbers -> Disks \cup {None}]  BY <2>1, <3>1
    <3> QED BY <3>1, <3>2, <3>3, <3>4 DEF RecordsSettle
  <2>2. CASE /\ db = [num \in Numbers |-> None]
             /\ pending = [num \in Numbers |->
                              IF Behind(num) = {} THEN <<>> ELSE <<"add">>]
    <3>1. db \in [Numbers -> Disks \cup {None}]  BY <2>2
    <3>2. pending \in [Numbers -> Seq({"add", "remove"})]
      <4>1. <<>> \in Seq({"add", "remove"}) /\ <<"add">> \in Seq({"add", "remove"})
        BY EmptySeq
      <4> QED BY <2>2, <4>1
    <3>3. ASSUME NEW num \in Numbers
          PROVE  IF pending[num] = <<>> THEN Settled(num) ELSE Owed(num)
      <4>1. CASE EntriesOf(num) = {}
        BY <1>4, <2>2, <4>1 DEF Settled
      <4>2. CASE EntriesOf(num) # {}
        <5>1. pending[num] = <<"add">>  BY <1>4, <2>2, <4>2
        <5>2. Len(<<"add">>) = 1 /\ <<"add">>[1] = "add" /\ <<"add">> # <<>>  OBVIOUS
        <5> QED BY <4>2, <5>1, <5>2 DEF Owed
      <4> QED BY <4>1, <4>2
    <3> QED BY <3>1, <3>2, <3>3 DEF RecordsSettle
  <2> QED BY <2>1, <2>2
<1>6. /\ walk \in WalkType /\ walk.pc = "idle" /\ walk.out = {}
      /\ walk.recorded = FALSE /\ walk.result = None
  BY DEF Idle, WalkType, Found
<1>7. hotplug \in 0 .. MaxHotplug  BY BoundAssumption
<1>8. TypeOK  BY <1>1, <1>5, <1>6, <1>7 DEF TypeOK, WalkType
<1>9. Sound(walk) /\ ~Walking(walk)  BY <1>6 DEF Sound, Visiting, Identified, Walking
<1> QED BY <1>2, <1>5, <1>8, <1>9 DEF IInv, Exact, Quiet

\* Every step of the walk, of the kernel and of udevd preserves the invariant.
LEMMA NextIInv ==
    ASSUME IInv, [Next]_vars
    PROVE  IInv'
<1>1. CASE UNCHANGED vars
  <2>1. UNCHANGED <<at, pending, hotplug, db, mounted, walk, announced, steady>>
    BY <1>1 DEF vars, host
  <2>2. Step(walk)  BY <2>1 DEF Step, host
  <2>3. walk \in WalkType /\ Filtered(walk) /\ Sound(walk) /\ Exact(walk)
    BY DEF IInv, TypeOK, WalkType, Filtered
  <2> QED BY <2>2, <2>3, StepIInv
<1> QED BY <1>1, ReadBlockDirIInv, IdleIInv, ReadDevNumberIInv, StatPartitionIInv,
           ReadRecordIInv, ReadLinkIInv, ReadSizeIInv, ReadMediumIInv, FinishIInv,
           AttachIInv, DetachIInv,
           UdevdIInv
        DEF Next, DiscoverDisks, Environment

\* The inductive invariant holds: what the walk has made of every entry that nothing
\* has happened to, and what udevd owes for every number.
THEOREM Invariant == Spec => []IInv
<1>1. Init => IInv  BY InitIInv
<1>2. IInv /\ [Next]_vars => IInv'  BY NextIInv
<1> QED BY <1>1, <1>2, PTL DEF Spec

\* Types, and both filters: what DiscoverDisks lists was recorded, is neither virtual
\* nor remote and is not excluded.
THEOREM TypeCorrect == Spec => []TypeOK
<1>1. IInv => TypeOK  BY DEF IInv
<1> QED BY <1>1, Invariant, PTL

\* The record of an attached disk is its own if udevd owes nothing for its number.
LEMMA RecordIsCurrent ==
    ASSUME IInv, NEW e \in Attached, pending[at[e].num] = <<>>
    PROVE  db[at[e].num] = at[e].disk
<1>1. at[e].num \in Numbers /\ e \in EntriesOf(at[e].num)
  BY DeviceFacts DEF IInv, EntriesOf
<1> QED BY <1>1 DEF IInv, RecordsSettle, Settled

\* What an instant's look gives for one entry.
LEMMA TruthOf ==
    ASSUME NEW e
    PROVE  {i \in Truth : i.entry = e}
               = IF e \in Attached /\ Monitored(e) /\ db[at[e].num] = at[e].disk
                 THEN {Exactly(e, at[e].disk)} ELSE {}
BY DEF Truth, Exactly, Info

\* A successful walk has for a steady entry what an instant's look would give.
LEMMA ExactAtEnd ==
    ASSUME IInv, Succeeded, NEW e \in steady,
           e \in Attached => pending[at[e].num] = <<>>
    PROVE  {i \in walk.out : i.entry = e} = {i \in Truth : i.entry = e}
<1>1. Sound(walk) /\ Exact(walk) /\ walk.pc = "done" /\ walk.result = "ok"
  BY DEF IInv, Succeeded, At
<1>2. Walking(walk) /\ walk.todo = {} /\ ~(walk.whole /\ ~walk.recorded)
  BY <1>1 DEF Walking, Sound
<1>3. Through(walk, e)  BY <1>1, <1>2 DEF Exact
<1>4. CASE e \notin Attached
  BY <1>3, <1>4, TruthOf DEF Through, Listed
<1>5. CASE e \in Attached
  <2>1. db[at[e].num] = at[e].disk /\ at[e].disk \in Disks
    BY <1>5, RecordIsCurrent, DeviceFacts DEF IInv
  <2>2. Seen(walk, e)  BY <1>2, <1>3, <1>5 DEF Through
  <2>3. e \in VirtualNames <=> at[e].disk \in Virtual
    BY <1>5 DEF IInv, Placed, Fits
  <2>4. Listable(e) <=> Monitored(e)
    <3>1. at[e].disk \notin Partitions => mounted
      BY <1>1, <1>2, <2>2 DEF Seen, Sound
    <3> QED BY <1>5, <2>1, <2>3, <3>1, NoneAssumption
            DEF Listable, Monitored, Readable, ShouldIgnore, IsExcluded
  <2> QED BY <1>5, <2>1, <2>2, <2>4, TruthOf DEF Seen, Listed
<1> QED BY <1>4, <1>5

\* Whatever happens to other disks during the walk, an entry nothing happens to is
\* listed if and only if an instant's look would list it, with the same identity
\* and attributes (the loop of DiscoverDisks), for any host and any number of hotplug
\* events.
THEOREM SteadyExact == Spec => []SteadyEntriesExact
<1>1. ASSUME IInv PROVE SteadyEntriesExact
  BY <1>1, ExactAtEnd DEF SteadyEntriesExact
<1> QED BY <1>1, Invariant, PTL

\* DiscoverDisks fails when the database is not mounted and a whole disk was there all
\* the time, and fails for want of a database only if no such disk has a record.
THEOREM DatabaseFailure == Spec => []FailsWithoutDatabase
<1>1. ASSUME IInv PROVE FailsWithoutDatabase
  <2> SUFFICES ASSUME walk.pc = "done", walk.result # "no sysfs"
      PROVE LET whole == {e \in steady \cap Attached : at[e].disk \notin Partitions} IN
            /\ ~mounted /\ whole # {} => walk.result = "no database"
            /\ walk.result = "no database" =>
                  ~mounted \/ \A e \in whole : db[at[e].num] = None
    BY DEF FailsWithoutDatabase, At
  <2>1. /\ walk.todo = {}
        /\ walk.recorded => mounted
        /\ walk.result = IF walk.whole /\ ~walk.recorded THEN "no database" ELSE "ok"
    BY <1>1 DEF IInv, Sound
  <2>2. \A e \in steady \cap Attached : Seen(walk, e)
    BY <1>1, <2>1 DEF IInv, Exact, Walking, Through
  <2> QED BY <2>1, <2>2 DEF Seen, Readable
<1> QED BY <1>1, Invariant, PTL

\* An inventory that differs from the host when DiscoverDisks returns it is followed
\* by a broadcast of udevd, or one has come since the walk began.
THEOREM StaleAnnounced == Spec => []StaleIsAnnounced
<1>1. ASSUME IInv PROVE StaleIsAnnounced
  <2> SUFFICES ASSUME Succeeded, ~announced, \A num \in Numbers : pending[num] = <<>>
               PROVE  walk.out = Truth
    BY DEF StaleIsAnnounced
  <2>1. steady = Entries
    BY <1>1 DEF IInv, Quiet, Walking, Succeeded, At
  <2>2. \A e \in Attached : pending[at[e].num] = <<>>
    BY <1>1, DeviceFacts DEF IInv
  <2>3. \A e \in Entries :
            {i \in walk.out : i.entry = e} = {i \in Truth : i.entry = e}
    BY <1>1, <2>1, <2>2, ExactAtEnd
  <2>4. \A i \in walk.out : i.entry \in Entries
    BY <1>1 DEF IInv, TypeOK, InfoType
  <2>5. \A i \in Truth : i.entry \in Entries
    BY DEF Truth, Info, Attached
  <2>6. ASSUME NEW i PROVE i \in walk.out <=> i \in Truth
    <3>1. CASE i.entry \in Entries
      <4>1. i \in {j \in walk.out : j.entry = i.entry}
            <=> i \in {j \in Truth : j.entry = i.entry}
        BY <2>3, <3>1
      <4> QED BY <4>1
    <3>2. CASE i.entry \notin Entries
      BY <2>4, <2>5, <3>2
    <3> QED BY <3>1, <3>2
  <2> QED BY <2>6
<1> QED BY <1>1, Invariant, PTL
=============================================================================
