----------------------------- MODULE Discovery -----------------------------
(***************************************************************************)
(* DiscoverDisks (pkg/discovery/udev.go), read by read, while disks come   *)
(* and go and systemd-udevd is busy: sysfs and the udev database are two   *)
(* sources that change independently of each other, and no lock keeps them *)
(* still during the walk.                                                  *)
(*                                                                         *)
(* The kernel gives an attached disk an entry in /sys/block and a device   *)
(* number, both of which it may give to another disk later.  It tells      *)
(* udevd, which writes or deletes the record of that number some time      *)
(* after, and broadcasts the change; that broadcast is what makes ScanLoop *)
(* discover again.                                                         *)
(***************************************************************************)
EXTENDS Naturals, Sequences

CONSTANTS
    Entries,      \* names in /sys/block, in the order ReadDir returns them
    VirtualNames, \* of these: the names of virtual devices (ignoredPrefixes)
    Numbers,      \* device numbers
    Disks,        \* block devices that may be attached
    Virtual,      \* of these: the ones with a virtual name
    Partitions,   \* of these: partitions
    Remote,       \* of these: the ones whose record shows a remote volume
    Excluded,     \* the disks that a rule excludes, each with the names at which
                  \* it does: rules may be on the name, the identity or both
    MaxHotplug    \* bound: disks that come or go

ASSUME EntriesAssumption == Entries \subseteq Nat /\ VirtualNames \subseteq Entries
ASSUME DisksAssumption == Virtual \cup Partitions \cup Remote \subseteq Disks
ASSUME BoundAssumption == MaxHotplug \in Nat

VARIABLES
    at,        \* /sys/block: the disk and its number at each entry, or NoDevice
    db,        \* the udev database: the disk each number's record describes
    mounted,   \* the database is mounted into the container
    pending,   \* kernel events of each number udevd has still to process
    walk,      \* the state of DiscoverDisks
    announced, \* history: udevd has broadcast since the walk began
    steady,    \* history: entries that are as they were when the walk began
    hotplug    \* how many disks may still come or go

host == <<at, pending, hotplug>>
vars == <<host, db, mounted, walk, announced, steady>>

None == "None"
ASSUME NoneAssumption == None \notin Disks \cup Numbers
NoDevice == [disk |-> None]
Device == [disk : Disks, num : Numbers]

First(S) == CHOOSE e \in S : \A f \in S : e <= f

-----------------------------------------------------------------------------
(* The kernel and udevd.                                                   *)

Attached == {e \in Entries : at[e] # NoDevice}
EntriesOf(num) == {e \in Attached : at[e].num = num}

\* What udevd finds when it looks at a number.
Behind(num) == {at[e].disk : e \in EntriesOf(num)}
DiskBehind(num) == CHOOSE d \in Behind(num) : TRUE

\* The kernel names a device after its driver.
Fits(e, d) == e \in VirtualNames <=> d \in Virtual

\* One entry and one number for each attached disk.
Placements ==
    {a \in [Entries -> Device \cup {NoDevice}] :
        /\ \A e \in Entries : a[e] # NoDevice => Fits(e, a[e].disk)
        /\ \A e, f \in Entries : e # f /\ a[e] # NoDevice /\ a[f] # NoDevice =>
            a[e].disk # a[f].disk /\ a[e].num # a[f].num}

Idle == [pc |-> "idle", todo |-> {}, entry |-> 0, num |-> None, disk |-> None,
         link |-> None, size |-> None,
         whole |-> FALSE, recorded |-> FALSE, out |-> {}, result |-> None]

\* The daemon starts on a host that has settled, or while udevd is still
\* processing what it found at boot; its database is mounted, or the directory
\* is an empty one that the container runtime made.
Init ==
    /\ at \in Placements
    /\ mounted \in BOOLEAN
    /\ \/ /\ db = [num \in Numbers |->
                    IF Behind(num) = {} THEN None ELSE DiskBehind(num)]
          /\ pending = [num \in Numbers |-> <<>>]
       \/ /\ db = [num \in Numbers |-> None]
          /\ pending = [num \in Numbers |->
                           IF Behind(num) = {} THEN <<>> ELSE <<"add">>]
    /\ walk = Idle
    /\ announced = FALSE /\ steady = {}
    /\ hotplug = MaxHotplug

\* A disk comes or goes: the entry changes at once, udevd learns of it.
Changes(e, device, num, event) ==
    /\ hotplug > 0 /\ hotplug' = hotplug - 1
    /\ at' = [at EXCEPT ![e] = device]
    /\ pending' = [pending EXCEPT ![num] = Append(@, event)]
    /\ steady' = steady \ {e}
    /\ UNCHANGED <<db, mounted, walk, announced>>

Attach ==
    \E e \in Entries \ Attached, num \in Numbers, d \in Disks :
        /\ Fits(e, d) /\ Behind(num) = {} /\ \A f \in Attached : at[f].disk # d
        /\ Changes(e, [disk |-> d, num |-> num], num, "add")

Detach ==
    \E e \in Attached : Changes(e, NoDevice, at[e].num, "remove")

\* udevd processes the events of a number in order: it removes the record, or
\* writes one for the disk it finds by then, and broadcasts.
UdevdProcesses ==
    \E num \in Numbers :
        /\ pending[num] # <<>>
        /\ pending' = [pending EXCEPT ![num] = Tail(@)]
        /\ db' = [db EXCEPT ![num] =
              IF Head(pending[num]) = "remove" THEN None
              ELSE IF Behind(num) = {} THEN @
              ELSE DiskBehind(num)]
        /\ steady' = IF db'[num] = db[num] THEN steady
                     ELSE steady \ EntriesOf(num)
        /\ announced' = TRUE
        /\ UNCHANGED <<at, mounted, walk, hotplug>>

-----------------------------------------------------------------------------
(* DiscoverDisks.                                                          *)

At(pc) == walk.pc = pc

Step(w) ==
    /\ walk' = w
    /\ UNCHANGED <<host, db, mounted, announced, steady>>

\* The entries listed now are the ones the walk visits.
ReadBlockDir ==
    /\ At("idle")
    /\ walk' = [Idle EXCEPT !.pc = "next", !.todo = Attached]
    /\ announced' = FALSE /\ steady' = Entries
    /\ UNCHANGED <<host, db, mounted>>

ReadBlockDirFails ==
    /\ At("idle")
    /\ Step([Idle EXCEPT !.pc = "done", !.result = "no sysfs"])

\* Go on with the next entry.
Continue(w) ==
    [w EXCEPT !.pc = "next", !.todo = @ \ {w.entry}, !.entry = 0, !.num = None,
              !.disk = None, !.link = None, !.size = None]

\* The device number, unless the disk has vanished meanwhile.
ReadDevNumber ==
    /\ At("next") /\ walk.todo # {}
    /\ LET e == First(walk.todo)
           w == [walk EXCEPT !.entry = e]
       IN Step(IF at[e] = NoDevice THEN Continue(w)
               ELSE [w EXCEPT !.pc = "partition", !.num = at[e].num])

\* Faulty variant: partitions are not skipped.
CountEveryDevice ==
    /\ At("partition")
    /\ Step([walk EXCEPT !.pc = "record", !.whole = TRUE])

\* Partitions have the attribute "partition"; a disk that has vanished has not.
StatPartition ==
    /\ At("partition")
    /\ Step(IF at[walk.entry].disk \in Partitions THEN Continue(walk)
            ELSE [walk EXCEPT !.pc = "record", !.whole = TRUE])

Readable(num) == mounted /\ db[num] # None

\* By the name of the entry and by what the record says.  Rules on another node
\* exclude nothing and are no part of Excluded.
ShouldIgnore(e, d) == e \in VirtualNames \/ d \in Remote
IsExcluded(e, d) == <<e, d>> \in Excluded

\* Faulty variants: the walk ends at the first disk without a record; a disk counts
\* as recorded before its record is read.
StopAtNoRecord ==
    /\ At("record")
    /\ Step(IF ~Readable(walk.num) THEN [Continue(walk) EXCEPT !.todo = {}]
            ELSE LET w == [walk EXCEPT !.recorded = TRUE] IN
                 IF ShouldIgnore(walk.entry, db[walk.num]) THEN Continue(w)
                 ELSE [w EXCEPT !.pc = "link", !.disk = db[walk.num]])
CountBeforeRecord ==
    /\ At("record")
    /\ Step(LET w == [walk EXCEPT !.recorded = TRUE] IN
            IF ~Readable(walk.num) \/ ShouldIgnore(walk.entry, db[walk.num]) THEN Continue(w)
            ELSE [w EXCEPT !.pc = "link", !.disk = db[walk.num]])

\* ParseUdevDataFile of the number read before, then ShouldIgnore.  udevd replaces
\* a record as a whole, so one record describes one disk.
ReadRecord ==
    /\ At("record")
    /\ Step(IF ~Readable(walk.num) THEN Continue(walk)
            ELSE LET w == [walk EXCEPT !.recorded = TRUE] IN
                 IF ShouldIgnore(walk.entry, db[walk.num]) THEN Continue(w)
                 ELSE [w EXCEPT !.pc = "link", !.disk = db[walk.num]])

\* What a file of an entry tells: of the disk at the entry by now, unknown if it has
\* vanished.
Attribute(e) == at[e].disk

\* sysDevicePath, then capacityBytes.
ReadLink ==
    /\ At("link")
    /\ Step([walk EXCEPT !.pc = "size", !.link = Attribute(walk.entry)])
ReadSize ==
    /\ At("size")
    /\ Step([walk EXCEPT !.pc = "medium", !.size = Attribute(walk.entry)])

\* A DiskInfo: names and numbers from sysfs, identity and links from the record,
\* link, size and kind of medium from whatever is at the entry when each is read.
Info(entry, num, disk, link, size, medium) ==
    [entry |-> entry, num |-> num, disk |-> disk,
     link |-> link, size |-> size, medium |-> medium]

\* The entry the walk is at, complete.
Complete ==
    Info(walk.entry, walk.num, walk.disk, walk.link, walk.size, Attribute(walk.entry))

\* Faulty variant: IsExcluded is not asked.
ListEveryDisk ==
    /\ At("medium")
    /\ Step([Continue(walk) EXCEPT !.out = @ \cup {Complete}])

\* rotational, then IsExcluded.
ReadMedium ==
    /\ At("medium")
    /\ Step(IF IsExcluded(walk.entry, walk.disk) THEN Continue(walk)
            ELSE [Continue(walk) EXCEPT !.out = @ \cup {Complete}])

\* If no disk has a record the database is unavailable.
Finish ==
    /\ At("next") /\ walk.todo = {}
    /\ Step([walk EXCEPT !.pc = "done",
               !.result = IF walk.whole /\ ~walk.recorded THEN "no database"
                          ELSE "ok"])

\* The caller has what it asked for.
Return ==
    /\ At("done")
    /\ Step(Idle)

DiscoverDisks ==
    \/ ReadBlockDir \/ ReadBlockDirFails \/ ReadDevNumber \/ StatPartition
    \/ ReadRecord \/ ReadLink \/ ReadSize \/ ReadMedium \/ Finish \/ Return

Environment == Attach \/ Detach \/ UdevdProcesses

Next == DiscoverDisks \/ Environment

Spec == Init /\ [][Next]_vars

-----------------------------------------------------------------------------
(* Properties.                                                             *)

Found == Disks \cup {None}
InfoType == [entry : Entries, num : Numbers, disk : Disks,
             link : Found, size : Found, medium : Found]

\* Type invariant; a disk is listed after its record was found and both filters
\* have let it pass.
TypeOK ==
    /\ at \in [Entries -> Device \cup {NoDevice}]
    /\ db \in [Numbers -> Disks \cup {None}] /\ mounted \in BOOLEAN
    /\ pending \in [Numbers -> Seq({"add", "remove"})]
    /\ walk \in [pc : {"idle", "next", "partition", "record", "link", "size", "medium", "done"},
                 todo : SUBSET Entries, entry : Entries \cup {0},
                 num : Numbers \cup {None}, disk : Found, link : Found, size : Found,
                 whole : BOOLEAN, recorded : BOOLEAN, out : SUBSET InfoType,
                 result : {None, "ok", "no sysfs", "no database"}]
    /\ walk.out # {} => walk.recorded
    /\ \A i \in walk.out : ~ShouldIgnore(i.entry, i.disk) /\ ~IsExcluded(i.entry, i.disk)
    /\ announced \in BOOLEAN /\ steady \subseteq Entries
    /\ hotplug \in 0 .. MaxHotplug

Succeeded == At("done") /\ walk.result = "ok"

Monitored(e) ==
    /\ e \in Attached
    /\ at[e].disk \notin Partitions \cup Virtual \cup Remote
    /\ ~IsExcluded(e, at[e].disk)

\* The inventory an instant's look at the host would give.
Truth ==
    {Info(e, at[e].num, at[e].disk, at[e].disk, at[e].disk, at[e].disk) :
        e \in {f \in Attached : Monitored(f) /\ db[at[f].num] = at[f].disk}}

\* Whatever happens to other disks during the walk, an entry that nothing happens
\* to is listed if and only if an instant's look would list it, with the same
\* number, identity and attributes (the loop at udev.go:94-150 skips an entry for
\* its own sake only).  Up to the walk's end udevd owes no event for its number.
SteadyEntriesExact ==
    Succeeded =>
        \A e \in steady :
            \/ e \in Attached /\ pending[at[e].num] # <<>>
            \/ {i \in walk.out : i.entry = e} = {i \in Truth : i.entry = e}

\* "If no disk has a record, the udev database itself is unavailable and
\* DiscoverDisks fails instead of reporting an empty inventory" (udev.go:66-68):
\* with disks there all the time and no database, the caller, who would flag every
\* disk as missing, gets an error; and it gets one only if no steady whole disk has
\* a record.
FailsWithoutDatabase ==
    At("done") /\ walk.result # "no sysfs" =>
        LET whole == {e \in steady \cap Attached : at[e].disk \notin Partitions} IN
        /\ ~mounted /\ whole # {} => walk.result = "no database"
        /\ walk.result = "no database" =>
              ~mounted \/ \A e \in whole : db[at[e].num] = None

\* An inventory that differs from the host, for a disk that vanished or moved
\* during the walk, for a record udevd has not written yet or for a stale one of
\* another disk with the same number, is followed by a broadcast that came too late
\* for this walk, so that the next scan corrects it ("udev has not processed it yet
\* and will announce it with an event", udev.go:65-66).
StaleIsAnnounced ==
    Succeeded /\ mounted /\ walk.out # Truth =>
        announced \/ \E num \in Numbers : pending[num] # <<>>
=============================================================================
