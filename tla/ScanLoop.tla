------------------------------ MODULE ScanLoop ------------------------------
(***************************************************************************)
(* DiskMonitor.Start (pkg/controller/physicaldisk_controller.go) together  *)
(* with the udev event reader it starts (pkg/discovery/uevent.go): when    *)
(* does a change of the host's disks lead to a scan?                       *)
(*                                                                         *)
(* The host's inventory is a version number that grows with every disk     *)
(* that appears or vanishes.  Two goroutines run in the daemon:            *)
(*   - the event reader dials a netlink socket, triggers once it is bound, *)
(*     and triggers again for every message that may announce a disk;      *)
(*   - the scan loop waits for a trigger (the one-slot channel dirty), a   *)
(*     poll tick or the end of the context, and runs ReconcileAll.         *)
(* udevd, the socket's receive buffer and the kubelet are environment.     *)
(***************************************************************************)
EXTENDS Naturals, Sequences

CONSTANTS
    MaxInventory,   \* bound: the last inventory version the host reaches
    RcvBuf,         \* datagrams the socket's receive buffer holds (rcvBuf)
    MaxFailures,    \* bound: scans that fail while the context is alive
    MaxStops        \* bound: crashes plus SIGTERMs

ASSUME MaxInventoryAssumption == MaxInventory \in Nat \ {0}
ASSUME RcvBufAssumption == RcvBuf \in Nat \ {0}
ASSUME MaxFailuresAssumption == MaxFailures \in Nat
ASSUME MaxStopsAssumption == MaxStops \in Nat

VARIABLES
    visible,      \* inventory version DiscoverDisks would find now
    unannounced,  \* changes udevd has recorded but not broadcast yet
    queue,        \* datagrams in the receive buffer of the bound socket
    enobufs,      \* the kernel dropped a datagram and has not said so yet
    reader,       \* where the event reader goroutine is
    dirty,        \* the number of hints in the channel dirty
    tick,         \* the ticker's channel holds a tick
    loop,         \* where the scan loop is
    base,         \* inventory version the running scan reads
    attempted,    \* inventory version of the last finished scan
    seen,         \* inventory version of the last scan that succeeded
    ctxDone,      \* the daemon's context is cancelled
    ready,        \* DiskMonitor.ready, what /readyz reports
    failures,     \* history: failed scans, for MaxFailures
    stops         \* history: crashes and SIGTERMs, for MaxStops

host == <<visible, unannounced>>
socket == <<queue, enobufs>>
scans == <<base, attempted, seen, failures>>
process == <<ctxDone, stops>>
vars == <<host, socket, reader, dirty, tick, loop, scans, ready, process>>

-----------------------------------------------------------------------------
\* Datagram kinds: an add or remove of a whole disk, any other udev event, bytes
\* parseMessage rejects, and a message cut off by the read buffer (MSG_TRUNC).
Kinds == {"disk", "other", "bad", "trunc"}

\* The kinds listen answers with trigger().
Triggering == {"disk", "trunc"}

ReaderStates == {"dial", "bound", "reading", "backoff", "stopped"}
LoopStates == {"start", "select", "debounce", "drain", "discover", "scanning",
               "scanned", "exited"}

Bound == reader \in {"bound", "reading"}
Running == loop \notin {"start", "exited"}

Init ==
    /\ visible = 1 /\ unannounced = 0
    /\ queue = <<>> /\ enobufs = FALSE
    /\ reader = "stopped"
    /\ dirty = 0 /\ tick = FALSE
    /\ loop = "start"
    /\ base = 0 /\ attempted = 0 /\ seen = 0
    /\ failures = 0
    /\ ctxDone = FALSE /\ stops = 0
    /\ ready = FALSE

-----------------------------------------------------------------------------
(* The host: udevd updates its database first and broadcasts afterwards.   *)

\* The kernel multicasts a datagram: lost unless the socket is bound, dropped
\* with ENOBUFS pending when the receive buffer is full.
Multicast(kind) ==
    IF ~Bound THEN UNCHANGED socket
    ELSE IF Len(queue) < RcvBuf
         THEN queue' = Append(queue, kind) /\ UNCHANGED enobufs
         ELSE enobufs' = TRUE /\ UNCHANGED queue

InventoryChanges ==
    /\ visible < MaxInventory
    /\ visible' = visible + 1
    /\ unannounced' = unannounced + 1
    /\ UNCHANGED <<socket, reader, dirty, tick, loop, scans, ready, process>>

Announce ==
    /\ unannounced > 0
    /\ unannounced' = unannounced - 1
    /\ \E kind \in Triggering : Multicast(kind)
    /\ UNCHANGED <<visible, reader, dirty, tick, loop, scans, ready, process>>

\* Events that announce nothing DiscoverDisks would list: partitions, "change"
\* events, excluded disks, foreign datagrams.
Noise ==
    /\ Bound
    /\ \E kind \in Kinds : Multicast(kind)
    /\ UNCHANGED <<host, reader, dirty, tick, loop, scans, ready, process>>

-----------------------------------------------------------------------------
(* The event reader: wait.UntilWithContext around discovery.Monitor.        *)

\* Faulty variant: every hint finds room in the channel.
TriggerEach == dirty' = dirty + 1

\* trigger(): a non-blocking send to a channel with one slot; while that is taken,
\* select falls to its default and the hint collapses into the pending one.
Trigger == dirty' = IF dirty = 0 THEN dirty + 1 ELSE dirty

CloseSocket == queue' = <<>> /\ enobufs' = FALSE

DialSucceeds ==
    /\ reader = "dial"
    /\ reader' = "bound"
    /\ CloseSocket
    /\ UNCHANGED <<host, dirty, tick, loop, scans, ready, process>>

DialFails ==
    /\ reader = "dial"
    /\ reader' = "backoff"
    /\ UNCHANGED <<host, socket, dirty, tick, loop, scans, ready, process>>

\* Faulty variant: no trigger once the socket is bound.
BindSilently ==
    /\ reader = "bound"
    /\ reader' = "reading"
    /\ UNCHANGED <<host, socket, dirty, tick, loop, scans, ready, process>>

TriggerOnBind ==
    /\ reader = "bound"
    /\ Trigger
    /\ reader' = "reading"
    /\ UNCHANGED <<host, socket, tick, loop, scans, ready, process>>

\* Faulty variant: an overrun is treated like EINTR.
LostSilently ==
    /\ reader = "reading"
    /\ enobufs
    /\ enobufs' = FALSE
    /\ UNCHANGED <<host, queue, reader, dirty, tick, loop, scans, ready, process>>

\* recvmsg reports the overrun before it returns queued datagrams.
ReceiveLost ==
    /\ reader = "reading"
    /\ enobufs
    /\ enobufs' = FALSE
    /\ Trigger
    /\ UNCHANGED <<host, queue, reader, tick, loop, scans, ready, process>>

ReceiveDatagram ==
    /\ reader = "reading"
    /\ ~enobufs /\ queue # <<>>
    /\ queue' = Tail(queue)
    /\ IF Head(queue) \in Triggering THEN Trigger ELSE UNCHANGED dirty
    /\ UNCHANGED <<host, enobufs, reader, tick, loop, scans, ready, process>>

\* Any other recvmsg error ends Monitor and closes the socket.
ReceiveFails ==
    /\ reader = "reading"
    /\ reader' = "backoff"
    /\ CloseSocket
    /\ UNCHANGED <<host, dirty, tick, loop, scans, ready, process>>

\* monitorRetryInterval has passed.
BackoffElapses ==
    /\ reader = "backoff"
    /\ reader' = "dial"
    /\ UNCHANGED <<host, socket, dirty, tick, loop, scans, ready, process>>

\* context.AfterFunc closes the file, which wakes the read; UntilWithContext
\* starts no further round.
ReaderStops ==
    /\ ctxDone /\ reader # "stopped"
    /\ reader' = "stopped"
    /\ CloseSocket
    /\ UNCHANGED <<host, dirty, tick, loop, scans, ready, process>>

-----------------------------------------------------------------------------
(* The scan loop.                                                          *)

StartSucceeds ==
    /\ loop = "start"
    /\ loop' = "select"
    /\ Trigger
    /\ reader' = "dial"
    /\ UNCHANGED <<host, socket, tick, scans, ready, process>>

\* The node cannot be read; the manager ends and with it the process.
StartFails ==
    /\ loop = "start"
    /\ loop' = "exited"
    /\ UNCHANGED <<host, socket, reader, dirty, tick, scans, ready, process>>

\* Faulty variant: a one-shot timer instead of a ticker.
TimerFires ==
    /\ Running /\ seen = 0
    /\ tick' = TRUE
    /\ UNCHANGED <<host, socket, reader, dirty, loop, scans, ready, process>>

\* time.Ticker drops a tick the loop has not taken.
TickerFires ==
    /\ Running
    /\ tick' = TRUE
    /\ UNCHANGED <<host, socket, reader, dirty, loop, scans, ready, process>>

\* Faulty variant: Start returns without the deferred Store.
LeaveReady == loop' = "exited" /\ UNCHANGED ready

\* Leaving Start runs the deferred ready.Store(false).
Leave == loop' = "exited" /\ ready' = FALSE

\* Faulty variant: the context is looked at only when there is nothing to do.
SelectDoneWhenIdle ==
    /\ loop = "select"
    /\ ctxDone /\ ~tick /\ dirty = 0
    /\ Leave
    /\ UNCHANGED <<host, socket, reader, dirty, tick, scans, process>>

SelectDone ==
    /\ loop = "select"
    /\ ctxDone
    /\ Leave
    /\ UNCHANGED <<host, socket, reader, dirty, tick, scans, process>>

SelectTick ==
    /\ loop = "select"
    /\ tick /\ tick' = FALSE
    /\ loop' = "discover"
    /\ UNCHANGED <<host, socket, reader, dirty, scans, ready, process>>

SelectDirty ==
    /\ loop = "select"
    /\ dirty > 0 /\ dirty' = dirty - 1
    /\ loop' = "debounce"
    /\ UNCHANGED <<host, socket, reader, tick, scans, ready, process>>

\* Faulty variant: the delay restarts until a whole delay brings no hint.
DebounceQuiet ==
    /\ loop = "debounce" /\ dirty = 0
    /\ loop' = "drain"
    /\ UNCHANGED <<host, socket, reader, dirty, tick, scans, ready, process>>

\* The delay is fixed: hints that arrive meanwhile do not restart it.
DebounceElapses ==
    /\ loop = "debounce"
    /\ loop' = "drain"
    /\ UNCHANGED <<host, socket, reader, dirty, tick, scans, ready, process>>

DebounceCancelled ==
    /\ loop = "debounce"
    /\ ctxDone
    /\ Leave
    /\ UNCHANGED <<host, socket, reader, dirty, tick, scans, process>>

\* A non-blocking receive: at most one hint is taken.
DrainHints ==
    /\ loop = "drain"
    /\ dirty' = IF dirty > 0 THEN dirty - 1 ELSE dirty
    /\ loop' = "discover"
    /\ UNCHANGED <<host, socket, reader, tick, scans, ready, process>>

\* DiscoverDisks reads /sys/block and the udev records one after the other; it
\* is certain to find only what was there when it began.
DiscoverBegins ==
    /\ loop = "discover"
    /\ base' = visible
    /\ loop' = "scanning"
    /\ UNCHANGED <<host, socket, reader, dirty, tick, attempted, seen, failures,
                   ready, process>>

ScanSucceeds ==
    /\ loop = "scanning"
    /\ attempted' = base /\ seen' = base
    /\ loop' = "scanned"
    /\ UNCHANGED <<host, socket, reader, dirty, tick, base, failures, ready,
                   process>>

\* The error is logged and the scan is not repeated.  A cancelled context fails
\* every API call, so such a failure is not counted.
ScanFails ==
    /\ loop = "scanning"
    /\ \/ ctxDone /\ UNCHANGED failures
       \/ failures < MaxFailures /\ failures' = failures + 1
    /\ attempted' = base
    /\ loop' = "scanned"
    /\ UNCHANGED <<host, socket, reader, dirty, tick, base, seen, ready,
                   process>>

StoreReady ==
    /\ loop = "scanned"
    /\ ready' = TRUE
    /\ loop' = "select"
    /\ UNCHANGED <<host, socket, reader, dirty, tick, scans, process>>

-----------------------------------------------------------------------------
(* The process.                                                            *)

\* SIGTERM or SIGINT cancels the context (signal.NotifyContext in run).
Terminate ==
    /\ Running /\ ~ctxDone /\ stops < MaxStops
    /\ ctxDone' = TRUE /\ stops' = stops + 1
    /\ UNCHANGED <<host, socket, reader, dirty, tick, loop, scans, ready>>

Crash ==
    /\ Running /\ stops < MaxStops
    /\ stops' = stops + 1
    /\ loop' = "exited" /\ ready' = FALSE
    /\ reader' = "stopped" /\ CloseSocket
    /\ UNCHANGED <<host, dirty, tick, scans, ctxDone>>

\* The kubelet starts the container again; nothing in memory survives.
Restart ==
    /\ loop = "exited"
    /\ loop' = "start"
    /\ reader' = "stopped" /\ CloseSocket
    /\ dirty' = 0 /\ tick' = FALSE
    /\ ctxDone' = FALSE
    /\ UNCHANGED <<host, base, attempted, seen, failures, ready, stops>>

-----------------------------------------------------------------------------
Environment == InventoryChanges \/ Announce \/ Noise

Reader == \/ DialSucceeds \/ DialFails \/ TriggerOnBind
          \/ ReceiveLost \/ ReceiveDatagram \/ ReceiveFails
          \/ BackoffElapses \/ ReaderStops

Loop == \/ StartSucceeds \/ StartFails
        \/ SelectDone \/ SelectTick \/ SelectDirty
        \/ DebounceElapses \/ DebounceCancelled \/ DrainHints
        \/ DiscoverBegins \/ ScanSucceeds \/ ScanFails \/ StoreReady

Process == Terminate \/ Crash \/ Restart

Next == Environment \/ Reader \/ TickerFires \/ Loop \/ Process

Spec == Init /\ [][Next]_vars

\* The loop is never starved.  select takes a uniformly random ready case, so a
\* case that is ready again and again is taken (strong fairness); API calls and
\* smartctl have timeouts, so a scan ends.
LoopFairness ==
    /\ SF_vars(StartSucceeds) /\ WF_vars(Restart)
    /\ SF_vars(SelectDone) /\ SF_vars(SelectTick) /\ SF_vars(SelectDirty)
    /\ WF_vars(DebounceElapses) /\ WF_vars(DrainHints)
    /\ WF_vars(DiscoverBegins) /\ WF_vars(ScanSucceeds \/ ScanFails)
    /\ WF_vars(StoreReady)

\* udevd broadcasts what it recorded, the reader keeps reading, and a socket can
\* be opened in the end.
ReaderFairness ==
    /\ WF_vars(Announce)
    /\ SF_vars(DialSucceeds) /\ WF_vars(TriggerOnBind)
    /\ WF_vars(ReceiveLost \/ ReceiveDatagram) /\ WF_vars(BackoffElapses)

\* The ticker keeps ticking.
TickerFairness == WF_vars(TickerFires)

FairSpec == Spec /\ LoopFairness
-----------------------------------------------------------------------------
(* Properties.                                                             *)

\* Type invariant; whoever calls trigger, and whenever, finds room in the one slot
\* of dirty or drops the hint, and the receive buffer (rcvBuf) holds.
TypeOK ==
    /\ visible \in 1 .. MaxInventory /\ unannounced \in 0 .. visible - 1
    /\ queue \in Seq(Kinds) /\ Len(queue) <= RcvBuf
    /\ enobufs \in BOOLEAN
    /\ reader \in ReaderStates /\ loop \in LoopStates
    /\ dirty \in 0 .. 1 /\ tick \in BOOLEAN
    /\ base \in 0 .. MaxInventory
    /\ attempted \in 0 .. MaxInventory /\ seen \in 0 .. MaxInventory
    /\ ready \in BOOLEAN /\ ctxDone \in BOOLEAN
    /\ failures \in 0 .. MaxFailures /\ stops \in 0 .. MaxStops

\* The event path still holds a trigger: announced or yet to be announced, or
\* due because the reader has to (re)bind.
TriggerInFlight ==
    \/ unannounced > 0
    \/ reader \in {"dial", "bound", "backoff"}
    \/ reader = "reading" /\ enobufs
    \/ reader = "reading" /\ \E i \in DOMAIN queue : queue[i] \in Triggering

\* A scan will begin without a poll: a trigger or a hint is pending, the loop is
\* between a hint and its scan, or the process is about to start afresh.
ScanPending ==
    \/ TriggerInFlight
    \/ dirty > 0
    \/ loop \in {"debounce", "drain", "discover"}
    \/ ~Running \/ ctxDone

\* The version that the running scan, or else the last one, is sure to cover.
Covered == IF loop = "scanning" THEN base ELSE attempted

\* Monitor "never misses a state change" (uevent.go:59-64): a change no scan has
\* covered is still on its way to one, whatever was lost, dropped or collapsed.
NothingMissed == Covered # visible => ScanPending

\* /readyz never answers 200 for a loop that is not running: every way out of
\* Start, and a crash, leaves ready FALSE (the deferred Store in Start).
ReadyOnlyWhileRunning == ready => Running

\* "A steady event stream cannot postpone the scan indefinitely"
\* (physicaldisk_controller.go:208-209): a consumed hint leads to a scan, or the
\* loop ends, however many hints follow.
ScanNotPostponed == (loop = "debounce") ~> (loop = "scanning" \/ ~Running)

\* A cancelled context ends Start and takes the daemon out of readiness, even
\* when hints and ticks compete with ctx.Done in every select.
ShutdownCompletes == ctxDone ~> (~Running /\ ~ready)

\* Polling alone, "the authoritative repair path", brings every change into a
\* successful scan although no event need ever arrive and scans may fail.
PollRepairs ==
    TickerFairness =>
        \A v \in 1 .. MaxInventory : (visible >= v) ~> (seen >= v)

\* What Start and Monitor together implement.
Promise == INSTANCE InventoryPromise
               WITH owed <- (Covered # attempted \/ ScanPending)

\* A scan is owed for every change and paid by nothing but a scan; with an event
\* reader that is not starved it is paid, without the help of a tick.
RefinesPromise ==
    /\ Promise!Init /\ [][Promise!Next]_(Promise!vars)
    /\ ReaderFairness => Promise!ScansArePaid
=============================================================================
