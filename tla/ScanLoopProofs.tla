--------------------------- MODULE ScanLoopProofs ---------------------------
(***************************************************************************)
(* Proofs about ScanLoop for every inventory size, receive buffer, number  *)
(* of failing scans and number of restarts.                                *)
(***************************************************************************)
EXTENDS ScanLoop, TLAPS

USE DEF ReaderStates, LoopStates

-----------------------------------------------------------------------------
(* Type correctness.                                                       *)

\* A closed socket has nothing in its buffer.
LEMMA EmptyBuffer == <<>> \in Seq(Kinds) /\ Len(<<>>) <= RcvBuf
  BY RcvBufAssumption

\* Whatever the kernel does with a datagram, the socket keeps its type and its
\* limit.
LEMMA MulticastType ==
    ASSUME TypeOK, NEW kind \in Kinds, Multicast(kind)
    PROVE  /\ queue' \in Seq(Kinds) /\ Len(queue') <= RcvBuf
           /\ enobufs' \in BOOLEAN
<1>1. queue' \in Seq(Kinds) /\ Len(queue') <= RcvBuf
  BY RcvBufAssumption DEF TypeOK, Multicast, Bound, socket
<1>2. enobufs' \in BOOLEAN
  BY DEF TypeOK, Multicast, Bound, socket
<1> QED BY <1>1, <1>2

\* A send leaves exactly one hint in the channel, whether it found one there or not.
LEMMA TriggerLeavesOne ==
    ASSUME TypeOK, Trigger
    PROVE  dirty' \in 0 .. 1 /\ dirty' > 0
  BY DEF TypeOK, Trigger

\* A datagram takes no hint out of the channel.
LEMMA ReceiveDirty ==
    ASSUME TypeOK, ReceiveDatagram
    PROVE  /\ dirty' \in 0 .. 1 /\ dirty' >= dirty
           /\ Head(queue) \in Triggering => dirty' > 0
<1>1. CASE Head(queue) \in Triggering
  <2>1. Trigger
    BY <1>1, Zenon DEF ReceiveDatagram
  <2>2. dirty \in 0 .. 1
    BY DEF TypeOK
  <2> QED BY <2>1, <2>2, TriggerLeavesOne
<1>2. CASE Head(queue) \notin Triggering
  <2>1. dirty' = dirty
    BY <1>2, Zenon DEF ReceiveDatagram
  <2>2. dirty \in 0 .. 1
    BY DEF TypeOK
  <2> QED BY <1>2, <2>1, <2>2
<1> QED BY <1>1, <1>2

\* The state before the first start of the daemon is typed.
LEMMA InitType == Init => TypeOK
<1> SUFFICES ASSUME Init PROVE TypeOK
  OBVIOUS
<1>1. /\ enobufs \in BOOLEAN /\ tick \in BOOLEAN
      /\ ready \in BOOLEAN /\ ctxDone \in BOOLEAN
  BY DEF Init
<1>2. /\ dirty \in 0 .. 1
      /\ visible \in 1 .. MaxInventory /\ unannounced \in 0 .. visible - 1
      /\ base \in 0 .. MaxInventory /\ attempted \in 0 .. MaxInventory
      /\ seen \in 0 .. MaxInventory
      /\ failures \in 0 .. MaxFailures /\ stops \in 0 .. MaxStops
  BY MaxInventoryAssumption, MaxFailuresAssumption, MaxStopsAssumption
  DEF Init
<1>3. /\ queue \in Seq(Kinds) /\ Len(queue) <= RcvBuf
      /\ reader \in ReaderStates /\ loop \in LoopStates
  BY EmptyBuffer DEF Init
<1> QED BY <1>1, <1>2, <1>3 DEF TypeOK

\* Every step of the host, the kernel, the two goroutines and the process keeps
\* every variable in its type.
LEMMA StepType == TypeOK /\ [Next]_vars => TypeOK'
<1> SUFFICES ASSUME TypeOK, [Next]_vars
             PROVE  TypeOK'
  OBVIOUS
<1> USE MaxInventoryAssumption, MaxFailuresAssumption, MaxStopsAssumption
<1>1. CASE InventoryChanges
  BY <1>1 DEF InventoryChanges, TypeOK, host, socket, scans, process
<1>2. CASE Announce
  <2>1. PICK kind \in Kinds : Multicast(kind)
    BY <1>2 DEF Announce, Kinds, Triggering
  <2>2. /\ queue' \in Seq(Kinds) /\ Len(queue') <= RcvBuf
        /\ enobufs' \in BOOLEAN
    BY <2>1, MulticastType
  <2> QED BY <1>2, <2>2 DEF Announce, TypeOK, scans, process
<1>3. CASE Noise
  <2>1. PICK kind \in Kinds : Multicast(kind)
    BY <1>3 DEF Noise
  <2>2. /\ queue' \in Seq(Kinds) /\ Len(queue') <= RcvBuf
        /\ enobufs' \in BOOLEAN
    BY <2>1, MulticastType
  <2> QED BY <1>3, <2>2 DEF Noise, TypeOK, host, scans, process
<1>4. CASE Reader
  <2>1. CASE DialSucceeds
    BY <2>1, EmptyBuffer
    DEF DialSucceeds, CloseSocket, TypeOK, host, scans, process
  <2>2. CASE DialFails
    BY <2>2 DEF DialFails, TypeOK, host, socket, scans, process
  <2>3. CASE TriggerOnBind
    BY <2>3 DEF TriggerOnBind, Trigger, TypeOK, host, socket, scans, process
  <2>4. CASE ReceiveLost
    <3>1. dirty' \in 0 .. 1
      BY <2>4, TriggerLeavesOne DEF ReceiveLost
    <3> QED BY <2>4, <3>1 DEF ReceiveLost, TypeOK, host, scans, process
  <2>5. CASE ReceiveDatagram
    <3>1. queue' \in Seq(Kinds) /\ Len(queue') <= RcvBuf
      BY <2>5, RcvBufAssumption DEF ReceiveDatagram, TypeOK
    <3>2. dirty' \in 0 .. 1
      BY <2>5, ReceiveDirty
    <3> QED
      BY <2>5, <3>1, <3>2 DEF ReceiveDatagram, TypeOK, host, scans, process
  <2>6. CASE ReceiveFails
    BY <2>6, EmptyBuffer
    DEF ReceiveFails, CloseSocket, TypeOK, host, scans, process
  <2>7. CASE BackoffElapses
    BY <2>7 DEF BackoffElapses, TypeOK, host, socket, scans, process
  <2>8. CASE ReaderStops
    BY <2>8, EmptyBuffer
    DEF ReaderStops, CloseSocket, TypeOK, host, scans, process
  <2> QED BY <1>4, <2>1, <2>2, <2>3, <2>4, <2>5, <2>6, <2>7, <2>8 DEF Reader
<1>5. CASE TickerFires
  BY <1>5 DEF TickerFires, TypeOK, host, socket, scans, process
<1>6. CASE Loop
  <2>1. CASE StartSucceeds
    BY <2>1 DEF StartSucceeds, Trigger, TypeOK, host, socket, scans, process
  <2>2. CASE StartFails
    BY <2>2 DEF StartFails, TypeOK, host, socket, scans, process
  <2>3. CASE SelectDone
    BY <2>3 DEF SelectDone, Leave, TypeOK, host, socket, scans, process
  <2>4. CASE SelectTick
    BY <2>4 DEF SelectTick, TypeOK, host, socket, scans, process
  <2>5. CASE SelectDirty
    BY <2>5 DEF SelectDirty, TypeOK, host, socket, scans, process
  <2>6. CASE DebounceElapses
    BY <2>6 DEF DebounceElapses, TypeOK, host, socket, scans, process
  <2>7. CASE DebounceCancelled
    BY <2>7 DEF DebounceCancelled, Leave, TypeOK, host, socket, scans, process
  <2>8. CASE DrainHints
    BY <2>8 DEF DrainHints, TypeOK, host, socket, scans, process
  <2>9. CASE DiscoverBegins
    BY <2>9 DEF DiscoverBegins, TypeOK, host, socket, process
  <2>10. CASE ScanSucceeds
    BY <2>10 DEF ScanSucceeds, TypeOK, host, socket, process
  <2>11. CASE ScanFails
    <3>1. failures' \in 0 .. MaxFailures
      BY <2>11 DEF ScanFails, TypeOK
    <3> QED BY <2>11, <3>1 DEF ScanFails, TypeOK, host, socket, process
  <2>12. CASE StoreReady
    BY <2>12 DEF StoreReady, TypeOK, host, socket, scans, process
  <2> QED BY <1>6, <2>1, <2>2, <2>3, <2>4, <2>5, <2>6, <2>7, <2>8, <2>9,
             <2>10, <2>11, <2>12 DEF Loop
<1>7. CASE Process
  <2>1. CASE Terminate
    BY <2>1 DEF Terminate, TypeOK, host, socket, scans
  <2>2. CASE Crash
    <3>1. queue' \in Seq(Kinds) /\ Len(queue') <= RcvBuf
      BY <2>2, EmptyBuffer DEF Crash, CloseSocket
    <3>2. /\ enobufs' \in BOOLEAN /\ ready' \in BOOLEAN
          /\ UNCHANGED <<dirty, tick, ctxDone>>
      BY <2>2 DEF Crash, CloseSocket, scans
    <3>3. /\ reader' \in ReaderStates /\ loop' \in LoopStates
          /\ stops' \in 0 .. MaxStops
          /\ UNCHANGED <<visible, unannounced, base, attempted, seen, failures>>
      BY <2>2 DEF Crash, TypeOK, host, scans
    <3> QED BY <3>1, <3>2, <3>3 DEF TypeOK
  <2>3. CASE Restart
    <3>1. queue' \in Seq(Kinds) /\ Len(queue') <= RcvBuf
      BY <2>3, EmptyBuffer DEF Restart, CloseSocket
    <3>2. /\ enobufs' \in BOOLEAN /\ tick' \in BOOLEAN
          /\ ctxDone' \in BOOLEAN /\ ready' \in BOOLEAN
      BY <2>3 DEF Restart, CloseSocket, TypeOK
    <3>3. /\ dirty' \in 0 .. 1
          /\ reader' \in ReaderStates /\ loop' \in LoopStates
          /\ UNCHANGED <<visible, unannounced, base, attempted, seen, failures,
                         stops>>
      BY <2>3 DEF Restart, host
    <3> QED BY <3>1, <3>2, <3>3 DEF TypeOK
  <2> QED BY <1>7, <2>1, <2>2, <2>3 DEF Process
<1>8. CASE UNCHANGED vars
  BY <1>8 DEF vars, TypeOK, host, socket, scans, process
<1> QED BY <1>1, <1>2, <1>3, <1>4, <1>5, <1>6, <1>7, <1>8
        DEF Next, Environment

\* Every reachable state is typed: the one-slot channels of Start and the receive
\* buffer never overfill, the counters stay in their ranges.
THEOREM TypeCorrect == Spec => []TypeOK
  BY InitType, StepType, PTL DEF Spec

-----------------------------------------------------------------------------
(* Readiness.                                                              *)

\* Only StoreReady makes the daemon ready, within the loop; whatever takes the
\* loop to its end makes it unready in the same step.
LEMMA StepReady ==
    ASSUME ReadyOnlyWhileRunning, [Next]_vars
    PROVE  ReadyOnlyWhileRunning'
<1> USE DEF ReadyOnlyWhileRunning, Running
<1>1. CASE UNCHANGED <<loop, ready>>
  BY <1>1
<1>2. CASE Loop
  <2>1. CASE SelectDone \/ DebounceCancelled
    BY <2>1 DEF SelectDone, DebounceCancelled, Leave
  <2>2. CASE StoreReady
    BY <2>2 DEF StoreReady
  <2>3. CASE StartSucceeds \/ StartFails
    BY <2>3 DEF StartSucceeds, StartFails
  <2>4. CASE \/ SelectTick \/ SelectDirty \/ DebounceElapses \/ DrainHints
             \/ DiscoverBegins \/ ScanSucceeds \/ ScanFails
    BY <2>4 DEF SelectTick, SelectDirty, DebounceElapses, DrainHints,
                DiscoverBegins, ScanSucceeds, ScanFails
  <2> QED BY <1>2, <2>1, <2>2, <2>3, <2>4 DEF Loop
<1>3. CASE Crash \/ Restart
  BY <1>3 DEF Crash, Restart
<1>4. Loop \/ Crash \/ Restart \/ UNCHANGED <<loop, ready>>
  BY DEF Next, vars, Environment, InventoryChanges, Announce, Noise, Reader,
         DialSucceeds, DialFails, TriggerOnBind, ReceiveLost, ReceiveDatagram,
         ReceiveFails, BackoffElapses, ReaderStops, TickerFires, Process,
         Terminate
<1> QED BY <1>1, <1>2, <1>3, <1>4

\* /readyz answers 200 only while the scan loop runs, through every crash,
\* cancelled context and restart (the deferred ready.Store(false) of Start).
THEOREM ReadinessFollowsLoop == Spec => []ReadyOnlyWhileRunning
<1>1. Init => ReadyOnlyWhileRunning
  BY DEF Init, ReadyOnlyWhileRunning
<1> QED BY <1>1, StepReady, PTL DEF Spec

-----------------------------------------------------------------------------
(* No change is missed.  NothingMissed is not inductive alone: the reader may  *)
(* be parked only while the process goes down, and a running scan reads a      *)
(* version between the last one and the current one.                           *)

ReaderParked == reader = "stopped" => ~Running \/ ctxDone

ScansOrdered ==
    /\ attempted <= visible
    /\ loop = "scanning" => base \in attempted .. visible

Inv == TypeOK /\ ReaderParked /\ ScansOrdered /\ NothingMissed

\* A multicast of a triggering datagram leaves a trigger in flight unless the
\* reader is parked.
LEMMA MulticastTriggers ==
    ASSUME TypeOK, NEW kind \in Triggering, Multicast(kind),
           reader # "stopped", UNCHANGED reader
    PROVE  TriggerInFlight'
<1>1. CASE reader \in {"dial", "bound", "backoff"}
  BY <1>1 DEF TriggerInFlight
<1>2. CASE reader = "reading" /\ Len(queue) < RcvBuf
  <2>1. queue' = Append(queue, kind)
    BY <1>2 DEF Multicast, Bound
  <2>2. queue \in Seq(Kinds) /\ kind \in Kinds
    BY DEF TypeOK, Kinds, Triggering
  <2>3. /\ Len(queue) + 1 \in DOMAIN queue'
        /\ queue'[Len(queue) + 1] = kind
    BY <2>1, <2>2
  <2> QED BY <1>2, <2>3 DEF TriggerInFlight
<1>3. CASE reader = "reading" /\ ~(Len(queue) < RcvBuf)
  BY <1>3 DEF Multicast, Bound, TriggerInFlight
<1> QED BY <1>1, <1>2, <1>3 DEF TypeOK

\* A multicast takes no trigger out of flight.
LEMMA MulticastKeeps ==
    ASSUME TypeOK, NEW kind \in Kinds, Multicast(kind), TriggerInFlight,
           UNCHANGED <<reader, unannounced>>
    PROVE  TriggerInFlight'
<1>1. CASE /\ reader = "reading" /\ queue' = Append(queue, kind)
           /\ \E i \in DOMAIN queue : queue[i] \in Triggering
  <2>1. PICK i \in DOMAIN queue : queue[i] \in Triggering
    BY <1>1
  <2>2. i \in DOMAIN queue' /\ queue'[i] = queue[i]
    BY <1>1 DEF TypeOK
  <2> QED BY <1>1, <2>1, <2>2 DEF TriggerInFlight
<1>2. CASE UNCHANGED queue
  BY <1>2 DEF Multicast, TriggerInFlight, socket
<1>3. CASE ~(reader = "reading" /\ \E i \in DOMAIN queue : queue[i] \in Triggering)
  BY <1>3 DEF Multicast, TriggerInFlight, socket
<1> QED BY <1>1, <1>2, <1>3 DEF Multicast, Bound, socket

\* Reading a datagram either passes a trigger on to dirty or leaves it queued.
LEMMA ReceiveKeeps ==
    ASSUME TypeOK, ReceiveDatagram, TriggerInFlight
    PROVE  TriggerInFlight' \/ dirty' > 0
<1>1. CASE unannounced > 0
  BY <1>1 DEF ReceiveDatagram, TriggerInFlight, host
<1>2. CASE \E i \in DOMAIN queue : queue[i] \in Triggering
  <2>1. PICK i \in DOMAIN queue : queue[i] \in Triggering
    BY <1>2
  <2>2. /\ queue \in Seq(Kinds) /\ queue # <<>> /\ queue' = Tail(queue)
        /\ reader' = "reading"
    BY DEF ReceiveDatagram, TypeOK
  <2>3. CASE i = 1
    <3>1. Head(queue) \in Triggering
      BY <2>1, <2>2, <2>3
    <3> QED BY <3>1, ReceiveDirty
  <2>4. CASE i # 1
    <3>1. i - 1 \in DOMAIN queue' /\ queue'[i - 1] = queue[i]
      BY <2>1, <2>2, <2>4
    <3> QED BY <2>1, <2>2, <3>1 DEF TriggerInFlight
  <2> QED BY <2>3, <2>4
<1> QED BY <1>1, <1>2 DEF ReceiveDatagram, TriggerInFlight

\* The strengthened invariant is kept by every step.
LEMMA InvInductive == Inv /\ TypeOK' /\ [Next]_vars => Inv'
<1> SUFFICES ASSUME Inv, TypeOK', [Next]_vars
             PROVE  ReaderParked' /\ ScansOrdered' /\ NothingMissed'
  BY DEF Inv
<1> USE DEF Inv, ReaderParked, ScansOrdered, NothingMissed, Covered
<1>1. CASE InventoryChanges
  <2>1. unannounced' > 0
    BY <1>1 DEF InventoryChanges, TypeOK
  <2> QED BY <1>1, <2>1
          DEF InventoryChanges, ScanPending, TriggerInFlight, Running, TypeOK,
              scans, process
<1>2. CASE Announce
  <2> DEFINE Same == UNCHANGED <<visible, reader, dirty, loop, base, attempted,
                                 ctxDone>>
  <2>1. Same
    BY <1>2 DEF Announce, scans, process
  <2>2. ScanPending'
    <3>1. CASE reader = "stopped"
      BY <2>1, <3>1 DEF ScanPending, Running
    <3>2. CASE reader # "stopped"
      <4>1. PICK kind \in Triggering : Multicast(kind)
        BY <1>2 DEF Announce
      <4> QED BY <2>1, <3>2, <4>1, MulticastTriggers DEF ScanPending
    <3> QED BY <3>1, <3>2
  <2> QED BY <2>1, <2>2 DEF Running
<1>3. CASE Noise
  <2>1. PICK kind \in Kinds : Multicast(kind)
    BY <1>3 DEF Noise
  <2>2. UNCHANGED <<visible, unannounced, reader, dirty, loop, base, attempted,
                    ctxDone>>
    BY <1>3 DEF Noise, host, scans, process
  <2>3. TriggerInFlight => TriggerInFlight'
    BY <2>1, <2>2, MulticastKeeps
  <2> QED BY <2>2, <2>3 DEF ScanPending, Running
<1>4. CASE Reader
  <2>1. UNCHANGED <<visible, unannounced, loop, base, attempted, ctxDone>>
    BY <1>4 DEF Reader, DialSucceeds, DialFails, TriggerOnBind, ReceiveLost,
                ReceiveDatagram, ReceiveFails, BackoffElapses, ReaderStops,
                host, scans, process
  <2>2. reader' # "stopped" \/ ctxDone
    BY <1>4 DEF Reader, DialSucceeds, DialFails, TriggerOnBind, ReceiveLost,
                ReceiveDatagram, ReceiveFails, BackoffElapses, ReaderStops
  <2>3. CASE ReceiveDatagram
    <3>1. dirty > 0 => dirty' > 0
      <4>1. dirty \in 0 .. 1
        BY DEF TypeOK
      <4> QED BY <2>3, <4>1, ReceiveDirty
    <3>2. TriggerInFlight => TriggerInFlight' \/ dirty' > 0
      BY <2>3, ReceiveKeeps
    <3>3. ScanPending => ScanPending'
      BY <2>1, <3>1, <3>2, Zenon DEF ScanPending, Running
    <3> QED BY <2>1, <2>2, <3>3 DEF Running
  <2>4. CASE TriggerOnBind \/ ReceiveLost
    <3>1. dirty' > 0
      BY <2>4, TriggerLeavesOne DEF TriggerOnBind, ReceiveLost
    <3> QED BY <2>1, <2>2, <3>1 DEF ScanPending, Running
  <2>5. CASE DialSucceeds \/ DialFails \/ ReceiveFails \/ BackoffElapses
    <3>1. reader' \in {"dial", "bound", "backoff"}
      BY <2>5 DEF DialSucceeds, DialFails, ReceiveFails, BackoffElapses
    <3> QED BY <2>1, <3>1 DEF ScanPending, TriggerInFlight
  <2>6. CASE ReaderStops
    BY <2>1, <2>6 DEF ReaderStops, ScanPending
  <2> QED BY <1>4, <2>3, <2>4, <2>5, <2>6 DEF Reader
<1>5. CASE TickerFires
  BY <1>5 DEF TickerFires, ScanPending, TriggerInFlight, Running, host, socket,
              scans, process
<1>6. CASE Loop
  <2>1. UNCHANGED <<visible, unannounced, queue, enobufs, ctxDone>>
    BY <1>6 DEF Loop, StartSucceeds, StartFails, SelectDone, SelectTick,
                SelectDirty, DebounceElapses, DebounceCancelled, DrainHints,
                DiscoverBegins, ScanSucceeds, ScanFails, StoreReady, host,
                socket, process
  <2>2. CASE StartSucceeds
    BY <2>1, <2>2 DEF StartSucceeds, ScanPending, TriggerInFlight, scans
  <2>3. CASE StartFails \/ SelectDone \/ DebounceCancelled
    <3>1. /\ loop' = "exited"
          /\ UNCHANGED <<reader, base, attempted>>
      BY <2>3 DEF StartFails, SelectDone, DebounceCancelled, Leave, scans
    <3> QED BY <2>1, <3>1 DEF ScanPending, Running
  <2>4. CASE SelectTick \/ SelectDirty \/ DebounceElapses \/ DrainHints
    <3>1. /\ loop' \in {"debounce", "drain", "discover"}
          /\ loop \in {"select", "debounce", "drain"}
          /\ UNCHANGED <<reader, base, attempted>>
      BY <2>4 DEF SelectTick, SelectDirty, DebounceElapses, DrainHints, scans
    <3> QED BY <2>1, <3>1 DEF ScanPending, Running
  <2>5. CASE DiscoverBegins
    BY <2>1, <2>5 DEF DiscoverBegins, Running, TypeOK
  <2>6. CASE ScanSucceeds \/ ScanFails
    <3>1. /\ loop = "scanning" /\ loop' = "scanned"
          /\ attempted' = base
          /\ UNCHANGED <<reader, dirty>>
      BY <2>6 DEF ScanSucceeds, ScanFails
    <3>2. ScanPending => ScanPending'
      BY <2>1, <3>1 DEF ScanPending, TriggerInFlight, Running
    <3> QED BY <2>1, <3>1, <3>2 DEF Running, TypeOK
  <2>7. CASE StoreReady
    BY <2>1, <2>7 DEF StoreReady, ScanPending, TriggerInFlight, Running, scans
  <2> QED BY <1>6, <2>2, <2>3, <2>4, <2>5, <2>6, <2>7 DEF Loop
<1>7. CASE Process
  <2>1. CASE Terminate
    BY <2>1 DEF Terminate, ScanPending, host, scans
  <2>2. CASE Crash \/ Restart
    <3>1. loop' \in {"exited", "start"} /\ UNCHANGED <<visible, attempted>>
      BY <2>2 DEF Crash, Restart, host, scans
    <3> QED BY <3>1 DEF ScanPending, Running
  <2> QED BY <1>7, <2>1, <2>2 DEF Process
<1>8. CASE UNCHANGED vars
  BY <1>8 DEF vars, ScanPending, TriggerInFlight, Running, host, socket, scans,
              process
<1> QED BY <1>1, <1>2, <1>3, <1>4, <1>5, <1>6, <1>7, <1>8
        DEF Next, Environment

\* The first scan is pending before the process has started.
LEMMA InitInv == Init => Inv
  BY InitType
  DEF Init, Inv, ReaderParked, ScansOrdered, NothingMissed, Covered, ScanPending,
      Running

\* Every reachable state satisfies the strengthened invariant.
LEMMA Invariant == Spec => []Inv
<1>1. Inv /\ [Next]_vars => Inv'
  BY InvInductive, StepType DEF Inv
<1> QED BY InitInv, <1>1, PTL DEF Spec

\* Whatever the kernel drops, the socket loses and the loop collapses, a change
\* of the host is covered by a scan or still on its way to one.
THEOREM ChangesNotMissed == Spec => []NothingMissed
<1>1. Inv => NothingMissed
  BY DEF Inv
<1> QED BY Invariant, <1>1, PTL

-----------------------------------------------------------------------------
(* Start and Monitor implement InventoryPromise.                           *)

\* What Promise substitutes for owed.
Owed == Covered # attempted \/ ScanPending

\* The initial state and every step of the daemon, the kernel and the kubelet is
\* one the promise allows: the debt of a scan is paid by a scan and by nothing
\* else.
THEOREM PromiseKept == Spec => Promise!Init /\ [][Promise!Next]_(Promise!vars)
<1>1. Init => Promise!Init
  BY DEF Init, Promise!Init, Covered, ScanPending, Running
<1>2. Inv /\ Inv' /\ [Next]_vars => [Promise!Next]_(Promise!vars)
  <2> SUFFICES ASSUME Inv, Inv', [Next]_vars
               PROVE  Promise!Next \/ UNCHANGED Promise!vars
    BY DEF Promise!vars
  <2>1. Owed' \in BOOLEAN /\ (~Owed' => attempted' = visible')
    BY DEF Owed, Inv, NothingMissed
  <2>2. CASE UNCHANGED <<visible, attempted, seen>>
    <3>1. Owed' \in {TRUE, attempted # visible}
      BY <2>1, <2>2
    <3> QED BY <2>2, <3>1 DEF Promise!Next, Promise!Hint, Owed
  <2>3. CASE InventoryChanges
    <3>1. unannounced' > 0
      BY <2>3 DEF InventoryChanges, Inv, TypeOK
    <3>2. Owed' = TRUE
      BY <3>1 DEF Owed, ScanPending, TriggerInFlight
    <3> QED BY <2>3, <3>2
            DEF Promise!Next, Promise!Change, Owed, InventoryChanges, scans
  <2>4. CASE ScanSucceeds \/ ScanFails
    <3>1. /\ attempted' = base /\ seen' \in {seen, base}
          /\ base \in attempted .. visible
          /\ UNCHANGED visible
      BY <2>4 DEF ScanSucceeds, ScanFails, Inv, ScansOrdered, host
    <3>2. Owed' \in {TRUE, base # visible}
      BY <2>1, <3>1
    <3> QED BY <3>1, <3>2 DEF Promise!Next, Promise!Scan, Owed
  <2>5. \/ InventoryChanges \/ ScanSucceeds \/ ScanFails
        \/ UNCHANGED <<visible, attempted, seen>>
    BY DEF Next, vars, Environment, Reader, Loop, Process, Announce, Noise,
           DialSucceeds, DialFails, TriggerOnBind, ReceiveLost, ReceiveDatagram,
           ReceiveFails, BackoffElapses, ReaderStops, TickerFires, StartSucceeds,
           StartFails, SelectDone, SelectTick, SelectDirty, DebounceElapses,
           DebounceCancelled, DrainHints, DiscoverBegins, StoreReady, Terminate,
           Crash, Restart, host, scans
  <2> QED BY <2>2, <2>3, <2>4, <2>5
<1> QED BY Invariant, <1>1, <1>2, PTL DEF Spec
=============================================================================
