-------------------------- MODULE InventoryPromise --------------------------
(***************************************************************************)
(* What the comment of discovery.Monitor (pkg/discovery/uevent.go) and the *)
(* README promise of change detection, without sockets and channels: "a    *)
(* caller that rescans on every trigger never misses a state change,       *)
(* including those that happen while Monitor is not running".              *)
(*                                                                         *)
(* A scan is owed whenever the host has changed since the last scan began. *)
(* The debt is paid by a scan only, and every debt is paid.                *)
(***************************************************************************)
EXTENDS Naturals

VARIABLES
    visible,    \* inventory version of the host
    attempted,  \* inventory version of the last finished scan
    seen,       \* inventory version of the last scan that succeeded
    owed        \* a scan is going to happen without the help of a poll

vars == <<visible, attempted, seen, owed>>

Init == visible = 1 /\ attempted = 0 /\ seen = 0 /\ owed = TRUE

\* A disk appears or vanishes.
Change ==
    /\ visible' = visible + 1
    /\ owed' = TRUE
    /\ UNCHANGED <<attempted, seen>>

\* A scan that found everything up to version v, or failed while reading it.
\* Changes behind v remain owed.
Scan ==
    \E v \in attempted .. visible :
        /\ attempted' = v
        /\ seen' \in {seen, v}
        /\ owed' \in {TRUE, v # visible}
        /\ UNCHANGED visible

\* Hints may come and go as long as nothing is left to find.
Hint ==
    /\ owed' \in {TRUE, attempted # visible}
    /\ UNCHANGED <<visible, attempted, seen>>

Next == Change \/ Scan \/ Hint

ScansArePaid == WF_attempted(Scan)

Spec == Init /\ [][Next]_vars /\ ScansArePaid
=============================================================================
