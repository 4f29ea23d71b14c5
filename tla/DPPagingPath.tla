---------------------------- MODULE DPPagingPath ----------------------------
(***************************************************************************)
(* DP/DPMain.c, IRP_MN_DEVICE_USAGE_NOTIFICATION: the volume filter counts *)
(* the paging files on its volume.  With none of them its power routines   *)
(* may be paged out (DO_POWER_PAGABLE), with one they may not: a page      *)
(* fault would need the volume that is being powered.                      *)
(*                                                                         *)
(* A notification is named by the paging file it is about.                 *)
(***************************************************************************)
EXTENDS Integers, FiniteSets

CONSTANTS Files,     \* the paging files that come to the volume and leave it
          Inrush,    \* DO_POWER_INRUSH is set in the flags of the device
          Overlap    \* notifications may be under way at the same time

ASSUME PagingAssumption ==
    IsFiniteSet(Files) /\ Inrush \in BOOLEAN /\ Overlap \in BOOLEAN

VARIABLES
    event,     \* PagingPathCountEvent is signalled
    count,     \* PagingPathCount
    pagable,   \* DO_POWER_PAGABLE is set
    onPath,    \* the files the devices below have agreed to
    pc,        \* where the thread of each notification is
    inPath,    \* UsageNotification.InPath
    set        \* setPagable

vars == <<event, count, pagable, onPath, pc, inPath, set>>

\* DPAddDevice.
Init ==
    /\ event = TRUE /\ count = 0 /\ pagable = TRUE
    /\ onPath = {}
    /\ pc = [f \in Files |-> "none"]
    /\ inPath = [f \in Files |-> FALSE]
    /\ set = [f \in Files |-> FALSE]

\* The kernel assigns or releases a paging file.
Notify(f) ==
    /\ pc[f] = "none"
    /\ Overlap \/ \A g \in Files : pc[g] = "none"
    /\ pc' = [pc EXCEPT ![f] = "wait"]
    /\ inPath' = [inPath EXCEPT ![f] = f \notin onPath]
    /\ UNCHANGED <<event, count, pagable, onPath, set>>

\* A notification event stays signalled for the next that waits.
Wait(f) ==
    /\ pc[f] = "wait" /\ event
    /\ pc' = [pc EXCEPT ![f] = "test"]
    /\ UNCHANGED <<event, count, pagable, onPath, inPath, set>>

\* Slip: the flag is set for every file that leaves.
IsLastAny(f) == ~inPath[f]

\* The last paging file is about to leave.
IsLast(f) == ~inPath[f] /\ count = 1

Test(f) ==
    /\ pc[f] = "test"
    /\ LET setting == IsLast(f) /\ ~Inrush
       IN /\ set' = [set EXCEPT ![f] = setting]
          /\ pagable' = (pagable \/ setting)
    /\ pc' = [pc EXCEPT ![f] = "forward"]
    /\ UNCHANGED <<event, count, onPath, inPath>>

\* DPForwardIrpSync: the devices below agree or refuse.
ForwardIrpSync(f) ==
    /\ pc[f] = "forward"
    /\ \/ /\ pc' = [pc EXCEPT ![f] = "adjust"]
          /\ onPath' = IF inPath[f] THEN onPath \cup {f} ELSE onPath \ {f}
       \/ /\ pc' = [pc EXCEPT ![f] = "restore"]
          /\ UNCHANGED onPath
    /\ UNCHANGED <<event, count, pagable, inPath, set>>

\* Slip: the direction is not looked at.
AdjustedUp(f) == count + 1

\* IoAdjustPagingPathCount, an interlocked operation.
Adjusted(f) == IF inPath[f] THEN count + 1 ELSE count - 1

AdjustPagingPathCount(f) ==
    /\ pc[f] = "adjust"
    /\ count' = Adjusted(f)
    /\ pc' = [pc EXCEPT ![f] = "clear"]
    /\ UNCHANGED <<event, pagable, onPath, inPath, set>>

\* The first file has come: the flag is cleared.
ClearPagable(f) ==
    /\ pc[f] = "clear"
    /\ pagable' = (pagable /\ ~(inPath[f] /\ count = 1))
    /\ pc' = [pc EXCEPT ![f] = "signal"]
    /\ UNCHANGED <<event, count, onPath, inPath, set>>

\* The devices below refused: what Test set is taken back.
RestorePagable(f) ==
    /\ pc[f] = "restore"
    /\ pagable' = (pagable /\ ~set[f])
    /\ set' = [set EXCEPT ![f] = FALSE]
    /\ pc' = [pc EXCEPT ![f] = "signal"]
    /\ UNCHANGED <<event, count, onPath, inPath>>

\* KeSetEvent, and the notification is completed.
Signal(f) ==
    /\ pc[f] = "signal"
    /\ event' = TRUE
    /\ pc' = [pc EXCEPT ![f] = "none"]
    /\ set' = [set EXCEPT ![f] = FALSE]
    /\ UNCHANGED <<count, pagable, onPath, inPath>>

Next == \E f \in Files :
    \/ Notify(f) \/ Wait(f) \/ Test(f) \/ ForwardIrpSync(f)
    \/ AdjustPagingPathCount(f) \/ ClearPagable(f) \/ RestorePagable(f) \/ Signal(f)

Spec == Init /\ [][Next]_vars
-----------------------------------------------------------------------------
Labels == {"none", "wait", "test", "forward", "adjust", "clear", "restore", "signal"}

\* Every variable has its type; the count never exceeds the number of files
\* and never falls below zero (PagingPathCount in DPDispatchPnp).
TypeOK ==
    /\ event \in BOOLEAN /\ pagable \in BOOLEAN
    /\ count \in 0 .. Cardinality(Files)
    /\ onPath \subseteq Files
    /\ pc \in [Files -> Labels]
    /\ inPath \in [Files -> BOOLEAN] /\ set \in [Files -> BOOLEAN]

Quiet == \A f \in Files : pc[f] = "none"

\* When no notification is under way, DO_POWER_PAGABLE says whether the volume
\* is free of paging files, whatever came, left or was refused before: the
\* first file clears it, the last one sets it, a refusal takes back what was
\* set in advance (with DO_POWER_INRUSH it is never set again).
FlagFollowsFiles ==
    Quiet => /\ pagable => onPath = {}
             /\ onPath = {} /\ ~Inrush => pagable
=============================================================================
