------------------------------ MODULE Ctrl2cap ------------------------------
(***************************************************************************)
(* ctrl2cap/ctrl2cap/ctrl2cap.c: a filter on each keyboard, its reads in   *)
(* flight, and its end by removal of a keyboard or by unloading, together  *)
(* with what the I/O manager does to the driver object meanwhile.          *)
(*                                                                         *)
(* The code relies on one processor: a completion (a DPC) is not           *)
(* interrupted, a thread that dispatches a read is interrupted only by     *)
(* completions, and the threads that load, unload and remove run when      *)
(* neither does.  The model lets everything interleave; overlapped records *)
(* that this order was not kept.                                           *)
(***************************************************************************)
EXTENDS Integers, FiniteSets

CONSTANTS Keyboards,  \* devices of Kbdclass
          Reads,      \* read requests
          Wrap,       \* 2^32: gC2pKeyCount is a ULONG
          Faults,     \* what may fail: "open", "create", "attach"
          NULL

ASSUME FilterAssumption ==
    /\ IsFiniteSet(Keyboards) /\ IsFiniteSet(Reads) /\ NULL \notin Keyboards
    /\ Wrap \in Nat /\ Wrap > Cardinality(Reads)

VARIABLES
    sys,        \* where the thread is that loads or unloads the driver
    targets,    \* keyboards c2pAttachDevices has still to come to
    cursor,     \* the keyboard, or filter, its loop is at
    filter,     \* state of the filter of each keyboard
    attached,   \* keyboards whose AttachedDevice is their filter
    keyboard,   \* state of each keyboard
    thread,     \* where the thread that issued a read is in c2pDispatchRead
    irp,        \* where the read itself is
    at,         \* the keyboard it is about
    through,    \* it went to a filter, and has c2pReadComplete ahead
    reg,        \* what was loaded to increment or decrement gC2pKeyCount
    count,      \* gC2pKeyCount
    refs,       \* references of the driver object
    overlapped

stack == <<filter, attached>>
reads == <<thread, irp, at, through, reg>>
vars == <<sys, targets, cursor, stack, keyboard, reads, count, refs, overlapped>>

Init ==
    /\ sys = "absent" /\ targets = {} /\ cursor = NULL
    /\ filter = [k \in Keyboards |-> "none"] /\ attached = {}
    /\ keyboard = [k \in Keyboards |-> "there"]
    /\ thread = [r \in Reads |-> "out"] /\ irp = [r \in Reads |-> "none"]
    /\ at = [r \in Reads |-> NULL] /\ through = [r \in Reads |-> FALSE]
    /\ reg = [r \in Reads |-> 0]
    /\ count = 0 /\ refs = 0 /\ overlapped = FALSE

-----------------------------------------------------------------------------
\* The list DriverObject->DeviceObject; a filter is named by its keyboard.
Devices == {k \in Keyboards : filter[k] # "none"}

Dispatching == {r \in Reads : thread[r] # "out"}
Completing  == {r \in Reads : irp[r] \in {"complete", "uncounting", "leaving"}}
Removing    == {k \in Keyboards : keyboard[k] \in {"going", "loose"}}
Loading     == sys \in {"open", "create", "attach", "init"}
Unloading   == sys \in {"detach", "delete", "poll"}

\* Reads gC2pKeyCount stands for.
InFlight == {r \in Reads : through[r] /\ (thread[r] = "forward"
                                          \/ irp[r] \in {"below", "complete", "uncounting"})}

\* Reads for which code of the driver is running or will run.
InCode == Dispatching \cup {r \in Reads : through[r] /\ irp[r] # "none"}

\* The image goes with the last reference of the driver object.
Gone == refs <= 0

\* The next request, or the end of one, runs code that is gone, or the machine
\* has stopped: what follows is not the driver's.
Lost == \/ sys = "crashed"
        \/ Gone /\ (Devices # {} \/ InCode # {})

Overlap(p) == overlapped' = (overlapped \/ p)

\* A step of the thread that loads and unloads, of a removal, of a dispatch and
\* of a completion: what must not be under way.
WorkerStep == Overlap(Dispatching \cup Completing # {} \/ Removing # {})
RemoveStep(k) == Overlap(Dispatching \cup Completing # {} \/ Loading \/ Unloading
                         \/ Removing \ {k} # {})
ThreadStep(r) == Overlap(Completing # {} \/ Dispatching \ {r} # {})
CompletionStep(r) ==
    Overlap(Completing \ {r} # {} \/ \E q \in Reads : thread[q] = "counting")

-----------------------------------------------------------------------------
(* IoCreateDevice, IoAttachDeviceToDeviceStack, IoDetachDevice and          *)
(* IoDeleteDevice.  A device object holds a reference of its driver object. *)

IoCreateDevice(k) ==
    /\ filter' = [filter EXCEPT ![k] = "made"]
    /\ refs' = refs + 1 /\ UNCHANGED attached

IoAttachDevice(k) ==
    /\ attached' = attached \cup {k}
    /\ filter' = [filter EXCEPT ![k] = "bound"]

IoDetachDevice(k) ==
    /\ attached' = attached \ {k}
    /\ filter' = [filter EXCEPT ![k] = "loose"]

IoDeleteDevice(k) ==
    /\ filter' = [filter EXCEPT ![k] = "none"]
    /\ refs' = refs - 1 /\ UNCHANGED attached

Crash == sys' = "crashed" /\ UNCHANGED <<stack, refs>>

-----------------------------------------------------------------------------
(* DriverEntry and c2pAttachDevices.                                       *)

\* IopLoadDriver: the name and the caller hold the driver object; the image has
\* its initial data.
Load ==
    /\ sys = "absent" /\ Gone
    /\ sys' = "open" /\ refs' = 2 /\ count' = 0
    /\ targets' = {k \in Keyboards : keyboard[k] = "there"}
    /\ WorkerStep /\ UNCHANGED <<cursor, stack, keyboard, reads>>

\* Slip: it is dereferenced once more.
OpenKbdclassTwice ==
    /\ sys = "open" /\ sys' = "create"
    /\ refs' = refs - 2
    /\ WorkerStep /\ UNCHANGED <<targets, cursor, stack, keyboard, reads, count>>

\* Kbdclass is referenced, and this driver's own object dereferenced.
OpenKbdclass ==
    /\ sys = "open" /\ sys' = "create"
    /\ refs' = refs - 1
    /\ WorkerStep /\ UNCHANGED <<targets, cursor, stack, keyboard, reads, count>>

OpenFails ==
    /\ sys = "open" /\ "open" \in Faults
    /\ sys' = "owes2" /\ targets' = {}
    /\ WorkerStep /\ UNCHANGED <<cursor, stack, keyboard, reads, count, refs>>

CreateFilter ==
    /\ sys = "create" /\ sys' = "attach"
    /\ \E k \in targets : /\ filter[k] = "none"
                          /\ cursor' = k /\ targets' = targets \ {k}
                          /\ IoCreateDevice(k)
    /\ WorkerStep /\ UNCHANGED <<keyboard, reads, count>>

\* DriverEntry fails: the I/O manager drops the name and its reference.
CreateFails ==
    /\ sys = "create" /\ targets # {} /\ "create" \in Faults
    /\ sys' = "owes2" /\ targets' = {}
    /\ WorkerStep /\ UNCHANGED <<cursor, stack, keyboard, reads, count, refs>>

Attach ==
    /\ sys = "attach"
    /\ sys' = "init" /\ IoAttachDevice(cursor)
    /\ WorkerStep /\ UNCHANGED <<targets, cursor, keyboard, reads, count, refs>>

\* Slip: the filter is not deleted.
AttachFailsKeeping ==
    /\ sys = "attach" /\ "attach" \in Faults
    /\ sys' = "loaded" /\ targets' = {} /\ cursor' = NULL
    /\ WorkerStep /\ UNCHANGED <<stack, keyboard, reads, count, refs>>

\* The status that is returned is that of IoCreateDevice: the driver stays.
AttachFails ==
    /\ sys = "attach" /\ "attach" \in Faults
    /\ sys' = "loaded" /\ targets' = {} /\ cursor' = NULL
    /\ IoDeleteDevice(cursor)
    /\ WorkerStep /\ UNCHANGED <<keyboard, reads, count>>

\* c2pDevExtInit and the flags; then the next keyboard.
InitExtension ==
    /\ sys = "init" /\ sys' = "create" /\ cursor' = NULL
    /\ filter' = [filter EXCEPT ![cursor] = IF @ = "bound" THEN "ready" ELSE @]
    /\ WorkerStep
    /\ UNCHANGED <<targets, attached, keyboard, reads, count, refs>>

AttachedAll ==
    /\ sys = "create" /\ targets = {} /\ sys' = "loaded"
    /\ WorkerStep /\ UNCHANGED <<targets, cursor, stack, keyboard, reads, count, refs>>

-----------------------------------------------------------------------------
(* c2pUnload, called by IopUnloadDriver.                                   *)

\* The loop over the filters that are left, in whatever order they are linked.
WalkTo(left) ==
    \/ left = {} /\ sys' = "poll" /\ cursor' = NULL
    \/ sys' = "detach" /\ cursor' \in left

BeginUnload ==
    /\ sys = "loaded" /\ refs' = refs + 1
    /\ WalkTo(Devices)
    /\ WorkerStep /\ UNCHANGED <<targets, stack, keyboard, reads, count>>

\* c2pDetach.  There is nothing to detach if a removal was faster.
Detach ==
    /\ sys = "detach"
    /\ \/ cursor \in attached /\ sys' = "delete" /\ IoDetachDevice(cursor) /\ UNCHANGED refs
       \/ cursor \notin attached /\ Crash
    /\ WorkerStep /\ UNCHANGED <<targets, cursor, keyboard, reads, count>>

\* The next filter is read from the one just deleted, whose memory is as it was.
Delete ==
    /\ sys = "delete"
    /\ IoDeleteDevice(cursor) /\ WalkTo(Devices \ {cursor})
    /\ WorkerStep /\ UNCHANGED <<targets, keyboard, reads, count>>

\* Slip: no read is waited for.
PollOnce ==
    /\ sys = "poll" /\ sys' = "owes3"
    /\ WorkerStep /\ UNCHANGED <<targets, cursor, stack, keyboard, reads, count, refs>>

\* Every 100 ms it looks whether gC2pKeyCount is zero.
Poll ==
    /\ sys = "poll" /\ count = 0 /\ sys' = "owes3"
    /\ WorkerStep /\ UNCHANGED <<targets, cursor, stack, keyboard, reads, count, refs>>

\* The I/O manager drops the name, the reference of the load and its own.
Dereference ==
    /\ sys \in {"owes3", "owes2", "owes1"} /\ refs' = refs - 1
    /\ sys' = CASE sys = "owes3" -> "owes2" [] sys = "owes2" -> "owes1" [] OTHER -> "absent"
    /\ UNCHANGED <<targets, cursor, stack, keyboard, reads, count, overlapped>>

-----------------------------------------------------------------------------
(* c2pPnP, IRP_MN_REMOVE_DEVICE.                                           *)

\* Passed down first: Kbdclass then fails the reads it holds.
RemoveForward(k) ==
    /\ keyboard[k] = "there" /\ k \in attached
    /\ keyboard' = [keyboard EXCEPT ![k] = "going"]
    /\ \/ filter[k] = "ready" /\ UNCHANGED <<sys, stack, refs>>
       \/ filter[k] = "bound" /\ Crash
    /\ RemoveStep(k) /\ UNCHANGED <<targets, cursor, reads, count>>

\* Slip: the filter is deleted while it is attached.
RemoveDetachLate(k) ==
    /\ keyboard[k] = "going"
    /\ \A r \in Reads : at[r] = k => irp[r] = "none"
    /\ keyboard' = [keyboard EXCEPT ![k] = "gone"]
    /\ IoDeleteDevice(k) /\ UNCHANGED sys
    /\ RemoveStep(k) /\ UNCHANGED <<targets, cursor, reads, count>>

RemoveDetach(k) ==
    /\ keyboard[k] = "going"
    /\ \A r \in Reads : at[r] = k => irp[r] = "none"
    /\ keyboard' = [keyboard EXCEPT ![k] = "loose"]
    /\ \/ k \in attached /\ IoDetachDevice(k) /\ UNCHANGED <<sys, refs>>
       \/ k \notin attached /\ Crash
    /\ RemoveStep(k) /\ UNCHANGED <<targets, cursor, reads, count>>

RemoveDelete(k) ==
    /\ keyboard[k] = "loose"
    /\ keyboard' = [keyboard EXCEPT ![k] = "gone"]
    /\ IoDeleteDevice(k) /\ UNCHANGED sys
    /\ RemoveStep(k) /\ UNCHANGED <<targets, cursor, reads, count>>

-----------------------------------------------------------------------------
(* c2pDispatchRead and c2pReadComplete.                                    *)

GoTo(r, label) == thread' = [thread EXCEPT ![r] = label]
Becomes(r, s)  == irp' = [irp EXCEPT ![r] = s]
Ended(r) == /\ Becomes(r, "none") /\ at' = [at EXCEPT ![r] = NULL]
            /\ through' = [through EXCEPT ![r] = FALSE]

\* A read goes to the device on top of the keyboard's stack.  A filter whose
\* extension is not yet filled gets it too.
IssueRead(r, k) ==
    /\ thread[r] = "out" /\ irp[r] = "none" /\ keyboard[k] # "gone"
    /\ at' = [at EXCEPT ![r] = k]
    /\ through' = [through EXCEPT ![r] = k \in attached]
    /\ IF k \in attached
       THEN /\ GoTo(r, "entered") /\ UNCHANGED irp
            /\ Overlap(Completing # {} \/ Dispatching # {} \/ filter[k] # "ready")
       ELSE Becomes(r, "below") /\ UNCHANGED <<thread, overlapped>>
    /\ UNCHANGED <<sys, targets, cursor, stack, keyboard, reg, count, refs>>

\* Slip: it is counted all the same.
RejectCounted(r) ==
    /\ thread[r] = "entered" /\ GoTo(r, "out") /\ Ended(r)
    /\ count' = (count + 1) % Wrap
    /\ ThreadStep(r)
    /\ UNCHANGED <<sys, targets, cursor, stack, keyboard, reg, refs>>

\* A request without a stack location for the device below is completed.
Reject(r) ==
    /\ thread[r] = "entered" /\ GoTo(r, "out") /\ Ended(r)
    /\ ThreadStep(r)
    /\ UNCHANGED <<sys, targets, cursor, stack, keyboard, reg, count, refs>>

LoadToIncrement(r) ==
    /\ thread[r] = "entered" /\ GoTo(r, "counting")
    /\ reg' = [reg EXCEPT ![r] = count]
    /\ ThreadStep(r)
    /\ UNCHANGED <<sys, targets, cursor, stack, keyboard, irp, at, through, count, refs>>

Increment(r) ==
    /\ thread[r] = "counting" /\ GoTo(r, "forward")
    /\ count' = (reg[r] + 1) % Wrap /\ reg' = [reg EXCEPT ![r] = 0]
    /\ ThreadStep(r)
    /\ UNCHANGED <<sys, targets, cursor, stack, keyboard, irp, at, through, refs>>

\* IoCallDriver(LowerDeviceObject); a deleted extension may still say where.
Forward(r) ==
    /\ thread[r] = "forward"
    /\ \/ filter[at[r]] # "bound" /\ GoTo(r, "back") /\ Becomes(r, "below") /\ UNCHANGED sys
       \/ filter[at[r]] \notin {"ready", "loose"} /\ sys' = "crashed" /\ UNCHANGED <<thread, irp>>
    /\ ThreadStep(r)
    /\ UNCHANGED <<targets, cursor, stack, keyboard, at, through, reg, count, refs>>

ReturnFromDispatch(r) ==
    /\ thread[r] = "back" /\ GoTo(r, "out")
    /\ ThreadStep(r)
    /\ UNCHANGED <<sys, targets, cursor, stack, keyboard, irp, at, through, reg, count, refs>>

\* Kbdclass completes a read: a key was pressed, or the keyboard is going.
CompleteRead(r) ==
    /\ irp[r] = "below"
    /\ IF through[r] THEN Becomes(r, "complete") /\ CompletionStep(r) /\ UNCHANGED <<at, through>>
                     ELSE Ended(r) /\ UNCHANGED overlapped
    /\ UNCHANGED <<sys, targets, cursor, stack, keyboard, thread, reg, count, refs>>

LoadToDecrement(r) ==
    /\ irp[r] = "complete" /\ Becomes(r, "uncounting")
    /\ reg' = [reg EXCEPT ![r] = count]
    /\ CompletionStep(r)
    /\ UNCHANGED <<sys, targets, cursor, stack, keyboard, thread, at, through, count, refs>>

\* Slip: a read that failed is not taken off the count.
DecrementSuccess(r) ==
    /\ irp[r] = "uncounting" /\ Becomes(r, "leaving")
    /\ count' = IF keyboard[at[r]] = "there" THEN (reg[r] - 1) % Wrap ELSE count
    /\ reg' = [reg EXCEPT ![r] = 0]
    /\ CompletionStep(r)
    /\ UNCHANGED <<sys, targets, cursor, stack, keyboard, thread, at, through, refs>>

Decrement(r) ==
    /\ irp[r] = "uncounting" /\ Becomes(r, "leaving")
    /\ count' = (reg[r] - 1) % Wrap /\ reg' = [reg EXCEPT ![r] = 0]
    /\ CompletionStep(r)
    /\ UNCHANGED <<sys, targets, cursor, stack, keyboard, thread, at, through, refs>>

ReturnFromCompletion(r) ==
    /\ irp[r] = "leaving" /\ Ended(r)
    /\ CompletionStep(r)
    /\ UNCHANGED <<sys, targets, cursor, stack, keyboard, thread, reg, count, refs>>

-----------------------------------------------------------------------------
DriverEntry == Load \/ OpenKbdclass \/ OpenFails \/ CreateFilter \/ CreateFails \/ Attach \/ AttachFails
               \/ InitExtension \/ AttachedAll
c2pUnload == Detach \/ Delete \/ Poll \/ Dereference
c2pRemove(k) == RemoveForward(k) \/ RemoveDetach(k) \/ RemoveDelete(k)
c2pDispatchRead(r) == Reject(r) \/ LoadToIncrement(r) \/ Increment(r) \/ Forward(r)
                      \/ ReturnFromDispatch(r)
c2pReadComplete(r) == CompleteRead(r) \/ LoadToDecrement(r) \/ Decrement(r)
                      \/ ReturnFromCompletion(r)

Next ==
    /\ ~Lost
    /\ \/ DriverEntry \/ BeginUnload \/ c2pUnload
       \/ \E k \in Keyboards : c2pRemove(k)
       \/ \E r \in Reads : \/ \E k \in Keyboards : IssueRead(r, k)
                           \/ c2pDispatchRead(r) \/ c2pReadComplete(r)

Spec == Init /\ [][Next]_vars

\* The unloading thread and the threads in the driver run on, and a key is
\* pressed on each keyboard somebody reads from.
FairSpec ==
    /\ Spec
    /\ WF_vars(~Lost /\ c2pUnload)
    /\ \A r \in Reads : WF_vars(~Lost /\ (c2pDispatchRead(r) \/ c2pReadComplete(r)))

-----------------------------------------------------------------------------
FilterStates == {"none", "made", "bound", "ready", "loose"}

\* Line 149 drops a reference that is dropped again at the end: -1.
TypeOK ==
    /\ sys \in {"absent", "open", "create", "attach", "init", "loaded", "detach", "delete",
                "poll", "owes3", "owes2", "owes1", "crashed"}
    /\ targets \subseteq Keyboards /\ cursor \in Keyboards \cup {NULL}
    /\ attached \subseteq Keyboards
    /\ filter \in [Keyboards -> FilterStates]
    /\ keyboard \in [Keyboards -> {"there", "going", "loose", "gone"}]
    /\ thread \in [Reads -> {"out", "entered", "counting", "forward", "back"}]
    /\ irp \in [Reads -> {"none", "below", "complete", "uncounting", "leaving"}]
    /\ at \in [Reads -> Keyboards \cup {NULL}] /\ through \in [Reads -> BOOLEAN]
    /\ reg \in [Reads -> 0 .. Wrap - 1] /\ count \in 0 .. Wrap - 1
    /\ refs \in Nat \cup {-1} /\ overlapped \in BOOLEAN

\* As long as nothing overlapped, gC2pKeyCount is the number of reads that have
\* been passed down and whose c2pReadComplete has not taken them off.
CountIsInFlight == ~overlapped => count = Cardinality(InFlight)

\* As long as nothing overlapped, the image is gone only when no thread is in
\* the driver and no read will come back to it, unless DriverEntry has failed
\* with filters attached.
CodeIsLoaded == ~overlapped /\ Gone /\ Devices = {} => InCode = {}

\* What is on top of a keyboard is a filter that exists, and a filter that
\* exists is on top, outside its creation and removal.  Nothing else is touched
\* as long as nothing overlaps.
StacksAreLive ==
    /\ sys = "crashed" => overlapped
    /\ sys # "crashed" =>
        /\ \A k \in attached : filter[k] \in {"bound", "ready"}
        /\ \A k \in Devices \ attached :
               (k = cursor /\ sys \in {"attach", "delete"}) \/ keyboard[k] = "loose"

\* c2pUnload ends, although keyboards are read from without end.
UnloadEnds == Unloading ~> (sys = "absent" \/ overlapped)

\* ASSERT(!driverObject->DeviceObject) of IopDeleteDriver.
DriverOutlivesDevices == Gone => Devices = {}
=============================================================================
