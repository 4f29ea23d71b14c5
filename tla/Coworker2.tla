----------------------------- MODULE Coworker2 -----------------------------
(***************************************************************************)
(* coworker2/coworker_sys/coworker_sys.c: a control device through which   *)
(* user programs pass strings to each other.  A send appends a string to   *)
(* g_cwk_str_list and sets g_cwk_event; a receive removes the first string *)
(* or waits for the event and looks again.                                 *)
(*                                                                         *)
(* Each program is one thread with at most one handle of the device.  Of a *)
(* string only its length matters to the driver, and only how it compares  *)
(* with the sizes of buffers.                                              *)
(*                                                                         *)
(* The send tells KeSetEvent that a wait follows, and none does.  So the   *)
(* call returns with the dispatcher database locked, and it stays locked   *)
(* until the thread waits for something else: until then no other thread   *)
(* waits, signals or is made ready.                                        *)
(***************************************************************************)
EXTENDS Integers, Sequences

CONSTANTS Programs,    \* the threads of the programs that use the device
          Receivers,   \* those among them that receive
          NoOne,       \* not a thread
          StrLenMax,   \* CWK_STR_LEN_MAX
          Lengths,     \* the <<inlen, strnlen(buffer, inlen)>> of sends
          OutLens,     \* the lengths of the buffers of receives
          MaxList,     \* bound: strings in the list when a send begins
          MaxLoads     \* bound: how often the driver is loaded

ASSUME CoworkerAssumption ==
    /\ Receivers \subseteq Programs /\ NoOne \notin Programs
    /\ StrLenMax \in Nat \ {0}
    /\ Lengths \subseteq {l \in Nat \X Nat : l[2] <= l[1]}
    /\ OutLens \subseteq Nat
    /\ MaxList \in Nat /\ MaxLoads \in Nat

VARIABLES
    loaded,    \* the driver is loaded and its device can be opened
    loads,     \* how often it was loaded
    list,      \* g_cwk_str_list: the lengths of its strings
    event,     \* g_cwk_event is signalled
    pc,        \* where each program is; those "blocked" wait for the event, and
               \* those "ready" were released but not scheduled yet
    node,      \* str_node of the send under way
    holder     \* the thread with WaitNext set: it has the dispatcher database

vars == <<loaded, loads, list, event, pc, node, holder>>

None == -1

\* The strings that fit in a CWK_STR_NODE with their terminator.
Strings == 0 .. StrLenMax - 1

Init ==
    /\ loaded = FALSE /\ loads = 0
    /\ list = <<>> /\ event = FALSE
    /\ pc = [p \in Programs |-> "closed"]
    /\ node = [p \in Programs |-> None]
    /\ holder = NoOne
-----------------------------------------------------------------------------
(* DriverEntry, cwkUnload, and the handles of the programs.                *)

\* No open gets through before DriverEntry clears DO_DEVICE_INITIALIZING, the
\* last thing it does: by then event, lock and list are initialised.
DriverEntry ==
    /\ ~loaded /\ loads < MaxLoads
    /\ loaded' = TRUE /\ loads' = loads + 1
    /\ event' = TRUE /\ list' = <<>>
    /\ UNCHANGED <<pc, node, holder>>

\* The I/O manager unloads a driver when no handle of its device is left.
\* The strings nobody received are freed.
cwkUnload ==
    /\ loaded
    /\ \A p \in Programs : pc[p] = "closed"
    /\ loaded' = FALSE /\ list' = <<>>
    /\ UNCHANGED <<loads, event, pc, node, holder>>

Create(p) ==
    /\ loaded /\ pc[p] = "closed"
    /\ pc' = [pc EXCEPT ![p] = "open"]
    /\ UNCHANGED <<loaded, loads, list, event, node, holder>>

Close(p) ==
    /\ pc[p] = "open"
    /\ pc' = [pc EXCEPT ![p] = "closed"]
    /\ UNCHANGED <<loaded, loads, list, event, node, holder>>
-----------------------------------------------------------------------------
(* CWK_DVC_SEND_STR.                                                       *)

\* Slip: a buffer without a terminator is taken.
AcceptsUnterminated(l) == l[1] <= StrLenMax

\* The buffer is not too long and holds a terminator.
Accepts(l) == l[1] <= StrLenMax /\ l[2] # l[1]

\* A length that is refused, or a node that cannot be allocated, ends the
\* request with nothing changed.
SendString(p, l) ==
    /\ pc[p] = "open" /\ Accepts(l)
    /\ Len(list) <= MaxList
    /\ pc' = [pc EXCEPT ![p] = "insert"]
    /\ node' = [node EXCEPT ![p] = l[2]]
    /\ UNCHANGED <<loaded, loads, list, event, holder>>

InsertTail(p) ==
    /\ pc[p] = "insert"
    /\ list' = Append(list, node[p])
    /\ node' = [node EXCEPT ![p] = None]
    /\ pc' = [pc EXCEPT ![p] = "signal"]
    /\ UNCHANGED <<loaded, loads, event, holder>>

Blocked == {q \in Programs : pc[q] = "blocked"}

\* Slip: the signal is dropped when nobody waits, as by KePulseEvent.
KeptPulsed == FALSE

\* KeSetEvent leaves the signal to the next thread that waits.
Kept == TRUE

\* With several processors the dispatcher database is a lock, which even its
\* holder cannot take twice; with one it is a raised IRQL, which keeps all others
\* from running and its holder from nothing.
MayLock(p) == holder \in {NoOne, p}

\* KeSetEvent releases one thread that waits, if any does.  As Wait is TRUE it
\* returns with the dispatcher database locked.
SetEvent(p) ==
    /\ pc[p] = "signal" /\ MayLock(p)
    /\ holder' = p
    /\ \/ /\ Blocked = {}
          /\ event' = Kept
          /\ pc' = [pc EXCEPT ![p] = "open"]
       \/ \E q \in Blocked :
             /\ pc' = [pc EXCEPT ![p] = "open", ![q] = "ready"]
             /\ UNCHANGED event
    /\ UNCHANGED <<loaded, loads, list, node>>

\* When the database is unlocked the released threads are scheduled.
Scheduled == [q \in Programs |-> IF pc[q] = "ready" THEN "remove" ELSE pc[q]]

\* The next wait of a thread that has sent, for whatever object and somewhere
\* outside the driver: it takes over the locked database and unlocks it.
NextWait(p) ==
    /\ holder = p /\ pc[p] \in {"open", "closed"}
    /\ holder' = NoOne
    /\ pc' = Scheduled
    /\ UNCHANGED <<loaded, loads, list, event, node>>
-----------------------------------------------------------------------------
(* CWK_DVC_RECV_STR.                                                       *)

Receive(p) ==
    /\ pc[p] = "open" /\ p \in Receivers
    /\ \E n \in OutLens : n >= StrLenMax   \* a shorter buffer is refused
    /\ pc' = [pc EXCEPT ![p] = "remove"]
    /\ UNCHANGED <<loaded, loads, list, event, node, holder>>

RemoveHead(p) ==
    /\ pc[p] = "remove"
    /\ \/ /\ list # <<>>
          /\ list' = Tail(list)
          /\ pc' = [pc EXCEPT ![p] = "open"]
       \/ /\ list = <<>>
          /\ pc' = [pc EXCEPT ![p] = "wait"]
          /\ UNCHANGED list
    /\ UNCHANGED <<loaded, loads, event, node, holder>>

\* KeWaitForSingleObject consumes the signal or blocks, without a timeout; the
\* loop then looks into the list again.  Either way the database is unlocked.
WaitEvent(p) ==
    /\ pc[p] = "wait" /\ MayLock(p)
    /\ holder' = NoOne
    /\ \/ /\ event
          /\ event' = FALSE
          /\ pc' = [Scheduled EXCEPT ![p] = "remove"]
       \/ /\ ~event
          /\ pc' = [Scheduled EXCEPT ![p] = "blocked"]
          /\ UNCHANGED event
    /\ UNCHANGED <<loaded, loads, list, node>>

\* The steps of a request that has begun.
Inside(p) == InsertTail(p) \/ SetEvent(p) \/ RemoveHead(p) \/ WaitEvent(p)

Next ==
    \/ DriverEntry \/ cwkUnload
    \/ \E p \in Programs :
          \/ Create(p) \/ Close(p) \/ Receive(p) \/ Inside(p) \/ NextWait(p)
          \/ \E l \in Lengths : SendString(p, l)

Spec == Init /\ [][Next]_vars

\* A thread inside the driver runs on, and gets the dispatcher database if it is
\* unlocked again and again: the lock is a queued one.  Nobody has to begin or end
\* anything, and who has sent does not have to wait for anything.
FairSpec == Spec /\ \A p \in Programs : SF_vars(Inside(p))
-----------------------------------------------------------------------------
Labels ==
    {"closed", "open", "insert", "signal", "remove", "wait", "blocked", "ready"}

\* Every variable has its type; a string that was accepted fits in its node
\* with the terminator, and so does what a receive copies out (the checks of
\* inlen and strnlen in cwkDispatch).
TypeOK ==
    /\ loaded \in BOOLEAN /\ loads \in 0 .. MaxLoads
    /\ list \in Seq(Strings) /\ event \in BOOLEAN
    /\ pc \in [Programs -> Labels]
    /\ node \in [Programs -> Strings \cup {None}]
    /\ holder \in Programs \cup {NoOne}

\* No receiver sleeps on a list that is not empty unless a signal, or another
\* receiver, is on its way to it (the comment on the wait in cwkDispatch: the
\* receive blocks while there is no string, "but as soon as there is one it
\* returns").
WakeupOnItsWay ==
    Blocked # {} /\ list # <<>> =>
        \E p \in Programs : pc[p] \in {"signal", "ready", "remove"}

\* Nobody keeps the dispatcher database: who has sent waits some day.
SendersWait == \A p \in Programs : []<>(holder # p)

\* A receive under way while a string is there ends with a string (the comment
\* quoted above), provided that threads that have sent go on to wait, which
\* cwkDispatch promises to KeSetEvent and does not do.
StringsArrive ==
    SendersWait =>
        \A p \in Receivers :
            pc[p] \in {"remove", "wait", "blocked", "ready"} /\ list # <<>>
                ~> pc[p] = "open"
=============================================================================
