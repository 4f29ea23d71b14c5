--------------------------- MODULE ExecutiveResource ---------------------------
(***************************************************************************)
(* An executive resource (ERESOURCE), wrk-v1.2/base/ntos/ex/resource.c: a  *)
(* lock that is taken shared or exclusive, recursively, and handed over by *)
(* whoever releases it last.  Each call works under the resource's spin    *)
(* lock and is one step; the event or semaphore that wakes waiters is      *)
(* signalled after the lock is dropped, as a step of its own.              *)
(*                                                                         *)
(* A resource is a record.  A call of thread t is a relation between the   *)
(* resource before it, r, and after it, s, so that a module can have       *)
(* several resources.  A call that does not wait and fails changes         *)
(* nothing, and is no step.                                                *)
(***************************************************************************)
EXTENDS Integers, FiniteSets

CONSTANTS Threads,
          Nobody, Granted,  \* OwnerThread 0, and 1 until the thread granted stores itself
          Calls,            \* kinds of shared access asked for: "plain", "starve", "late"
          MaxDepth          \* bound: recursive acquisitions by one thread

ASSUME ResourceAssumption ==
    /\ IsFiniteSet(Threads)
    /\ Nobody # Granted /\ {Nobody, Granted} \cap Threads = {}
    /\ Calls \subseteq {"plain", "starve", "late"}
    /\ MaxDepth \in Nat \ {0}

\* What a thread does in a call: it waits, or has still to signal.
Waits == {"shared", "late", "exclusive"}
Signals == {"setEvent", "releaseSemaphore"}

State == [ActiveCount : Nat,                        \* holders, and waiters granted access
          Exclusive : BOOLEAN,                      \* Flag & ResourceOwnedExclusive
          Owner : Threads \cup {Nobody, Granted},   \* OwnerThreads[0].OwnerThread
          Count : [Threads \cup {Granted} -> Nat],  \* OwnerCount of a thread's entry
          SharedWaiters : Nat,                      \* NumberOfSharedWaiters
          ExclusiveWaiters : Nat,                   \* NumberOfExclusiveWaiters
          Event : BOOLEAN, Semaphore : Nat,         \* what the waiters wait on
          call : [Threads -> {"none"} \cup Waits \cup Signals],
          Number : [Threads -> Nat],                \* of a call: what it releases
          mode : [Threads -> {"none", "shared", "exclusive"}],
          depth : [Threads -> Nat]]                 \* what the thread was given

\* ExInitializeResourceLite.
Fresh == [ActiveCount |-> 0, Exclusive |-> FALSE, Owner |-> Nobody,
          Count |-> [t \in Threads \cup {Granted} |-> 0],
          SharedWaiters |-> 0, ExclusiveWaiters |-> 0,
          Event |-> FALSE, Semaphore |-> 0,
          call |-> [t \in Threads |-> "none"], Number |-> [t \in Threads |-> 0],
          mode |-> [t \in Threads |-> "none"], depth |-> [t \in Threads |-> 0]]

\* ExIsResourceAcquiredExclusiveLite.
OwnsExclusive(r, t) == r.Exclusive /\ r.Owner = t

Idle(r, t) == r.call[t] = "none"

-----------------------------------------------------------------------------
\* A first acquisition, and a recursive one.
TakeExclusive(r, s, t) == s = [r EXCEPT !.ActiveCount = 1, !.Exclusive = TRUE, !.Owner = t,
                                          !.Count[t] = 1, !.mode[t] = "exclusive", !.depth[t] = 1]

\* Slip: another reader is not counted.
TakeSharedOnce(r, s, t) == s = [r EXCEPT !.ActiveCount = 1, !.Count[t] = 1,
                                           !.mode[t] = "shared", !.depth[t] = 1]

TakeShared(r, s, t) == s = [r EXCEPT !.ActiveCount = @ + 1, !.Count[t] = 1,
                                       !.mode[t] = "shared", !.depth[t] = 1]

TakeAgain(r, s, t) == /\ r.depth[t] < MaxDepth
                      /\ s = [r EXCEPT !.Count[t] = @ + 1, !.depth[t] = @ + 1]

\* ExAcquireResourceExclusiveLite, granted at once.
AcquireExclusive(r, s, t) ==
    /\ Idle(r, t)
    /\ \/ r.ActiveCount = 0 /\ TakeExclusive(r, s, t)
       \/ r.ActiveCount # 0 /\ OwnsExclusive(r, t) /\ TakeAgain(r, s, t)

\* It returns FALSE without waiting.
ExclusiveBusy(r, t) == Idle(r, t) /\ r.ActiveCount # 0 /\ ~OwnsExclusive(r, t)

\* A thread that holds shared access would wait for itself.
WaitExclusive(r, s, t) ==
    /\ ExclusiveBusy(r, t) /\ r.mode[t] = "none"
    /\ s = [r EXCEPT !.ExclusiveWaiters = @ + 1, !.call[t] = "exclusive"]

\* Slip: the waiter takes itself off the count of waiters, too.
ExclusiveGrantedTwice(r, s, t) ==
    /\ r.call[t] = "exclusive" /\ r.Event
    /\ s = [r EXCEPT !.Event = FALSE, !.Owner = t, !.call[t] = "none",
                      !.Count = [@ EXCEPT ![Granted] = 0, ![t] = r.Count[Granted]],
                      !.ExclusiveWaiters = @ - 1,
                      !.mode[t] = "exclusive", !.depth[t] = 1]

\* The event is auto-reset; the thread stores itself as the owner.
ExclusiveGranted(r, s, t) ==
    /\ r.call[t] = "exclusive" /\ r.Event
    /\ s = [r EXCEPT !.Event = FALSE, !.Owner = t, !.call[t] = "none",
                      !.Count = [@ EXCEPT ![Granted] = 0, ![t] = r.Count[Granted]],
                      !.mode[t] = "exclusive", !.depth[t] = 1]

\* Shared access is there for a new reader: ExAcquireResourceSharedLite and
\* ExAcquireSharedWaitForExclusive let exclusive waiters go first,
\* ExAcquireSharedStarveExclusive does not.
Admits(r, how) == \/ r.ActiveCount = 0
                  \/ ~r.Exclusive /\ (how = "starve" \/ r.ExclusiveWaiters = 0)

\* "late" lets a reader that reads already wait for the exclusive waiters too.
Again(r, t, how) == \/ OwnsExclusive(r, t)
                    \/ /\ ~r.Exclusive /\ r.Count[t] > 0
                       /\ how = "late" => r.ExclusiveWaiters = 0

\* The three ways to ask for shared access, granted at once.
AcquireShared(r, s, t, how) ==
    /\ Idle(r, t)
    /\ IF r.ActiveCount # 0 /\ Again(r, t, how)
       THEN TakeAgain(r, s, t)
       ELSE Admits(r, how) /\ TakeShared(r, s, t)

\* The waiter's entry is reserved at once, except by "late" among readers.
\* A reader that asks "late" again is unjammed by an APC only: it stays away.
WaitShared(r, s, t, how) ==
    /\ Idle(r, t) /\ r.mode[t] = "none"
    /\ ~Again(r, t, how) /\ ~Admits(r, how)
    /\ s = [r EXCEPT
         !.SharedWaiters = @ + 1,
         !.Count[t] = IF how = "late" /\ ~r.Exclusive THEN @ ELSE 1,
         !.call[t] = IF how = "late" /\ ~r.Exclusive THEN "late" ELSE "shared"]

\* "late" takes its entry now.
SharedGranted(r, s, t) ==
    /\ r.call[t] \in {"shared", "late"} /\ r.Semaphore > 0
    /\ s = [r EXCEPT !.Semaphore = @ - 1, !.call[t] = "none", !.Count[t] = 1,
                      !.mode[t] = "shared", !.depth[t] = 1]

-----------------------------------------------------------------------------
\* Slip: the owner that converted is not counted any more.
GrantSharedAnew(r, t) == [r EXCEPT !.Exclusive = FALSE,
                                   !.ActiveCount = r.SharedWaiters,
                                   !.SharedWaiters = 0,
                                   !.Number[t] = r.SharedWaiters,
                                   !.call[t] = "releaseSemaphore"]

\* The resource as r, with thread t about to wake all shared waiters.
GrantShared(r, t) == [r EXCEPT !.Exclusive = FALSE,
                               !.ActiveCount = @ + r.SharedWaiters,
                               !.SharedWaiters = 0,
                               !.Number[t] = r.SharedWaiters,
                               !.call[t] = "releaseSemaphore"]

\* The resource as r, with thread t about to wake one exclusive waiter.
GrantExclusive(r, t) == [r EXCEPT !.Exclusive = TRUE, !.Owner = Granted,
                                  !.Count[Granted] = 1, !.ActiveCount = 1,
                                  !.ExclusiveWaiters = @ - 1,
                                  !.call[t] = "setEvent"]

\* Slip: exclusive waiters always go first.
HandOverExclusive(r, t) ==
    IF r.ExclusiveWaiters > 0 THEN GrantExclusive(r, t)
    ELSE IF r.Exclusive /\ r.SharedWaiters > 0 THEN GrantShared(r, t)
    ELSE [r EXCEPT !.Exclusive = FALSE]

\* Slip: the last reader leaves without a look at the waiters.
HandOverNot(r, t) ==
    IF r.Exclusive /\ r.SharedWaiters > 0 THEN GrantShared(r, t)
    ELSE IF r.Exclusive /\ r.ExclusiveWaiters > 0 THEN GrantExclusive(r, t)
    ELSE [r EXCEPT !.Exclusive = FALSE]

\* Whom the resource goes to when nobody holds it any more.
HandOver(r, t) ==
    IF r.Exclusive /\ r.SharedWaiters > 0 THEN GrantShared(r, t)
    ELSE IF r.ExclusiveWaiters > 0 THEN GrantExclusive(r, t)
    ELSE [r EXCEPT !.Exclusive = FALSE]

\* One release of an entry; and the last one, which makes the entry free.
Undone(r, owner, t) == [r EXCEPT !.Count[owner] = @ - 1, !.depth[t] = @ - 1]

Vacated(r, owner, t) == [r EXCEPT !.Owner = IF @ = owner THEN Nobody ELSE @,
                                  !.ActiveCount = @ - 1, !.mode[t] = "none"]

\* ExReleaseResourceLite: if the resource is owned exclusive it is the owner's
\* entry that is counted down, whoever calls.
Release(r, s, t) ==
    LET owner == IF r.Exclusive THEN r.Owner ELSE t
        left  == Undone(r, owner, t)
        gone  == Vacated(left, owner, t)
    IN  /\ Idle(r, t) /\ r.mode[t] # "none"
        /\ s = IF left.Count[owner] # 0 THEN left
               ELSE IF gone.ActiveCount # 0 THEN gone
               ELSE HandOver(gone, t)

\* ExConvertExclusiveToSharedLite.
Convert(r, s, t) ==
    /\ Idle(r, t) /\ OwnsExclusive(r, t) /\ r.mode[t] = "exclusive"
    /\ LET shared == [r EXCEPT !.Exclusive = FALSE, !.mode[t] = "shared"]
       IN  s = IF shared.SharedWaiters > 0 THEN GrantShared(shared, t) ELSE shared

\* KeSetEventBoostPriority and KeReleaseSemaphore.
Signal(r, s, t) ==
    /\ r.call[t] \in Signals
    /\ s = [r EXCEPT !.Event = @ \/ r.call[t] = "setEvent",
                      !.Semaphore = @ + r.Number[t],
                      !.Number[t] = 0, !.call[t] = "none"]

-----------------------------------------------------------------------------
\* An acquisition, granted at once or waited for; a wait that ends, or a call
\* that signals the waiters it has granted access.
Acquire(r, s, t) ==
    \/ AcquireExclusive(r, s, t) \/ WaitExclusive(r, s, t)
    \/ \E how \in Calls : AcquireShared(r, s, t, how) \/ WaitShared(r, s, t, how)

Wake(r, s, t) == ExclusiveGranted(r, s, t) \/ SharedGranted(r, s, t) \/ Signal(r, s, t)

-----------------------------------------------------------------------------
Calling(r, labels) == {t \in Threads : r.call[t] \in labels}

Having(r, m) == {t \in Threads : r.mode[t] = m}

\* Shared access that was granted to waiters who have not woken up yet.
Unwoken(r) == r.Semaphore
                + IF Calling(r, {"releaseSemaphore"}) = {} THEN 0
                  ELSE r.Number[CHOOSE t \in Calling(r, {"releaseSemaphore"}) : TRUE]

\* The three counts of a resource agree with what threads have and wait for:
\* what ActiveCount, NumberOfSharedWaiters and NumberOfExclusiveWaiters are
\* trusted for when a release decides whom to wake (lines 1560-1700).
Counted(r) ==
    /\ r.ActiveCount = IF r.Exclusive THEN 1 ELSE Cardinality(Having(r, "shared")) + Unwoken(r)
    /\ r.SharedWaiters = Cardinality(Calling(r, {"shared", "late"})) - Unwoken(r)
    /\ r.ExclusiveWaiters = Cardinality(Calling(r, {"exclusive"}))
                              - IF r.Exclusive /\ r.Owner = Granted THEN 1 ELSE 0
=============================================================================
