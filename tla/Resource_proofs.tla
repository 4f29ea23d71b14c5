---------------------------- MODULE Resource_proofs ----------------------------
(***************************************************************************)
(* Proofs about ExecutiveResource, Resource and CryptCache for any finite  *)
(* set of threads, any kinds of calls and any depth of recursion.  What a  *)
(* call does to a resource is proved once, of the resource before and      *)
(* after it, and used for the one of Resource and the two of CryptCache.   *)
(***************************************************************************)
EXTENDS Resource, CryptCache, FiniteSetTheorems, TLAPS

\* What a thread has agrees with its entry in the resource; a waiter's entry is
\* reserved, except by "late".
Entries(r) == \A t \in Threads :
    IF r.mode[t] = "none"
    THEN r.depth[t] = 0 /\ r.Count[t] = IF r.call[t] = "shared" THEN 1 ELSE 0
    ELSE r.depth[t] >= 1 /\ r.Count[t] = r.depth[t] /\ r.call[t] \notin Waits

\* The owner is a thread with exclusive access, or access was granted and the
\* event is set or about to be, once.
Ownership(r) ==
    /\ \A t \in Threads : r.mode[t] = "exclusive" => r.Exclusive /\ r.Owner = t
    /\ \A t \in Threads : r.mode[t] = "shared" => ~r.Exclusive
    /\ r.Owner = Granted => r.Exclusive /\ r.Count[Granted] = 1
    /\ r.Exclusive /\ r.Owner # Granted => \E t \in Threads : r.Owner = t /\ r.mode[t] = "exclusive"
    /\ r.Event => r.Owner = Granted
    /\ \A t \in Threads : r.call[t] = "setEvent" => r.Owner = Granted /\ ~r.Event
    /\ \A t, u \in Threads : r.call[t] = "setEvent" /\ r.call[u] = "setEvent" => t = u

\* One thread at a time is about to release the semaphore, and only while the
\* resource is shared.
Wakers(r) ==
    /\ \A t \in Threads : r.Number[t] > 0 <=> r.call[t] = "releaseSemaphore"
    /\ \A t, u \in Threads : r.call[t] = "releaseSemaphore" /\ r.call[u] = "releaseSemaphore" => t = u
    /\ r.Exclusive => r.Semaphore = 0 /\ \A t \in Threads : r.call[t] # "releaseSemaphore"

IInv(r) == r \in State /\ Entries(r) /\ Ownership(r) /\ Wakers(r) /\ Counted(r)

-----------------------------------------------------------------------------
\* A resource, field by field.
Fields(s, ac, ex, ow, cnt, sw, ew, ev, sem, cl, num, md, dp) ==
    /\ s \in State
    /\ s.ActiveCount = ac /\ s.Exclusive = ex /\ s.Owner = ow /\ s.Count = cnt
    /\ s.SharedWaiters = sw /\ s.ExclusiveWaiters = ew /\ s.Event = ev
    /\ s.Semaphore = sem /\ s.call = cl /\ s.Number = num
    /\ s.mode = md /\ s.depth = dp

\* The modes of the threads stay, or change as a lock for any number of readers
\* or one writer lets them.
Locks(r, s) ==
    \/ s.mode = r.mode
    \/ \E t \in Threads :
        \/ (\A u \in Threads : r.mode[u] = "none") /\ s.mode = [r.mode EXCEPT ![t] = "exclusive"]
        \/ (\A u \in Threads : r.mode[u] # "exclusive") /\ s.mode = [r.mode EXCEPT ![t] = "shared"]
        \/ s.mode = [r.mode EXCEPT ![t] = "none"]
        \/ r.mode[t] = "exclusive" /\ s.mode = [r.mode EXCEPT ![t] = "shared"]

\* What the other threads have, and where they are, stays.
Beside(r, s, t) == \A u \in Threads \ {t} :
    s.mode[u] = r.mode[u] /\ s.depth[u] = r.depth[u] /\ s.call[u] = r.call[u]

\* What every call of thread t keeps.
Kept(r, s, t) == IInv(s) /\ Locks(r, s) /\ Beside(r, s, t)

\* A set of threads that one thread joins or leaves has one element more or less.
LEMMA Joins ==
    ASSUME NEW S \in SUBSET Threads, NEW t \in Threads, t \notin S
    PROVE  Cardinality(S \cup {t}) = Cardinality(S) + 1
BY ResourceAssumption, FS_Subset, FS_AddElement

LEMMA Leaves ==
    ASSUME NEW S \in SUBSET Threads, NEW t \in S
    PROVE  Cardinality(S \ {t}) = Cardinality(S) - 1
BY ResourceAssumption, FS_Subset, FS_RemoveElement

\* The number of threads in a set is a natural number, and zero for none.
LEMMA Numbers ==
    ASSUME NEW S \in SUBSET Threads
    PROVE  Cardinality(S) \in Nat /\ (Cardinality(S) = 0 <=> S = {})
BY ResourceAssumption, FS_Subset, FS_CardinalityType, FS_EmptySet

\* What Unwoken stands for.
LEMMA UnwokenIs ==
    ASSUME NEW r \in State, Wakers(r)
    PROVE  /\ (\A t \in Threads : r.call[t] # "releaseSemaphore") => Unwoken(r) = r.Semaphore
           /\ \A t \in Threads : r.call[t] = "releaseSemaphore"
                                   => Unwoken(r) = r.Semaphore + r.Number[t]
           /\ Unwoken(r) \in Nat /\ Unwoken(r) >= r.Semaphore
<1> DEFINE C == Calling(r, {"releaseSemaphore"})
           c == CHOOSE t \in C : TRUE
<1>1. Unwoken(r) = r.Semaphore + IF C = {} THEN 0 ELSE r.Number[c]
  BY DEF Unwoken
<1>2. C = {t \in Threads : r.call[t] = "releaseSemaphore"}
  BY DEF Calling
<1>3. C # {} => c \in C
  OBVIOUS
<1>4. /\ r.Semaphore \in Nat /\ \A t \in Threads : r.Number[t] \in Nat
      /\ \A t \in C : \A u \in C : t = u
  BY <1>2 DEF State, Wakers
<1> HIDE DEF C, c
<1> QED  BY <1>1, <1>2, <1>3, <1>4

\* Nothing changes what waiters have been granted and not taken.
LEMMA UnwokenStays ==
    ASSUME NEW r \in State, NEW s \in State, Wakers(r), Wakers(s),
           s.Semaphore = r.Semaphore, s.Number = r.Number,
           \A u \in Threads : s.call[u] = "releaseSemaphore" <=> r.call[u] = "releaseSemaphore"
    PROVE  Unwoken(s) = Unwoken(r) /\ Unwoken(r) \in Nat
<1>1. CASE \A u \in Threads : r.call[u] # "releaseSemaphore"
  <2>1. Unwoken(r) = r.Semaphore /\ Unwoken(r) \in Nat
    BY <1>1, UnwokenIs
  <2>2. Unwoken(s) = s.Semaphore
    BY <1>1, UnwokenIs
  <2> QED  BY <2>1, <2>2
<1>2. ASSUME NEW u \in Threads, r.call[u] = "releaseSemaphore"
      PROVE  Unwoken(s) = Unwoken(r) /\ Unwoken(r) \in Nat
  <2>1. Unwoken(r) = r.Semaphore + r.Number[u] /\ Unwoken(r) \in Nat
    BY <1>2, UnwokenIs
  <2>2. Unwoken(s) = s.Semaphore + s.Number[u]
    BY <1>2, UnwokenIs
  <2> QED  BY <2>1, <2>2
<1> QED  BY <1>1, <1>2

\* A resource without an active thread: nobody has access, nobody is to wake up.
LEMMA Unheld ==
    ASSUME NEW r, IInv(r), r.ActiveCount = 0
    PROVE  /\ ~r.Exclusive /\ r.Owner # Granted /\ r.Semaphore = 0
           /\ \A u \in Threads : r.mode[u] = "none" /\ r.call[u] # "releaseSemaphore"
<1>1. r \in State /\ Ownership(r) /\ Wakers(r) /\ Counted(r)
  BY DEF IInv
<1>2. Cardinality(Having(r, "shared")) \in Nat /\ (Cardinality(Having(r, "shared")) = 0 => Having(r, "shared") = {})
  BY Numbers DEF Having
<1>3. Unwoken(r) \in Nat /\ Unwoken(r) >= r.Semaphore /\ r.Semaphore \in Nat
  BY <1>1, UnwokenIs DEF State
<1>4. ~r.Exclusive /\ Unwoken(r) = 0 /\ Having(r, "shared") = {}
  BY <1>1, <1>2, <1>3 DEF Counted
<1>5. r.Semaphore = 0
  BY <1>3, <1>4
<1>6. \A u \in Threads : r.call[u] # "releaseSemaphore"
  <2> SUFFICES ASSUME NEW u \in Threads, r.call[u] = "releaseSemaphore"
               PROVE  FALSE
    OBVIOUS
  <2>1. Unwoken(r) = r.Semaphore + r.Number[u]
    BY <1>1, UnwokenIs
  <2>2. r.Number[u] \in Nat /\ r.Number[u] > 0
    BY <1>1 DEF Wakers, State
  <2> QED  BY <1>4, <1>5, <2>1, <2>2
<1>7. \A u \in Threads : r.mode[u] = "none"
  BY <1>1, <1>4 DEF Ownership, Having, State
<1> QED  BY <1>1, <1>4, <1>5, <1>6, <1>7 DEF Ownership

\* An exclusive waiter wakes up.
LEMMA ExclusiveGrantedFields ==
    ASSUME NEW r \in State, NEW s, NEW t \in Threads,
           ExclusiveGranted(r, s, t)
    PROVE  Fields(s, r.ActiveCount, r.Exclusive, t, [r.Count EXCEPT ![Granted] = 0, ![t] = r.Count[Granted]],
                  r.SharedWaiters, r.ExclusiveWaiters, FALSE, r.Semaphore,
                  [r.call EXCEPT ![t] = "none"], r.Number,
                  [r.mode EXCEPT ![t] = "exclusive"], [r.depth EXCEPT ![t] = 1])
<1>1. r \in State /\ r.ActiveCount \in Nat /\ r.Semaphore \in Nat
      /\ r.SharedWaiters \in Nat /\ r.ExclusiveWaiters \in Nat
      /\ r.Count[t] \in Nat /\ r.depth[t] \in Nat /\ r.Number[t] \in Nat
  BY DEF State
<1> DEFINE new == [ActiveCount |-> r.ActiveCount, Exclusive |-> r.Exclusive,
                  Owner |-> t, Count |-> [r.Count EXCEPT ![Granted] = 0, ![t] = r.Count[Granted]],
                  SharedWaiters |-> r.SharedWaiters, ExclusiveWaiters |-> r.ExclusiveWaiters,
                  Event |-> FALSE, Semaphore |-> r.Semaphore,
                  call |-> [r.call EXCEPT ![t] = "none"], Number |-> r.Number,
                  mode |-> [r.mode EXCEPT ![t] = "exclusive"], depth |-> [r.depth EXCEPT ![t] = 1]]
<1>2. new \in State
  BY <1>1, ResourceAssumption DEF State, ExclusiveGranted
<1>3. s = new
  BY <1>1 DEF State, ExclusiveGranted
<1> QED  BY <1>2, <1>3 DEF Fields

LEMMA ExclusiveGrantedKeeps ==
    ASSUME NEW r, NEW s, IInv(r), NEW t \in Threads,
           ExclusiveGranted(r, s, t)
    PROVE  Kept(r, s, t)
<1>1. Fields(s, r.ActiveCount, r.Exclusive, t, [r.Count EXCEPT ![Granted] = 0, ![t] = r.Count[Granted]],
                  r.SharedWaiters, r.ExclusiveWaiters, FALSE, r.Semaphore,
                  [r.call EXCEPT ![t] = "none"], r.Number,
                  [r.mode EXCEPT ![t] = "exclusive"], [r.depth EXCEPT ![t] = 1])
  BY ExclusiveGrantedFields DEF IInv
<1>2. r.Owner = Granted /\ r.Exclusive /\ r.Count[Granted] = 1 /\ r.mode[t] = "none"
      /\ r.call[t] = "exclusive" /\ r.Event /\ r \in State
      /\ \A u \in Threads : r.mode[u] = "none"
  BY ResourceAssumption DEF IInv, Entries, Ownership, ExclusiveGranted, Waits, State
<1>3. s \in State
  BY <1>1 DEF Fields
<1>4. Entries(s)
  BY <1>1, <1>2, ResourceAssumption DEF IInv, Entries, Fields, Waits, State
<1>5. Ownership(s)
  BY <1>1, <1>2, ResourceAssumption DEF IInv, Ownership, Fields, State
<1>6. Wakers(s)
  BY <1>1, <1>2 DEF IInv, Wakers, Fields, State
<1>7. Unwoken(s) = 0 /\ Unwoken(r) = 0
  BY <1>1, <1>2, <1>3, <1>6, UnwokenIs DEF IInv, Wakers, Fields
<1>8. Having(s, "shared") = Having(r, "shared")
  BY <1>1, <1>2 DEF Having, Fields, State
<1>9. Calling(s, {"shared", "late"}) = Calling(r, {"shared", "late"})
  BY <1>1, <1>2 DEF Calling, Fields, State
<1>10. Cardinality(Calling(s, {"exclusive"})) = Cardinality(Calling(r, {"exclusive"})) - 1
  <2>1. Calling(s, {"exclusive"}) = Calling(r, {"exclusive"}) \ {t} /\ t \in Calling(r, {"exclusive"}) /\ Calling(r, {"exclusive"}) \in SUBSET Threads
    BY <1>1, <1>2 DEF Calling, Fields, State
  <2> QED  BY <2>1, Leaves
<1>11. Counted(s)
  <2>1. Having(r, "shared") \in SUBSET Threads /\ Calling(r, {"shared", "late"}) \in SUBSET Threads /\ Calling(r, {"exclusive"}) \in SUBSET Threads
    BY DEF Having, Calling
  <2>2. Cardinality(Having(r, "shared")) \in Nat /\ Cardinality(Calling(r, {"shared", "late"})) \in Nat /\ Cardinality(Calling(r, {"exclusive"})) \in Nat
    BY <2>1, Numbers
  <2> QED  BY <1>1, <1>2, <1>7, <1>8, <1>9, <1>10, <2>2, ResourceAssumption DEF IInv, Counted, Fields, State
<1>12. Locks(r, s)
  BY <1>1, <1>2 DEF Fields, Locks
<1>13. Beside(r, s, t)
  BY <1>1, <1>2 DEF Fields, Beside, State
<1> QED  BY <1>3, <1>4, <1>5, <1>6, <1>11, <1>12, <1>13 DEF IInv, Kept

\* Exclusive access at once.
LEMMA TakeExclusiveFields ==
    ASSUME NEW r \in State, NEW s, NEW t \in Threads,
           TakeExclusive(r, s, t), Idle(r, t), r.ActiveCount = 0
    PROVE  Fields(s, 1, TRUE, t, [r.Count EXCEPT ![t] = 1],
                  r.SharedWaiters, r.ExclusiveWaiters, r.Event, r.Semaphore,
                  r.call, r.Number,
                  [r.mode EXCEPT ![t] = "exclusive"], [r.depth EXCEPT ![t] = 1])
<1>1. r \in State /\ r.ActiveCount \in Nat /\ r.Semaphore \in Nat
      /\ r.SharedWaiters \in Nat /\ r.ExclusiveWaiters \in Nat
      /\ r.Count[t] \in Nat /\ r.depth[t] \in Nat /\ r.Number[t] \in Nat
  BY DEF State
<1> DEFINE new == [ActiveCount |-> 1, Exclusive |-> TRUE,
                  Owner |-> t, Count |-> [r.Count EXCEPT ![t] = 1],
                  SharedWaiters |-> r.SharedWaiters, ExclusiveWaiters |-> r.ExclusiveWaiters,
                  Event |-> r.Event, Semaphore |-> r.Semaphore,
                  call |-> r.call, Number |-> r.Number,
                  mode |-> [r.mode EXCEPT ![t] = "exclusive"], depth |-> [r.depth EXCEPT ![t] = 1]]
<1>2. new \in State
  BY <1>1, ResourceAssumption DEF State, TakeExclusive
<1>3. s = new
  BY <1>1 DEF State, TakeExclusive
<1> QED  BY <1>2, <1>3 DEF Fields

LEMMA TakeExclusiveKeeps ==
    ASSUME NEW r, NEW s, IInv(r), NEW t \in Threads,
           TakeExclusive(r, s, t), Idle(r, t), r.ActiveCount = 0
    PROVE  Kept(r, s, t)
<1>1. Fields(s, 1, TRUE, t, [r.Count EXCEPT ![t] = 1],
                  r.SharedWaiters, r.ExclusiveWaiters, r.Event, r.Semaphore,
                  r.call, r.Number,
                  [r.mode EXCEPT ![t] = "exclusive"], [r.depth EXCEPT ![t] = 1])
  BY TakeExclusiveFields DEF IInv
<1>2. /\ ~r.Exclusive /\ r.call[t] = "none" /\ r \in State /\ r.Owner # Granted /\ r.Semaphore = 0
      /\ \A u \in Threads : r.mode[u] = "none" /\ r.call[u] # "releaseSemaphore"
  BY Unheld DEF IInv, Idle
<1>3. s \in State
  BY <1>1 DEF Fields
<1>4. Entries(s)
  BY <1>1, <1>2, ResourceAssumption DEF IInv, Entries, Fields, Waits, State
<1>5. Ownership(s)
  BY <1>1, <1>2, ResourceAssumption DEF IInv, Ownership, Fields, State
<1>6. Wakers(s)
  BY <1>1, <1>2 DEF IInv, Wakers, Fields, State
<1>7. Unwoken(s) = 0 /\ Unwoken(r) = 0
  BY <1>1, <1>2, <1>3, <1>6, UnwokenIs DEF IInv, Wakers, Fields
<1>8. Having(s, "shared") = Having(r, "shared")
  BY <1>1, <1>2 DEF Having, Fields, State
<1>9. Calling(s, {"shared", "late"}) = Calling(r, {"shared", "late"})
  BY <1>1, <1>2 DEF Calling, Fields, State
<1>10. Calling(s, {"exclusive"}) = Calling(r, {"exclusive"})
  BY <1>1, <1>2 DEF Calling, Fields, State
<1>11. Counted(s)
  <2>1. Having(r, "shared") \in SUBSET Threads /\ Calling(r, {"shared", "late"}) \in SUBSET Threads /\ Calling(r, {"exclusive"}) \in SUBSET Threads
    BY DEF Having, Calling
  <2>2. Cardinality(Having(r, "shared")) \in Nat /\ Cardinality(Calling(r, {"shared", "late"})) \in Nat /\ Cardinality(Calling(r, {"exclusive"})) \in Nat
    BY <2>1, Numbers
  <2> QED  BY <1>1, <1>2, <1>7, <1>8, <1>9, <1>10, <2>2, ResourceAssumption DEF IInv, Counted, Fields, State
<1>12. Locks(r, s)
  BY <1>1, <1>2 DEF Fields, Locks
<1>13. Beside(r, s, t)
  BY <1>1, <1>2 DEF Fields, Beside, State
<1> QED  BY <1>3, <1>4, <1>5, <1>6, <1>11, <1>12, <1>13 DEF IInv, Kept

\* A thread that has access takes it again.
LEMMA TakeAgainFields ==
    ASSUME NEW r \in State, NEW s, NEW t \in Threads,
           TakeAgain(r, s, t), Idle(r, t), r.mode[t] # "none"
    PROVE  Fields(s, r.ActiveCount, r.Exclusive, r.Owner, [r.Count EXCEPT ![t] = r.Count[t] + 1],
                  r.SharedWaiters, r.ExclusiveWaiters, r.Event, r.Semaphore,
                  r.call, r.Number,
                  r.mode, [r.depth EXCEPT ![t] = r.depth[t] + 1])
<1>1. r \in State /\ r.ActiveCount \in Nat /\ r.Semaphore \in Nat
      /\ r.SharedWaiters \in Nat /\ r.ExclusiveWaiters \in Nat
      /\ r.Count[t] \in Nat /\ r.depth[t] \in Nat /\ r.Number[t] \in Nat
  BY DEF State
<1> DEFINE new == [ActiveCount |-> r.ActiveCount, Exclusive |-> r.Exclusive,
                  Owner |-> r.Owner, Count |-> [r.Count EXCEPT ![t] = r.Count[t] + 1],
                  SharedWaiters |-> r.SharedWaiters, ExclusiveWaiters |-> r.ExclusiveWaiters,
                  Event |-> r.Event, Semaphore |-> r.Semaphore,
                  call |-> r.call, Number |-> r.Number,
                  mode |-> r.mode, depth |-> [r.depth EXCEPT ![t] = r.depth[t] + 1]]
<1>2. new \in State
  BY <1>1, ResourceAssumption DEF State, TakeAgain
<1>3. s = new
  BY <1>1 DEF State, TakeAgain
<1> QED  BY <1>2, <1>3 DEF Fields

LEMMA TakeAgainKeeps ==
    ASSUME NEW r, NEW s, IInv(r), NEW t \in Threads,
           TakeAgain(r, s, t), Idle(r, t), r.mode[t] # "none"
    PROVE  Kept(r, s, t)
<1>1. Fields(s, r.ActiveCount, r.Exclusive, r.Owner, [r.Count EXCEPT ![t] = r.Count[t] + 1],
                  r.SharedWaiters, r.ExclusiveWaiters, r.Event, r.Semaphore,
                  r.call, r.Number,
                  r.mode, [r.depth EXCEPT ![t] = r.depth[t] + 1])
  BY TakeAgainFields DEF IInv
<1>2. r \in State
  BY DEF IInv
<1>3. s \in State
  BY <1>1 DEF Fields
<1>4. Entries(s)
  BY <1>1, <1>2, ResourceAssumption DEF IInv, Entries, Fields, Waits, State
<1>5. Ownership(s)
  BY <1>1, <1>2, ResourceAssumption DEF IInv, Ownership, Fields, State
<1>6. Wakers(s)
  BY <1>1, <1>2 DEF IInv, Wakers, Fields, State
<1>7. Unwoken(s) = Unwoken(r) /\ Unwoken(r) \in Nat
  <2>1. /\ r \in State /\ Wakers(r) /\ s.Semaphore = r.Semaphore /\ s.Number = r.Number
        /\ \A u \in Threads : s.call[u] = "releaseSemaphore" <=> r.call[u] = "releaseSemaphore"
    BY <1>1, <1>2 DEF IInv, Fields, State
  <2> QED  BY <1>3, <1>6, <2>1, UnwokenStays
<1>8. Having(s, "shared") = Having(r, "shared")
  BY <1>1, <1>2 DEF Having, Fields, State
<1>9. Calling(s, {"shared", "late"}) = Calling(r, {"shared", "late"})
  BY <1>1, <1>2 DEF Calling, Fields, State
<1>10. Calling(s, {"exclusive"}) = Calling(r, {"exclusive"})
  BY <1>1, <1>2 DEF Calling, Fields, State
<1>11. Counted(s)
  <2>1. Having(r, "shared") \in SUBSET Threads /\ Calling(r, {"shared", "late"}) \in SUBSET Threads /\ Calling(r, {"exclusive"}) \in SUBSET Threads
    BY DEF Having, Calling
  <2>2. Cardinality(Having(r, "shared")) \in Nat /\ Cardinality(Calling(r, {"shared", "late"})) \in Nat /\ Cardinality(Calling(r, {"exclusive"})) \in Nat
    BY <2>1, Numbers
  <2> QED  BY <1>1, <1>2, <1>7, <1>8, <1>9, <1>10, <2>2, ResourceAssumption DEF IInv, Counted, Fields, State
<1>12. Locks(r, s)
  BY <1>1 DEF Fields, Locks
<1>13. Beside(r, s, t)
  BY <1>1, <1>2 DEF Fields, Beside, State
<1> QED  BY <1>3, <1>4, <1>5, <1>6, <1>11, <1>12, <1>13 DEF IInv, Kept

\* A thread begins to wait for exclusive access.
LEMMA WaitExclusiveFields ==
    ASSUME NEW r \in State, NEW s, NEW t \in Threads,
           WaitExclusive(r, s, t)
    PROVE  Fields(s, r.ActiveCount, r.Exclusive, r.Owner, r.Count,
                  r.SharedWaiters, r.ExclusiveWaiters + 1, r.Event, r.Semaphore,
                  [r.call EXCEPT ![t] = "exclusive"], r.Number,
                  r.mode, r.depth)
<1>1. r \in State /\ r.ActiveCount \in Nat /\ r.Semaphore \in Nat
      /\ r.SharedWaiters \in Nat /\ r.ExclusiveWaiters \in Nat
      /\ r.Count[t] \in Nat /\ r.depth[t] \in Nat /\ r.Number[t] \in Nat
  BY DEF State
<1> DEFINE new == [ActiveCount |-> r.ActiveCount, Exclusive |-> r.Exclusive,
                  Owner |-> r.Owner, Count |-> r.Count,
                  SharedWaiters |-> r.SharedWaiters, ExclusiveWaiters |-> r.ExclusiveWaiters + 1,
                  Event |-> r.Event, Semaphore |-> r.Semaphore,
                  call |-> [r.call EXCEPT ![t] = "exclusive"], Number |-> r.Number,
                  mode |-> r.mode, depth |-> r.depth]
<1>2. new \in State
  BY <1>1, ResourceAssumption DEF State, WaitExclusive, ExclusiveBusy, Idle, Waits
<1>3. s = new
  BY <1>1 DEF State, WaitExclusive, ExclusiveBusy, Idle, Waits
<1> QED  BY <1>2, <1>3 DEF Fields

LEMMA WaitExclusiveKeeps ==
    ASSUME NEW r, NEW s, IInv(r), NEW t \in Threads,
           WaitExclusive(r, s, t)
    PROVE  Kept(r, s, t)
<1>1. Fields(s, r.ActiveCount, r.Exclusive, r.Owner, r.Count,
                  r.SharedWaiters, r.ExclusiveWaiters + 1, r.Event, r.Semaphore,
                  [r.call EXCEPT ![t] = "exclusive"], r.Number,
                  r.mode, r.depth)
  BY WaitExclusiveFields DEF IInv
<1>2. r \in State /\ r.mode[t] = "none" /\ r.call[t] = "none"
  BY DEF IInv, WaitExclusive, ExclusiveBusy, Idle
<1>3. s \in State
  BY <1>1 DEF Fields
<1>4. Entries(s)
  BY <1>1, <1>2, ResourceAssumption DEF IInv, Entries, Fields, Waits, State
<1>5. Ownership(s)
  BY <1>1, <1>2, ResourceAssumption DEF IInv, Ownership, Fields, State
<1>6. Wakers(s)
  BY <1>1, <1>2 DEF IInv, Wakers, Fields, State
<1>7. Unwoken(s) = Unwoken(r) /\ Unwoken(r) \in Nat
  <2>1. /\ r \in State /\ Wakers(r) /\ s.Semaphore = r.Semaphore /\ s.Number = r.Number
        /\ \A u \in Threads : s.call[u] = "releaseSemaphore" <=> r.call[u] = "releaseSemaphore"
    BY <1>1, <1>2 DEF IInv, Fields, State
  <2> QED  BY <1>3, <1>6, <2>1, UnwokenStays
<1>8. Having(s, "shared") = Having(r, "shared")
  BY <1>1, <1>2 DEF Having, Fields, State
<1>9. Calling(s, {"shared", "late"}) = Calling(r, {"shared", "late"})
  BY <1>1, <1>2 DEF Calling, Fields, State
<1>10. Cardinality(Calling(s, {"exclusive"})) = Cardinality(Calling(r, {"exclusive"})) + 1
  <2>1. Calling(s, {"exclusive"}) = Calling(r, {"exclusive"}) \cup {t} /\ t \notin Calling(r, {"exclusive"}) /\ Calling(r, {"exclusive"}) \in SUBSET Threads
    BY <1>1, <1>2 DEF Calling, Fields, State
  <2> QED  BY <2>1, Joins
<1>11. Counted(s)
  <2>1. Having(r, "shared") \in SUBSET Threads /\ Calling(r, {"shared", "late"}) \in SUBSET Threads /\ Calling(r, {"exclusive"}) \in SUBSET Threads
    BY DEF Having, Calling
  <2>2. Cardinality(Having(r, "shared")) \in Nat /\ Cardinality(Calling(r, {"shared", "late"})) \in Nat /\ Cardinality(Calling(r, {"exclusive"})) \in Nat
    BY <2>1, Numbers
  <2> QED  BY <1>1, <1>2, <1>7, <1>8, <1>9, <1>10, <2>2, ResourceAssumption DEF IInv, Counted, Fields, State
<1>12. Locks(r, s)
  BY <1>1 DEF Fields, Locks
<1>13. Beside(r, s, t)
  BY <1>1, <1>2 DEF Fields, Beside, State
<1> QED  BY <1>3, <1>4, <1>5, <1>6, <1>11, <1>12, <1>13 DEF IInv, Kept

\* Shared access at once.
LEMMA TakeSharedFields ==
    ASSUME NEW r \in State, NEW s, NEW t \in Threads,
           TakeShared(r, s, t), Idle(r, t), ~r.Exclusive, r.mode[t] = "none"
    PROVE  Fields(s, r.ActiveCount + 1, r.Exclusive, r.Owner, [r.Count EXCEPT ![t] = 1],
                  r.SharedWaiters, r.ExclusiveWaiters, r.Event, r.Semaphore,
                  r.call, r.Number,
                  [r.mode EXCEPT ![t] = "shared"], [r.depth EXCEPT ![t] = 1])
<1>1. r \in State /\ r.ActiveCount \in Nat /\ r.Semaphore \in Nat
      /\ r.SharedWaiters \in Nat /\ r.ExclusiveWaiters \in Nat
      /\ r.Count[t] \in Nat /\ r.depth[t] \in Nat /\ r.Number[t] \in Nat
  BY DEF State
<1> DEFINE new == [ActiveCount |-> r.ActiveCount + 1, Exclusive |-> r.Exclusive,
                  Owner |-> r.Owner, Count |-> [r.Count EXCEPT ![t] = 1],
                  SharedWaiters |-> r.SharedWaiters, ExclusiveWaiters |-> r.ExclusiveWaiters,
                  Event |-> r.Event, Semaphore |-> r.Semaphore,
                  call |-> r.call, Number |-> r.Number,
                  mode |-> [r.mode EXCEPT ![t] = "shared"], depth |-> [r.depth EXCEPT ![t] = 1]]
<1>2. new \in State
  BY <1>1, ResourceAssumption DEF State, TakeShared
<1>3. s = new
  BY <1>1 DEF State, TakeShared
<1> QED  BY <1>2, <1>3 DEF Fields

LEMMA TakeSharedKeeps ==
    ASSUME NEW r, NEW s, IInv(r), NEW t \in Threads,
           TakeShared(r, s, t), Idle(r, t), ~r.Exclusive, r.mode[t] = "none"
    PROVE  Kept(r, s, t)
<1>1. Fields(s, r.ActiveCount + 1, r.Exclusive, r.Owner, [r.Count EXCEPT ![t] = 1],
                  r.SharedWaiters, r.ExclusiveWaiters, r.Event, r.Semaphore,
                  r.call, r.Number,
                  [r.mode EXCEPT ![t] = "shared"], [r.depth EXCEPT ![t] = 1])
  BY TakeSharedFields DEF IInv
<1>2. r \in State /\ r.call[t] = "none"
  BY DEF IInv, Idle
<1>3. s \in State
  BY <1>1 DEF Fields
<1>4. Entries(s)
  BY <1>1, <1>2, ResourceAssumption DEF IInv, Entries, Fields, Waits, State
<1>5. Ownership(s)
  BY <1>1, <1>2, ResourceAssumption DEF IInv, Ownership, Fields, State
<1>6. Wakers(s)
  BY <1>1, <1>2 DEF IInv, Wakers, Fields, State
<1>7. Unwoken(s) = Unwoken(r) /\ Unwoken(r) \in Nat
  <2>1. /\ r \in State /\ Wakers(r) /\ s.Semaphore = r.Semaphore /\ s.Number = r.Number
        /\ \A u \in Threads : s.call[u] = "releaseSemaphore" <=> r.call[u] = "releaseSemaphore"
    BY <1>1, <1>2 DEF IInv, Fields, State
  <2> QED  BY <1>3, <1>6, <2>1, UnwokenStays
<1>8. Cardinality(Having(s, "shared")) = Cardinality(Having(r, "shared")) + 1
  <2>1. Having(s, "shared") = Having(r, "shared") \cup {t} /\ t \notin Having(r, "shared") /\ Having(r, "shared") \in SUBSET Threads
    BY <1>1, <1>2 DEF Having, Fields, State
  <2> QED  BY <2>1, Joins
<1>9. Calling(s, {"shared", "late"}) = Calling(r, {"shared", "late"})
  BY <1>1, <1>2 DEF Calling, Fields, State
<1>10. Calling(s, {"exclusive"}) = Calling(r, {"exclusive"})
  BY <1>1, <1>2 DEF Calling, Fields, State
<1>11. Counted(s)
  <2>1. Having(r, "shared") \in SUBSET Threads /\ Calling(r, {"shared", "late"}) \in SUBSET Threads /\ Calling(r, {"exclusive"}) \in SUBSET Threads
    BY DEF Having, Calling
  <2>2. Cardinality(Having(r, "shared")) \in Nat /\ Cardinality(Calling(r, {"shared", "late"})) \in Nat /\ Cardinality(Calling(r, {"exclusive"})) \in Nat
    BY <2>1, Numbers
  <2> QED  BY <1>1, <1>2, <1>7, <1>8, <1>9, <1>10, <2>2, ResourceAssumption DEF IInv, Counted, Fields, State
<1>12. Locks(r, s)
  BY <1>1, <1>2 DEF Fields, Locks, IInv, Ownership
<1>13. Beside(r, s, t)
  BY <1>1, <1>2 DEF Fields, Beside, State
<1> QED  BY <1>3, <1>4, <1>5, <1>6, <1>11, <1>12, <1>13 DEF IInv, Kept

\* A thread begins to wait for shared access.
LEMMA WaitSharedFields ==
    ASSUME NEW r \in State, NEW s, NEW t \in Threads,
           NEW how, WaitShared(r, s, t, how)
    PROVE  Fields(s, r.ActiveCount, r.Exclusive, r.Owner, [r.Count EXCEPT ![t] = IF how = "late" /\ ~r.Exclusive THEN r.Count[t] ELSE 1],
                  r.SharedWaiters + 1, r.ExclusiveWaiters, r.Event, r.Semaphore,
                  [r.call EXCEPT ![t] = IF how = "late" /\ ~r.Exclusive THEN "late" ELSE "shared"], r.Number,
                  r.mode, r.depth)
<1>1. r \in State /\ r.ActiveCount \in Nat /\ r.Semaphore \in Nat
      /\ r.SharedWaiters \in Nat /\ r.ExclusiveWaiters \in Nat
      /\ r.Count[t] \in Nat /\ r.depth[t] \in Nat /\ r.Number[t] \in Nat
  BY DEF State
<1> DEFINE new == [ActiveCount |-> r.ActiveCount, Exclusive |-> r.Exclusive,
                  Owner |-> r.Owner, Count |-> [r.Count EXCEPT ![t] = IF how = "late" /\ ~r.Exclusive THEN r.Count[t] ELSE 1],
                  SharedWaiters |-> r.SharedWaiters + 1, ExclusiveWaiters |-> r.ExclusiveWaiters,
                  Event |-> r.Event, Semaphore |-> r.Semaphore,
                  call |-> [r.call EXCEPT ![t] = IF how = "late" /\ ~r.Exclusive THEN "late" ELSE "shared"], Number |-> r.Number,
                  mode |-> r.mode, depth |-> r.depth]
<1>2. new \in State
  BY <1>1, ResourceAssumption DEF State, WaitShared, Waits
<1>3. s = new
  BY <1>1 DEF State, WaitShared, Waits
<1> QED  BY <1>2, <1>3 DEF Fields

LEMMA WaitSharedKeeps ==
    ASSUME NEW r, NEW s, IInv(r), NEW t \in Threads,
           NEW how, WaitShared(r, s, t, how)
    PROVE  Kept(r, s, t)
<1>1. Fields(s, r.ActiveCount, r.Exclusive, r.Owner, [r.Count EXCEPT ![t] = IF how = "late" /\ ~r.Exclusive THEN r.Count[t] ELSE 1],
                  r.SharedWaiters + 1, r.ExclusiveWaiters, r.Event, r.Semaphore,
                  [r.call EXCEPT ![t] = IF how = "late" /\ ~r.Exclusive THEN "late" ELSE "shared"], r.Number,
                  r.mode, r.depth)
  BY WaitSharedFields DEF IInv
<1>2. r \in State /\ r.mode[t] = "none" /\ r.call[t] = "none"
  BY DEF IInv, WaitShared, Idle
<1>3. s \in State
  BY <1>1 DEF Fields
<1>4. Entries(s)
  BY <1>1, <1>2, ResourceAssumption DEF IInv, Entries, Fields, Waits, State
<1>5. Ownership(s)
  BY <1>1, <1>2, ResourceAssumption DEF IInv, Ownership, Fields, State
<1>6. Wakers(s)
  BY <1>1, <1>2 DEF IInv, Wakers, Fields, State
<1>7. Unwoken(s) = Unwoken(r) /\ Unwoken(r) \in Nat
  <2>1. /\ r \in State /\ Wakers(r) /\ s.Semaphore = r.Semaphore /\ s.Number = r.Number
        /\ \A u \in Threads : s.call[u] = "releaseSemaphore" <=> r.call[u] = "releaseSemaphore"
    BY <1>1, <1>2 DEF IInv, Fields, State
  <2> QED  BY <1>3, <1>6, <2>1, UnwokenStays
<1>8. Having(s, "shared") = Having(r, "shared")
  BY <1>1, <1>2 DEF Having, Fields, State
<1>9. Cardinality(Calling(s, {"shared", "late"})) = Cardinality(Calling(r, {"shared", "late"})) + 1
  <2>1. Calling(s, {"shared", "late"}) = Calling(r, {"shared", "late"}) \cup {t} /\ t \notin Calling(r, {"shared", "late"}) /\ Calling(r, {"shared", "late"}) \in SUBSET Threads
    BY <1>1, <1>2 DEF Calling, Fields, State
  <2> QED  BY <2>1, Joins
<1>10. Calling(s, {"exclusive"}) = Calling(r, {"exclusive"})
  BY <1>1, <1>2 DEF Calling, Fields, State
<1>11. Counted(s)
  <2>1. Having(r, "shared") \in SUBSET Threads /\ Calling(r, {"shared", "late"}) \in SUBSET Threads /\ Calling(r, {"exclusive"}) \in SUBSET Threads
    BY DEF Having, Calling
  <2>2. Cardinality(Having(r, "shared")) \in Nat /\ Cardinality(Calling(r, {"shared", "late"})) \in Nat /\ Cardinality(Calling(r, {"exclusive"})) \in Nat
    BY <2>1, Numbers
  <2> QED  BY <1>1, <1>2, <1>7, <1>8, <1>9, <1>10, <2>2, ResourceAssumption DEF IInv, Counted, Fields, State
<1>12. Locks(r, s)
  BY <1>1 DEF Fields, Locks
<1>13. Beside(r, s, t)
  BY <1>1, <1>2 DEF Fields, Beside, State
<1> QED  BY <1>3, <1>4, <1>5, <1>6, <1>11, <1>12, <1>13 DEF IInv, Kept

\* A shared waiter wakes up.
LEMMA SharedGrantedFields ==
    ASSUME NEW r \in State, NEW s, NEW t \in Threads,
           SharedGranted(r, s, t)
    PROVE  Fields(s, r.ActiveCount, r.Exclusive, r.Owner, [r.Count EXCEPT ![t] = 1],
                  r.SharedWaiters, r.ExclusiveWaiters, r.Event, r.Semaphore - 1,
                  [r.call EXCEPT ![t] = "none"], r.Number,
                  [r.mode EXCEPT ![t] = "shared"], [r.depth EXCEPT ![t] = 1])
<1>1. r \in State /\ r.ActiveCount \in Nat /\ r.Semaphore \in Nat
      /\ r.SharedWaiters \in Nat /\ r.ExclusiveWaiters \in Nat
      /\ r.Count[t] \in Nat /\ r.depth[t] \in Nat /\ r.Number[t] \in Nat
  BY DEF State
<1> DEFINE new == [ActiveCount |-> r.ActiveCount, Exclusive |-> r.Exclusive,
                  Owner |-> r.Owner, Count |-> [r.Count EXCEPT ![t] = 1],
                  SharedWaiters |-> r.SharedWaiters, ExclusiveWaiters |-> r.ExclusiveWaiters,
                  Event |-> r.Event, Semaphore |-> r.Semaphore - 1,
                  call |-> [r.call EXCEPT ![t] = "none"], Number |-> r.Number,
                  mode |-> [r.mode EXCEPT ![t] = "shared"], depth |-> [r.depth EXCEPT ![t] = 1]]
<1>2. new \in State
  BY <1>1, ResourceAssumption DEF State, SharedGranted
<1>3. s = new
  BY <1>1 DEF State, SharedGranted
<1> QED  BY <1>2, <1>3 DEF Fields

LEMMA SharedGrantedKeeps ==
    ASSUME NEW r, NEW s, IInv(r), NEW t \in Threads,
           SharedGranted(r, s, t)
    PROVE  Kept(r, s, t)
<1>1. Fields(s, r.ActiveCount, r.Exclusive, r.Owner, [r.Count EXCEPT ![t] = 1],
                  r.SharedWaiters, r.ExclusiveWaiters, r.Event, r.Semaphore - 1,
                  [r.call EXCEPT ![t] = "none"], r.Number,
                  [r.mode EXCEPT ![t] = "shared"], [r.depth EXCEPT ![t] = 1])
  BY SharedGrantedFields DEF IInv
<1>2. r \in State /\ r.mode[t] = "none" /\ r.call[t] \in {"shared", "late"} /\ r.Semaphore > 0 /\ ~r.Exclusive
  BY DEF IInv, SharedGranted, Entries, Waits, Wakers, State
<1>3. s \in State
  BY <1>1 DEF Fields
<1>4. Entries(s)
  BY <1>1, <1>2, ResourceAssumption DEF IInv, Entries, Fields, Waits, State
<1>5. Ownership(s)
  BY <1>1, <1>2, ResourceAssumption DEF IInv, Ownership, Fields, State
<1>6. Wakers(s)
  BY <1>1, <1>2 DEF IInv, Wakers, Fields, State
<1>7. Unwoken(s) = Unwoken(r) - 1 /\ Unwoken(r) \in Nat
  <2>0. r \in State /\ Wakers(r) /\ r.Semaphore \in Nat
    BY DEF IInv, State
  <2>1. CASE \A u \in Threads : r.call[u] # "releaseSemaphore"
    <3>1. \A u \in Threads : s.call[u] # "releaseSemaphore"
      BY <1>1, <2>0, <2>1 DEF Fields, State
    <3> QED  BY <1>1, <1>3, <1>6, <2>0, <2>1, <3>1, UnwokenIs DEF Fields
  <2>2. CASE \E u \in Threads : r.call[u] = "releaseSemaphore"
    <3>1. PICK u \in Threads : r.call[u] = "releaseSemaphore"
      BY <2>2
    <3>2. s.call[u] = "releaseSemaphore" /\ s.Number[u] = r.Number[u] /\ r.Number[u] \in Nat
      BY <1>1, <1>2, <2>0, <3>1 DEF Fields, State
    <3>3. Unwoken(r) = r.Semaphore + r.Number[u]
      BY <2>0, <3>1, UnwokenIs
    <3>4. Unwoken(s) = s.Semaphore + s.Number[u]
      BY <1>3, <1>6, <3>2, UnwokenIs
    <3> QED  BY <1>1, <2>0, <3>2, <3>3, <3>4 DEF Fields
  <2> QED  BY <2>1, <2>2
<1>8. Cardinality(Having(s, "shared")) = Cardinality(Having(r, "shared")) + 1
  <2>1. Having(s, "shared") = Having(r, "shared") \cup {t} /\ t \notin Having(r, "shared") /\ Having(r, "shared") \in SUBSET Threads
    BY <1>1, <1>2 DEF Having, Fields, State
  <2> QED  BY <2>1, Joins
<1>9. Cardinality(Calling(s, {"shared", "late"})) = Cardinality(Calling(r, {"shared", "late"})) - 1
  <2>1. Calling(s, {"shared", "late"}) = Calling(r, {"shared", "late"}) \ {t} /\ t \in Calling(r, {"shared", "late"}) /\ Calling(r, {"shared", "late"}) \in SUBSET Threads
    BY <1>1, <1>2 DEF Calling, Fields, State
  <2> QED  BY <2>1, Leaves
<1>10. Calling(s, {"exclusive"}) = Calling(r, {"exclusive"})
  BY <1>1, <1>2 DEF Calling, Fields, State
<1>11. Counted(s)
  <2>1. Having(r, "shared") \in SUBSET Threads /\ Calling(r, {"shared", "late"}) \in SUBSET Threads /\ Calling(r, {"exclusive"}) \in SUBSET Threads
    BY DEF Having, Calling
  <2>2. Cardinality(Having(r, "shared")) \in Nat /\ Cardinality(Calling(r, {"shared", "late"})) \in Nat /\ Cardinality(Calling(r, {"exclusive"})) \in Nat
    BY <2>1, Numbers
  <2> QED  BY <1>1, <1>2, <1>7, <1>8, <1>9, <1>10, <2>2, ResourceAssumption DEF IInv, Counted, Fields, State
<1>12. Locks(r, s)
  BY <1>1, <1>2 DEF Fields, Locks, IInv, Ownership
<1>13. Beside(r, s, t)
  BY <1>1, <1>2 DEF Fields, Beside, State
<1> QED  BY <1>3, <1>4, <1>5, <1>6, <1>11, <1>12, <1>13 DEF IInv, Kept

\* Who releases has access, and the entry that is counted down is its own;
\* who is the last has nobody left to wake up before it.
Releasing(r, t) ==
    /\ r \in State /\ r.call[t] = "none" /\ r.mode[t] # "none"
    /\ IF r.Exclusive THEN r.Owner = t /\ r.mode[t] = "exclusive" ELSE r.mode[t] = "shared"
    /\ r.Count[t] = r.depth[t] /\ r.depth[t] >= 1
    /\ r.ActiveCount >= 1
    /\ r.Exclusive => r.ActiveCount = 1
    /\ r.ActiveCount = 1 => /\ Unwoken(r) = 0 /\ r.Semaphore = 0
                            /\ \A u \in Threads : r.call[u] # "releaseSemaphore"
                            /\ \A u \in Threads \ {t} : r.mode[u] = "none"
    /\ \A u \in Threads : r.call[u] # "setEvent"

LEMMA ReleaseFacts ==
    ASSUME NEW r, NEW s, IInv(r), NEW t \in Threads, Release(r, s, t)
    PROVE  Releasing(r, t)
<1>1. r \in State /\ Entries(r) /\ Ownership(r) /\ Wakers(r) /\ Counted(r)
  BY DEF IInv
<1>2. r.call[t] = "none" /\ r.mode[t] # "none"
  BY DEF Release, Idle
<1>3. IF r.Exclusive THEN r.Owner = t /\ r.mode[t] = "exclusive" ELSE r.mode[t] = "shared"
  BY <1>1, <1>2 DEF Ownership, State
<1>4. r.Count[t] = r.depth[t] /\ r.depth[t] >= 1
  BY <1>1, <1>2 DEF Entries
<1>5. \A u \in Threads : r.call[u] # "setEvent"
  BY <1>1, <1>3, ResourceAssumption DEF Ownership
<1>6. CASE r.Exclusive
  <2>1. r.ActiveCount = 1 /\ r.Semaphore = 0 /\ \A u \in Threads : r.call[u] # "releaseSemaphore"
    BY <1>1, <1>6 DEF Wakers, Counted
  <2>2. Unwoken(r) = 0
    BY <1>1, <2>1, UnwokenIs
  <2>3. \A u \in Threads \ {t} : r.mode[u] = "none"
    BY <1>1, <1>3, <1>6 DEF Ownership, State
  <2> QED  BY <1>1, <1>2, <1>3, <1>4, <1>5, <2>1, <2>2, <2>3 DEF Releasing
<1>7. CASE ~r.Exclusive
  <2>1. Having(r, "shared") \in SUBSET Threads /\ t \in Having(r, "shared")
    BY <1>3, <1>7 DEF Having
  <2>2. Cardinality(Having(r, "shared") \ {t}) = Cardinality(Having(r, "shared")) - 1
    BY <2>1, Leaves
  <2>3. /\ Cardinality(Having(r, "shared")) \in Nat
        /\ Cardinality(Having(r, "shared") \ {t}) \in Nat
        /\ Cardinality(Having(r, "shared") \ {t}) = 0 => Having(r, "shared") \ {t} = {}
    BY <2>1, Numbers
  <2>4. r.ActiveCount = Cardinality(Having(r, "shared")) + Unwoken(r) /\ Unwoken(r) \in Nat /\ Unwoken(r) >= r.Semaphore
    BY <1>1, <1>7, UnwokenIs DEF Counted
  <2>5. r.ActiveCount >= 1 /\ (r.ActiveCount = 1 => Unwoken(r) = 0 /\ Having(r, "shared") \ {t} = {})
    BY <2>2, <2>3, <2>4
  <2>6. Unwoken(r) = 0 => r.Semaphore = 0 /\ \A u \in Threads : r.call[u] # "releaseSemaphore"
    BY <1>1, <2>4, UnwokenIs DEF Wakers, State
  <2>7. Having(r, "shared") \ {t} = {} => \A u \in Threads \ {t} : r.mode[u] = "none"
    BY <1>1, <1>7 DEF Having, Ownership, State
  <2> QED  BY <1>1, <1>2, <1>3, <1>4, <1>5, <1>7, <2>5, <2>6, <2>7 DEF Releasing
<1> QED  BY <1>6, <1>7

\* What a release makes of the resource: left after one release of an entry,
\* gone when that was the last one.
Parted(r, s, left, gone, t) ==
    /\ left = [r EXCEPT !.Count = [r.Count EXCEPT ![t] = r.Count[t] - 1],
                        !.depth = [r.depth EXCEPT ![t] = r.depth[t] - 1]]
    /\ gone.ActiveCount = r.ActiveCount - 1 /\ gone.Exclusive = r.Exclusive
    /\ gone.Owner = (IF r.Owner = t THEN Nobody ELSE r.Owner)
    /\ gone.Count = [r.Count EXCEPT ![t] = r.Count[t] - 1]
    /\ gone.SharedWaiters = r.SharedWaiters /\ gone.ExclusiveWaiters = r.ExclusiveWaiters
    /\ gone.Event = r.Event /\ gone.Semaphore = r.Semaphore /\ gone.call = r.call
    /\ gone.Number = r.Number /\ gone.mode = [r.mode EXCEPT ![t] = "none"]
    /\ gone.depth = [r.depth EXCEPT ![t] = r.depth[t] - 1]
    /\ s = IF r.Count[t] # 1 THEN left
             ELSE IF r.ActiveCount # 1 THEN gone ELSE HandOver(gone, t)

LEMMA ReleaseParts ==
    ASSUME NEW r \in State, NEW s, NEW t \in Threads, Release(r, s, t),
           r.Exclusive => r.Owner = t, r.Count[t] >= 1, r.depth[t] >= 1, r.ActiveCount >= 1
    PROVE  \E left \in State, gone \in State : Parted(r, s, left, gone, t)
<1> DEFINE left == Undone(r, t, t)
           gone == Vacated(left, t, t)
<1>1. /\ r \in State /\ r.Count \in [Threads \cup {Granted} -> Nat] /\ r.depth \in [Threads -> Nat]
      /\ r.mode \in [Threads -> {"none", "shared", "exclusive"}] /\ r.ActiveCount \in Nat
      /\ r.Owner \in Threads \cup {Nobody, Granted}
  BY DEF State
<1> HIDE DEF left, gone
<1> DEFINE cnt == [r.Count EXCEPT ![t] = r.Count[t] - 1]
           dep == [r.depth EXCEPT ![t] = r.depth[t] - 1]
<1>2. cnt \in [Threads \cup {Granted} -> Nat] /\ dep \in [Threads -> Nat] /\ cnt[t] = r.Count[t] - 1
  <2>1. r.Count[t] - 1 \in Nat /\ r.depth[t] - 1 \in Nat
    BY <1>1
  <2> QED  BY <1>1, <2>1
<1>3. left = [r EXCEPT !.Count = cnt, !.depth = dep]
  BY <1>1 DEF left, Undone, State
<1> HIDE DEF cnt, dep
<1>4. /\ left \in State /\ left.Count = cnt /\ left.depth = dep
      /\ left.ActiveCount = r.ActiveCount /\ left.Exclusive = r.Exclusive
      /\ left.Owner = r.Owner /\ left.SharedWaiters = r.SharedWaiters
      /\ left.ExclusiveWaiters = r.ExclusiveWaiters /\ left.Event = r.Event
      /\ left.Semaphore = r.Semaphore /\ left.call = r.call
      /\ left.Number = r.Number /\ left.mode = r.mode
  BY <1>1, <1>2, <1>3 DEF State
<1> DEFINE own == IF r.Owner = t THEN Nobody ELSE r.Owner
           md  == [r.mode EXCEPT ![t] = "none"]
<1>5. gone = [left EXCEPT !.Owner = own, !.ActiveCount = r.ActiveCount - 1, !.mode = md]
  BY <1>1, <1>4 DEF gone, Vacated, State
<1>6. own \in Threads \cup {Nobody, Granted} /\ md \in [Threads -> {"none", "shared", "exclusive"}]
      /\ r.ActiveCount - 1 \in Nat
  BY <1>1
<1> HIDE DEF own, md
<1>7. /\ gone \in State /\ gone.Count = cnt /\ gone.depth = dep
      /\ gone.ActiveCount = r.ActiveCount - 1 /\ gone.Exclusive = r.Exclusive
      /\ gone.Owner = own /\ gone.SharedWaiters = r.SharedWaiters
      /\ gone.ExclusiveWaiters = r.ExclusiveWaiters /\ gone.Event = r.Event
      /\ gone.Semaphore = r.Semaphore /\ gone.call = r.call
      /\ gone.Number = r.Number /\ gone.mode = md
  BY <1>1, <1>4, <1>5, <1>6 DEF State
<1>8. s = IF left.Count[t] # 0 THEN left
             ELSE IF gone.ActiveCount # 0 THEN gone ELSE HandOver(gone, t)
  <2>1. (IF r.Exclusive THEN r.Owner ELSE t) = t
    OBVIOUS
  <2> QED  BY <2>1 DEF Release, left, gone
<1>9. (left.Count[t] # 0 <=> r.Count[t] # 1) /\ (gone.ActiveCount # 0 <=> r.ActiveCount # 1)
  BY <1>1, <1>2, <1>4, <1>7
<1>10. Parted(r, s, left, gone, t)
  BY <1>3, <1>4, <1>7, <1>8, <1>9 DEF Parted, cnt, dep, own, md
<1> QED  BY <1>4, <1>7, <1>10

\* What a grant of shared access makes of the resource.
LEMMA GrantSharedIs ==
    ASSUME NEW r \in State, NEW t \in Threads
    PROVE  /\ GrantShared(r, t) \in State
           /\ GrantShared(r, t).ActiveCount = r.ActiveCount + r.SharedWaiters
           /\ GrantShared(r, t).Exclusive = FALSE
           /\ GrantShared(r, t).Owner = r.Owner
           /\ GrantShared(r, t).Count = r.Count
           /\ GrantShared(r, t).SharedWaiters = 0
           /\ GrantShared(r, t).ExclusiveWaiters = r.ExclusiveWaiters
           /\ GrantShared(r, t).Event = r.Event
           /\ GrantShared(r, t).Semaphore = r.Semaphore
           /\ GrantShared(r, t).call = [r.call EXCEPT ![t] = "releaseSemaphore"]
           /\ GrantShared(r, t).Number = [r.Number EXCEPT ![t] = r.SharedWaiters]
           /\ GrantShared(r, t).mode = r.mode
           /\ GrantShared(r, t).depth = r.depth
<1> DEFINE g == GrantShared(r, t)
<1>1. /\ r.ActiveCount \in Nat /\ r.SharedWaiters \in Nat /\ r.ExclusiveWaiters \in Nat
      /\ r.ActiveCount + r.SharedWaiters \in Nat
  BY DEF State
<1>2. g \in State
  BY <1>1, ResourceAssumption DEF State, GrantShared, Signals
<1> QED  BY <1>1, <1>2 DEF State, GrantShared

\* What a grant of exclusive access makes of the resource.
LEMMA GrantExclusiveIs ==
    ASSUME NEW r \in State, NEW t \in Threads, r.ExclusiveWaiters > 0
    PROVE  /\ GrantExclusive(r, t) \in State
           /\ GrantExclusive(r, t).ActiveCount = 1
           /\ GrantExclusive(r, t).Exclusive = TRUE
           /\ GrantExclusive(r, t).Owner = Granted
           /\ GrantExclusive(r, t).Count = [r.Count EXCEPT ![Granted] = 1]
           /\ GrantExclusive(r, t).SharedWaiters = r.SharedWaiters
           /\ GrantExclusive(r, t).ExclusiveWaiters = r.ExclusiveWaiters - 1
           /\ GrantExclusive(r, t).Event = r.Event
           /\ GrantExclusive(r, t).Semaphore = r.Semaphore
           /\ GrantExclusive(r, t).call = [r.call EXCEPT ![t] = "setEvent"]
           /\ GrantExclusive(r, t).Number = r.Number
           /\ GrantExclusive(r, t).mode = r.mode
           /\ GrantExclusive(r, t).depth = r.depth
<1> DEFINE g == GrantExclusive(r, t)
<1>1. /\ r.ActiveCount \in Nat /\ r.SharedWaiters \in Nat /\ r.ExclusiveWaiters \in Nat
      /\ r.ActiveCount + r.SharedWaiters \in Nat /\ r.ExclusiveWaiters - 1 \in Nat
  BY DEF State
<1>2. g \in State
  BY <1>1, ResourceAssumption DEF State, GrantExclusive, Signals
<1> QED  BY <1>1, <1>2 DEF State, GrantExclusive

\* A recursive acquisition is released.
LEMMA ReleaseOnceFields ==
    ASSUME NEW r \in State, NEW s, NEW t \in Threads,
           Release(r, s, t), r.Exclusive => r.Owner = t, r.Count[t] >= 1, r.depth[t] >= 1, r.ActiveCount >= 1, r.Count[t] # 1
    PROVE  Fields(s, r.ActiveCount, r.Exclusive, r.Owner, [r.Count EXCEPT ![t] = r.Count[t] - 1],
                  r.SharedWaiters, r.ExclusiveWaiters, r.Event, r.Semaphore,
                  r.call, r.Number,
                  r.mode, [r.depth EXCEPT ![t] = r.depth[t] - 1])
<1>1. r \in State /\ r.ActiveCount \in Nat /\ r.Semaphore \in Nat
      /\ r.SharedWaiters \in Nat /\ r.ExclusiveWaiters \in Nat
      /\ r.Count[t] \in Nat /\ r.depth[t] \in Nat /\ r.Number[t] \in Nat
  BY DEF State
<1>2. PICK left \in State, gone \in State : Parted(r, s, left, gone, t)
  BY ReleaseParts
<1>3. s = left
  BY <1>1, <1>2 DEF Parted
<1>4. s \in State
  BY <1>2, <1>3
<1> DEFINE count == [r.Count EXCEPT ![t] = r.Count[t] - 1]
           depth == [r.depth EXCEPT ![t] = r.depth[t] - 1]
<1>5. s = [r EXCEPT !.Count = count, !.depth = depth]
  BY <1>2, <1>3 DEF Parted
<1> HIDE DEF count, depth
<1>6. /\ s.ActiveCount = r.ActiveCount /\ s.Exclusive = r.Exclusive
      /\ s.Owner = r.Owner /\ s.Count = count
      /\ s.SharedWaiters = r.SharedWaiters /\ s.ExclusiveWaiters = r.ExclusiveWaiters
      /\ s.Event = r.Event /\ s.Semaphore = r.Semaphore
      /\ s.call = r.call /\ s.Number = r.Number /\ s.mode = r.mode
      /\ s.depth = depth
  BY <1>1, <1>5 DEF State
<1> QED  BY <1>4, <1>6 DEF Fields, count, depth

LEMMA ReleaseOnceKeeps ==
    ASSUME NEW r, NEW s, IInv(r), NEW t \in Threads,
           Release(r, s, t), r.Exclusive => r.Owner = t, r.Count[t] >= 1, r.depth[t] >= 1, r.ActiveCount >= 1, r.Count[t] # 1
    PROVE  Kept(r, s, t)
<1>1. Fields(s, r.ActiveCount, r.Exclusive, r.Owner, [r.Count EXCEPT ![t] = r.Count[t] - 1],
                  r.SharedWaiters, r.ExclusiveWaiters, r.Event, r.Semaphore,
                  r.call, r.Number,
                  r.mode, [r.depth EXCEPT ![t] = r.depth[t] - 1])
  BY ReleaseOnceFields DEF IInv
<1>2. /\ r \in State /\ r.call[t] = "none" /\ r.mode[t] # "none"
      /\ IF r.Exclusive THEN r.Owner = t /\ r.mode[t] = "exclusive" ELSE r.mode[t] = "shared"
      /\ r.Count[t] = r.depth[t] /\ r.depth[t] >= 1 /\ r.ActiveCount >= 1
      /\ r.Exclusive => r.ActiveCount = 1
      /\ r.ActiveCount = 1 => /\ Unwoken(r) = 0 /\ r.Semaphore = 0
                              /\ \A u \in Threads : r.call[u] # "releaseSemaphore"
                              /\ \A u \in Threads \ {t} : r.mode[u] = "none"
      /\ \A u \in Threads : r.call[u] # "setEvent"
  <2>1. Releasing(r, t)
    BY ReleaseFacts
  <2> QED  BY <2>1 DEF Releasing
<1>3. s \in State
  BY <1>1 DEF Fields
<1>4. Entries(s)
  BY <1>1, <1>2, ResourceAssumption DEF IInv, Entries, Fields, Waits, State
<1>5. Ownership(s)
  BY <1>1, <1>2, ResourceAssumption DEF IInv, Ownership, Fields, State
<1>6. Wakers(s)
  BY <1>1, <1>2 DEF IInv, Wakers, Fields, State
<1>7. Unwoken(s) = Unwoken(r) /\ Unwoken(r) \in Nat
  <2>1. /\ r \in State /\ Wakers(r) /\ s.Semaphore = r.Semaphore /\ s.Number = r.Number
        /\ \A u \in Threads : s.call[u] = "releaseSemaphore" <=> r.call[u] = "releaseSemaphore"
    BY <1>1, <1>2 DEF IInv, Fields, State
  <2> QED  BY <1>3, <1>6, <2>1, UnwokenStays
<1>8. Having(s, "shared") = Having(r, "shared")
  BY <1>1, <1>2 DEF Having, Fields, State
<1>9. Calling(s, {"shared", "late"}) = Calling(r, {"shared", "late"})
  BY <1>1, <1>2 DEF Calling, Fields, State
<1>10. Calling(s, {"exclusive"}) = Calling(r, {"exclusive"})
  BY <1>1, <1>2 DEF Calling, Fields, State
<1>11. Counted(s)
  <2>1. Having(r, "shared") \in SUBSET Threads /\ Calling(r, {"shared", "late"}) \in SUBSET Threads /\ Calling(r, {"exclusive"}) \in SUBSET Threads
    BY DEF Having, Calling
  <2>2. Cardinality(Having(r, "shared")) \in Nat /\ Cardinality(Calling(r, {"shared", "late"})) \in Nat /\ Cardinality(Calling(r, {"exclusive"})) \in Nat
    BY <2>1, Numbers
  <2> QED  BY <1>1, <1>2, <1>7, <1>8, <1>9, <1>10, <2>2, ResourceAssumption DEF IInv, Counted, Fields, State
<1>12. Locks(r, s)
  BY <1>1 DEF Fields, Locks
<1>13. Beside(r, s, t)
  BY <1>1, <1>2 DEF Fields, Beside, State
<1> QED  BY <1>3, <1>4, <1>5, <1>6, <1>11, <1>12, <1>13 DEF IInv, Kept

\* A reader leaves, others stay.
LEMMA ReleaseLeavesFields ==
    ASSUME NEW r \in State, NEW s, NEW t \in Threads,
           Release(r, s, t), r.Exclusive => r.Owner = t, r.Count[t] >= 1, r.depth[t] >= 1, r.ActiveCount >= 1, r.Count[t] = 1, r.ActiveCount > 1
    PROVE  Fields(s, r.ActiveCount - 1, r.Exclusive, IF r.Owner = t THEN Nobody ELSE r.Owner, [r.Count EXCEPT ![t] = r.Count[t] - 1],
                  r.SharedWaiters, r.ExclusiveWaiters, r.Event, r.Semaphore,
                  r.call, r.Number,
                  [r.mode EXCEPT ![t] = "none"], [r.depth EXCEPT ![t] = r.depth[t] - 1])
<1>1. r \in State /\ r.ActiveCount \in Nat /\ r.Semaphore \in Nat
      /\ r.SharedWaiters \in Nat /\ r.ExclusiveWaiters \in Nat
      /\ r.Count[t] \in Nat /\ r.depth[t] \in Nat /\ r.Number[t] \in Nat
  BY DEF State
<1>2. PICK left \in State, gone \in State : Parted(r, s, left, gone, t)
  BY ReleaseParts
<1>3. s = gone
  BY <1>1, <1>2 DEF Parted
<1>4. s \in State
  BY <1>2, <1>3
<1> QED  BY <1>2, <1>3, <1>4 DEF Parted, Fields

LEMMA ReleaseLeavesKeeps ==
    ASSUME NEW r, NEW s, IInv(r), NEW t \in Threads,
           Release(r, s, t), r.Exclusive => r.Owner = t, r.Count[t] >= 1, r.depth[t] >= 1, r.ActiveCount >= 1, r.Count[t] = 1, r.ActiveCount > 1
    PROVE  Kept(r, s, t)
<1>1. Fields(s, r.ActiveCount - 1, r.Exclusive, IF r.Owner = t THEN Nobody ELSE r.Owner, [r.Count EXCEPT ![t] = r.Count[t] - 1],
                  r.SharedWaiters, r.ExclusiveWaiters, r.Event, r.Semaphore,
                  r.call, r.Number,
                  [r.mode EXCEPT ![t] = "none"], [r.depth EXCEPT ![t] = r.depth[t] - 1])
  BY ReleaseLeavesFields DEF IInv
<1>2. /\ r \in State /\ r.call[t] = "none" /\ r.mode[t] # "none"
      /\ IF r.Exclusive THEN r.Owner = t /\ r.mode[t] = "exclusive" ELSE r.mode[t] = "shared"
      /\ r.Count[t] = r.depth[t] /\ r.depth[t] >= 1 /\ r.ActiveCount >= 1
      /\ r.Exclusive => r.ActiveCount = 1
      /\ r.ActiveCount = 1 => /\ Unwoken(r) = 0 /\ r.Semaphore = 0
                              /\ \A u \in Threads : r.call[u] # "releaseSemaphore"
                              /\ \A u \in Threads \ {t} : r.mode[u] = "none"
      /\ \A u \in Threads : r.call[u] # "setEvent"
  <2>1. Releasing(r, t)
    BY ReleaseFacts
  <2> QED  BY <2>1 DEF Releasing
<1>3. s \in State
  BY <1>1 DEF Fields
<1>4. Entries(s)
  BY <1>1, <1>2, ResourceAssumption DEF IInv, Entries, Fields, Waits, State
<1>5. Ownership(s)
  BY <1>1, <1>2, ResourceAssumption DEF IInv, Ownership, Fields, State
<1>6. Wakers(s)
  BY <1>1, <1>2 DEF IInv, Wakers, Fields, State
<1>7. Unwoken(s) = Unwoken(r) /\ Unwoken(r) \in Nat
  <2>1. /\ r \in State /\ Wakers(r) /\ s.Semaphore = r.Semaphore /\ s.Number = r.Number
        /\ \A u \in Threads : s.call[u] = "releaseSemaphore" <=> r.call[u] = "releaseSemaphore"
    BY <1>1, <1>2 DEF IInv, Fields, State
  <2> QED  BY <1>3, <1>6, <2>1, UnwokenStays
<1>8. Cardinality(Having(s, "shared")) = Cardinality(Having(r, "shared")) - 1
  <2>1. Having(s, "shared") = Having(r, "shared") \ {t} /\ t \in Having(r, "shared") /\ Having(r, "shared") \in SUBSET Threads
    BY <1>1, <1>2 DEF Having, Fields, State
  <2> QED  BY <2>1, Leaves
<1>9. Calling(s, {"shared", "late"}) = Calling(r, {"shared", "late"})
  BY <1>1, <1>2 DEF Calling, Fields, State
<1>10. Calling(s, {"exclusive"}) = Calling(r, {"exclusive"})
  BY <1>1, <1>2 DEF Calling, Fields, State
<1>11. Counted(s)
  <2>1. Having(r, "shared") \in SUBSET Threads /\ Calling(r, {"shared", "late"}) \in SUBSET Threads /\ Calling(r, {"exclusive"}) \in SUBSET Threads
    BY DEF Having, Calling
  <2>2. Cardinality(Having(r, "shared")) \in Nat /\ Cardinality(Calling(r, {"shared", "late"})) \in Nat /\ Cardinality(Calling(r, {"exclusive"})) \in Nat
    BY <2>1, Numbers
  <2> QED  BY <1>1, <1>2, <1>7, <1>8, <1>9, <1>10, <2>2, ResourceAssumption DEF IInv, Counted, Fields, State
<1>12. Locks(r, s)
  BY <1>1, <1>2 DEF Fields, Locks
<1>13. Beside(r, s, t)
  BY <1>1, <1>2 DEF Fields, Beside, State
<1> QED  BY <1>3, <1>4, <1>5, <1>6, <1>11, <1>12, <1>13 DEF IInv, Kept

\* The writer leaves to the shared waiters.
LEMMA ReleaseToSharedFields ==
    ASSUME NEW r \in State, NEW s, NEW t \in Threads,
           Release(r, s, t), r.Exclusive => r.Owner = t, r.Count[t] >= 1, r.depth[t] >= 1, r.ActiveCount >= 1,
           r.Count[t] = 1, r.ActiveCount = 1, r.Exclusive, r.SharedWaiters > 0
    PROVE  Fields(s, r.SharedWaiters, FALSE, IF r.Owner = t THEN Nobody ELSE r.Owner, [r.Count EXCEPT ![t] = r.Count[t] - 1],
                  0, r.ExclusiveWaiters, r.Event, r.Semaphore,
                  [r.call EXCEPT ![t] = "releaseSemaphore"], [r.Number EXCEPT ![t] = r.SharedWaiters],
                  [r.mode EXCEPT ![t] = "none"], [r.depth EXCEPT ![t] = r.depth[t] - 1])
<1>1. r \in State /\ r.ActiveCount \in Nat /\ r.Semaphore \in Nat
      /\ r.SharedWaiters \in Nat /\ r.ExclusiveWaiters \in Nat
      /\ r.Count[t] \in Nat /\ r.depth[t] \in Nat /\ r.Number[t] \in Nat
  BY DEF State
<1>2. PICK left \in State, gone \in State : Parted(r, s, left, gone, t)
  BY ReleaseParts
<1>3. s = GrantShared(gone, t)
  BY <1>1, <1>2 DEF Parted, HandOver
<1>4. /\ GrantShared(gone, t) \in State
      /\ GrantShared(gone, t).ActiveCount = gone.ActiveCount + gone.SharedWaiters
      /\ GrantShared(gone, t).Exclusive = FALSE
      /\ GrantShared(gone, t).Owner = gone.Owner
      /\ GrantShared(gone, t).Count = gone.Count
      /\ GrantShared(gone, t).SharedWaiters = 0
      /\ GrantShared(gone, t).ExclusiveWaiters = gone.ExclusiveWaiters
      /\ GrantShared(gone, t).Event = gone.Event
      /\ GrantShared(gone, t).Semaphore = gone.Semaphore
      /\ GrantShared(gone, t).call = [gone.call EXCEPT ![t] = "releaseSemaphore"]
      /\ GrantShared(gone, t).Number = [gone.Number EXCEPT ![t] = gone.SharedWaiters]
      /\ GrantShared(gone, t).mode = gone.mode
      /\ GrantShared(gone, t).depth = gone.depth
  BY <1>2, GrantSharedIs
<1> QED  BY <1>1, <1>2, <1>3, <1>4 DEF Parted, Fields

LEMMA ReleaseToSharedKeeps ==
    ASSUME NEW r, NEW s, IInv(r), NEW t \in Threads,
           Release(r, s, t), r.Exclusive => r.Owner = t, r.Count[t] >= 1, r.depth[t] >= 1, r.ActiveCount >= 1,
           r.Count[t] = 1, r.ActiveCount = 1, r.Exclusive, r.SharedWaiters > 0
    PROVE  Kept(r, s, t)
<1>1. Fields(s, r.SharedWaiters, FALSE, IF r.Owner = t THEN Nobody ELSE r.Owner, [r.Count EXCEPT ![t] = r.Count[t] - 1],
                  0, r.ExclusiveWaiters, r.Event, r.Semaphore,
                  [r.call EXCEPT ![t] = "releaseSemaphore"], [r.Number EXCEPT ![t] = r.SharedWaiters],
                  [r.mode EXCEPT ![t] = "none"], [r.depth EXCEPT ![t] = r.depth[t] - 1])
  BY ReleaseToSharedFields DEF IInv
<1>2. /\ r \in State /\ r.call[t] = "none" /\ r.mode[t] # "none"
      /\ IF r.Exclusive THEN r.Owner = t /\ r.mode[t] = "exclusive" ELSE r.mode[t] = "shared"
      /\ r.Count[t] = r.depth[t] /\ r.depth[t] >= 1 /\ r.ActiveCount >= 1
      /\ r.Exclusive => r.ActiveCount = 1
      /\ r.ActiveCount = 1 => /\ Unwoken(r) = 0 /\ r.Semaphore = 0
                              /\ \A u \in Threads : r.call[u] # "releaseSemaphore"
                              /\ \A u \in Threads \ {t} : r.mode[u] = "none"
      /\ \A u \in Threads : r.call[u] # "setEvent"
  <2>1. Releasing(r, t)
    BY ReleaseFacts
  <2> QED  BY <2>1 DEF Releasing
<1>3. s \in State
  BY <1>1 DEF Fields
<1>4. Entries(s)
  BY <1>1, <1>2, ResourceAssumption DEF IInv, Entries, Fields, Waits, State
<1>5. Ownership(s)
  BY <1>1, <1>2, ResourceAssumption DEF IInv, Ownership, Fields, State
<1>6. Wakers(s)
  BY <1>1, <1>2 DEF IInv, Wakers, Fields, State
<1>7. Unwoken(s) = r.SharedWaiters /\ Unwoken(r) = 0
  <2>1. s.call[t] = "releaseSemaphore" /\ s.Number[t] = r.SharedWaiters /\ s.Semaphore = 0
    BY <1>1, <1>2 DEF Fields, State
  <2>2. Wakers(r) /\ r \in State /\ (\A u \in Threads : r.call[u] # "releaseSemaphore") /\ r.Semaphore = 0 /\ r.SharedWaiters \in Nat
    BY <1>2 DEF IInv, State
  <2> QED  BY <1>3, <1>6, <2>1, <2>2, UnwokenIs
<1>8. Cardinality(Having(s, "shared")) = 0
  <2>1. Having(s, "shared") = {}
    BY <1>1, <1>2 DEF Having, Fields, State
  <2> QED  BY <2>1, FS_EmptySet
<1>9. Calling(s, {"shared", "late"}) = Calling(r, {"shared", "late"})
  BY <1>1, <1>2 DEF Calling, Fields, State
<1>10. Calling(s, {"exclusive"}) = Calling(r, {"exclusive"})
  BY <1>1, <1>2 DEF Calling, Fields, State
<1>11. Counted(s)
  <2>1. Having(r, "shared") \in SUBSET Threads /\ Calling(r, {"shared", "late"}) \in SUBSET Threads /\ Calling(r, {"exclusive"}) \in SUBSET Threads
    BY DEF Having, Calling
  <2>2. Cardinality(Having(r, "shared")) \in Nat /\ Cardinality(Calling(r, {"shared", "late"})) \in Nat /\ Cardinality(Calling(r, {"exclusive"})) \in Nat
    BY <2>1, Numbers
  <2> QED  BY <1>1, <1>2, <1>7, <1>8, <1>9, <1>10, <2>2, ResourceAssumption DEF IInv, Counted, Fields, State
<1>12. Locks(r, s)
  BY <1>1, <1>2 DEF Fields, Locks
<1>13. Beside(r, s, t)
  BY <1>1, <1>2 DEF Fields, Beside, State
<1> QED  BY <1>3, <1>4, <1>5, <1>6, <1>11, <1>12, <1>13 DEF IInv, Kept

\* The last one leaves to an exclusive waiter.
LEMMA ReleaseToExclusiveFields ==
    ASSUME NEW r \in State, NEW s, NEW t \in Threads,
           Release(r, s, t), r.Exclusive => r.Owner = t, r.Count[t] >= 1, r.depth[t] >= 1, r.ActiveCount >= 1,
           r.Count[t] = 1, r.ActiveCount = 1,
           ~(r.Exclusive /\ r.SharedWaiters > 0), r.ExclusiveWaiters > 0
    PROVE  Fields(s, 1, TRUE, Granted, [r.Count EXCEPT ![t] = r.Count[t] - 1, ![Granted] = 1],
                  r.SharedWaiters, r.ExclusiveWaiters - 1, r.Event, r.Semaphore,
                  [r.call EXCEPT ![t] = "setEvent"], r.Number,
                  [r.mode EXCEPT ![t] = "none"], [r.depth EXCEPT ![t] = r.depth[t] - 1])
<1>1. r \in State /\ r.ActiveCount \in Nat /\ r.Semaphore \in Nat
      /\ r.SharedWaiters \in Nat /\ r.ExclusiveWaiters \in Nat
      /\ r.Count[t] \in Nat /\ r.depth[t] \in Nat /\ r.Number[t] \in Nat
  BY DEF State
<1>2. PICK left \in State, gone \in State : Parted(r, s, left, gone, t)
  BY ReleaseParts
<1>3. s = GrantExclusive(gone, t)
  BY <1>1, <1>2 DEF Parted, HandOver
<1>4. /\ GrantExclusive(gone, t) \in State
      /\ GrantExclusive(gone, t).ActiveCount = 1
      /\ GrantExclusive(gone, t).Exclusive = TRUE
      /\ GrantExclusive(gone, t).Owner = Granted
      /\ GrantExclusive(gone, t).Count = [gone.Count EXCEPT ![Granted] = 1]
      /\ GrantExclusive(gone, t).SharedWaiters = gone.SharedWaiters
      /\ GrantExclusive(gone, t).ExclusiveWaiters = gone.ExclusiveWaiters - 1
      /\ GrantExclusive(gone, t).Event = gone.Event
      /\ GrantExclusive(gone, t).Semaphore = gone.Semaphore
      /\ GrantExclusive(gone, t).call = [gone.call EXCEPT ![t] = "setEvent"]
      /\ GrantExclusive(gone, t).Number = gone.Number
      /\ GrantExclusive(gone, t).mode = gone.mode
      /\ GrantExclusive(gone, t).depth = gone.depth
  <2>1. gone.ExclusiveWaiters > 0
    BY <1>2 DEF Parted
  <2> QED  BY <1>2, <2>1, GrantExclusiveIs
<1> QED  BY <1>1, <1>2, <1>3, <1>4 DEF Parted, Fields

LEMMA ReleaseToExclusiveKeeps ==
    ASSUME NEW r, NEW s, IInv(r), NEW t \in Threads,
           Release(r, s, t), r.Exclusive => r.Owner = t, r.Count[t] >= 1, r.depth[t] >= 1, r.ActiveCount >= 1,
           r.Count[t] = 1, r.ActiveCount = 1,
           ~(r.Exclusive /\ r.SharedWaiters > 0), r.ExclusiveWaiters > 0
    PROVE  Kept(r, s, t)
<1>1. Fields(s, 1, TRUE, Granted, [r.Count EXCEPT ![t] = r.Count[t] - 1, ![Granted] = 1],
                  r.SharedWaiters, r.ExclusiveWaiters - 1, r.Event, r.Semaphore,
                  [r.call EXCEPT ![t] = "setEvent"], r.Number,
                  [r.mode EXCEPT ![t] = "none"], [r.depth EXCEPT ![t] = r.depth[t] - 1])
  BY ReleaseToExclusiveFields DEF IInv
<1>2. /\ r \in State /\ r.call[t] = "none" /\ r.mode[t] # "none"
      /\ IF r.Exclusive THEN r.Owner = t /\ r.mode[t] = "exclusive" ELSE r.mode[t] = "shared"
      /\ r.Count[t] = r.depth[t] /\ r.depth[t] >= 1 /\ r.ActiveCount >= 1
      /\ r.Exclusive => r.ActiveCount = 1
      /\ r.ActiveCount = 1 => /\ Unwoken(r) = 0 /\ r.Semaphore = 0
                              /\ \A u \in Threads : r.call[u] # "releaseSemaphore"
                              /\ \A u \in Threads \ {t} : r.mode[u] = "none"
      /\ \A u \in Threads : r.call[u] # "setEvent"
  <2>1. Releasing(r, t)
    BY ReleaseFacts
  <2> QED  BY <2>1 DEF Releasing
<1>3. s \in State
  BY <1>1 DEF Fields
<1>4. Entries(s)
  BY <1>1, <1>2, ResourceAssumption DEF IInv, Entries, Fields, Waits, State
<1>5. Ownership(s)
  BY <1>1, <1>2, ResourceAssumption DEF IInv, Ownership, Fields, State
<1>6. Wakers(s)
  BY <1>1, <1>2 DEF IInv, Wakers, Fields, State
<1>7. Unwoken(s) = 0 /\ Unwoken(r) = 0
  BY <1>1, <1>2, <1>3, <1>6, UnwokenIs DEF IInv, Wakers, Fields
<1>8. Cardinality(Having(s, "shared")) = 0
  <2>1. Having(s, "shared") = {}
    BY <1>1, <1>2 DEF Having, Fields, State
  <2> QED  BY <2>1, FS_EmptySet
<1>9. Calling(s, {"shared", "late"}) = Calling(r, {"shared", "late"})
  BY <1>1, <1>2 DEF Calling, Fields, State
<1>10. Calling(s, {"exclusive"}) = Calling(r, {"exclusive"})
  BY <1>1, <1>2 DEF Calling, Fields, State
<1>11. Counted(s)
  <2>1. Having(r, "shared") \in SUBSET Threads /\ Calling(r, {"shared", "late"}) \in SUBSET Threads /\ Calling(r, {"exclusive"}) \in SUBSET Threads
    BY DEF Having, Calling
  <2>2. Cardinality(Having(r, "shared")) \in Nat /\ Cardinality(Calling(r, {"shared", "late"})) \in Nat /\ Cardinality(Calling(r, {"exclusive"})) \in Nat
    BY <2>1, Numbers
  <2> QED  BY <1>1, <1>2, <1>7, <1>8, <1>9, <1>10, <2>2, ResourceAssumption DEF IInv, Counted, Fields, State
<1>12. Locks(r, s)
  BY <1>1, <1>2 DEF Fields, Locks
<1>13. Beside(r, s, t)
  BY <1>1, <1>2 DEF Fields, Beside, State
<1> QED  BY <1>3, <1>4, <1>5, <1>6, <1>11, <1>12, <1>13 DEF IInv, Kept

\* The last one leaves, and nobody waits that it would wake.
LEMMA ReleaseToNobodyFields ==
    ASSUME NEW r \in State, NEW s, NEW t \in Threads,
           Release(r, s, t), r.Exclusive => r.Owner = t, r.Count[t] >= 1, r.depth[t] >= 1, r.ActiveCount >= 1,
           r.Count[t] = 1, r.ActiveCount = 1,
           ~(r.Exclusive /\ r.SharedWaiters > 0), r.ExclusiveWaiters = 0
    PROVE  Fields(s, 0, FALSE, IF r.Owner = t THEN Nobody ELSE r.Owner, [r.Count EXCEPT ![t] = r.Count[t] - 1],
                  r.SharedWaiters, r.ExclusiveWaiters, r.Event, r.Semaphore,
                  r.call, r.Number,
                  [r.mode EXCEPT ![t] = "none"], [r.depth EXCEPT ![t] = r.depth[t] - 1])
<1>1. r \in State /\ r.ActiveCount \in Nat /\ r.Semaphore \in Nat
      /\ r.SharedWaiters \in Nat /\ r.ExclusiveWaiters \in Nat
      /\ r.Count[t] \in Nat /\ r.depth[t] \in Nat /\ r.Number[t] \in Nat
  BY DEF State
<1>2. PICK left \in State, gone \in State : Parted(r, s, left, gone, t)
  BY ReleaseParts
<1>3. s = [gone EXCEPT !.Exclusive = FALSE]
  BY <1>1, <1>2 DEF Parted, HandOver
<1>4. s \in State
  BY <1>2, <1>3 DEF State
<1>5. /\ s.ActiveCount = gone.ActiveCount /\ s.Exclusive = FALSE
      /\ s.Owner = gone.Owner /\ s.Count = gone.Count
      /\ s.SharedWaiters = gone.SharedWaiters /\ s.ExclusiveWaiters = gone.ExclusiveWaiters
      /\ s.Event = gone.Event /\ s.Semaphore = gone.Semaphore /\ s.call = gone.call
      /\ s.Number = gone.Number /\ s.mode = gone.mode /\ s.depth = gone.depth
  BY <1>2, <1>3 DEF State
<1> QED  BY <1>1, <1>2, <1>4, <1>5 DEF Parted, Fields

LEMMA ReleaseToNobodyKeeps ==
    ASSUME NEW r, NEW s, IInv(r), NEW t \in Threads,
           Release(r, s, t), r.Exclusive => r.Owner = t, r.Count[t] >= 1, r.depth[t] >= 1, r.ActiveCount >= 1,
           r.Count[t] = 1, r.ActiveCount = 1,
           ~(r.Exclusive /\ r.SharedWaiters > 0), r.ExclusiveWaiters = 0
    PROVE  Kept(r, s, t)
<1>1. Fields(s, 0, FALSE, IF r.Owner = t THEN Nobody ELSE r.Owner, [r.Count EXCEPT ![t] = r.Count[t] - 1],
                  r.SharedWaiters, r.ExclusiveWaiters, r.Event, r.Semaphore,
                  r.call, r.Number,
                  [r.mode EXCEPT ![t] = "none"], [r.depth EXCEPT ![t] = r.depth[t] - 1])
  BY ReleaseToNobodyFields DEF IInv
<1>2. /\ r \in State /\ r.call[t] = "none" /\ r.mode[t] # "none"
      /\ IF r.Exclusive THEN r.Owner = t /\ r.mode[t] = "exclusive" ELSE r.mode[t] = "shared"
      /\ r.Count[t] = r.depth[t] /\ r.depth[t] >= 1 /\ r.ActiveCount >= 1
      /\ r.Exclusive => r.ActiveCount = 1
      /\ r.ActiveCount = 1 => /\ Unwoken(r) = 0 /\ r.Semaphore = 0
                              /\ \A u \in Threads : r.call[u] # "releaseSemaphore"
                              /\ \A u \in Threads \ {t} : r.mode[u] = "none"
      /\ \A u \in Threads : r.call[u] # "setEvent"
  <2>1. Releasing(r, t)
    BY ReleaseFacts
  <2> QED  BY <2>1 DEF Releasing
<1>3. s \in State
  BY <1>1 DEF Fields
<1>4. Entries(s)
  BY <1>1, <1>2, ResourceAssumption DEF IInv, Entries, Fields, Waits, State
<1>5. Ownership(s)
  BY <1>1, <1>2, ResourceAssumption DEF IInv, Ownership, Fields, State
<1>6. Wakers(s)
  BY <1>1, <1>2 DEF IInv, Wakers, Fields, State
<1>7. Unwoken(s) = 0 /\ Unwoken(r) = 0
  BY <1>1, <1>2, <1>3, <1>6, UnwokenIs DEF IInv, Wakers, Fields
<1>8. Cardinality(Having(s, "shared")) = 0
  <2>1. Having(s, "shared") = {}
    BY <1>1, <1>2 DEF Having, Fields, State
  <2> QED  BY <2>1, FS_EmptySet
<1>9. Calling(s, {"shared", "late"}) = Calling(r, {"shared", "late"})
  BY <1>1, <1>2 DEF Calling, Fields, State
<1>10. Calling(s, {"exclusive"}) = Calling(r, {"exclusive"})
  BY <1>1, <1>2 DEF Calling, Fields, State
<1>11. Counted(s)
  <2>1. Having(r, "shared") \in SUBSET Threads /\ Calling(r, {"shared", "late"}) \in SUBSET Threads /\ Calling(r, {"exclusive"}) \in SUBSET Threads
    BY DEF Having, Calling
  <2>2. Cardinality(Having(r, "shared")) \in Nat /\ Cardinality(Calling(r, {"shared", "late"})) \in Nat /\ Cardinality(Calling(r, {"exclusive"})) \in Nat
    BY <2>1, Numbers
  <2> QED  BY <1>1, <1>2, <1>7, <1>8, <1>9, <1>10, <2>2, ResourceAssumption DEF IInv, Counted, Fields, State
<1>12. Locks(r, s)
  BY <1>1, <1>2 DEF Fields, Locks
<1>13. Beside(r, s, t)
  BY <1>1, <1>2 DEF Fields, Beside, State
<1> QED  BY <1>3, <1>4, <1>5, <1>6, <1>11, <1>12, <1>13 DEF IInv, Kept

\* The writer becomes a reader.
LEMMA ConvertAloneFields ==
    ASSUME NEW r \in State, NEW s, NEW t \in Threads,
           Convert(r, s, t), r.SharedWaiters = 0
    PROVE  Fields(s, r.ActiveCount, FALSE, r.Owner, r.Count,
                  r.SharedWaiters, r.ExclusiveWaiters, r.Event, r.Semaphore,
                  r.call, r.Number,
                  [r.mode EXCEPT ![t] = "shared"], r.depth)
<1>1. r \in State /\ r.ActiveCount \in Nat /\ r.Semaphore \in Nat
      /\ r.SharedWaiters \in Nat /\ r.ExclusiveWaiters \in Nat
      /\ r.Count[t] \in Nat /\ r.depth[t] \in Nat /\ r.Number[t] \in Nat
  BY DEF State
<1> DEFINE new == [ActiveCount |-> r.ActiveCount, Exclusive |-> FALSE,
                  Owner |-> r.Owner, Count |-> r.Count,
                  SharedWaiters |-> r.SharedWaiters, ExclusiveWaiters |-> r.ExclusiveWaiters,
                  Event |-> r.Event, Semaphore |-> r.Semaphore,
                  call |-> r.call, Number |-> r.Number,
                  mode |-> [r.mode EXCEPT ![t] = "shared"], depth |-> r.depth]
<1>2. new \in State
  BY <1>1, ResourceAssumption DEF State, Convert, Idle, OwnsExclusive, GrantShared
<1>3. s = new
  <2> DEFINE shared == [r EXCEPT !.Exclusive = FALSE, !.mode[t] = "shared"]
  <2>1. shared.SharedWaiters = r.SharedWaiters
    BY <1>1 DEF State
  <2>2. s = IF shared.SharedWaiters > 0 THEN GrantShared(shared, t) ELSE shared
    BY DEF Convert
  <2>3. s = shared
    BY <1>1, <2>1, <2>2
  <2> QED  BY <1>1, <2>3 DEF State
<1> QED  BY <1>2, <1>3 DEF Fields

LEMMA ConvertAloneKeeps ==
    ASSUME NEW r, NEW s, IInv(r), NEW t \in Threads,
           Convert(r, s, t), r.SharedWaiters = 0
    PROVE  Kept(r, s, t)
<1>1. Fields(s, r.ActiveCount, FALSE, r.Owner, r.Count,
                  r.SharedWaiters, r.ExclusiveWaiters, r.Event, r.Semaphore,
                  r.call, r.Number,
                  [r.mode EXCEPT ![t] = "shared"], r.depth)
  BY ConvertAloneFields DEF IInv
<1>2. /\ r \in State /\ r.call[t] = "none" /\ r.mode[t] = "exclusive" /\ r.Exclusive /\ r.Owner = t
      /\ r.Semaphore = 0 /\ r.ActiveCount = 1 /\ r.Count[t] = r.depth[t] /\ r.depth[t] >= 1
      /\ \A u \in Threads : r.call[u] \notin {"releaseSemaphore", "setEvent"}
      /\ \A u \in Threads \ {t} : r.mode[u] = "none"
  BY ResourceAssumption DEF IInv, Convert, Idle, OwnsExclusive, Ownership, Wakers, Entries, Counted, State
<1>3. s \in State
  BY <1>1 DEF Fields
<1>4. Entries(s)
  BY <1>1, <1>2, ResourceAssumption DEF IInv, Entries, Fields, Waits, State
<1>5. Ownership(s)
  BY <1>1, <1>2, ResourceAssumption DEF IInv, Ownership, Fields, State
<1>6. Wakers(s)
  BY <1>1, <1>2 DEF IInv, Wakers, Fields, State
<1>7. Unwoken(s) = 0 /\ Unwoken(r) = 0
  BY <1>1, <1>2, <1>3, <1>6, UnwokenIs DEF IInv, Wakers, Fields
<1>8. Cardinality(Having(s, "shared")) = 1
  <2>1. Having(s, "shared") = {t}
    BY <1>1, <1>2 DEF Having, Fields, State
  <2> QED  BY <2>1, FS_Singleton
<1>9. Calling(s, {"shared", "late"}) = Calling(r, {"shared", "late"})
  BY <1>1, <1>2 DEF Calling, Fields, State
<1>10. Calling(s, {"exclusive"}) = Calling(r, {"exclusive"})
  BY <1>1, <1>2 DEF Calling, Fields, State
<1>11. Counted(s)
  <2>1. Having(r, "shared") \in SUBSET Threads /\ Calling(r, {"shared", "late"}) \in SUBSET Threads /\ Calling(r, {"exclusive"}) \in SUBSET Threads
    BY DEF Having, Calling
  <2>2. Cardinality(Having(r, "shared")) \in Nat /\ Cardinality(Calling(r, {"shared", "late"})) \in Nat /\ Cardinality(Calling(r, {"exclusive"})) \in Nat
    BY <2>1, Numbers
  <2> QED  BY <1>1, <1>2, <1>7, <1>8, <1>9, <1>10, <2>2, ResourceAssumption DEF IInv, Counted, Fields, State
<1>12. Locks(r, s)
  BY <1>1, <1>2 DEF Fields, Locks
<1>13. Beside(r, s, t)
  BY <1>1, <1>2 DEF Fields, Beside, State
<1> QED  BY <1>3, <1>4, <1>5, <1>6, <1>11, <1>12, <1>13 DEF IInv, Kept

\* The writer becomes a reader beside those that waited.
LEMMA ConvertWakesFields ==
    ASSUME NEW r \in State, NEW s, NEW t \in Threads,
           Convert(r, s, t), r.SharedWaiters > 0
    PROVE  Fields(s, r.ActiveCount + r.SharedWaiters, FALSE, r.Owner, r.Count,
                  0, r.ExclusiveWaiters, r.Event, r.Semaphore,
                  [r.call EXCEPT ![t] = "releaseSemaphore"], [r.Number EXCEPT ![t] = r.SharedWaiters],
                  [r.mode EXCEPT ![t] = "shared"], r.depth)
<1>1. r \in State /\ r.ActiveCount \in Nat /\ r.Semaphore \in Nat
      /\ r.SharedWaiters \in Nat /\ r.ExclusiveWaiters \in Nat
      /\ r.Count[t] \in Nat /\ r.depth[t] \in Nat /\ r.Number[t] \in Nat
  BY DEF State
<1> DEFINE new == [ActiveCount |-> r.ActiveCount + r.SharedWaiters, Exclusive |-> FALSE,
                  Owner |-> r.Owner, Count |-> r.Count,
                  SharedWaiters |-> 0, ExclusiveWaiters |-> r.ExclusiveWaiters,
                  Event |-> r.Event, Semaphore |-> r.Semaphore,
                  call |-> [r.call EXCEPT ![t] = "releaseSemaphore"], Number |-> [r.Number EXCEPT ![t] = r.SharedWaiters],
                  mode |-> [r.mode EXCEPT ![t] = "shared"], depth |-> r.depth]
<1>2. new \in State
  BY <1>1, ResourceAssumption DEF State, Convert, Idle, OwnsExclusive, GrantShared, Signals
<1>3. s = new
  BY <1>1 DEF State, Convert, Idle, OwnsExclusive, GrantShared, Signals
<1> QED  BY <1>2, <1>3 DEF Fields

LEMMA ConvertWakesKeeps ==
    ASSUME NEW r, NEW s, IInv(r), NEW t \in Threads,
           Convert(r, s, t), r.SharedWaiters > 0
    PROVE  Kept(r, s, t)
<1>1. Fields(s, r.ActiveCount + r.SharedWaiters, FALSE, r.Owner, r.Count,
                  0, r.ExclusiveWaiters, r.Event, r.Semaphore,
                  [r.call EXCEPT ![t] = "releaseSemaphore"], [r.Number EXCEPT ![t] = r.SharedWaiters],
                  [r.mode EXCEPT ![t] = "shared"], r.depth)
  BY ConvertWakesFields DEF IInv
<1>2. /\ r \in State /\ r.call[t] = "none" /\ r.mode[t] = "exclusive" /\ r.Exclusive /\ r.Owner = t
      /\ r.Semaphore = 0 /\ r.ActiveCount = 1 /\ r.Count[t] = r.depth[t] /\ r.depth[t] >= 1
      /\ \A u \in Threads : r.call[u] \notin {"releaseSemaphore", "setEvent"}
      /\ \A u \in Threads \ {t} : r.mode[u] = "none"
  BY ResourceAssumption DEF IInv, Convert, Idle, OwnsExclusive, Ownership, Wakers, Entries, Counted, State
<1>3. s \in State
  BY <1>1 DEF Fields
<1>4. Entries(s)
  BY <1>1, <1>2, ResourceAssumption DEF IInv, Entries, Fields, Waits, State
<1>5. Ownership(s)
  BY <1>1, <1>2, ResourceAssumption DEF IInv, Ownership, Fields, State
<1>6. Wakers(s)
  BY <1>1, <1>2 DEF IInv, Wakers, Fields, State
<1>7. Unwoken(s) = r.SharedWaiters /\ Unwoken(r) = 0
  <2>1. s.call[t] = "releaseSemaphore" /\ s.Number[t] = r.SharedWaiters /\ s.Semaphore = 0
    BY <1>1, <1>2 DEF Fields, State
  <2>2. Wakers(r) /\ r \in State /\ (\A u \in Threads : r.call[u] # "releaseSemaphore") /\ r.Semaphore = 0 /\ r.SharedWaiters \in Nat
    BY <1>2 DEF IInv, State
  <2> QED  BY <1>3, <1>6, <2>1, <2>2, UnwokenIs
<1>8. Cardinality(Having(s, "shared")) = 1
  <2>1. Having(s, "shared") = {t}
    BY <1>1, <1>2 DEF Having, Fields, State
  <2> QED  BY <2>1, FS_Singleton
<1>9. Calling(s, {"shared", "late"}) = Calling(r, {"shared", "late"})
  BY <1>1, <1>2 DEF Calling, Fields, State
<1>10. Calling(s, {"exclusive"}) = Calling(r, {"exclusive"})
  BY <1>1, <1>2 DEF Calling, Fields, State
<1>11. Counted(s)
  <2>1. Having(r, "shared") \in SUBSET Threads /\ Calling(r, {"shared", "late"}) \in SUBSET Threads /\ Calling(r, {"exclusive"}) \in SUBSET Threads
    BY DEF Having, Calling
  <2>2. Cardinality(Having(r, "shared")) \in Nat /\ Cardinality(Calling(r, {"shared", "late"})) \in Nat /\ Cardinality(Calling(r, {"exclusive"})) \in Nat
    BY <2>1, Numbers
  <2> QED  BY <1>1, <1>2, <1>7, <1>8, <1>9, <1>10, <2>2, ResourceAssumption DEF IInv, Counted, Fields, State
<1>12. Locks(r, s)
  BY <1>1, <1>2 DEF Fields, Locks
<1>13. Beside(r, s, t)
  BY <1>1, <1>2 DEF Fields, Beside, State
<1> QED  BY <1>3, <1>4, <1>5, <1>6, <1>11, <1>12, <1>13 DEF IInv, Kept

\* The event is set.
LEMMA SignalEventFields ==
    ASSUME NEW r \in State, NEW s, NEW t \in Threads,
           Signal(r, s, t), r.call[t] = "setEvent"
    PROVE  Fields(s, r.ActiveCount, r.Exclusive, r.Owner, r.Count,
                  r.SharedWaiters, r.ExclusiveWaiters, TRUE, r.Semaphore + r.Number[t],
                  [r.call EXCEPT ![t] = "none"], [r.Number EXCEPT ![t] = 0],
                  r.mode, r.depth)
<1>1. r \in State /\ r.ActiveCount \in Nat /\ r.Semaphore \in Nat
      /\ r.SharedWaiters \in Nat /\ r.ExclusiveWaiters \in Nat
      /\ r.Count[t] \in Nat /\ r.depth[t] \in Nat /\ r.Number[t] \in Nat
  BY DEF State
<1> DEFINE new == [ActiveCount |-> r.ActiveCount, Exclusive |-> r.Exclusive,
                  Owner |-> r.Owner, Count |-> r.Count,
                  SharedWaiters |-> r.SharedWaiters, ExclusiveWaiters |-> r.ExclusiveWaiters,
                  Event |-> TRUE, Semaphore |-> r.Semaphore + r.Number[t],
                  call |-> [r.call EXCEPT ![t] = "none"], Number |-> [r.Number EXCEPT ![t] = 0],
                  mode |-> r.mode, depth |-> r.depth]
<1>2. new \in State
  BY <1>1, ResourceAssumption DEF State, Signal
<1>3. s = new
  BY <1>1 DEF State, Signal
<1> QED  BY <1>2, <1>3 DEF Fields

LEMMA SignalEventKeeps ==
    ASSUME NEW r, NEW s, IInv(r), NEW t \in Threads,
           Signal(r, s, t), r.call[t] = "setEvent"
    PROVE  Kept(r, s, t)
<1>1. Fields(s, r.ActiveCount, r.Exclusive, r.Owner, r.Count,
                  r.SharedWaiters, r.ExclusiveWaiters, TRUE, r.Semaphore + r.Number[t],
                  [r.call EXCEPT ![t] = "none"], [r.Number EXCEPT ![t] = 0],
                  r.mode, r.depth)
  BY SignalEventFields DEF IInv
<1>2. r \in State /\ r.call[t] = "setEvent" /\ r.Owner = Granted /\ r.Exclusive /\ r.Number[t] = 0 /\ r.Semaphore = 0
  BY DEF IInv, Ownership, Wakers, State
<1>3. s \in State
  BY <1>1 DEF Fields
<1>4. Entries(s)
  BY <1>1, <1>2, ResourceAssumption DEF IInv, Entries, Fields, Waits, State
<1>5. Ownership(s)
  BY <1>1, <1>2, ResourceAssumption DEF IInv, Ownership, Fields, State
<1>6. Wakers(s)
  BY <1>1, <1>2 DEF IInv, Wakers, Fields, State
<1>7. Unwoken(s) = 0 /\ Unwoken(r) = 0
  BY <1>1, <1>2, <1>3, <1>6, UnwokenIs DEF IInv, Wakers, Fields
<1>8. Having(s, "shared") = Having(r, "shared")
  BY <1>1, <1>2 DEF Having, Fields, State
<1>9. Calling(s, {"shared", "late"}) = Calling(r, {"shared", "late"})
  BY <1>1, <1>2 DEF Calling, Fields, State
<1>10. Calling(s, {"exclusive"}) = Calling(r, {"exclusive"})
  BY <1>1, <1>2 DEF Calling, Fields, State
<1>11. Counted(s)
  <2>1. Having(r, "shared") \in SUBSET Threads /\ Calling(r, {"shared", "late"}) \in SUBSET Threads /\ Calling(r, {"exclusive"}) \in SUBSET Threads
    BY DEF Having, Calling
  <2>2. Cardinality(Having(r, "shared")) \in Nat /\ Cardinality(Calling(r, {"shared", "late"})) \in Nat /\ Cardinality(Calling(r, {"exclusive"})) \in Nat
    BY <2>1, Numbers
  <2> QED  BY <1>1, <1>2, <1>7, <1>8, <1>9, <1>10, <2>2, ResourceAssumption DEF IInv, Counted, Fields, State
<1>12. Locks(r, s)
  BY <1>1 DEF Fields, Locks
<1>13. Beside(r, s, t)
  BY <1>1, <1>2 DEF Fields, Beside, State
<1> QED  BY <1>3, <1>4, <1>5, <1>6, <1>11, <1>12, <1>13 DEF IInv, Kept

\* The semaphore is released.
LEMMA SignalSemaphoreFields ==
    ASSUME NEW r \in State, NEW s, NEW t \in Threads,
           Signal(r, s, t), r.call[t] = "releaseSemaphore"
    PROVE  Fields(s, r.ActiveCount, r.Exclusive, r.Owner, r.Count,
                  r.SharedWaiters, r.ExclusiveWaiters, r.Event, r.Semaphore + r.Number[t],
                  [r.call EXCEPT ![t] = "none"], [r.Number EXCEPT ![t] = 0],
                  r.mode, r.depth)
<1>1. r \in State /\ r.ActiveCount \in Nat /\ r.Semaphore \in Nat
      /\ r.SharedWaiters \in Nat /\ r.ExclusiveWaiters \in Nat
      /\ r.Count[t] \in Nat /\ r.depth[t] \in Nat /\ r.Number[t] \in Nat
  BY DEF State
<1> DEFINE new == [ActiveCount |-> r.ActiveCount, Exclusive |-> r.Exclusive,
                  Owner |-> r.Owner, Count |-> r.Count,
                  SharedWaiters |-> r.SharedWaiters, ExclusiveWaiters |-> r.ExclusiveWaiters,
                  Event |-> r.Event, Semaphore |-> r.Semaphore + r.Number[t],
                  call |-> [r.call EXCEPT ![t] = "none"], Number |-> [r.Number EXCEPT ![t] = 0],
                  mode |-> r.mode, depth |-> r.depth]
<1>2. new \in State
  BY <1>1, ResourceAssumption DEF State, Signal
<1>3. s = new
  BY <1>1 DEF State, Signal
<1> QED  BY <1>2, <1>3 DEF Fields

LEMMA SignalSemaphoreKeeps ==
    ASSUME NEW r, NEW s, IInv(r), NEW t \in Threads,
           Signal(r, s, t), r.call[t] = "releaseSemaphore"
    PROVE  Kept(r, s, t)
<1>1. Fields(s, r.ActiveCount, r.Exclusive, r.Owner, r.Count,
                  r.SharedWaiters, r.ExclusiveWaiters, r.Event, r.Semaphore + r.Number[t],
                  [r.call EXCEPT ![t] = "none"], [r.Number EXCEPT ![t] = 0],
                  r.mode, r.depth)
  BY SignalSemaphoreFields DEF IInv
<1>2. r \in State /\ r.call[t] = "releaseSemaphore" /\ ~r.Exclusive /\ r.Number[t] \in Nat
  BY DEF IInv, Wakers, State
<1>3. s \in State
  BY <1>1 DEF Fields
<1>4. Entries(s)
  BY <1>1, <1>2, ResourceAssumption DEF IInv, Entries, Fields, Waits, State
<1>5. Ownership(s)
  BY <1>1, <1>2, ResourceAssumption DEF IInv, Ownership, Fields, State
<1>6. Wakers(s)
  BY <1>1, <1>2 DEF IInv, Wakers, Fields, State
<1>7. Unwoken(s) = Unwoken(r) /\ Unwoken(r) \in Nat
  <2>1. \A u \in Threads : s.call[u] # "releaseSemaphore"
    BY <1>1, <1>2 DEF IInv, Wakers, Fields, State
  <2>2. Unwoken(s) = s.Semaphore
    BY <1>3, <1>6, <2>1, UnwokenIs
  <2>3. Unwoken(r) = r.Semaphore + r.Number[t] /\ Unwoken(r) \in Nat
    BY <1>2, UnwokenIs DEF IInv
  <2> QED  BY <1>1, <2>2, <2>3 DEF Fields
<1>8. Having(s, "shared") = Having(r, "shared")
  BY <1>1, <1>2 DEF Having, Fields, State
<1>9. Calling(s, {"shared", "late"}) = Calling(r, {"shared", "late"})
  BY <1>1, <1>2 DEF Calling, Fields, State
<1>10. Calling(s, {"exclusive"}) = Calling(r, {"exclusive"})
  BY <1>1, <1>2 DEF Calling, Fields, State
<1>11. Counted(s)
  <2>1. Having(r, "shared") \in SUBSET Threads /\ Calling(r, {"shared", "late"}) \in SUBSET Threads /\ Calling(r, {"exclusive"}) \in SUBSET Threads
    BY DEF Having, Calling
  <2>2. Cardinality(Having(r, "shared")) \in Nat /\ Cardinality(Calling(r, {"shared", "late"})) \in Nat /\ Cardinality(Calling(r, {"exclusive"})) \in Nat
    BY <2>1, Numbers
  <2> QED  BY <1>1, <1>2, <1>7, <1>8, <1>9, <1>10, <2>2, ResourceAssumption DEF IInv, Counted, Fields, State
<1>12. Locks(r, s)
  BY <1>1 DEF Fields, Locks
<1>13. Beside(r, s, t)
  BY <1>1, <1>2 DEF Fields, Beside, State
<1> QED  BY <1>3, <1>4, <1>5, <1>6, <1>11, <1>12, <1>13 DEF IInv, Kept

-----------------------------------------------------------------------------
LEMMA AcquireExclusiveKeeps ==
    ASSUME NEW r, NEW s, IInv(r), NEW t \in Threads, AcquireExclusive(r, s, t)
    PROVE  Kept(r, s, t)
<1>1. CASE r.ActiveCount = 0 /\ TakeExclusive(r, s, t)
  BY <1>1, TakeExclusiveKeeps DEF AcquireExclusive
<1>2. CASE OwnsExclusive(r, t) /\ TakeAgain(r, s, t)
  <2>1. r.mode[t] # "none"
    BY <1>2, ResourceAssumption DEF IInv, OwnsExclusive, Ownership
  <2> QED  BY <1>2, <2>1, TakeAgainKeeps DEF AcquireExclusive
<1> QED  BY <1>1, <1>2 DEF AcquireExclusive

\* A thread that does not take access again has none.
LEMMA AcquireSharedKeeps ==
    ASSUME NEW r, NEW s, IInv(r), NEW t \in Threads, NEW how, AcquireShared(r, s, t, how)
    PROVE  Kept(r, s, t)
<1>1. Idle(r, t) /\ r \in State /\ Entries(r) /\ Ownership(r) /\ Wakers(r) /\ Counted(r)
  BY DEF IInv, AcquireShared
<1>2. CASE r.ActiveCount # 0 /\ Again(r, t, how)
  <2>1. CASE OwnsExclusive(r, t)
    BY <1>1, <2>1, ResourceAssumption, <1>2, TakeAgainKeeps DEF AcquireShared, OwnsExclusive, Ownership
  <2>2. CASE r.Count[t] > 0
    <3>1. r.mode[t] # "none"
      BY <1>1, <2>2 DEF Entries, Idle
    <3> QED  BY <1>1, <1>2, <3>1, TakeAgainKeeps DEF AcquireShared
  <2> QED  BY <1>2, <2>1, <2>2 DEF Again
<1>3. CASE ~(r.ActiveCount # 0 /\ Again(r, t, how))
  <2>1. Admits(r, how) /\ TakeShared(r, s, t)
    BY <1>3 DEF AcquireShared
  <2>2. CASE r.ActiveCount = 0
    <3>1. ~r.Exclusive /\ r.mode[t] = "none"
      BY <2>2, Unheld
    <3> QED  BY <1>1, <2>1, <3>1, TakeSharedKeeps
  <2>3. CASE r.ActiveCount # 0
    <3>1. ~r.Exclusive /\ (how = "starve" \/ r.ExclusiveWaiters = 0) /\ ~Again(r, t, how)
      BY <1>3, <2>1, <2>3 DEF Admits
    <3>2. r.mode[t] = "none"
      BY <1>1, <3>1 DEF Again, Entries, Ownership, State
    <3> QED  BY <1>1, <2>1, <3>1, <3>2, TakeSharedKeeps
  <2> QED  BY <2>2, <2>3
<1> QED  BY <1>2, <1>3

LEMMA ReleaseKeeps ==
    ASSUME NEW r, NEW s, IInv(r), NEW t \in Threads, Release(r, s, t)
    PROVE  Kept(r, s, t)
<1>1. /\ r.Exclusive => r.Owner = t
      /\ r.Count[t] >= 1 /\ r.depth[t] >= 1 /\ r.ActiveCount >= 1
      /\ r.ActiveCount \in Nat /\ r.SharedWaiters \in Nat /\ r.ExclusiveWaiters \in Nat
  <2>1. Releasing(r, t)
    BY ReleaseFacts
  <2> QED  BY <2>1 DEF Releasing, State
<1>2. CASE r.Count[t] # 1
  BY <1>1, <1>2, ReleaseOnceKeeps
<1>3. CASE r.Count[t] = 1 /\ r.ActiveCount > 1
  BY <1>1, <1>3, ReleaseLeavesKeeps
<1>4. CASE r.Count[t] = 1 /\ r.ActiveCount = 1
  <2>1. CASE r.Exclusive /\ r.SharedWaiters > 0
    BY <1>1, <1>4, <2>1, ReleaseToSharedKeeps
  <2>2. CASE ~(r.Exclusive /\ r.SharedWaiters > 0) /\ r.ExclusiveWaiters > 0
    BY <1>1, <1>4, <2>2, ReleaseToExclusiveKeeps
  <2>3. CASE ~(r.Exclusive /\ r.SharedWaiters > 0) /\ r.ExclusiveWaiters = 0
    BY <1>1, <1>4, <2>3, ReleaseToNobodyKeeps
  <2> QED  BY <1>1, <2>1, <2>2, <2>3
<1> QED  BY <1>1, <1>2, <1>3, <1>4

LEMMA ConvertKeeps ==
    ASSUME NEW r, NEW s, IInv(r), NEW t \in Threads, Convert(r, s, t)
    PROVE  Kept(r, s, t)
<1>1. r.SharedWaiters \in Nat
  BY DEF IInv, State
<1>2. CASE r.SharedWaiters = 0
  BY <1>2, ConvertAloneKeeps
<1>3. CASE r.SharedWaiters > 0
  BY <1>3, ConvertWakesKeeps
<1> QED  BY <1>1, <1>2, <1>3

LEMMA SignalKeeps ==
    ASSUME NEW r, NEW s, IInv(r), NEW t \in Threads, Signal(r, s, t)
    PROVE  Kept(r, s, t)
BY SignalEventKeeps, SignalSemaphoreKeeps DEF Signal, Signals

LEMMA AcquireKeeps ==
    ASSUME NEW r, NEW s, IInv(r), NEW t \in Threads, Acquire(r, s, t)
    PROVE  Kept(r, s, t)
<1>1. CASE AcquireExclusive(r, s, t)
  BY <1>1, AcquireExclusiveKeeps
<1>2. CASE WaitExclusive(r, s, t)
  BY <1>2, WaitExclusiveKeeps
<1>3. ASSUME NEW how \in Calls, AcquireShared(r, s, t, how)
      PROVE  Kept(r, s, t)
  BY <1>3, AcquireSharedKeeps
<1>4. ASSUME NEW how \in Calls, WaitShared(r, s, t, how)
      PROVE  Kept(r, s, t)
  BY <1>4, WaitSharedKeeps
<1> QED  BY <1>1, <1>2, <1>3, <1>4 DEF Acquire

LEMMA WakeKeeps ==
    ASSUME NEW r, NEW s, IInv(r), NEW t \in Threads, Wake(r, s, t)
    PROVE  Kept(r, s, t)
BY ExclusiveGrantedKeeps, SharedGrantedKeeps, SignalKeeps DEF Wake

\* A fresh resource.
LEMMA FreshKeeps == IInv(Fresh) /\ \A t \in Threads : Fresh.mode[t] = "none" /\ Fresh.depth[t] = 0 /\ Fresh.call[t] = "none"
<1> DEFINE f == Fresh
<1>1. f \in State
  BY ResourceAssumption DEF Fresh, State
<1>2. Entries(f) /\ Ownership(f) /\ Wakers(f)
  BY ResourceAssumption DEF Fresh, Entries, Ownership, Wakers, Waits
<1>3. Having(f, "shared") = {} /\ Calling(f, {"shared", "late"}) = {} /\ Calling(f, {"exclusive"}) = {}
  BY DEF Fresh, Having, Calling
<1>4. Unwoken(f) = 0
  BY <1>1, <1>2, UnwokenIs DEF Fresh
<1>5. Counted(f)
  <2>1. f.ActiveCount = 0 /\ ~f.Exclusive /\ f.SharedWaiters = 0 /\ f.ExclusiveWaiters = 0
    BY DEF Fresh
  <2> HIDE DEF f
  <2> QED  BY <1>3, <1>4, <2>1, FS_EmptySet DEF Counted
<1>6. \A t \in Threads : f.mode[t] = "none" /\ f.depth[t] = 0 /\ f.call[t] = "none"
  BY DEF Fresh
<1> QED  BY <1>1, <1>2, <1>5, <1>6 DEF IInv

-----------------------------------------------------------------------------
\* Every step of Resource keeps the invariant and the lock.
LEMMA StepKeeps ==
    ASSUME IInv(res), [Next]_res
    PROVE  IInv(res)' /\ (res' = res \/ Locks(res, res'))
<1>1. CASE UNCHANGED res
  BY <1>1
<1>2. ASSUME NEW t \in Threads,
             Acquire(res, res', t) \/ Wake(res, res', t) \/ Release(res, res', t) \/ Convert(res, res', t)
      PROVE  Kept(res, res', t)
  BY <1>2, AcquireKeeps, WakeKeeps, ReleaseKeeps, ConvertKeeps
<1> QED  BY <1>1, <1>2 DEF Next, Kept

\* What the modes may do is what readers and writers of the lock may do.
LEMMA LocksLock ==
    ASSUME res \in State, Locks(res, res')
    PROVE  [Lock!LockNext]_(Lock!lock)
<1>1. CASE res'.mode = res.mode
  BY <1>1 DEF Lock!lock, Having
<1>2. ASSUME NEW t \in Threads, \A u \in Threads : res.mode[u] = "none", res'.mode = [res.mode EXCEPT ![t] = "exclusive"]
      PROVE  Lock!Write(t)
  BY <1>2 DEF Lock!Write, Having, State
<1>3. ASSUME NEW t \in Threads, \A u \in Threads : res.mode[u] # "exclusive", res'.mode = [res.mode EXCEPT ![t] = "shared"]
      PROVE  Lock!Read(t)
  BY <1>3 DEF Lock!Read, Having, State
<1>4. ASSUME NEW t \in Threads, res'.mode = [res.mode EXCEPT ![t] = "none"]
      PROVE  Lock!Leave(t)
  BY <1>4 DEF Lock!Leave, Having, State
<1>5. ASSUME NEW t \in Threads, res.mode[t] = "exclusive", res'.mode = [res.mode EXCEPT ![t] = "shared"]
      PROVE  Lock!Downgrade(t)
  BY <1>5 DEF Lock!Downgrade, Having, State
<1> QED  BY <1>1, <1>2, <1>3, <1>4, <1>5 DEF Locks, Lock!LockNext

THEOREM Invariant == Spec => []IInv(res)
<1>1. Init => IInv(res)
  BY FreshKeeps DEF Init
<1>2. IInv(res) /\ [Next]_res => IInv(res)'
  BY StepKeeps
<1> QED  BY <1>1, <1>2, PTL DEF Spec

\* Every reachable state of a resource is well typed.
THEOREM TypeCorrect == Spec => []TypeOK
<1>1. IInv(res) => TypeOK
  BY DEF IInv, TypeOK
<1> QED  BY <1>1, Invariant, PTL

\* The counts of the resource agree with its holders and waiters, through
\* every hand-over, recursion and conversion.
THEOREM CountsCorrect == Spec => []CountsAreTrue
<1>1. IInv(res) => CountsAreTrue
  BY DEF IInv, CountsAreTrue
<1> QED  BY <1>1, Invariant, PTL

\* A resource is a lock with any number of readers or one writer.
THEOREM ResourceImplements == Spec => ImplementsLock
<1>1. Init => Lock!LockInit
  BY FreshKeeps DEF Init, Having, Lock!LockInit
<1>2. IInv(res) /\ [Next]_res => [Lock!LockNext]_(Lock!lock)
  BY StepKeeps, LocksLock DEF IInv, Lock!lock, Having
<1> QED  BY <1>1, <1>2, Invariant, PTL DEF Spec, ImplementsLock, Lock!LockSpec

-----------------------------------------------------------------------------
\* Nobody waits for a resource that is free, nor a reader for one that others
\* read unless a writer waits too.
Served(r) == /\ r.ActiveCount = 0 => r.SharedWaiters = 0 /\ r.ExclusiveWaiters = 0
             /\ r.SharedWaiters > 0 => r.Exclusive \/ r.ExclusiveWaiters > 0

\* The fields that decide whom a release wakes up.
Decides(s, ac, ex, sw, ew) == /\ s.ActiveCount = ac /\ s.Exclusive = ex
                              /\ s.SharedWaiters = sw /\ s.ExclusiveWaiters = ew

LEMMA Undecided ==
    ASSUME NEW r, NEW s, Served(r),
           Decides(s, r.ActiveCount, r.Exclusive, r.SharedWaiters, r.ExclusiveWaiters)
    PROVE  Served(s)
BY DEF Served, Decides

\* Who takes access finds nobody waiting, or has it already; who waits finds a
\* holder, and a reader a writer.
LEMMA AcquireServes ==
    ASSUME NEW r, NEW s, IInv(r), Served(r), NEW t \in Threads, Acquire(r, s, t)
    PROVE  Served(s)
<1>1. /\ r \in State /\ r.ActiveCount \in Nat
      /\ r.SharedWaiters \in Nat /\ r.ExclusiveWaiters \in Nat
  BY DEF IInv, State
<1>2. CASE TakeAgain(r, s, t)
  <2>1. Decides(s, r.ActiveCount, r.Exclusive, r.SharedWaiters, r.ExclusiveWaiters)
    BY <1>1, <1>2 DEF TakeAgain, Decides, State
  <2> QED  BY <2>1, Undecided
<1>3. ASSUME AcquireExclusive(r, s, t) PROVE Served(s)
  <2>1. CASE r.ActiveCount = 0 /\ TakeExclusive(r, s, t)
    <3>1. Decides(s, 1, TRUE, r.SharedWaiters, r.ExclusiveWaiters)
      BY <1>1, <2>1 DEF TakeExclusive, Decides, State
    <3> QED  BY <3>1 DEF Served, Decides
  <2> QED  BY <1>2, <1>3, <2>1 DEF AcquireExclusive
<1>4. ASSUME WaitExclusive(r, s, t) PROVE Served(s)
  <2>1. r.ActiveCount # 0
    BY <1>4 DEF WaitExclusive, ExclusiveBusy
  <2>2. Decides(s, r.ActiveCount, r.Exclusive, r.SharedWaiters, r.ExclusiveWaiters + 1)
    BY <1>1, <1>4 DEF WaitExclusive, Decides, State
  <2> QED  BY <1>1, <2>1, <2>2 DEF Served, Decides
<1>5. ASSUME NEW how \in Calls, AcquireShared(r, s, t, how) PROVE Served(s)
  <2>1. CASE TakeShared(r, s, t)
    <3>1. Decides(s, r.ActiveCount + 1, r.Exclusive, r.SharedWaiters, r.ExclusiveWaiters)
      BY <1>1, <2>1 DEF TakeShared, Decides, State
    <3> QED  BY <1>1, <3>1 DEF Served, Decides
  <2> QED  BY <1>2, <1>5, <2>1 DEF AcquireShared
<1>6. ASSUME NEW how \in Calls, WaitShared(r, s, t, how) PROVE Served(s)
  <2>1. r.ActiveCount # 0 /\ (r.Exclusive \/ r.ExclusiveWaiters # 0)
    BY <1>1, <1>6 DEF WaitShared, Admits
  <2>2. Decides(s, r.ActiveCount, r.Exclusive, r.SharedWaiters + 1, r.ExclusiveWaiters)
    BY <1>1, <1>6 DEF WaitShared, Decides, State
  <2> QED  BY <1>1, <2>1, <2>2 DEF Served, Decides
<1> QED  BY <1>3, <1>4, <1>5, <1>6 DEF Acquire

\* Those who wake up were taken off the counts by who granted them access.
LEMMA WakeServes ==
    ASSUME NEW r, NEW s, IInv(r), Served(r), NEW t \in Threads, Wake(r, s, t)
    PROVE  Served(s)
<1>1. r \in State
  BY DEF IInv
<1>2. Decides(s, r.ActiveCount, r.Exclusive, r.SharedWaiters, r.ExclusiveWaiters)
  <2>1. CASE ExclusiveGranted(r, s, t)
    BY <1>1, <2>1 DEF ExclusiveGranted, Decides, State
  <2>2. CASE SharedGranted(r, s, t)
    BY <1>1, <2>2 DEF SharedGranted, Decides, State
  <2>3. CASE Signal(r, s, t)
    BY <1>1, <2>3 DEF Signal, Decides, State
  <2> QED  BY <2>1, <2>2, <2>3 DEF Wake
<1> QED  BY <1>2, Undecided

\* The last one out leaves nobody behind.
LEMMA ReleaseServes ==
    ASSUME NEW r, NEW s, IInv(r), Served(r), NEW t \in Threads, Release(r, s, t)
    PROVE  Served(s)
<1>1. /\ r \in State
      /\ r.Exclusive => r.Owner = t
      /\ r.Count[t] >= 1 /\ r.depth[t] >= 1 /\ r.ActiveCount >= 1
      /\ r.ActiveCount \in Nat /\ r.SharedWaiters \in Nat /\ r.ExclusiveWaiters \in Nat
      /\ r.Count[t] \in Nat
  <2>1. Releasing(r, t)
    BY ReleaseFacts
  <2> QED  BY <2>1 DEF Releasing, State
<1>2. CASE r.Count[t] # 1
  <2>1. Decides(s, r.ActiveCount, r.Exclusive, r.SharedWaiters, r.ExclusiveWaiters)
    <3>1. Fields(s, r.ActiveCount, r.Exclusive, r.Owner, [r.Count EXCEPT ![t] = r.Count[t] - 1],
               r.SharedWaiters, r.ExclusiveWaiters, r.Event, r.Semaphore, r.call, r.Number, r.mode, [r.depth
               EXCEPT ![t] = r.depth[t] - 1])
      BY <1>1, <1>2, ReleaseOnceFields
    <3> QED  BY <3>1 DEF Fields, Decides
  <2> QED  BY <2>1, Undecided
<1>3. CASE r.Count[t] = 1 /\ r.ActiveCount > 1
  <2>1. Decides(s, r.ActiveCount - 1, r.Exclusive, r.SharedWaiters, r.ExclusiveWaiters)
    <3>1. Fields(s, r.ActiveCount - 1, r.Exclusive, IF r.Owner = t THEN Nobody ELSE r.Owner, [r.Count
               EXCEPT ![t] = r.Count[t] - 1], r.SharedWaiters, r.ExclusiveWaiters, r.Event, r.Semaphore,
               r.call, r.Number, [r.mode EXCEPT ![t] = "none"], [r.depth EXCEPT ![t] = r.depth[t] - 1])
      BY <1>1, <1>3, ReleaseLeavesFields
    <3> QED  BY <3>1 DEF Fields, Decides
  <2> QED  BY <1>1, <1>3, <2>1 DEF Served, Decides
<1>4. CASE r.Count[t] = 1 /\ r.ActiveCount = 1 /\ r.Exclusive /\ r.SharedWaiters > 0
  <2>1. Decides(s, r.SharedWaiters, FALSE, 0, r.ExclusiveWaiters)
    <3>1. Fields(s, r.SharedWaiters, FALSE, IF r.Owner = t THEN Nobody ELSE r.Owner, [r.Count EXCEPT ![t]
               = r.Count[t] - 1], 0, r.ExclusiveWaiters, r.Event, r.Semaphore, [r.call EXCEPT ![t] =
               "releaseSemaphore"], [r.Number EXCEPT ![t] = r.SharedWaiters], [r.mode EXCEPT ![t] = "none"],
               [r.depth EXCEPT ![t] = r.depth[t] - 1])
      BY <1>1, <1>4, ReleaseToSharedFields
    <3> QED  BY <3>1 DEF Fields, Decides
  <2> QED  BY <1>1, <1>4, <2>1 DEF Served, Decides
<1>5. CASE r.Count[t] = 1 /\ r.ActiveCount = 1 /\ ~(r.Exclusive /\ r.SharedWaiters > 0)
           /\ r.ExclusiveWaiters > 0
  <2>1. Decides(s, 1, TRUE, r.SharedWaiters, r.ExclusiveWaiters - 1)
    <3>1. Fields(s, 1, TRUE, Granted, [r.Count EXCEPT ![t] = r.Count[t] - 1, ![Granted] = 1],
               r.SharedWaiters, r.ExclusiveWaiters - 1, r.Event, r.Semaphore, [r.call EXCEPT ![t] =
               "setEvent"], r.Number, [r.mode EXCEPT ![t] = "none"], [r.depth EXCEPT ![t] = r.depth[t] - 1])
      BY <1>1, <1>5, ReleaseToExclusiveFields
    <3> QED  BY <3>1 DEF Fields, Decides
  <2> QED  BY <2>1 DEF Served, Decides
<1>6. CASE r.Count[t] = 1 /\ r.ActiveCount = 1 /\ ~(r.Exclusive /\ r.SharedWaiters > 0)
           /\ r.ExclusiveWaiters = 0
  <2>1. Decides(s, 0, FALSE, r.SharedWaiters, r.ExclusiveWaiters)
    <3>1. Fields(s, 0, FALSE, IF r.Owner = t THEN Nobody ELSE r.Owner, [r.Count EXCEPT ![t] = r.Count[t]
               - 1], r.SharedWaiters, r.ExclusiveWaiters, r.Event, r.Semaphore, r.call, r.Number, [r.mode
               EXCEPT ![t] = "none"], [r.depth EXCEPT ![t] = r.depth[t] - 1])
      BY <1>1, <1>6, ReleaseToNobodyFields
    <3> QED  BY <3>1 DEF Fields, Decides
  <2>2. r.SharedWaiters = 0
    BY <1>1, <1>6 DEF Served
  <2> QED  BY <1>6, <2>1, <2>2 DEF Served, Decides
<1> QED  BY <1>1, <1>2, <1>3, <1>4, <1>5, <1>6

\* A writer that becomes a reader lets all other readers in.
LEMMA ConvertServes ==
    ASSUME NEW r, NEW s, IInv(r), Served(r), NEW t \in Threads, Convert(r, s, t)
    PROVE  Served(s)
<1>1. r \in State /\ r.ActiveCount \in Nat /\ r.SharedWaiters \in Nat
  BY DEF IInv, State
<1>2. CASE r.SharedWaiters = 0
  <2>1. Decides(s, r.ActiveCount, FALSE, r.SharedWaiters, r.ExclusiveWaiters)
    BY <1>1, <1>2, ConvertAloneFields DEF Fields, Decides
  <2> QED  BY <1>2, <2>1 DEF Served, Decides
<1>3. CASE r.SharedWaiters > 0
  <2>1. Decides(s, r.ActiveCount + r.SharedWaiters, FALSE, 0, r.ExclusiveWaiters)
    BY <1>1, <1>3, ConvertWakesFields DEF Fields, Decides
  <2> QED  BY <1>1, <1>3, <2>1 DEF Served, Decides
<1> QED  BY <1>1, <1>2, <1>3

\* No thread is left asleep on a resource that nobody has, and no reader beside
\* readers only, whoever came, went, converted or was granted access before:
\* each release or conversion that frees the resource has passed it on
\* (ExReleaseResourceLite decides by the counts of waiters alone).
NobodyForgotten ==
    /\ res.ActiveCount = 0 => Calling(res, Waits) = {}
    /\ ~res.Exclusive /\ Unwoken(res) = 0 /\ Calling(res, {"exclusive"}) = {}
          => Calling(res, {"shared", "late"}) = {}

LEMMA ServedForgets ==
    ASSUME IInv(res), Served(res)
    PROVE  NobodyForgotten
<1> DEFINE readers == Calling(res, {"shared", "late"})
           writers == Calling(res, {"exclusive"})
<1>1. res \in State /\ Wakers(res) /\ Counted(res)
  BY DEF IInv
<1>2. readers \in SUBSET Threads /\ writers \in SUBSET Threads
  BY DEF Calling
<1>3. /\ Cardinality(readers) \in Nat /\ Cardinality(writers) \in Nat
      /\ Cardinality(readers) = 0 <=> readers = {}
      /\ Cardinality(writers) = 0 <=> writers = {}
  <2> HIDE DEF readers, writers
  <2> QED  BY <1>2, Numbers
<1>4. readers = {} /\ writers = {} => Calling(res, Waits) = {}
  BY DEF Calling, Waits
<1>5. Cardinality(Having(res, "shared")) \in Nat /\ Unwoken(res) \in Nat
  <2>1. Having(res, "shared") \in SUBSET Threads
    BY DEF Having
  <2> QED  BY <1>1, <2>1, Numbers, UnwokenStays
<1>6. /\ res.ActiveCount = IF res.Exclusive THEN 1 ELSE Cardinality(Having(res, "shared")) + Unwoken(res)
      /\ res.SharedWaiters = Cardinality(readers) - Unwoken(res)
      /\ ~res.Exclusive => res.ExclusiveWaiters = Cardinality(writers)
  <2>1. res.ExclusiveWaiters = Cardinality(writers) - IF res.Exclusive /\ res.Owner = Granted THEN 1 ELSE 0
    BY <1>1 DEF Counted
  <2> QED  BY <1>1, <1>3, <2>1 DEF Counted
<1> HIDE DEF readers, writers
<1>7. res.ActiveCount = 0 => readers = {} /\ writers = {}
  <2> SUFFICES ASSUME res.ActiveCount = 0 PROVE readers = {} /\ writers = {}
    OBVIOUS
  <2>1. ~res.Exclusive
    BY <1>6
  <2>2. Unwoken(res) = 0
    BY <1>5, <1>6, <2>1
  <2>3. res.SharedWaiters = 0 /\ res.ExclusiveWaiters = 0
    BY DEF Served
  <2>4. Cardinality(readers) = 0 /\ Cardinality(writers) = 0
    BY <1>3, <1>6, <2>1, <2>2, <2>3
  <2> QED  BY <1>3, <2>4
<1>8. ~res.Exclusive /\ Unwoken(res) = 0 /\ writers = {} => readers = {}
  BY <1>3, <1>5, <1>6 DEF Served
<1> QED  BY <1>4, <1>7, <1>8 DEF NobodyForgotten, readers, writers

\* The part of WaitersServed that needs no fairness: whoever waits, waits for
\* somebody who has the resource or was granted it.
THEOREM NobodyIsForgotten == Spec => []NobodyForgotten
<1> DEFINE I == IInv(res) /\ Served(res)
<1>1. Init => I
  BY FreshKeeps DEF Init, Fresh, Served
<1>2. I /\ [Next]_res => I'
  <2>1. ASSUME I, UNCHANGED res PROVE I'
    BY <2>1
  <2>2. ASSUME I, NEW t \in Threads,
               Acquire(res, res', t) \/ Wake(res, res', t) \/ Release(res, res', t) \/ Convert(res, res', t)
        PROVE  Served(res')
    BY <2>2, AcquireServes, WakeServes, ReleaseServes, ConvertServes
  <2> QED  BY <2>1, <2>2, StepKeeps DEF Next
<1>3. I => NobodyForgotten
  BY ServedForgets
<1> HIDE DEF I
<1> QED  BY <1>1, <1>2, <1>3, PTL DEF Spec

-----------------------------------------------------------------------------
(***************************************************************************)
(* cfFileCacheClear and its two resources.  First, what a call does to the *)
(* thread that calls.                                                      *)
(***************************************************************************)

\* Whoever owns a resource exclusively has exclusive access.
LEMMA OwnerHas ==
    ASSUME NEW r, IInv(r), NEW t \in Threads, OwnsExclusive(r, t)
    PROVE  r.mode[t] = "exclusive" /\ r.call[t] \notin Waits
BY ResourceAssumption DEF IInv, OwnsExclusive, Ownership, Entries

\* Nobody has access beside a thread with exclusive access.
LEMMA OthersNone ==
    ASSUME NEW r, IInv(r), NEW t \in Threads, r.mode[t] = "exclusive", NEW u \in Threads \ {t}
    PROVE  r.mode[u] = "none"
BY DEF IInv, Ownership, State

FirstGrant(r, s, t) == r.depth[t] = 0 /\ s.depth[t] = 1 /\ s.mode[t] = "exclusive" /\ s.call[t] = "none"

\* Exclusive access that the thread does not own yet is granted at once to a
\* thread that has none.
LEMMA FirstExclusive ==
    ASSUME NEW r, NEW s, IInv(r), NEW t \in Threads, AcquireExclusive(r, s, t), ~OwnsExclusive(r, t)
    PROVE  FirstGrant(r, s, t)
<1>1. r.ActiveCount = 0 /\ TakeExclusive(r, s, t) /\ Idle(r, t) /\ r \in State
  BY DEF AcquireExclusive, IInv
<1>2. r.mode[t] = "none"
  BY <1>1, Unheld
<1>3. r.depth[t] = 0
  BY <1>2 DEF IInv, Entries
<1>4. s.call = r.call /\ s.mode = [r.mode EXCEPT ![t] = "exclusive"] /\ s.depth = [r.depth EXCEPT ![t] = 1]
  <2>1. Fields(s, 1, TRUE, t, [r.Count EXCEPT ![t] = 1],
             r.SharedWaiters, r.ExclusiveWaiters, r.Event, r.Semaphore,
             r.call, r.Number,
             [r.mode EXCEPT ![t] = "exclusive"], [r.depth EXCEPT ![t] = 1])
    BY <1>1, TakeExclusiveFields
  <2> QED  BY <2>1 DEF Fields
<1> QED  BY <1>1, <1>3, <1>4 DEF State, Idle, FirstGrant

\* Only a thread without access waits for exclusive access.
LEMMA BeginsToWait ==
    ASSUME NEW r, NEW s, IInv(r), NEW t \in Threads, WaitExclusive(r, s, t)
    PROVE  r.depth[t] = 0 /\ s.depth[t] = 0 /\ s.call[t] = "exclusive"
<1>1. r \in State /\ r.depth[t] = 0
  BY DEF WaitExclusive, IInv, Entries
<1>2. s.call = [r.call EXCEPT ![t] = "exclusive"] /\ s.depth = r.depth
  BY <1>1, WaitExclusiveFields DEF Fields
<1> QED  BY <1>1, <1>2 DEF State

\* A release gives back one acquisition, and never waits.
LEMMA GivesBack ==
    ASSUME NEW r, NEW s, IInv(r), NEW t \in Threads, Release(r, s, t)
    PROVE  r.depth[t] \in Nat /\ s.depth[t] = r.depth[t] - 1 /\ s.call[t] \notin Waits
<1>1. Releasing(r, t)
  BY ReleaseFacts
<1>2. /\ r \in State /\ r.call[t] = "none" /\ r.depth[t] \in Nat
      /\ r.Exclusive => r.Owner = t
      /\ r.Count[t] >= 1 /\ r.depth[t] >= 1 /\ r.ActiveCount >= 1
  BY <1>1 DEF Releasing, State
<1>3. PICK left \in State, gone \in State : Parted(r, s, left, gone, t)
  BY <1>2, ReleaseParts
<1> DEFINE depth == [r.depth EXCEPT ![t] = r.depth[t] - 1]
<1>4. left.depth = depth /\ left.call = r.call /\ gone.depth = depth /\ gone.call = r.call
  BY <1>2, <1>3 DEF Parted, State
<1> HIDE DEF depth
<1>5. s \in {left, gone, HandOver(gone, t)}
  BY <1>3 DEF Parted
<1>6. HandOver(gone, t).depth = depth /\ HandOver(gone, t).call[t] \notin Waits
  <2>1. CASE HandOver(gone, t) = GrantShared(gone, t)
    <3>1. GrantShared(gone, t).depth = depth /\ GrantShared(gone, t).call = [r.call EXCEPT ![t] = "releaseSemaphore"]
      <4>1. /\ GrantShared(gone, t).depth = gone.depth
            /\ GrantShared(gone, t).call = [gone.call EXCEPT ![t] = "releaseSemaphore"]
        BY GrantSharedIs
      <4> QED  BY <1>4, <4>1
    <3> QED  BY <1>2, <2>1, <3>1 DEF State, Waits
  <2>2. CASE gone.ExclusiveWaiters > 0 /\ HandOver(gone, t) = GrantExclusive(gone, t)
    <3>1. GrantExclusive(gone, t).depth = depth /\ GrantExclusive(gone, t).call = [r.call EXCEPT ![t] = "setEvent"]
      <4>1. /\ GrantExclusive(gone, t).depth = gone.depth
            /\ GrantExclusive(gone, t).call = [gone.call EXCEPT ![t] = "setEvent"]
        BY <2>2, GrantExclusiveIs
      <4> QED  BY <1>4, <4>1
    <3> QED  BY <1>2, <2>2, <3>1 DEF State, Waits
  <2>3. CASE HandOver(gone, t) = [gone EXCEPT !.Exclusive = FALSE]
    BY <1>2, <1>4, <2>3 DEF State, Waits
  <2> QED  BY <2>1, <2>2, <2>3 DEF HandOver
<1>7. s.depth = depth /\ s.call[t] \notin Waits
  BY <1>2, <1>4, <1>5, <1>6 DEF Waits
<1> QED  BY <1>2, <1>7 DEF State, depth

\* A thread that goes on had waited for exclusive access and has it now, had
\* waited for shared access, or had signalled and has what it had.
LEMMA GoesOn ==
    ASSUME NEW r, NEW s, IInv(r), NEW t \in Threads, Wake(r, s, t)
    PROVE  \/ r.call[t] = "exclusive" /\ s.mode[t] = "exclusive" /\ s.depth[t] = 1 /\ s.call[t] = "none"
           \/ r.call[t] \in {"shared", "late"}
           \/ r.call[t] \in Signals /\ s.call[t] = "none" /\ s.mode = r.mode /\ s.depth = r.depth
<1>1. r \in State
  BY DEF IInv
<1>2. CASE ExclusiveGranted(r, s, t)
  <2>1. /\ s.call = [r.call EXCEPT ![t] = "none"] /\ s.mode = [r.mode EXCEPT ![t] = "exclusive"]
        /\ s.depth = [r.depth EXCEPT ![t] = 1]
    <3>1. Fields(s, r.ActiveCount, r.Exclusive, t, [r.Count EXCEPT ![Granted] = 0, ![t] = r.Count[Granted]],
               r.SharedWaiters, r.ExclusiveWaiters, FALSE, r.Semaphore,
               [r.call EXCEPT ![t] = "none"], r.Number,
               [r.mode EXCEPT ![t] = "exclusive"], [r.depth EXCEPT ![t] = 1])
      BY <1>1, <1>2, ExclusiveGrantedFields
    <3> QED  BY <3>1 DEF Fields
  <2> QED  BY <1>1, <1>2, <2>1 DEF ExclusiveGranted, State
<1>3. CASE SharedGranted(r, s, t)
  BY <1>3 DEF SharedGranted
<1>4. CASE Signal(r, s, t)
  <2>1. s.call = [r.call EXCEPT ![t] = "none"] /\ s.mode = r.mode /\ s.depth = r.depth
    <3>1. CASE r.call[t] = "setEvent"
      <4>1. Fields(s, r.ActiveCount, r.Exclusive, r.Owner, r.Count,
                 r.SharedWaiters, r.ExclusiveWaiters, TRUE, r.Semaphore + r.Number[t],
                 [r.call EXCEPT ![t] = "none"], [r.Number EXCEPT ![t] = 0],
                 r.mode, r.depth)
        BY <1>1, <1>4, <3>1, SignalEventFields
      <4> QED  BY <4>1 DEF Fields
    <3>2. CASE r.call[t] = "releaseSemaphore"
      <4>1. Fields(s, r.ActiveCount, r.Exclusive, r.Owner, r.Count,
                 r.SharedWaiters, r.ExclusiveWaiters, r.Event, r.Semaphore + r.Number[t],
                 [r.call EXCEPT ![t] = "none"], [r.Number EXCEPT ![t] = 0],
                 r.mode, r.depth)
        BY <1>1, <1>4, <3>2, SignalSemaphoreFields
      <4> QED  BY <4>1 DEF Fields
    <3> QED  BY <1>4, <3>1, <3>2 DEF Signal, Signals
  <2> QED  BY <1>1, <1>4, <2>1 DEF Signal, State
<1> QED  BY <1>2, <1>3, <1>4 DEF Wake

\* Where a thread may be in cfFileCacheClear, and its variables.
CacheTypeOK ==
    /\ pc \in [Threads -> {"out", "main", "paging", "backOff", "clear", "release"}]
    /\ tookMain \in [Threads -> BOOLEAN] /\ tookPaging \in [Threads -> BOOLEAN]
    /\ before \in [Threads -> Nat \X Nat]

\* The thread has r as often as its caller had, and once more if it was taken.
Holds(r, t, taken, brought) == r.depth[t] = IF taken THEN brought + 1 ELSE brought

\* It has r exclusively.
Alone(r, t) == r.mode[t] = "exclusive" /\ r.call[t] \notin Waits

\* A thread in cfFileCacheClear waits for Resource at most, and only if its
\* caller had none of it; what it has is its caller's and what this turn took.
InClear(t) ==
    /\ paging.call[t] \notin Waits
    /\ Holds(paging, t, tookPaging[t] /\ pc[t] = "clear", before[t][2])
    /\ pc[t] # "paging" => main.call[t] \notin Waits
    /\ pc[t] = "main" => Holds(main, t, FALSE, before[t][1])
    /\ pc[t] = "paging" =>
         /\ ~tookPaging[t]
         /\ \/ Alone(main, t) /\ Holds(main, t, tookMain[t], before[t][1])
            \/ /\ main.call[t] = "exclusive" /\ main.depth[t] = 0
               /\ tookMain[t] /\ before[t][1] = 0
    /\ pc[t] \in {"backOff", "clear", "release"} => Holds(main, t, tookMain[t], before[t][1])
    /\ pc[t] = "clear" => Alone(main, t) /\ Alone(paging, t)

CacheInv ==
    /\ CacheTypeOK
    /\ IInv(main) /\ IInv(paging)
    /\ \A t \in Threads : pc[t] # "out" => InClear(t)

\* A resource that is not called, or called by thread t.
LEMMA Called ==
    ASSUME NEW r, NEW s, IInv(r), NEW t \in Threads, s = r \/ Kept(r, s, t)
    PROVE  IInv(s) /\ Beside(r, s, t)
BY DEF Kept, Beside

\* The step of a thread leaves the others where they are.
LEMMA OnlyMine ==
    ASSUME CacheInv, NEW t \in Threads, CacheTypeOK',
           main' = main \/ Kept(main, main', t), paging' = paging \/ Kept(paging, paging', t),
           \A u \in Threads \ {t} : /\ pc'[u] = pc[u] /\ before'[u] = before[u]
                                    /\ tookMain'[u] = tookMain[u] /\ tookPaging'[u] = tookPaging[u],
           pc'[t] # "out" => InClear(t)'
    PROVE  CacheInv'
<1>1. IInv(main)' /\ IInv(paging)' /\ Beside(main, main', t) /\ Beside(paging, paging', t)
  BY Called DEF CacheInv
<1>2. ASSUME NEW u \in Threads \ {t}, pc'[u] # "out"
      PROVE  InClear(u)'
  <2>1. /\ main'.mode[u] = main.mode[u] /\ main'.depth[u] = main.depth[u] /\ main'.call[u] = main.call[u]
        /\ paging'.mode[u] = paging.mode[u] /\ paging'.depth[u] = paging.depth[u] /\ paging'.call[u] = paging.call[u]
    BY <1>1 DEF Beside
  <2>2. InClear(u)
    BY <1>2 DEF CacheInv
  <2> QED  BY <2>1, <2>2 DEF InClear, Holds, Alone
<1> QED  BY <1>1, <1>2 DEF CacheInv

-----------------------------------------------------------------------------
LEMMA UseMainKeeps ==
    ASSUME CacheInv, NEW t \in Threads, UseMain(t)
    PROVE  CacheInv'
<1>1. Kept(main, main', t)
  BY AcquireKeeps DEF UseMain, CacheInv
<1>2. UNCHANGED <<paging, pc, tookMain, tookPaging, before>> /\ pc[t] = "out"
  BY DEF UseMain, took
<1>3. CacheTypeOK'
  BY <1>2 DEF CacheInv, CacheTypeOK
<1> QED  BY <1>1, <1>2, <1>3, OnlyMine

LEMMA UsePagingKeeps ==
    ASSUME CacheInv, NEW t \in Threads, UsePaging(t)
    PROVE  CacheInv'
<1>1. Kept(paging, paging', t)
  BY AcquireKeeps DEF UsePaging, CacheInv
<1>2. UNCHANGED <<main, pc, tookMain, tookPaging, before>> /\ pc[t] = "out"
  BY DEF UsePaging, took
<1>3. CacheTypeOK'
  BY <1>2 DEF CacheInv, CacheTypeOK
<1> QED  BY <1>1, <1>2, <1>3, OnlyMine

LEMMA LeaveKeeps ==
    ASSUME CacheInv, NEW t \in Threads, Leave(t)
    PROVE  CacheInv'
<1>1. /\ main' = main \/ Kept(main, main', t)
      /\ paging' = paging \/ Kept(paging, paging', t)
  BY ReleaseKeeps DEF Leave, CacheInv
<1>2. UNCHANGED <<pc, tookMain, tookPaging, before>> /\ pc[t] = "out"
  BY DEF Leave, took
<1>3. CacheTypeOK'
  BY <1>2 DEF CacheInv, CacheTypeOK
<1> QED  BY <1>1, <1>2, <1>3, OnlyMine

\* A thread in cfFileCacheClear that goes on was waiting for Resource, and has
\* now taken it, or was signalling.
LEMMA ResumeKeeps ==
    ASSUME CacheInv, NEW t \in Threads, Resume(t)
    PROVE  CacheInv'
<1>1. /\ main' = main \/ Kept(main, main', t)
      /\ paging' = paging \/ Kept(paging, paging', t)
  BY WakeKeeps DEF Resume, CacheInv
<1>2. UNCHANGED <<pc, tookMain, tookPaging, before>>
  BY DEF Resume, took
<1>3. CacheTypeOK'
  BY <1>2 DEF CacheInv, CacheTypeOK
<1>4. ASSUME pc[t] # "out"
      PROVE  InClear(t)'
  <2>1. InClear(t) /\ IInv(main) /\ IInv(paging)
    BY <1>4 DEF CacheInv
  <2>2. CASE Wake(main, main', t) /\ paging' = paging
    <3>1. CASE main.call[t] = "exclusive" /\ main'.mode[t] = "exclusive" /\ main'.depth[t] = 1 /\ main'.call[t] = "none"
      BY <1>2, <2>1, <2>2, <3>1 DEF InClear, Holds, Alone, Waits
    <3>2. CASE main.call[t] \in {"shared", "late"}
      BY <2>1, <3>2 DEF InClear, Alone, Waits
    <3>3. CASE main.call[t] \in Signals /\ main'.call[t] = "none" /\ main'.mode = main.mode /\ main'.depth = main.depth
      BY <1>2, <2>1, <2>2, <3>3 DEF InClear, Holds, Alone, Waits, Signals
    <3> QED  BY <2>1, <2>2, <3>1, <3>2, <3>3, GoesOn
  <2>3. CASE Wake(paging, paging', t) /\ main' = main
    <3>1. paging.call[t] \notin Waits
      BY <2>1 DEF InClear
    <3>2. paging'.call[t] = "none" /\ paging'.mode = paging.mode /\ paging'.depth = paging.depth
      BY <2>1, <2>3, <3>1, GoesOn DEF Waits
    <3> QED  BY <1>2, <2>1, <2>3, <3>2 DEF InClear, Holds, Alone, Waits
  <2> QED  BY <2>2, <2>3 DEF Resume
<1> QED  BY <1>1, <1>2, <1>3, <1>4, OnlyMine

\* The call begins with what the caller has.
LEMMA CallKeeps ==
    ASSUME CacheInv, NEW t \in Threads, Call(t)
    PROVE  CacheInv'
<1>1. UNCHANGED <<main, paging, tookMain, tookPaging>>
  BY DEF Call, resources, took
<1>2. main.depth[t] \in Nat /\ paging.depth[t] \in Nat
  BY DEF CacheInv, IInv, State
<1>3. /\ pc' = [pc EXCEPT ![t] = "main"]
      /\ before' = [before EXCEPT ![t] = <<main.depth[t], paging.depth[t]>>]
  BY DEF Call, Goto
<1>4. CacheTypeOK'
  BY <1>1, <1>2, <1>3 DEF CacheInv, CacheTypeOK
<1>5. pc'[t] = "main" /\ before'[t][1] = main.depth[t] /\ before'[t][2] = paging.depth[t]
  BY <1>3 DEF CacheInv, CacheTypeOK
<1>6. main.call[t] = "none" /\ paging.call[t] = "none"
  BY DEF Call, Free, Idle
<1>7. InClear(t)'
  BY <1>1, <1>5, <1>6 DEF InClear, Holds, Waits
<1>8. \A u \in Threads \ {t} : pc'[u] = pc[u] /\ before'[u] = before[u]
  BY <1>3 DEF CacheInv, CacheTypeOK
<1> QED  BY <1>1, <1>4, <1>7, <1>8, OnlyMine

\* Resource: the thread has it already, takes it, waits for it, or gives up.
LEMMA TakeMainKeeps ==
    ASSUME CacheInv, NEW t \in Threads, TakeMain(t)
    PROVE  CacheInv'
<1>1. /\ CacheTypeOK /\ IInv(main) /\ IInv(paging) /\ InClear(t)
      /\ pc[t] = "main" /\ UNCHANGED <<paging, before>>
      /\ main.call[t] = "none" /\ paging.call[t] = "none"
  BY DEF CacheInv, TakeMain, Free, Idle
<1>2. /\ main.depth[t] = before[t][1] /\ paging.depth[t] = before[t][2]
      /\ before[t][1] \in Nat /\ before[t][2] \in Nat
  BY <1>1 DEF InClear, Holds, CacheTypeOK
<1>3. ASSUME NEW label \in {"paging", "backOff"}, NEW m \in BOOLEAN,
             main' = main \/ Kept(main, main', t), Goto(t, label), Note(t, m, FALSE),
             /\ label = "paging" =>
                  \/ Alone(main', t) /\ Holds(main', t, m, before[t][1])
                  \/ main'.call[t] = "exclusive" /\ main'.depth[t] = 0 /\ m /\ before[t][1] = 0
             /\ label = "backOff" => ~m /\ main' = main
      PROVE  CacheInv'
  <2>1. CacheTypeOK'
    BY <1>1, <1>3 DEF CacheTypeOK, Goto, Note
  <2>2. pc'[t] = label /\ tookMain'[t] = m /\ tookPaging'[t] = FALSE
    BY <1>1, <1>3 DEF CacheTypeOK, Goto, Note
  <2>3. \A u \in Threads \ {t} : /\ pc'[u] = pc[u] /\ before'[u] = before[u]
                                  /\ tookMain'[u] = tookMain[u] /\ tookPaging'[u] = tookPaging[u]
    BY <1>1, <1>3 DEF CacheTypeOK, Goto, Note
  <2>4. paging' = paging /\ paging.call[t] \notin Waits /\ Holds(paging, t, FALSE, before[t][2])
    BY <1>1, <1>2 DEF Holds, Waits
  <2>5. before' = before
    BY <1>1
  <2>6. InClear(t)'
    <3>1. CASE label = "paging"
      BY <1>3, <2>2, <2>4, <2>5, <3>1 DEF InClear
    <3>2. CASE label = "backOff"
      <4>1. main' = main /\ m = FALSE /\ main.call[t] \notin Waits /\ Holds(main, t, FALSE, before[t][1])
        BY <1>1, <1>2, <1>3, <3>2 DEF Holds, Waits
      <4> QED  BY <2>2, <2>4, <2>5, <3>2, <4>1 DEF InClear
    <3> QED  BY <1>3, <3>1, <3>2
  <2> QED  BY <1>1, <1>3, <2>1, <2>3, <2>6, OnlyMine
<1>4. CASE OwnsExclusive(main, t) /\ Goto(t, "paging") /\ Note(t, FALSE, FALSE) /\ UNCHANGED main
  <2>1. Alone(main', t) /\ Holds(main', t, FALSE, before[t][1])
    BY <1>1, <1>2, <1>4, OwnerHas DEF Alone, Holds
  <2> QED  BY <1>3, <1>4, <2>1
<1>5. CASE ~OwnsExclusive(main, t) /\ AcquireExclusive(main, main', t) /\ Goto(t, "paging") /\ Note(t, TRUE, FALSE)
  <2>0. main.depth[t] = 0 /\ main'.depth[t] = 1 /\ main'.mode[t] = "exclusive" /\ main'.call[t] = "none"
    <3>1. IInv(main) /\ AcquireExclusive(main, main', t) /\ ~OwnsExclusive(main, t)
      BY <1>1, <1>5
    <3>2. FirstGrant(main, main', t)
      BY <3>1, FirstExclusive
    <3> QED  BY <3>2 DEF FirstGrant
  <2>1. Alone(main', t) /\ Holds(main', t, TRUE, before[t][1])
    <3>1. before[t][1] = 0
      BY <1>2, <2>0
    <3>2. "none" \notin Waits
      BY DEF Waits
    <3> QED  BY <2>0, <3>1, <3>2 DEF Alone, Holds
  <2>2. Kept(main, main', t)
    BY <1>1, <1>5, AcquireExclusiveKeeps
  <2> QED  BY <1>3, <1>5, <2>1, <2>2
<1>6. CASE WaitExclusive(main, main', t) /\ Goto(t, "paging") /\ Note(t, TRUE, FALSE)
  <2>1. main'.call[t] = "exclusive" /\ main'.depth[t] = 0 /\ before[t][1] = 0
    BY <1>1, <1>2, <1>6, BeginsToWait
  <2>2. Kept(main, main', t)
    BY <1>1, <1>6, WaitExclusiveKeeps
  <2> QED  BY <1>3, <1>6, <2>1, <2>2
<1>7. CASE Goto(t, "backOff") /\ Note(t, FALSE, FALSE) /\ UNCHANGED main
  BY <1>3, <1>7
<1> QED  BY <1>4, <1>5, <1>6, <1>7 DEF TakeMain

\* A thread that goes on with PagingIoResource has Resource exclusively.
LEMMA TakePagingKeeps ==
    ASSUME CacheInv, NEW t \in Threads, TakePaging(t)
    PROVE  CacheInv'
<1>1. /\ CacheTypeOK /\ IInv(main) /\ IInv(paging) /\ InClear(t)
      /\ pc[t] = "paging" /\ UNCHANGED <<main, tookMain, before>>
      /\ main.call[t] = "none" /\ paging.call[t] = "none"
  BY DEF CacheInv, TakePaging, Free, Idle
<1>2. /\ Alone(main, t) /\ Holds(main, t, tookMain[t], before[t][1])
      /\ ~tookPaging[t] /\ paging.depth[t] = before[t][2]
      /\ before[t][1] \in Nat /\ before[t][2] \in Nat
  BY <1>1 DEF InClear, Holds, CacheTypeOK
<1>3. ASSUME NEW label \in {"clear", "backOff"}, NEW p \in BOOLEAN,
             paging' = paging \/ Kept(paging, paging', t), Goto(t, label),
             tookPaging' = [tookPaging EXCEPT ![t] = p],
             /\ label = "clear" => Alone(paging', t) /\ Holds(paging', t, p, before[t][2])
             /\ label = "backOff" => ~p /\ paging' = paging
      PROVE  CacheInv'
  <2>1. CacheTypeOK'
    BY <1>1, <1>3 DEF CacheTypeOK, Goto
  <2>2. pc'[t] = label /\ tookPaging'[t] = p
    BY <1>1, <1>3 DEF CacheTypeOK, Goto
  <2>3. \A u \in Threads \ {t} : /\ pc'[u] = pc[u] /\ before'[u] = before[u]
                                  /\ tookMain'[u] = tookMain[u] /\ tookPaging'[u] = tookPaging[u]
    BY <1>1, <1>3 DEF CacheTypeOK, Goto
  <2>4. /\ main' = main /\ main.call[t] \notin Waits /\ before' = before
        /\ tookMain'[t] = tookMain[t] /\ Alone(main, t) /\ Holds(main, t, tookMain[t], before[t][1])
    BY <1>1, <1>2 DEF Waits
  <2>5. InClear(t)'
    <3>1. CASE label = "clear"
      <4>1. paging'.call[t] \notin Waits
        BY <1>3, <3>1 DEF Alone
      <4> QED  BY <1>3, <2>2, <2>4, <3>1, <4>1 DEF InClear
    <3>2. CASE label = "backOff"
      <4>1. paging' = paging /\ paging.call[t] \notin Waits /\ Holds(paging, t, FALSE, before[t][2])
        BY <1>1, <1>2, <1>3, <3>2 DEF Holds, Waits
      <4> QED  BY <2>2, <2>4, <3>2, <4>1 DEF InClear
    <3> QED  BY <1>3, <3>1, <3>2
  <2> QED  BY <1>1, <1>3, <2>1, <2>3, <2>5, OnlyMine
<1>4. tookPaging = [tookPaging EXCEPT ![t] = FALSE]
  BY <1>1, <1>2 DEF CacheTypeOK
<1>5. CASE OwnsExclusive(paging, t) /\ Goto(t, "clear") /\ UNCHANGED <<paging, tookPaging>>
  <2>1. Alone(paging', t) /\ Holds(paging', t, FALSE, before[t][2])
    BY <1>1, <1>2, <1>5, OwnerHas DEF Alone, Holds
  <2> QED  BY <1>3, <1>4, <1>5, <2>1
<1>6. CASE /\ ~OwnsExclusive(paging, t) /\ AcquireExclusive(paging, paging', t)
           /\ Goto(t, "clear") /\ tookPaging' = [tookPaging EXCEPT ![t] = TRUE]
  <2>0. paging.depth[t] = 0 /\ paging'.depth[t] = 1 /\ paging'.mode[t] = "exclusive" /\ paging'.call[t] = "none"
    <3>1. IInv(paging) /\ AcquireExclusive(paging, paging', t) /\ ~OwnsExclusive(paging, t)
      BY <1>1, <1>6
    <3>2. FirstGrant(paging, paging', t)
      BY <3>1, FirstExclusive
    <3> QED  BY <3>2 DEF FirstGrant
  <2>1. Alone(paging', t) /\ Holds(paging', t, TRUE, before[t][2])
    <3>1. before[t][2] = 0
      BY <1>2, <2>0
    <3>2. "none" \notin Waits
      BY DEF Waits
    <3> QED  BY <2>0, <3>1, <3>2 DEF Alone, Holds
  <2>2. Kept(paging, paging', t)
    BY <1>1, <1>6, AcquireExclusiveKeeps
  <2> QED  BY <1>3, <1>6, <2>1, <2>2
<1>7. CASE Goto(t, "backOff") /\ UNCHANGED <<paging, tookPaging>>
  BY <1>3, <1>4, <1>7
<1> QED  BY <1>5, <1>6, <1>7 DEF TakePaging

\* A turn that failed gives back Resource if it took it.
LEMMA GivesUpKeeps ==
    ASSUME CacheInv, NEW t \in Threads, BackOff(t)
    PROVE  CacheInv'
<1>1. /\ CacheTypeOK /\ IInv(main) /\ IInv(paging) /\ InClear(t)
      /\ pc[t] = "backOff" /\ UNCHANGED <<paging, before>>
      /\ main.call[t] = "none" /\ paging.call[t] = "none"
      /\ Goto(t, "main") /\ Note(t, FALSE, FALSE)
      /\ IF tookMain[t] THEN Release(main, main', t) ELSE main' = main
  BY DEF CacheInv, BackOff, Free, Idle
<1>2. /\ Holds(main, t, tookMain[t], before[t][1]) /\ paging.depth[t] = before[t][2]
      /\ before[t][1] \in Nat /\ before[t][2] \in Nat
  BY <1>1 DEF InClear, Holds, CacheTypeOK
<1>3. /\ main' = main \/ Kept(main, main', t)
      /\ main'.depth[t] = before[t][1] /\ main'.call[t] \notin Waits
  <2>1. CASE tookMain[t]
    <3>1. Kept(main, main', t)
      BY <1>1, <2>1, ReleaseKeeps
    <3>2. main'.depth[t] = main.depth[t] - 1 /\ main'.call[t] \notin Waits
      BY <1>1, <2>1, GivesBack
    <3> QED  BY <1>2, <2>1, <3>1, <3>2 DEF Holds
  <2>2. CASE ~tookMain[t]
    BY <1>1, <1>2, <2>2 DEF Holds, Waits
  <2> QED  BY <2>1, <2>2
<1>4. CacheTypeOK'
  BY <1>1 DEF CacheTypeOK, Goto, Note
<1>5. pc'[t] = "main"
  BY <1>1 DEF CacheTypeOK, Goto
<1>6. \A u \in Threads \ {t} : /\ pc'[u] = pc[u] /\ before'[u] = before[u]
                                /\ tookMain'[u] = tookMain[u] /\ tookPaging'[u] = tookPaging[u]
  BY <1>1 DEF CacheTypeOK, Goto, Note
<1>7. InClear(t)'
  <2>1. paging'.call[t] = "none" /\ paging'.depth[t] = before[t][2] /\ before'[t] = before[t]
    BY <1>1, <1>2
  <2> QED  BY <1>3, <1>5, <2>1 DEF InClear, Holds, Waits
<1> QED  BY <1>1, <1>3, <1>4, <1>6, <1>7, OnlyMine

\* PagingIoResource is given back first.
LEMMA ClearKeeps ==
    ASSUME CacheInv, NEW t \in Threads, Clear(t)
    PROVE  CacheInv'
<1>1. /\ CacheTypeOK /\ IInv(main) /\ IInv(paging) /\ InClear(t)
      /\ pc[t] = "clear" /\ UNCHANGED <<main, tookMain, tookPaging, before>>
      /\ main.call[t] = "none" /\ paging.call[t] = "none" /\ Goto(t, "release")
      /\ IF tookPaging[t] THEN Release(paging, paging', t) ELSE paging' = paging
  BY DEF CacheInv, Clear, Free, Idle, took
<1>2. /\ Holds(main, t, tookMain[t], before[t][1]) /\ Holds(paging, t, tookPaging[t], before[t][2])
      /\ before[t][1] \in Nat /\ before[t][2] \in Nat
  BY <1>1 DEF InClear, Holds, CacheTypeOK
<1>3. /\ paging' = paging \/ Kept(paging, paging', t)
      /\ paging'.depth[t] = before[t][2] /\ paging'.call[t] \notin Waits
  <2>1. CASE tookPaging[t]
    <3>1. Kept(paging, paging', t)
      BY <1>1, <2>1, ReleaseKeeps
    <3>2. paging'.depth[t] = paging.depth[t] - 1 /\ paging'.call[t] \notin Waits
      BY <1>1, <2>1, GivesBack
    <3> QED  BY <1>2, <2>1, <3>1, <3>2 DEF Holds
  <2>2. CASE ~tookPaging[t]
    BY <1>1, <1>2, <2>2 DEF Holds, Waits
  <2> QED  BY <2>1, <2>2
<1>4. CacheTypeOK'
  BY <1>1 DEF CacheTypeOK, Goto
<1>5. pc'[t] = "release"
  BY <1>1 DEF CacheTypeOK, Goto
<1>6. \A u \in Threads \ {t} : pc'[u] = pc[u]
  BY <1>1 DEF CacheTypeOK, Goto
<1>7. InClear(t)'
  BY <1>1, <1>2, <1>3, <1>5 DEF InClear, Holds, Waits
<1> QED  BY <1>1, <1>3, <1>4, <1>6, <1>7, OnlyMine

\* On return the thread has each resource as often as its caller had.
LEMMA ReturnGives ==
    ASSUME CacheInv, NEW t \in Threads, Return(t)
    PROVE  /\ main' = main \/ Kept(main, main', t)
           /\ main'.depth[t] = before[t][1] /\ paging'.depth[t] = before[t][2]
<1>1. /\ CacheTypeOK /\ IInv(main) /\ InClear(t)
      /\ pc[t] = "release" /\ UNCHANGED paging
      /\ IF tookMain[t] THEN Release(main, main', t) ELSE main' = main
  BY DEF CacheInv, Return
<1>2. /\ Holds(main, t, tookMain[t], before[t][1]) /\ paging.depth[t] = before[t][2]
      /\ before[t][1] \in Nat
  BY <1>1 DEF InClear, Holds, CacheTypeOK
<1>3. CASE tookMain[t]
  <2>1. Kept(main, main', t)
    BY <1>1, <1>3, ReleaseKeeps
  <2>2. main'.depth[t] = main.depth[t] - 1
    BY <1>1, <1>3, GivesBack
  <2> QED  BY <1>1, <1>2, <1>3, <2>1, <2>2 DEF Holds
<1>4. CASE ~tookMain[t]
  BY <1>1, <1>2, <1>4 DEF Holds
<1> QED  BY <1>3, <1>4

LEMMA ReturnKeeps ==
    ASSUME CacheInv, NEW t \in Threads, Return(t)
    PROVE  CacheInv'
<1>1. /\ CacheTypeOK /\ pc[t] = "release" /\ UNCHANGED <<paging, before>>
      /\ Goto(t, "out") /\ Note(t, FALSE, FALSE)
  BY DEF CacheInv, Return
<1>2. main' = main \/ Kept(main, main', t)
  BY ReturnGives
<1>3. CacheTypeOK'
  BY <1>1 DEF CacheTypeOK, Goto, Note
<1>4. pc'[t] = "out"
  BY <1>1 DEF CacheTypeOK, Goto
<1>5. \A u \in Threads \ {t} : /\ pc'[u] = pc[u] /\ before'[u] = before[u]
                                /\ tookMain'[u] = tookMain[u] /\ tookPaging'[u] = tookPaging[u]
  BY <1>1 DEF CacheTypeOK, Goto, Note
<1> QED  BY <1>1, <1>2, <1>3, <1>4, <1>5, OnlyMine

-----------------------------------------------------------------------------
\* One step of the threads, whoever goes.
LEMMA CacheKeeps ==
    ASSUME CacheInv, [CacheNext]_vars
    PROVE  CacheInv'
<1>1. CASE UNCHANGED vars
  <2>1. UNCHANGED <<main, paging, pc, tookMain, tookPaging, before>>
    BY <1>1 DEF vars, resources, took
  <2>2. CacheTypeOK'
    BY <2>1 DEF CacheInv, CacheTypeOK
  <2>3. ASSUME NEW t \in Threads, pc'[t] # "out"
        PROVE  InClear(t)'
    BY <2>1, <2>3 DEF CacheInv, InClear
  <2> QED  BY <2>1, <2>2, <2>3 DEF CacheInv
<1>2. ASSUME NEW t \in Threads,
             UseMain(t) \/ UsePaging(t) \/ Leave(t) \/ Resume(t) \/ Call(t) \/ cfFileCacheClear(t)
      PROVE  CacheInv'
  <2>1. CASE UseMain(t)
    BY <2>1, UseMainKeeps
  <2>2. CASE UsePaging(t)
    BY <2>2, UsePagingKeeps
  <2>3. CASE Leave(t)
    BY <2>3, LeaveKeeps
  <2>4. CASE Resume(t)
    BY <2>4, ResumeKeeps
  <2>5. CASE Call(t)
    BY <2>5, CallKeeps
  <2>6. CASE cfFileCacheClear(t)
    BY <2>6, TakeMainKeeps, TakePagingKeeps, GivesUpKeeps, ClearKeeps, ReturnKeeps DEF cfFileCacheClear
  <2> QED  BY <1>2, <2>1, <2>2, <2>3, <2>4, <2>5, <2>6
<1> QED  BY <1>1, <1>2 DEF CacheNext

THEOREM CacheInvariant == CacheSpec => []CacheInv
<1>1. CacheInit => CacheInv
  <2> SUFFICES ASSUME CacheInit PROVE CacheInv
    OBVIOUS
  <2>1. CacheTypeOK /\ \A t \in Threads : pc[t] = "out"
    BY DEF CacheInit, CacheTypeOK
  <2>2. IInv(main) /\ IInv(paging)
    BY FreshKeeps DEF CacheInit
  <2> QED  BY <2>1, <2>2 DEF CacheInv
<1>2. CacheInv /\ [CacheNext]_vars => CacheInv'
  BY CacheKeeps
<1> QED  BY <1>1, <1>2, PTL DEF CacheSpec

\* While a thread flushes and purges the cache no other thread has Resource or
\* PagingIoResource: the thread has both exclusively, its caller's or its own,
\* and an executive resource has no other holder then.
THEOREM ClearsAlone == CacheSpec => []NobodyElse
<1>1. ASSUME CacheInv PROVE NobodyElse
  <2> SUFFICES ASSUME NEW c \in Threads, NEW t \in Threads, pc[c] = "clear", t # c
               PROVE  main.mode[t] = "none" /\ paging.mode[t] = "none"
    BY DEF NobodyElse
  <2>1. main.mode[c] = "exclusive" /\ paging.mode[c] = "exclusive" /\ IInv(main) /\ IInv(paging)
    BY <1>1 DEF CacheInv, InClear, Alone
  <2> QED  BY <2>1, OthersNone
<1> QED  BY <1>1, CacheInvariant, PTL

\* Only a return ends the call, and it ends with what the caller had.
LEMMA ReturnsOnly ==
    ASSUME CacheInv, CacheNext, NEW c \in Threads, pc[c] # "out", pc'[c] = "out"
    PROVE  Return(c)
<1>1. pc \in [Threads -> {"out", "main", "paging", "backOff", "clear", "release"}]
  BY DEF CacheInv, CacheTypeOK
<1>2. ASSUME NEW t \in Threads, UseMain(t) \/ UsePaging(t) \/ Leave(t) \/ Resume(t)
      PROVE  FALSE
  <2>1. pc' = pc
    BY <1>2 DEF UseMain, UsePaging, Leave, Resume
  <2> QED  BY <2>1
<1>3. ASSUME NEW t \in Threads, NEW label \in {"main", "paging", "backOff", "clear", "release"}, Goto(t, label)
      PROVE  FALSE
  BY <1>1, <1>3 DEF Goto
<1>4. ASSUME NEW t \in Threads, Return(t)
      PROVE  Return(c)
  BY <1>1, <1>4 DEF Return, Goto
<1>5. ASSUME NEW t \in Threads, Call(t) \/ TakeMain(t) \/ TakePaging(t) \/ BackOff(t) \/ Clear(t)
      PROVE  FALSE
  BY <1>3, <1>5 DEF Call, TakeMain, TakePaging, BackOff, Clear
<1> QED  BY <1>2, <1>4, <1>5 DEF CacheNext, cfFileCacheClear

\* cfFileCacheClear returns each resource as often acquired as it found it,
\* after any number of turns, waits and back-offs.
THEOREM ReturnsWhatItTook == CacheSpec => ReleasesWhatItTook
<1> DEFINE Given == \A c \in Threads : pc[c] # "out" /\ pc'[c] = "out"
                        => <<main'.depth[c], paging'.depth[c]>> = before[c]
<1>1. ASSUME CacheInv, [CacheNext]_vars
      PROVE  [Given]_vars
  <2> SUFFICES ASSUME CacheNext, NEW c \in Threads, pc[c] # "out", pc'[c] = "out"
               PROVE  <<main'.depth[c], paging'.depth[c]>> = before[c]
    BY <1>1
  <2>1. main'.depth[c] = before[c][1] /\ paging'.depth[c] = before[c][2]
    BY <1>1, ReturnsOnly, ReturnGives
  <2>2. before[c] = <<before[c][1], before[c][2]>>
    BY <1>1 DEF CacheInv, CacheTypeOK
  <2> QED  BY <2>1, <2>2
<1> QED  BY <1>1, CacheInvariant, PTL DEF CacheSpec, ReleasesWhatItTook

\* The two resources as Resource has one.
MainResource == INSTANCE Resource WITH res <- main
PagingResource == INSTANCE Resource WITH res <- paging

\* A call is a call there, too.
LEMMA MainResourceIs ==
    /\ MainResource!Fresh = Fresh
    /\ \A r, s, t :
          /\ Acquire(r, s, t) => MainResource!Acquire(r, s, t)
          /\ Wake(r, s, t) => MainResource!Wake(r, s, t)
          /\ Release(r, s, t) => MainResource!Release(r, s, t)
          /\ Convert(r, s, t) => MainResource!Convert(r, s, t)
<1>1. MainResource!Fresh = Fresh
  BY DEF Fresh, MainResource!Fresh
<1>2. ASSUME NEW r, NEW s, NEW t, Acquire(r, s, t)
      PROVE  MainResource!Acquire(r, s, t)
  BY <1>2 DEF Acquire, AcquireExclusive, WaitExclusive, AcquireShared, WaitShared, TakeExclusive,
    TakeShared, TakeAgain, Admits, Again, ExclusiveBusy, OwnsExclusive, Idle,
    MainResource!Acquire, MainResource!AcquireExclusive, MainResource!WaitExclusive,
    MainResource!AcquireShared, MainResource!WaitShared, MainResource!TakeExclusive,
    MainResource!TakeShared, MainResource!TakeAgain, MainResource!Admits,
    MainResource!Again, MainResource!ExclusiveBusy, MainResource!OwnsExclusive,
    MainResource!Idle
<1>3. ASSUME NEW r, NEW s, NEW t, Wake(r, s, t)
      PROVE  MainResource!Wake(r, s, t)
  BY <1>3 DEF Wake, ExclusiveGranted, SharedGranted, Signal, Signals, MainResource!Wake,
    MainResource!ExclusiveGranted, MainResource!SharedGranted, MainResource!Signal,
    MainResource!Signals
<1>4. ASSUME NEW r, NEW s, NEW t, Release(r, s, t)
      PROVE  MainResource!Release(r, s, t)
  BY <1>4 DEF Release, Undone, Vacated, HandOver, GrantShared, GrantExclusive, Idle,
    MainResource!Release, MainResource!Undone, MainResource!Vacated,
    MainResource!HandOver, MainResource!GrantShared, MainResource!GrantExclusive,
    MainResource!Idle
<1>5. ASSUME NEW r, NEW s, NEW t, Convert(r, s, t)
      PROVE  MainResource!Convert(r, s, t)
  BY <1>5 DEF Convert, GrantShared, OwnsExclusive, Idle, MainResource!Convert,
    MainResource!GrantShared, MainResource!OwnsExclusive, MainResource!Idle
<1> QED  BY <1>1, <1>2, <1>3, <1>4, <1>5

LEMMA PagingResourceIs ==
    /\ PagingResource!Fresh = Fresh
    /\ \A r, s, t :
          /\ Acquire(r, s, t) => PagingResource!Acquire(r, s, t)
          /\ Wake(r, s, t) => PagingResource!Wake(r, s, t)
          /\ Release(r, s, t) => PagingResource!Release(r, s, t)
          /\ Convert(r, s, t) => PagingResource!Convert(r, s, t)
<1>1. PagingResource!Fresh = Fresh
  BY DEF Fresh, PagingResource!Fresh
<1>2. ASSUME NEW r, NEW s, NEW t, Acquire(r, s, t)
      PROVE  PagingResource!Acquire(r, s, t)
  BY <1>2 DEF Acquire, AcquireExclusive, WaitExclusive, AcquireShared, WaitShared, TakeExclusive,
    TakeShared, TakeAgain, Admits, Again, ExclusiveBusy, OwnsExclusive, Idle,
    PagingResource!Acquire, PagingResource!AcquireExclusive,
    PagingResource!WaitExclusive, PagingResource!AcquireShared,
    PagingResource!WaitShared, PagingResource!TakeExclusive, PagingResource!TakeShared,
    PagingResource!TakeAgain, PagingResource!Admits, PagingResource!Again,
    PagingResource!ExclusiveBusy, PagingResource!OwnsExclusive, PagingResource!Idle
<1>3. ASSUME NEW r, NEW s, NEW t, Wake(r, s, t)
      PROVE  PagingResource!Wake(r, s, t)
  BY <1>3 DEF Wake, ExclusiveGranted, SharedGranted, Signal, Signals, PagingResource!Wake,
    PagingResource!ExclusiveGranted, PagingResource!SharedGranted,
    PagingResource!Signal, PagingResource!Signals
<1>4. ASSUME NEW r, NEW s, NEW t, Release(r, s, t)
      PROVE  PagingResource!Release(r, s, t)
  BY <1>4 DEF Release, Undone, Vacated, HandOver, GrantShared, GrantExclusive, Idle,
    PagingResource!Release, PagingResource!Undone, PagingResource!Vacated,
    PagingResource!HandOver, PagingResource!GrantShared, PagingResource!GrantExclusive,
    PagingResource!Idle
<1>5. ASSUME NEW r, NEW s, NEW t, Convert(r, s, t)
      PROVE  PagingResource!Convert(r, s, t)
  BY <1>5 DEF Convert, GrantShared, OwnsExclusive, Idle, PagingResource!Convert,
    PagingResource!GrantShared, PagingResource!OwnsExclusive, PagingResource!Idle
<1> QED  BY <1>1, <1>2, <1>3, <1>4, <1>5

\* Every step of a thread is a call of one resource, or of none.
LEMMA CallsOnly ==
    ASSUME CacheNext
    PROVE  /\ main' = main \/ MainResource!Next
           /\ paging' = paging \/ PagingResource!Next
<1> DEFINE AnyCall(r, s, t) == Acquire(r, s, t) \/ Wake(r, s, t) \/ Release(r, s, t) \/ Convert(r, s, t)
<1>1. ASSUME NEW t \in Threads,
             UseMain(t) \/ UsePaging(t) \/ Leave(t) \/ Resume(t) \/ Call(t) \/ cfFileCacheClear(t)
      PROVE  /\ main' = main \/ AnyCall(main, main', t)
             /\ paging' = paging \/ AnyCall(paging, paging', t)
  <2>1. CASE UseMain(t) \/ UsePaging(t)
    BY <2>1 DEF UseMain, UsePaging
  <2>2. CASE Leave(t) \/ Resume(t) \/ Call(t)
    BY <2>2 DEF Leave, Resume, Call, resources
  <2>3. CASE TakeMain(t) \/ TakePaging(t)
    BY <2>3 DEF TakeMain, TakePaging, Acquire
  <2>4. CASE BackOff(t) \/ Clear(t) \/ Return(t)
    BY <2>4 DEF BackOff, Clear, Return
  <2> QED  BY <1>1, <2>1, <2>2, <2>3, <2>4 DEF cfFileCacheClear
<1> QED  BY <1>1, MainResourceIs, PagingResourceIs DEF CacheNext, MainResource!Next, PagingResource!Next

\* Each of the two resources behaves as Resource, so that all that is proved of
\* an executive resource holds of both.
THEOREM CacheImplements == CacheSpec => MainResource!Spec /\ PagingResource!Spec
<1>1. CacheInit => MainResource!Init /\ PagingResource!Init
  BY MainResourceIs, PagingResourceIs DEF CacheInit, MainResource!Init, PagingResource!Init
<1>2. [CacheNext]_vars => [MainResource!Next]_main /\ [PagingResource!Next]_paging
  BY CallsOnly DEF vars, resources
<1> QED  BY <1>1, <1>2, PTL DEF CacheSpec, MainResource!Spec, PagingResource!Spec
=============================================================================
