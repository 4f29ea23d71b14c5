------------------------------ MODULE CryptCache ------------------------------
(***************************************************************************)
(* cfFileCacheClear of crypt_file: before it flushes and purges the cache  *)
(* of a file it must own both resources of its FCB exclusively, among      *)
(* threads of the file system that use them.  It takes what its caller     *)
(* does not own already, does not wait for one while it has the other, and *)
(* backs off when a try fails.                                              *)
(***************************************************************************)
EXTENDS ExecutiveResource

CONSTANTS Clearers,  \* threads that call cfFileCacheClear
          MaxUses    \* bound: acquisitions before a call

VARIABLES main, paging,          \* FCB->Resource, FCB->PagingIoResource
          pc,                    \* where a thread is in cfFileCacheClear
          tookMain, tookPaging,  \* bNeedReleaseResource, bNeedReleasePagingIoResource
          before,                \* how often its caller has acquired the two
          uses

resources == <<main, paging>>
took == <<tookMain, tookPaging>>
vars == <<resources, pc, took, before, uses>>

ASSUME CacheAssumption == Clearers \subseteq Threads /\ MaxUses \in Nat

CacheInit == /\ main = Fresh /\ paging = Fresh
             /\ pc = [t \in Threads |-> "out"]
             /\ tookMain = [t \in Threads |-> FALSE]
             /\ tookPaging = [t \in Threads |-> FALSE]
             /\ before = [t \in Threads |-> <<0, 0>>]
             /\ uses = [t \in Threads |-> 0]

Goto(t, label) == pc' = [pc EXCEPT ![t] = label]

\* Not in a call to the executive.
Free(t) == Idle(main, t) /\ Idle(paging, t)

Use(t) == uses[t] < MaxUses /\ uses' = [uses EXCEPT ![t] = @ + 1]

-----------------------------------------------------------------------------
\* The file system takes Resource before PagingIoResource, or one of them.
UseMain(t) ==
    /\ pc[t] = "out" /\ Free(t) /\ paging.mode[t] = "none" /\ Use(t)
    /\ Acquire(main, main', t)
    /\ UNCHANGED <<paging, pc, took, before>>

UsePaging(t) ==
    /\ pc[t] = "out" /\ Free(t) /\ Use(t)
    /\ Acquire(paging, paging', t)
    /\ UNCHANGED <<main, pc, took, before>>

\* Either is given back, in any order.
Leave(t) ==
    /\ pc[t] = "out" /\ Free(t)
    /\ \/ Release(main, main', t) /\ UNCHANGED paging
       \/ Release(paging, paging', t) /\ UNCHANGED main
    /\ UNCHANGED <<pc, took, before, uses>>

Resume(t) ==
    /\ \/ Wake(main, main', t) /\ UNCHANGED paging
       \/ Wake(paging, paging', t) /\ UNCHANGED main
    /\ UNCHANGED <<pc, took, before, uses>>

-----------------------------------------------------------------------------
\* A caller that holds one of them shared would wait for itself.  The call is
\* the last thing the thread begins.
Call(t) ==
    /\ pc[t] = "out" /\ t \in Clearers /\ Free(t)
    /\ uses[t] <= MaxUses /\ uses' = [uses EXCEPT ![t] = MaxUses + 1]
    /\ main.mode[t] # "shared" /\ paging.mode[t] # "shared"
    /\ before' = [before EXCEPT ![t] = <<main.depth[t], paging.depth[t]>>]
    /\ Goto(t, "main")
    /\ UNCHANGED <<resources, took>>

Note(t, m, p) == /\ tookMain' = [tookMain EXCEPT ![t] = m]
                 /\ tookPaging' = [tookPaging EXCEPT ![t] = p]

\* One turn of the loop: Resource first.  It waits unless the caller has
\* PagingIoResource.
TakeMain(t) ==
    /\ pc[t] = "main" /\ Free(t)
    /\ \/ OwnsExclusive(main, t) /\ Goto(t, "paging") /\ Note(t, FALSE, FALSE) /\ UNCHANGED main
       \/ ~OwnsExclusive(main, t) /\ AcquireExclusive(main, main', t)
            /\ Goto(t, "paging") /\ Note(t, TRUE, FALSE)
       \/ ~OwnsExclusive(paging, t) /\ WaitExclusive(main, main', t)
            /\ Goto(t, "paging") /\ Note(t, TRUE, FALSE)
       \/ OwnsExclusive(paging, t) /\ ExclusiveBusy(main, t)
            /\ Goto(t, "backOff") /\ Note(t, FALSE, FALSE) /\ UNCHANGED main
    /\ UNCHANGED <<paging, before, uses>>

\* Slip: the turn does not fail with the second try.
TakePagingAnyway(t) ==
    /\ pc[t] = "paging" /\ Free(t)
    /\ \/ OwnsExclusive(paging, t) /\ Goto(t, "clear") /\ UNCHANGED <<paging, tookPaging>>
       \/ ~OwnsExclusive(paging, t) /\ AcquireExclusive(paging, paging', t)
            /\ Goto(t, "clear") /\ tookPaging' = [tookPaging EXCEPT ![t] = TRUE]
       \/ ExclusiveBusy(paging, t) /\ Goto(t, "clear") /\ UNCHANGED <<paging, tookPaging>>
    /\ UNCHANGED <<main, tookMain, before, uses>>

\* Then PagingIoResource, without waiting: by now the thread has Resource.
TakePaging(t) ==
    /\ pc[t] = "paging" /\ Free(t)
    /\ \/ OwnsExclusive(paging, t) /\ Goto(t, "clear") /\ UNCHANGED <<paging, tookPaging>>
       \/ ~OwnsExclusive(paging, t) /\ AcquireExclusive(paging, paging', t)
            /\ Goto(t, "clear") /\ tookPaging' = [tookPaging EXCEPT ![t] = TRUE]
       \/ ExclusiveBusy(paging, t) /\ Goto(t, "backOff") /\ UNCHANGED <<paging, tookPaging>>
    /\ UNCHANGED <<main, tookMain, before, uses>>

\* Slip: the turn gives back nothing.
BackOffKeeps(t) ==
    /\ pc[t] = "backOff" /\ Free(t)
    /\ Goto(t, "main") /\ Note(t, FALSE, FALSE)
    /\ UNCHANGED <<resources, before, uses>>

\* What this turn took is given back; after a delay the loop goes round.
BackOff(t) ==
    /\ pc[t] = "backOff" /\ Free(t)
    /\ IF tookMain[t] THEN Release(main, main', t) ELSE UNCHANGED main
    /\ Goto(t, "main") /\ Note(t, FALSE, FALSE)
    /\ UNCHANGED <<paging, before, uses>>

\* CcFlushCache, MmFlushImageSection, CcPurgeCacheSection; then
\* PagingIoResource and Resource, if they were taken here.
Clear(t) ==
    /\ pc[t] = "clear" /\ Free(t)
    /\ Goto(t, "release")
    /\ IF tookPaging[t] THEN Release(paging, paging', t) ELSE UNCHANGED paging
    /\ UNCHANGED <<main, took, before, uses>>

Return(t) ==
    /\ pc[t] = "release" /\ Free(t)
    /\ Goto(t, "out") /\ Note(t, FALSE, FALSE)
    /\ IF tookMain[t] THEN Release(main, main', t) ELSE UNCHANGED main
    /\ UNCHANGED <<paging, before, uses>>

cfFileCacheClear(t) == TakeMain(t) \/ TakePaging(t) \/ BackOff(t) \/ Clear(t) \/ Return(t)

CacheNext == \E t \in Threads :
    \/ UseMain(t) \/ UsePaging(t) \/ Leave(t)
    \/ Resume(t)
    \/ Call(t) \/ cfFileCacheClear(t)

CacheSpec == CacheInit /\ [][CacheNext]_vars

\* Threads run on, and the file system gives back what it has taken.
CacheFairSpec == CacheSpec /\ \A t \in Threads :
    WF_vars(Leave(t)) /\ WF_vars(Resume(t)) /\ WF_vars(cfFileCacheClear(t))

-----------------------------------------------------------------------------
\* While the cache is flushed and purged no other thread has either resource,
\* shared or exclusive, whatever the caller brought along.
NobodyElse ==
    \A c, t \in Threads : pc[c] = "clear" /\ t # c
        => main.mode[t] = "none" /\ paging.mode[t] = "none"

\* When cfFileCacheClear returns, the thread has each resource as often as its
\* caller had, after any number of turns.
ReleasesWhatItTook ==
    [][\A c \in Threads : pc[c] # "out" /\ pc'[c] = "out"
           => <<main'.depth[c], paging'.depth[c]>> = before[c]]_vars

PagingAlone(t) == pc[t] # "out" /\ before[t][1] = 0 /\ before[t][2] > 0

\* cfFileCacheClear ends, as long as nobody calls it with PagingIoResource
\* alone: that caller would try for ever beside a thread that has Resource and
\* waits, or tries, for the other.
ClearEnds ==
    [](\A t \in Threads : ~PagingAlone(t))
        => \A c \in Threads : pc[c] # "out" ~> pc[c] = "out"
=============================================================================
