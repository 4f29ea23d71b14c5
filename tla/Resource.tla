-------------------------------- MODULE Resource --------------------------------
(***************************************************************************)
(* One executive resource and the threads that call it.  What the calls do *)
(* is in ExecutiveResource.                                                *)
(***************************************************************************)
EXTENDS ExecutiveResource

VARIABLE res

Init == res = Fresh

Next == \E t \in Threads : Acquire(res, res', t) \/ Wake(res, res', t)
                            \/ Release(res, res', t) \/ Convert(res, res', t)

Spec == Init /\ [][Next]_res

\* Threads run on; who holds the resource gives it back some day, however
\* often it takes it again before; the dispatcher serves the waiters of an
\* object in turn.
Fairness ==
    \A t \in Threads :
        /\ WF_res(Signal(res, res', t))
        /\ WF_res(Release(res, res', t)) /\ SF_res(res.depth[t] = 1 /\ Release(res, res', t))
        /\ SF_res(ExclusiveGranted(res, res', t)) /\ SF_res(SharedGranted(res, res', t))

FairSpec == Spec /\ Fairness

-----------------------------------------------------------------------------
TypeOK == res \in State

\* The counts of the resource are true through every hand-over, by release or
\* conversion, with threads that have been granted access and not woken up.
CountsAreTrue == Counted(res)

\* Whoever waits gets access, exclusive waiters beside readers who ask again
\* and again and shared waiters beside writers who do, as long as nobody
\* starves the exclusive waiters on purpose.
WaitersServed == \A t \in Threads : res.call[t] \in Waits ~> res.mode[t] # "none"

Lock == INSTANCE ReaderWriterLock
          WITH readers <- Having(res, "shared"), writers <- Having(res, "exclusive")

\* Any number of readers or one writer, whatever is handed over to whom.
ImplementsLock == Lock!LockSpec
=============================================================================
