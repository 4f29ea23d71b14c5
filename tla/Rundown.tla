------------------------------- MODULE Rundown -------------------------------
(***************************************************************************)
(* Rundown protection of the executive, wrk-v1.2/base/ntos/ex/rundown.c:   *)
(* the plain structure, one word that holds either a count or a pointer to *)
(* the waiter's block, and the cache-aware one, a word per processor.  The *)
(* cache-aware calls are the plain ones on the word of the processor the   *)
(* caller happens to run on, so a reference may be taken on one word and   *)
(* given back on another.  A step is one interlocked instruction with what *)
(* the thread then does alone.  Counts are integers: the code wraps them   *)
(* modulo the word and only ever compares and adds them.                   *)
(***************************************************************************)
EXTENDS Integers, FiniteSets

CONSTANTS Threads,      \* threads that take and give back references
          Refs,         \* references; one call takes or gives back several
          Number,       \* words of the cache-aware structure
          Kinds,        \* structures to consider: "plain", "aware"
          MaxCount,     \* bound: how far a word's count may drift from zero
          Again,        \* kinds run down again after RundownCompleted
          Quiet         \* callers stay away while the words of a cache-aware structure
                        \* are reinitialised

ASSUME RundownAssumption ==
    /\ IsFiniteSet(Refs)
    /\ Number \in Nat \ {0} /\ MaxCount \in Nat \ {0}
    /\ Kinds \subseteq {"plain", "aware"}
    /\ Again \subseteq Kinds
    /\ Quiet \in BOOLEAN

VARIABLES kind,         \* which structure this is
          RunRef,       \* the words: a count, the waiter's block, or completed
          held,         \* references taken and not given back
          pc,           \* where each thread is
          cpu,          \* of its call: the word it works on,
          refs,         \* the references it takes or gives back,
          val,          \* and the value it last read from the word
          wpc,          \* where the thread that runs the object down is
          idx,          \* word it works on
          Value,        \* count it read, or TotalCount of the cache-aware wait
          WaitCount,    \* WaitBlock.Count
          WakeEvent     \* WaitBlock.WakeEvent is signalled

local  == <<cpu, refs, val>>
waiter == <<wpc, idx, Value>>
vars == <<kind, RunRef, held, pc, local, waiter, WaitCount, WakeEvent>>

Cnt(n) == [tag |-> "count", n |-> n]
Blk    == [tag |-> "block", n |-> 0]
Done   == [tag |-> "done",  n |-> 0]

Word == [tag : {"count", "block", "done"}, n : Int]

Active(v) == v.tag # "count"

Last  == IF kind = "plain" THEN 1 ELSE Number
Words == 1..Last

Busy == UNION {refs[t] : t \in Threads}

Init == /\ kind \in Kinds
        /\ RunRef = [c \in Words |-> Cnt(0)]
        /\ held = {}
        /\ pc = [t \in Threads |-> "idle"]
        /\ cpu = [t \in Threads |-> 1]
        /\ refs = [t \in Threads |-> {}]
        /\ val = [t \in Threads |-> Done]
        /\ wpc = "idle" /\ idx = 1 /\ Value = 0
        /\ WaitCount = 0 /\ WakeEvent = FALSE

-----------------------------------------------------------------------------
Enter(t, label, c, R) == /\ pc' = [pc EXCEPT ![t] = label]
                         /\ cpu' = [cpu EXCEPT ![t] = c]
                         /\ refs' = [refs EXCEPT ![t] = R]
                         /\ val' = [val EXCEPT ![t] = RunRef[c]]

Leave(t, label) == /\ pc' = [pc EXCEPT ![t] = label]
                   /\ cpu' = [cpu EXCEPT ![t] = 1]
                   /\ refs' = [refs EXCEPT ![t] = {}]
                   /\ val' = [val EXCEPT ![t] = Done]

\* Slip: the loop goes round with the value it had.
RetryStale(t, label) == UNCHANGED <<pc, cpu, refs, val>>

\* The compare-exchange failed and returned what is there now.
Retry(t, label) == /\ val' = [val EXCEPT ![t] = RunRef[cpu[t]]]
                   /\ pc' = [pc EXCEPT ![t] = label]
                   /\ UNCHANGED <<cpu, refs>>

\* A call that finds rundown active returns FALSE and changes nothing.
AcquireRead(t, c, R) ==
    /\ pc[t] = "idle" /\ c \in Words
    /\ R # {} /\ R \cap (held \cup Busy) = {}
    /\ ~(Quiet /\ kind = "aware" /\ wpc = "reinit")
    /\ ~Active(RunRef[c]) /\ RunRef[c].n < MaxCount
    /\ Enter(t, "acquire", c, R)
    /\ UNCHANGED <<kind, RunRef, held, waiter, WaitCount, WakeEvent>>

\* Slip: a caller that finds a waiter's block joins the count there.
AcquireSwapJoins(t) ==
    LET c == cpu[t]
    IN  /\ pc[t] = "acquire"
        /\ \/ /\ RunRef[c] = val[t]
              /\ RunRef' = [RunRef EXCEPT ![c] = Cnt(@.n + Cardinality(refs[t]))]
              /\ held' = held \cup refs[t]
              /\ Leave(t, "idle")
              /\ UNCHANGED WaitCount
           \/ /\ Active(RunRef[c])
              /\ IF WaitCount > 0
                 THEN /\ WaitCount' = WaitCount + Cardinality(refs[t])
                      /\ held' = held \cup refs[t]
                 ELSE UNCHANGED <<held, WaitCount>>
              /\ Leave(t, "idle")
              /\ UNCHANGED RunRef
           \/ /\ RunRef[c] # val[t] /\ ~Active(RunRef[c])
              /\ Retry(t, "acquire")
              /\ UNCHANGED <<RunRef, held, WaitCount>>
        /\ UNCHANGED <<kind, waiter, WakeEvent>>

\* The compare-exchange: it succeeds, or rundown is active, or it goes round.
AcquireSwap(t) ==
    LET c == cpu[t]
    IN  /\ pc[t] = "acquire"
        /\ \/ /\ RunRef[c] = val[t]
              /\ RunRef' = [RunRef EXCEPT ![c] = Cnt(@.n + Cardinality(refs[t]))]
              /\ held' = held \cup refs[t]
              /\ Leave(t, "idle")
           \/ /\ Active(RunRef[c])
              /\ Leave(t, "idle")
              /\ UNCHANGED <<RunRef, held>>
           \/ /\ RunRef[c] # val[t] /\ ~Active(RunRef[c])
              /\ Retry(t, "acquire")
              /\ UNCHANGED <<RunRef, held>>
        /\ UNCHANGED <<kind, waiter, WaitCount, WakeEvent>>

ReleaseRead(t, c, R) ==
    /\ pc[t] = "idle" /\ c \in Words
    /\ R # {} /\ R \subseteq held \ Busy
    /\ RunRef[c].n > -MaxCount
    /\ Enter(t, IF Active(RunRef[c]) THEN "block" ELSE "release", c, R)
    /\ UNCHANGED <<kind, RunRef, held, waiter, WaitCount, WakeEvent>>

ReleaseSwap(t) ==
    LET c == cpu[t]
    IN  /\ pc[t] = "release"
        /\ \/ /\ RunRef[c] = val[t]
              /\ RunRef' = [RunRef EXCEPT ![c] = Cnt(@.n - Cardinality(refs[t]))]
              /\ held' = held \ refs[t]
              /\ Leave(t, "idle")
           \/ /\ RunRef[c] # val[t]
              /\ Retry(t, IF Active(RunRef[c]) THEN "block" ELSE "release")
              /\ UNCHANGED <<RunRef, held>>
        /\ UNCHANGED <<kind, waiter, WaitCount, WakeEvent>>

\* Slip: a block that has not been filled in yet counts as empty.
ReleaseInBlockBelow(t) ==
    /\ pc[t] = "block"
    /\ WaitCount' = WaitCount - Cardinality(refs[t])
    /\ held' = held \ refs[t]
    /\ Leave(t, IF WaitCount' <= 0 THEN "wake" ELSE "idle")
    /\ UNCHANGED <<kind, RunRef, waiter, WakeEvent>>

\* The thread follows the pointer to the waiter's block and gives back there.
ReleaseInBlock(t) ==
    /\ pc[t] = "block"
    /\ WaitCount' = WaitCount - Cardinality(refs[t])
    /\ held' = held \ refs[t]
    /\ Leave(t, IF WaitCount' = 0 THEN "wake" ELSE "idle")
    /\ UNCHANGED <<kind, RunRef, waiter, WakeEvent>>

\* KeSetEvent by the last one out.
ReleaseWakes(t) ==
    /\ pc[t] = "wake"
    /\ WakeEvent' = TRUE
    /\ Leave(t, "idle")
    /\ UNCHANGED <<kind, RunRef, held, waiter, WaitCount>>

-----------------------------------------------------------------------------
MayWait == wpc = "idle" \/ (wpc = "completed" /\ kind \in Again)

\* The wait returns, and its block is gone.
WaitReturns == wpc' = "down" /\ Value' = 0 /\ WaitCount' = 0 /\ WakeEvent' = FALSE

\* ExfWaitForRundownProtectionRelease, the fast path.
WaitFast ==
    /\ kind = "plain" /\ MayWait
    /\ \/ /\ RunRef[1] \in {Cnt(0), Done}
          /\ RunRef' = [RunRef EXCEPT ![1] = Done]
          /\ WaitReturns
       \/ /\ RunRef[1] \notin {Cnt(0), Done}
          /\ Value' = RunRef[1].n
          /\ wpc' = "swap"
          /\ UNCHANGED <<RunRef, WaitCount, WakeEvent>>
    /\ UNCHANGED <<kind, held, pc, local, idx>>

\* One turn of its loop: fill in the block, publish it if the count still is
\* what was read.
WaitSwap ==
    /\ wpc = "swap"
    /\ \/ /\ RunRef[1] = Cnt(Value)
          /\ RunRef' = [RunRef EXCEPT ![1] = Blk]
          /\ IF Value > 0
             THEN wpc' = "wait" /\ WaitCount' = Value /\ Value' = 0 /\ UNCHANGED WakeEvent
             ELSE WaitReturns
       \/ /\ RunRef[1] # Cnt(Value)
          /\ Value' = RunRef[1].n
          /\ UNCHANGED <<RunRef, wpc, WaitCount, WakeEvent>>
    /\ UNCHANGED <<kind, held, pc, local, idx>>

\* ExWaitForRundownProtectionReleaseCacheAware: the block starts at zero.
WaitStart ==
    /\ kind = "aware" /\ MayWait
    /\ wpc' = "mark"
    /\ UNCHANGED <<kind, RunRef, held, pc, local, idx, Value, WaitCount, WakeEvent>>

\* What the code adds to TotalCount for a word: counts are shifted by one and
\* the lowest bit says that rundown is active.
Bits(v) == IF v.tag = "count" THEN 2 * v.n ELSE 1

\* Slip: the last word's count decides, not the total.
WaitMarkLast ==
    /\ wpc = "mark"
    /\ RunRef' = [RunRef EXCEPT ![idx] = Blk]
    /\ LET total == Value + Bits(RunRef[idx])
       IN  IF idx = Last /\ Bits(RunRef[idx]) = 0
           THEN idx' = 1 /\ WaitReturns
           ELSE /\ Value' = total
                /\ IF idx < Last THEN idx' = idx + 1 /\ UNCHANGED wpc
                                 ELSE idx' = 1 /\ wpc' = "add"
                /\ UNCHANGED <<WaitCount, WakeEvent>>
    /\ UNCHANGED <<kind, held, pc, local>>

\* Its loop ends each word with the exchange of whatever value was last read.
WaitMark ==
    /\ wpc = "mark"
    /\ RunRef' = [RunRef EXCEPT ![idx] = Blk]
    /\ LET total == Value + Bits(RunRef[idx])
       IN  IF idx = Last /\ total = 0
           THEN idx' = 1 /\ WaitReturns
           ELSE /\ Value' = total
                /\ IF idx < Last THEN idx' = idx + 1 /\ UNCHANGED wpc
                                 ELSE idx' = 1 /\ wpc' = "add"
                /\ UNCHANGED <<WaitCount, WakeEvent>>
    /\ UNCHANGED <<kind, held, pc, local>>

WaitAdd ==
    LET total == Value \div 2
    IN  /\ wpc = "add"
        /\ IF WaitCount = -total
           THEN WaitReturns
           ELSE /\ WaitCount' = WaitCount + total
                /\ wpc' = "wait" /\ Value' = 0
                /\ UNCHANGED WakeEvent
        /\ UNCHANGED <<kind, RunRef, held, pc, local, idx>>

\* KeWaitForSingleObject on a synchronization event.
WaitWake ==
    /\ wpc = "wait" /\ WakeEvent
    /\ WaitReturns
    /\ UNCHANGED <<kind, RunRef, held, pc, local, idx>>

\* Callers may be refused meanwhile, before or after their word is written.
RundownCompleted ==
    /\ wpc = "down"
    /\ RunRef' = [c \in Words |-> Done]
    /\ wpc' = "completed"
    /\ UNCHANGED <<kind, held, pc, local, idx, Value, WaitCount, WakeEvent>>

ReInitializeStart ==
    /\ wpc \in {"down", "completed"}
    /\ Quiet /\ kind = "aware" => \A t \in Threads : pc[t] = "idle"
    /\ wpc' = "reinit"
    /\ UNCHANGED <<kind, RunRef, held, pc, local, idx, Value, WaitCount, WakeEvent>>

\* Slip: the loop goes one word too far.
ReInitializeOver ==
    /\ wpc = "reinit"
    /\ RunRef' = [c \in Words |-> IF c = idx THEN Cnt(0) ELSE RunRef[c]]
    /\ IF idx <= Last
       THEN idx' = idx + 1 /\ UNCHANGED wpc
       ELSE idx' = 1 /\ wpc' = "idle"
    /\ UNCHANGED <<kind, held, pc, local, Value, WaitCount, WakeEvent>>

ReInitialize ==
    /\ wpc = "reinit"
    /\ RunRef' = [RunRef EXCEPT ![idx] = Cnt(0)]
    /\ IF idx < Last
       THEN idx' = idx + 1 /\ UNCHANGED wpc
       ELSE idx' = 1 /\ wpc' = "idle"
    /\ UNCHANGED <<kind, held, pc, local, Value, WaitCount, WakeEvent>>

-----------------------------------------------------------------------------
Thread(t) ==
    \/ \E c \in 1..Number, R \in SUBSET Refs :
          AcquireRead(t, c, R) \/ ReleaseRead(t, c, R)
    \/ AcquireSwap(t) \/ ReleaseSwap(t) \/ ReleaseInBlock(t) \/ ReleaseWakes(t)

Waiter == \/ WaitFast \/ WaitSwap
          \/ WaitStart \/ WaitMark \/ WaitAdd
          \/ WaitWake
          \/ RundownCompleted \/ ReInitializeStart \/ ReInitialize

Next == Waiter \/ \E t \in Threads : Thread(t)

Spec == Init /\ [][Next]_vars

\* Threads and waiter run on; who holds a reference gives it back some day,
\* as every caller of the protection must.
Fairness ==
    /\ \A t \in Threads : WF_vars(AcquireSwap(t) \/ ReleaseSwap(t)
                                    \/ ReleaseInBlock(t) \/ ReleaseWakes(t))
    /\ \A r \in Refs : WF_vars(\E t \in Threads, c \in 1..Number, R \in SUBSET Refs :
                                  r \in R /\ ReleaseRead(t, c, R))
    /\ WF_vars(WaitSwap \/ WaitMark \/ WaitAdd \/ WaitWake)

FairSpec == Spec /\ Fairness

-----------------------------------------------------------------------------
InCall == {"acquire", "release", "block"}

\* Types, and what the fields of a call mean.
TypeOK ==
    /\ kind \in Kinds
    /\ RunRef \in [Words -> Word]
    /\ held \subseteq Refs
    /\ pc \in [Threads -> InCall \cup {"idle", "wake"}]
    /\ cpu \in [Threads -> Words] /\ refs \in [Threads -> SUBSET Refs]
    /\ val \in [Threads -> Word]
    /\ wpc \in {"idle", "swap", "mark", "add", "wait", "down", "completed", "reinit"}
    /\ idx \in Words /\ Value \in Int /\ WaitCount \in Int
    /\ WakeEvent \in BOOLEAN

\* When the wait has returned nobody holds a reference, until the object is
\* reinitialised: the promise of ExfWaitForRundownProtectionRelease and of its
\* cache-aware form, although references come, go and cross words meanwhile.
NobodyLeft == wpc \in {"down", "completed"} => held = {}

\* "Since we are one of the threads blocking rundown we have the right to
\* follow the pointer" (ExfReleaseRundownProtection): the block lies on the
\* waiter's stack, so whoever follows the pointer or is about to signal the
\* event finds the waiter still inside its wait.
BlockIsAlive ==
    \A t \in Threads : pc[t] \in {"block", "wake"} => wpc \in {"mark", "add", "wait"}

\* A thread that waits for the last reference is woken.
WaitEnds == (wpc = "wait") ~> (wpc = "down")

\* The object is closed once no word admits a reference any more.
phase == IF \E c \in Words : ~Active(RunRef[c]) THEN "open"
         ELSE IF wpc \in {"down", "completed", "reinit", "idle"} THEN "done"
         ELSE "closing"

Protection == INSTANCE RundownProtection

\* Both structures implement the promise, call by call.
ImplementsProtection == Protection!Spec
=============================================================================
