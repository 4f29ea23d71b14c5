--------------------------- MODULE Rundown_proofs ---------------------------
(***************************************************************************)
(* Rundown protection, plain and cache-aware, for any number of words and  *)
(* any finite set of references: the wait returns only when nobody holds a *)
(* reference, and the waiter's block is never used after that.  Of the     *)
(* callers of the plain structure nothing is asked.  Those of the          *)
(* cache-aware one stay away while it is reinitialised, and it is not run  *)
(* down again after ExRundownCompletedCacheAware: the model checker shows  *)
(* that it needs both.                                                     *)
(***************************************************************************)
EXTENDS Rundown, FiniteSetTheorems, TLAPS

\* What is asked of the callers of the cache-aware structure.
Polite == "aware" \in Kinds => Quiet /\ "aware" \notin Again

\* TypeOK without the event.
Types ==
    /\ kind \in Kinds /\ RunRef \in [Words -> Word] /\ held \subseteq Refs
    /\ pc \in [Threads -> InCall \cup {"idle", "wake"}]
    /\ cpu \in [Threads -> Words] /\ refs \in [Threads -> SUBSET Refs]
    /\ val \in [Threads -> Word]
    /\ wpc \in {"idle", "swap", "mark", "add", "wait", "down", "completed", "reinit"}
    /\ idx \in Words /\ Value \in Int /\ WaitCount \in Int

\* The calls in progress: nobody gives back what he does not hold.
Calls ==
    \A t \in Threads :
       /\ pc[t] \in {"idle", "wake"} <=> refs[t] = {}
       /\ pc[t] = "acquire" => refs[t] \cap held = {}
       /\ pc[t] \in {"release", "block"} => refs[t] \subseteq held
       /\ pc[t] \in {"acquire", "release"} => ~Active(val[t])
       /\ \A u \in Threads : t # u => refs[t] \cap refs[u] = {}

\* Which words are closed, by where the waiter is.
Closed(c) == \/ wpc \in {"add", "wait", "down", "completed"}
             \/ wpc = "mark" /\ c < idx
             \/ wpc = "reinit" /\ c >= idx

Stages ==
    /\ \A c \in Words : Active(RunRef[c]) <=> Closed(c)
    /\ wpc = "mark" => kind = "aware"
    /\ wpc = "swap" => kind = "plain"
    /\ wpc \notin {"mark", "reinit"} => idx = 1
    /\ wpc = "reinit" /\ kind = "aware" => \A t \in Threads : pc[t] = "idle"
    /\ wpc = "reinit" => \A c \in Words : c < idx => RunRef[c] = Cnt(0)
    /\ wpc = "completed" => \A c \in Words : RunRef[c] = Done
    /\ wpc \in {"idle", "wait", "down", "completed", "reinit"} => Value = 0

\* The block counts down to zero once, and one thread sees it.
Waking ==
    /\ wpc \in {"mark", "add"} => WaitCount <= 0 /\ \E m \in Int : Value = 2 * m
    /\ wpc \notin {"mark", "add", "wait"} => WaitCount = 0
    /\ WakeEvent => wpc = "wait" /\ WaitCount = 0
    /\ \A t \in Threads : pc[t] = "block" => wpc \in {"mark", "add", "wait"}
    /\ \A t \in Threads : pc[t] = "wake" => wpc = "wait" /\ WaitCount = 0 /\ ~WakeEvent
    /\ \A t, u \in Threads : pc[t] = "wake" /\ pc[u] = "wake" => t = u

\* S[i] is the sum of the counts of the words 1..i.
IsSum(S, w, N) == /\ S \in [0..N -> Int]
                  /\ S[0] = 0
                  /\ \A i \in 1..N : S[i] = S[i-1] + w[i]

\* T is S with k added from c on: the sums w for the changed word.
Moved(T, S, w, N, c, k) == /\ IsSum(T, w, N)
                           /\ T[N] = S[N] + k
                           /\ \A i \in 0..(c - 1) : T[i] = S[i]
                           /\ T[c] = S[c] + k

Weights == [c \in Words |-> IF Active(RunRef[c]) THEN 0 ELSE RunRef[c].n]
Owed    == IF wpc \in {"mark", "add"} THEN Value \div 2 ELSE 0

\* What the words, the waiter and its block say together is what is held.
Tally(S) == /\ IsSum(S, Weights, Last)
            /\ wpc = "mark" => \A i \in 0..(idx - 1) : S[i] = 0
            /\ wpc \in {"add", "wait", "down", "completed"} => S[Last] = 0
            /\ S[Last] + Owed + WaitCount = Cardinality(held)

Counts == \E S : Tally(S)

Gone == wpc \in {"down", "completed", "reinit"} => held = {}

Inv == Types /\ Calls /\ Stages /\ Waking /\ Counts /\ Gone
-----------------------------------------------------------------------------
\* The cardinality of what is taken and given back.
LEMMA CardOf ==
    ASSUME NEW H \in SUBSET Refs, NEW R \in SUBSET Refs
    PROVE  /\ Cardinality(H) \in Nat
           /\ H = {} <=> Cardinality(H) = 0
           /\ R \cap H = {} => Cardinality(H \cup R) = Cardinality(H) + Cardinality(R)
           /\ R \subseteq H => Cardinality(H \ R) = Cardinality(H) - Cardinality(R)
<1>1. IsFiniteSet(H) /\ IsFiniteSet(R)
  BY FS_Subset, RundownAssumption
<1>2. Cardinality(H) \in Nat /\ Cardinality(R) \in Nat
  BY <1>1, FS_CardinalityType
<1>3. H = {} <=> Cardinality(H) = 0
  BY <1>1, FS_EmptySet
<1>4. Cardinality(H \cup R) = Cardinality(H) + Cardinality(R) - Cardinality(H \cap R)
  BY <1>1, FS_Union
<1>5. Cardinality(H \ R) = Cardinality(H) - Cardinality(H \cap R)
  BY <1>1, FS_Difference
<1>6. R \cap H = {} => Cardinality(H \cap R) = 0
  BY FS_EmptySet
<1>7. R \subseteq H => H \cap R = R
  OBVIOUS
<1> QED
  BY <1>2, <1>3, <1>4, <1>5, <1>6, <1>7

\* Changing the count of one word by k moves the sums from there on by k.
LEMMA SumMoves ==
    ASSUME NEW N \in Nat, NEW w \in [1..N -> Int],
           NEW c \in 1..N, NEW k \in Int, NEW S, IsSum(S, w, N)
    PROVE  \E T : Moved(T, S, [w EXCEPT ![c] = @ + k], N, c, k)
<1> DEFINE v == [w EXCEPT ![c] = @ + k]
           T == [i \in 0..N |-> IF i >= c THEN S[i] + k ELSE S[i]]
<1>0. S \in [0..N -> Int] /\ S[0] = 0 /\ \A i \in 0..N : S[i] \in Int
  BY DEF IsSum
<1>1. T \in [0..N -> Int] /\ T[0] = 0
  BY <1>0
<1>2. ASSUME NEW i \in 1..N PROVE T[i] = T[i-1] + v[i]
  <2>1. i - 1 \in 0..N /\ i \in 0..N /\ S[i] = S[i-1] + w[i]
    BY DEF IsSum
  <2>2. S[i] \in Int /\ S[i-1] \in Int /\ w[i] \in Int
    BY <2>1 DEF IsSum
  <2>3. CASE i < c
    <3>1. T[i] = S[i] /\ T[i-1] = S[i-1] /\ v[i] = w[i]
      BY <2>1, <2>3
    <3> QED
      BY <2>1, <2>2, <3>1
  <2>4. CASE i > c
    <3>1. T[i] = S[i] + k /\ T[i-1] = S[i-1] + k /\ v[i] = w[i]
      BY <2>1, <2>4
    <3> QED
      BY <2>1, <2>2, <3>1
  <2>5. CASE i = c
    <3>1. T[i] = S[i] + k /\ T[i-1] = S[i-1] /\ v[i] = w[i] + k
      BY <2>1, <2>5
    <3> QED
      BY <2>1, <2>2, <3>1
  <2> QED
    BY <2>3, <2>4, <2>5
<1>3. T[N] = S[N] + k /\ T[c] = S[c] + k /\ \A i \in 0..(c - 1) : T[i] = S[i]
  OBVIOUS
<1> QED
  BY <1>1, <1>2, <1>3 DEF IsSum, Moved

\* What a word can hold.
LEMMA ConstFacts == Blk \in Word /\ Active(Blk) /\ Done \in Word /\ Active(Done) /\ Blk # Done
  BY DEF Blk, Done, Word, Active

LEMMA CntFacts == \A n \in Int : Cnt(n) \in Word /\ ~Active(Cnt(n)) /\ Cnt(n).n = n
  BY DEF Word, Active, Cnt

LEMMA WordFacts ==
    ASSUME NEW v \in Word
    PROVE  /\ v.n \in Int
           /\ ~Active(v) => v = Cnt(v.n)
           /\ Bits(v) \in Int
           /\ Bits(v) = IF Active(v) THEN 1 ELSE 2 * v.n
  BY DEF Word, Active, Cnt, Bits

LEMMA WordsFact == Last \in Nat \ {0} /\ Words = 1..Last /\ 1 \in Words
  BY RundownAssumption DEF Last, Words

LEMMA PlainFact == kind = "plain" => Last = 1 /\ Words = {1}
  BY DEF Last, Words

LEMMA TypeInit == Init => Types
  BY WordsFact, ConstFacts, CntFacts DEF Init, Types, InCall

\* The words of the structure are the same for ever.
LEMMA KindStays == [Next]_vars => kind' = kind /\ Words' = Words /\ Last' = Last /\ Word' = Word
  BY DEF Next, Thread, Waiter, vars, Words, Last, Word, AcquireRead, ReleaseRead,
     AcquireSwap, ReleaseSwap, ReleaseInBlock, ReleaseWakes, WaitFast, WaitSwap,
     WaitStart, WaitMark, WaitAdd, WaitWake, RundownCompleted,
     ReInitializeStart, ReInitialize

\* Every step keeps the types.
LEMMA TypeStep == Types /\ [Next]_vars => Types'
<1> SUFFICES ASSUME Types, [Next]_vars PROVE Types'
  OBVIOUS
<1>k. kind' = kind /\ Words' = Words /\ Last' = Last /\ Word' = Word
  BY KindStays
<1>u. CASE UNCHANGED vars
  BY <1>u, <1>k DEF Types, InCall, vars, waiter, local
<1>1. ASSUME NEW t \in Threads, NEW c \in 1..Number, NEW R \in SUBSET Refs, AcquireRead(t, c, R) PROVE Types'
  BY <1>1, <1>k, WordsFact DEF Types, InCall, AcquireRead, waiter, Enter, local
<1>2. ASSUME NEW t \in Threads, NEW c \in 1..Number, NEW R \in SUBSET Refs, ReleaseRead(t, c, R) PROVE Types'
  BY <1>2, <1>k, WordsFact DEF Types, InCall, ReleaseRead, waiter, Enter, local
<1>3. ASSUME NEW t \in Threads, AcquireSwap(t) PROVE Types'
  <2> DEFINE m == RunRef[cpu[t]].n + Cardinality(refs[t])
  <2>1. /\ cpu[t] \in Words /\ refs[t] \in SUBSET Refs /\ RunRef[cpu[t]] \in Word
        /\ RunRef[cpu[t]].n \in Int /\ m \in Int
    <3>1. cpu[t] \in Words /\ refs[t] \in SUBSET Refs /\ RunRef[cpu[t]] \in Word
      BY DEF Types
    <3>2. RunRef[cpu[t]].n \in Int
      BY <3>1, WordFacts
    <3>3. Cardinality(refs[t]) \in Nat
      BY <3>1, CardOf
    <3> QED
      BY <3>1, <3>2, <3>3
  <2>2. /\ RunRef' = RunRef \/ RunRef' = [RunRef EXCEPT ![cpu[t]] = Cnt(m)]
        /\ held' \subseteq Refs
    BY <1>3, <2>1 DEF AcquireSwap, Types
  <2>3. RunRef' \in [Words -> Word]
    BY <2>1, <2>2, CntFacts DEF Types
  <2>4. /\ pc' \in [Threads -> InCall \cup {"idle", "wake"}]
        /\ cpu' \in [Threads -> Words] /\ refs' \in [Threads -> SUBSET Refs]
        /\ val' \in [Threads -> Word]
    <3>1. CASE Leave(t, "idle")
      BY <3>1, <1>3, WordsFact, ConstFacts DEF Types, InCall, Leave
    <3>2. CASE ~Leave(t, "idle")
      <4>1. \E l \in InCall : Retry(t, l)
        BY <3>2, <1>3 DEF AcquireSwap, InCall
      <4> QED
        BY <4>1, <2>1 DEF Types, Retry, InCall
    <3> QED
      BY <3>1, <3>2
  <2> QED
    BY <1>3, <1>k, <2>2, <2>3, <2>4 DEF Types, AcquireSwap, InCall, waiter
<1>4. ASSUME NEW t \in Threads, ReleaseSwap(t) PROVE Types'
  <2> DEFINE m == RunRef[cpu[t]].n - Cardinality(refs[t])
  <2>1. /\ cpu[t] \in Words /\ refs[t] \in SUBSET Refs /\ RunRef[cpu[t]] \in Word
        /\ RunRef[cpu[t]].n \in Int /\ m \in Int
    <3>1. cpu[t] \in Words /\ refs[t] \in SUBSET Refs /\ RunRef[cpu[t]] \in Word
      BY DEF Types
    <3>2. RunRef[cpu[t]].n \in Int
      BY <3>1, WordFacts
    <3>3. Cardinality(refs[t]) \in Nat
      BY <3>1, CardOf
    <3> QED
      BY <3>1, <3>2, <3>3
  <2>2. /\ RunRef' = RunRef \/ RunRef' = [RunRef EXCEPT ![cpu[t]] = Cnt(m)]
        /\ held' \subseteq Refs
    BY <1>4, <2>1 DEF ReleaseSwap, Types
  <2>3. RunRef' \in [Words -> Word]
    BY <2>1, <2>2, CntFacts DEF Types
  <2>4. /\ pc' \in [Threads -> InCall \cup {"idle", "wake"}]
        /\ cpu' \in [Threads -> Words] /\ refs' \in [Threads -> SUBSET Refs]
        /\ val' \in [Threads -> Word]
    <3>1. CASE Leave(t, "idle")
      BY <3>1, <1>4, WordsFact, ConstFacts DEF Types, InCall, Leave
    <3>2. CASE ~Leave(t, "idle")
      <4>1. \E l \in InCall : Retry(t, l)
        BY <3>2, <1>4 DEF ReleaseSwap, InCall
      <4> QED
        BY <4>1, <2>1 DEF Types, Retry, InCall
    <3> QED
      BY <3>1, <3>2
  <2> QED
    BY <1>4, <1>k, <2>2, <2>3, <2>4 DEF Types, ReleaseSwap, InCall, waiter
<1>5. ASSUME NEW t \in Threads, ReleaseInBlock(t) PROVE Types'
  BY <1>5, <1>k, WordsFact, ConstFacts, CardOf DEF Types, InCall, ReleaseInBlock, waiter, Leave, local
<1>6. ASSUME NEW t \in Threads, ReleaseWakes(t) PROVE Types'
  BY <1>6, <1>k, WordsFact, ConstFacts DEF Types, InCall, ReleaseWakes, waiter, Leave, local
<1>7. CASE WaitFast
  <2>1. RunRef[1] \in Word /\ RunRef[1].n \in Int
    <3>1. RunRef[1] \in Word
      BY WordsFact DEF Types
    <3> QED
      BY <3>1, WordFacts
  <2>2. RunRef' \in [Words -> Word] /\ Value' \in Int /\ WaitCount' \in Int
    BY <1>7, <2>1, ConstFacts DEF Types, WaitFast, WaitReturns
  <2> QED
    BY <1>7, <1>k, <2>2 DEF Types, WaitFast, WaitReturns, local, InCall
<1>8. CASE WaitSwap
  <2>1. RunRef[1] \in Word /\ RunRef[1].n \in Int
    <3>1. RunRef[1] \in Word
      BY WordsFact DEF Types
    <3> QED
      BY <3>1, WordFacts
  <2>2. RunRef' \in [Words -> Word] /\ Value' \in Int /\ WaitCount' \in Int
    BY <1>8, <2>1, ConstFacts DEF Types, WaitSwap, WaitReturns
  <2> QED
    BY <1>8, <1>k, <2>2 DEF Types, WaitSwap, WaitReturns, local, InCall
<1>9. CASE WaitStart
  BY <1>9, <1>k DEF Types, InCall, WaitStart, MayWait, local
<1>10. CASE WaitMark
  <2>1. RunRef[idx] \in Word /\ Bits(RunRef[idx]) \in Int
    <3>1. RunRef[idx] \in Word
      BY DEF Types
    <3> QED
      BY <3>1, WordFacts
  <2>2. /\ RunRef' \in [Words -> Word] /\ Value' \in Int /\ WaitCount' \in Int
        /\ idx' \in Words
    BY <1>10, <2>1, ConstFacts, WordsFact DEF Types, WaitMark, WaitReturns
  <2> QED
    BY <1>10, <1>k, <2>2 DEF Types, WaitMark, WaitReturns, local, InCall
<1>11. CASE WaitAdd
  BY <1>11, <1>k DEF Types, InCall, WaitAdd, WaitReturns, local
<1>12. CASE WaitWake
  BY <1>12, <1>k DEF Types, InCall, WaitWake, WaitReturns, local
<1>13. CASE RundownCompleted
  BY <1>13, <1>k, ConstFacts DEF Types, InCall, RundownCompleted, local
<1>14. CASE ReInitializeStart
  BY <1>14, <1>k DEF Types, InCall, ReInitializeStart, local
<1>15. CASE ReInitialize
  BY <1>15, <1>k, WordsFact, CntFacts DEF Types, InCall, ReInitialize, local
<1> QED
  BY <1>u, <1>1, <1>2, <1>3, <1>4, <1>5, <1>6, <1>7, <1>8, <1>9, <1>10, <1>11, <1>12, <1>13, <1>14, <1>15 DEF Next, Thread, Waiter

\* No two calls ever work on the same reference.
LEMMA CallsStep == Types /\ Calls /\ [Next]_vars => Calls'
<1> SUFFICES ASSUME Types, Calls, [Next]_vars PROVE Calls'
  OBVIOUS
<1>k. kind' = kind /\ Words' = Words /\ Last' = Last /\ Word' = Word
  BY KindStays
<1>u. CASE UNCHANGED vars
  BY <1>u, <1>k DEF Types, InCall, Calls, vars, waiter, local
<1>1. ASSUME NEW t \in Threads, NEW c \in 1..Number, NEW R \in SUBSET Refs, AcquireRead(t, c, R) PROVE Calls'
  BY <1>1, <1>k DEF Types, InCall, Calls, AcquireRead, waiter, Enter, local, Busy
<1>2. ASSUME NEW t \in Threads, NEW c \in 1..Number, NEW R \in SUBSET Refs, ReleaseRead(t, c, R) PROVE Calls'
  BY <1>2, <1>k DEF Types, InCall, Calls, ReleaseRead, waiter, Enter, local, Busy
<1>3. ASSUME NEW t \in Threads, AcquireSwap(t) PROVE Calls'
  BY <1>3, <1>k, ConstFacts DEF Types, InCall, Calls, AcquireSwap, waiter, Leave, Retry, local
<1>4. ASSUME NEW t \in Threads, ReleaseSwap(t) PROVE Calls'
  BY <1>4, <1>k, ConstFacts DEF Types, InCall, Calls, ReleaseSwap, waiter, Leave, Retry, local
<1>5. ASSUME NEW t \in Threads, ReleaseInBlock(t) PROVE Calls'
  BY <1>5, <1>k, ConstFacts DEF Types, InCall, Calls, ReleaseInBlock, waiter, Leave, local
<1>6. ASSUME NEW t \in Threads, ReleaseWakes(t) PROVE Calls'
  BY <1>6, <1>k, ConstFacts DEF Types, InCall, Calls, ReleaseWakes, waiter, Leave, local
<1>7. CASE WaitFast
  BY <1>7, <1>k DEF Types, InCall, Calls, WaitFast, MayWait, WaitReturns, local
<1>8. CASE WaitSwap
  BY <1>8, <1>k DEF Types, InCall, Calls, WaitSwap, WaitReturns, local
<1>9. CASE WaitStart
  BY <1>9, <1>k DEF Types, InCall, Calls, WaitStart, MayWait, local
<1>10. CASE WaitMark
  BY <1>10, <1>k DEF Types, InCall, Calls, WaitMark, WaitReturns, local
<1>11. CASE WaitAdd
  BY <1>11, <1>k DEF Types, InCall, Calls, WaitAdd, WaitReturns, local
<1>12. CASE WaitWake
  BY <1>12, <1>k DEF Types, InCall, Calls, WaitWake, WaitReturns, local
<1>13. CASE RundownCompleted
  BY <1>13, <1>k DEF Types, InCall, Calls, RundownCompleted, local
<1>14. CASE ReInitializeStart
  BY <1>14, <1>k DEF Types, InCall, Calls, ReInitializeStart, local
<1>15. CASE ReInitialize
  BY <1>15, <1>k DEF Types, InCall, Calls, ReInitialize, local
<1> QED
  BY <1>u, <1>1, <1>2, <1>3, <1>4, <1>5, <1>6, <1>7, <1>8, <1>9, <1>10, <1>11, <1>12, <1>13, <1>14, <1>15 DEF Next, Thread, Waiter

\* Nobody gets in by the word that is being reinitialised: callers of the
\* cache-aware structure are away, and the plain one has no word open yet.
LEMMA ShutWhileReopened ==
    ASSUME Types, Calls, Stages, wpc = "reinit", NEW t \in Threads, AcquireSwap(t)
    PROVE  RunRef' = RunRef /\ held' = held
<1>1. pc[t] = "acquire" /\ ~Active(val[t])
  BY DEF AcquireSwap, Calls
<1>2. kind = "plain"
  BY <1>1, RundownAssumption DEF Stages, Types
<1>3. cpu[t] = 1 /\ idx = 1 /\ 1 \in Words
  BY <1>2, PlainFact DEF Types
<1>4. Active(RunRef[cpu[t]])
  BY <1>3 DEF Stages, Closed
<1> QED
  BY <1>1, <1>4 DEF AcquireSwap

\* The words close and open in step with the waiter.
LEMMA StagesStep == Polite /\ Types /\ Calls /\ Gone /\ Stages /\ [Next]_vars => Stages'
<1> SUFFICES ASSUME Polite, Types, Calls, Gone, Stages, [Next]_vars PROVE Stages'
  OBVIOUS
<1>k. kind' = kind /\ Words' = Words /\ Last' = Last /\ Word' = Word
  BY KindStays
<1>u. CASE UNCHANGED vars
  BY <1>u, <1>k DEF Types, InCall, Gone, Stages, Closed, Polite, vars, waiter, local
<1>1. ASSUME NEW t \in Threads, NEW c \in 1..Number, NEW R \in SUBSET Refs, AcquireRead(t, c, R) PROVE Stages'
  BY <1>1, <1>k DEF Types, InCall, Gone, Stages, Closed, Polite, AcquireRead, waiter, Enter, local
<1>2. ASSUME NEW t \in Threads, NEW c \in 1..Number, NEW R \in SUBSET Refs, ReleaseRead(t, c, R) PROVE Stages'
  BY <1>2, <1>k DEF Types, InCall, Gone, Stages, Closed, Polite, ReleaseRead, waiter, Enter, local
<1>3. ASSUME NEW t \in Threads, AcquireSwap(t) PROVE Stages'
  <2> DEFINE m == RunRef[cpu[t]].n + Cardinality(refs[t])
  <2>1. RunRef[cpu[t]] \in Word /\ refs[t] \in SUBSET Refs /\ cpu[t] \in Words
    BY DEF Types
  <2>2. m \in Int
    <3>1. RunRef[cpu[t]].n \in Int
      BY <2>1, WordFacts
    <3>2. Cardinality(refs[t]) \in Nat
      BY <2>1, CardOf
    <3> QED
      BY <3>1, <3>2
  <2>3. ~Active(Cnt(m))
    BY <2>2, CntFacts
  <2>4. ~Active(val[t]) /\ (wpc = "reinit" => kind # "aware")
    BY <1>3 DEF Calls, Stages, AcquireSwap
  <2>5. RunRef' = RunRef \/ (~Active(RunRef[cpu[t]]) /\ RunRef' = [RunRef EXCEPT ![cpu[t]] = Cnt(m)])
    BY <1>3, <2>4 DEF AcquireSwap
  <2>6. \A c \in Words : Active(RunRef'[c]) <=> Active(RunRef[c])
    BY <2>1, <2>3, <2>5 DEF Types
  <2>7. wpc' = wpc /\ idx' = idx /\ Value' = Value
    BY <1>3 DEF AcquireSwap, waiter
  <2>8. wpc = "completed" => RunRef' = RunRef
    BY <2>1, <2>5 DEF Stages, Closed
  <2>9. wpc = "reinit" => RunRef' = RunRef
    BY <1>3, ShutWhileReopened
  <2> QED
    BY <1>k, <2>4, <2>6, <2>7, <2>8, <2>9 DEF Stages, Closed
<1>4. ASSUME NEW t \in Threads, ReleaseSwap(t) PROVE Stages'
  <2> DEFINE m == RunRef[cpu[t]].n - Cardinality(refs[t])
  <2>1. RunRef[cpu[t]] \in Word /\ refs[t] \in SUBSET Refs /\ cpu[t] \in Words
    BY DEF Types
  <2>2. m \in Int
    <3>1. RunRef[cpu[t]].n \in Int
      BY <2>1, WordFacts
    <3>2. Cardinality(refs[t]) \in Nat
      BY <2>1, CardOf
    <3> QED
      BY <3>1, <3>2
  <2>3. ~Active(Cnt(m))
    BY <2>2, CntFacts
  <2>4. ~Active(val[t]) /\ wpc # "reinit"
    <3>1. pc[t] = "release"
      BY <1>4 DEF ReleaseSwap
    <3>2. refs[t] # {} /\ refs[t] \subseteq held /\ ~Active(val[t])
      BY <3>1 DEF Calls
    <3> QED
      BY <3>2 DEF Gone
  <2>5. RunRef' = RunRef \/ (~Active(RunRef[cpu[t]]) /\ RunRef' = [RunRef EXCEPT ![cpu[t]] = Cnt(m)])
    BY <1>4, <2>4 DEF ReleaseSwap
  <2>6. \A c \in Words : Active(RunRef'[c]) <=> Active(RunRef[c])
    BY <2>1, <2>3, <2>5 DEF Types
  <2>7. wpc' = wpc /\ idx' = idx /\ Value' = Value
    BY <1>4 DEF ReleaseSwap, waiter
  <2>8. wpc = "completed" => RunRef' = RunRef
    BY <2>1, <2>5 DEF Stages, Closed
  <2> QED
    BY <1>k, <2>4, <2>6, <2>7, <2>8 DEF Stages, Closed
<1>5. ASSUME NEW t \in Threads, ReleaseInBlock(t) PROVE Stages'
  BY <1>5, <1>k, ConstFacts DEF Types, InCall, Gone, Stages, Closed, Polite, ReleaseInBlock, waiter, Leave, local
<1>6. ASSUME NEW t \in Threads, ReleaseWakes(t) PROVE Stages'
  BY <1>6, <1>k DEF Types, InCall, Gone, Stages, Closed, Polite, ReleaseWakes, waiter, Leave, local
<1>7. CASE WaitFast
  BY <1>7, <1>k, PlainFact, ConstFacts, CntFacts DEF Types, InCall, Gone, Stages, Closed, Polite, WaitFast, MayWait, WaitReturns, local
<1>8. CASE WaitSwap
  BY <1>8, <1>k, PlainFact, ConstFacts, CntFacts DEF Types, InCall, Gone, Stages, Closed, Polite, WaitSwap, WaitReturns, local
<1>9. CASE WaitStart
  BY <1>9, <1>k, WordsFact DEF Types, InCall, Gone, Stages, Closed, Polite, WaitStart, MayWait, local
<1>10. CASE WaitMark
  BY <1>10, <1>k, WordsFact, ConstFacts DEF Types, InCall, Gone, Stages, Closed, Polite, WaitMark, WaitReturns, local
<1>11. CASE WaitAdd
  BY <1>11, <1>k, WordsFact DEF Types, InCall, Gone, Stages, Closed, Polite, WaitAdd, WaitReturns, local
<1>12. CASE WaitWake
  BY <1>12, <1>k DEF Types, InCall, Gone, Stages, Closed, Polite, WaitWake, WaitReturns, local
<1>13. CASE RundownCompleted
  BY <1>13, <1>k, WordsFact, ConstFacts DEF Types, InCall, Gone, Stages, Closed, Polite, RundownCompleted, local
<1>14. CASE ReInitializeStart
  BY <1>14, <1>k, WordsFact DEF Types, InCall, Gone, Stages, Closed, Polite, ReInitializeStart, local
<1>15. CASE ReInitialize
  BY <1>15, <1>k, WordsFact, CntFacts DEF Types, InCall, Gone, Stages, Closed, Polite, ReInitialize, local
<1> QED
  BY <1>u, <1>1, <1>2, <1>3, <1>4, <1>5, <1>6, <1>7, <1>8, <1>9, <1>10, <1>11, <1>12, <1>13, <1>14, <1>15 DEF Next, Thread, Waiter

LEMMA WeightsType == Types => Weights \in [1..Last -> Int] /\ held \in SUBSET Refs
<1> SUFFICES ASSUME Types PROVE Weights \in [Words -> Int] /\ held \in SUBSET Refs
  BY WordsFact
<1>1. ASSUME NEW c \in Words PROVE RunRef[c].n \in Int
  <2>1. RunRef[c] \in Word
    BY DEF Types
  <2> QED
    BY <2>1, WordFacts
<1> QED
  BY <1>1 DEF Weights, Types

\* SumMoves, for one word of the structure.
LEMMA WordMoves ==
    ASSUME Types, Last' = Last, NEW c \in Words, NEW k \in Int,
           Weights' = [Weights EXCEPT ![c] = @ + k],
           NEW S, IsSum(S, Weights, Last)
    PROVE  \E T : Moved(T, S, Weights', Last', c, k)
<1>1. Weights \in [1..Last -> Int] /\ Last \in Nat /\ c \in 1..Last
  BY WeightsType, WordsFact
<1>2. \E T : Moved(T, S, [Weights EXCEPT ![c] = @ + k], Last, c, k)
  BY <1>1, SumMoves
<1> QED
  BY <1>2

\* The same weights, waiter and block: the tally still is right.
LEMMA TallyStays ==
    ASSUME Types, Counts, Weights' = Weights, Last' = Last, WaitCount' = WaitCount,
           held' = held, wpc' = wpc, idx' = idx, Value' = Value
    PROVE  Counts'
  BY DEF Counts, Tally, Owed, IsSum

\* Words, waiter and block together count what is held.
LEMMA CountsStep == Polite /\ Types /\ Calls /\ Stages /\ Waking /\ Counts /\ [Next]_vars => Counts'
<1> SUFFICES ASSUME Polite, Types, Calls, Stages, Waking, Counts, [Next]_vars PROVE Counts'
  OBVIOUS
<1>k. kind' = kind /\ Words' = Words /\ Last' = Last /\ Word' = Word
  BY KindStays
<1>w. Weights \in [1..Last -> Int] /\ held \in SUBSET Refs
  BY WeightsType
<1>u. CASE UNCHANGED vars
  <2>1. Weights' = Weights
    BY <1>u, <1>k DEF Weights, vars, waiter, local
  <2> QED
    BY <2>1, <1>u, <1>k, TallyStays DEF vars, waiter, local
<1>1. ASSUME NEW t \in Threads, NEW c \in 1..Number, NEW R \in SUBSET Refs, AcquireRead(t, c, R) PROVE Counts'
  <2>1. Weights' = Weights
    BY <1>1, <1>k DEF Weights, AcquireRead, waiter, local
  <2> QED
    BY <2>1, <1>1, <1>k, TallyStays DEF AcquireRead, waiter, local
<1>2. ASSUME NEW t \in Threads, NEW c \in 1..Number, NEW R \in SUBSET Refs, ReleaseRead(t, c, R) PROVE Counts'
  <2>1. Weights' = Weights
    BY <1>2, <1>k DEF Weights, ReleaseRead, waiter, local
  <2> QED
    BY <2>1, <1>2, <1>k, TallyStays DEF ReleaseRead, waiter, local
<1>3. ASSUME NEW t \in Threads, AcquireSwap(t) PROVE Counts'
  <2>0. /\ wpc' = wpc /\ idx' = idx /\ Value' = Value /\ WaitCount' = WaitCount
        /\ cpu[t] \in Words /\ refs[t] \in SUBSET Refs /\ RunRef[cpu[t]] \in Word
    BY <1>3 DEF AcquireSwap, waiter, Types
  <2> DEFINE c == cpu[t]
             k == Cardinality(refs[t])
  <2>1. CASE RunRef' = RunRef /\ held' = held
    <3>1. Weights' = Weights
      BY <2>1, <1>k DEF Weights
    <3> QED
      BY <3>1, <2>0, <2>1, <1>k, TallyStays
  <2>2. CASE /\ RunRef[c] = val[t] /\ held' = held \cup refs[t]
             /\ RunRef' = [RunRef EXCEPT ![c] = Cnt(RunRef[c].n + Cardinality(refs[t]))]
    <3>1. k \in Int /\ Cardinality(held') = Cardinality(held) + k
      <4>1. refs[t] \cap held = {}
        BY <1>3 DEF Calls, AcquireSwap
      <4>2. Cardinality(refs[t]) \in Nat
        BY <2>0, CardOf
      <4>3. Cardinality(held') = Cardinality(held) + Cardinality(refs[t]) /\ Cardinality(held) \in Nat
        BY <1>w, <2>0, <2>2, <4>1, CardOf
      <4> QED
        BY <4>2, <4>3
    <3>2. ~Active(RunRef[c]) /\ ~Closed(c)
      BY <2>0, <2>2, <1>3 DEF Calls, AcquireSwap, Stages
    <3>3. RunRef[c].n \in Int
      BY <2>0, WordFacts
    <3>4. RunRef[c].n + Cardinality(refs[t]) = RunRef[c].n + k /\ RunRef[c].n + k \in Int
      <4>1. Cardinality(refs[t]) \in Nat
        BY <2>0, CardOf
      <4> QED
        BY <3>1, <3>3, <4>1
    <3>5. ~Active(Cnt(RunRef[c].n + k)) /\ Cnt(RunRef[c].n + k).n = RunRef[c].n + k
      BY <3>4, CntFacts
    <3>6. Weights' = [Weights EXCEPT ![c] = @ + k]
      BY <2>0, <2>2, <3>2, <3>4, <3>5, <1>k DEF Weights, Types
    <3>7. PICK S : Tally(S)
      BY DEF Counts
    <3>m. PICK T : Moved(T, S, Weights', Last', c, k)
      <4>1. IsSum(S, Weights, Last) /\ Last' = Last /\ c \in Words
        BY <3>7, <2>0, <1>k DEF Tally
      <4> HIDE DEF c, k
      <4> QED
        BY <4>1, <3>1, <3>6, WordMoves
    <3>8. /\ IsSum(T, Weights', Last) /\ T[Last] = S[Last] + k
          /\ \A i \in 0..(c - 1) : T[i] = S[i]
      BY <3>m, <1>k DEF Moved
    <3>9. Tally(T)'
      <4>1. wpc \notin {"add", "wait", "down", "completed"} /\ (wpc = "mark" => c >= idx)
        BY <3>2, <2>0, WordsFact DEF Closed, Types
      <4>2. wpc = "mark" => \A i \in 0..(idx - 1) : T[i] = 0
        BY <4>1, <3>7, <3>8, <2>0, WordsFact DEF Tally, Types
      <4>3. T[Last] + Owed + WaitCount = Cardinality(held')
        <5>1. S[Last] \in Int /\ S[Last] + Owed + WaitCount = Cardinality(held)
          BY <3>7, WordsFact DEF Tally, IsSum
        <5>2. Owed \in Int /\ WaitCount \in Int
          BY DEF Owed, Types
        <5> QED
          BY <5>1, <5>2, <3>1, <3>8
      <4>4. Owed' = Owed
        BY <2>0 DEF Owed
      <4> QED
        BY <3>8, <4>1, <4>2, <4>3, <4>4, <1>k, <2>0 DEF Tally
    <3> QED
      BY <3>9 DEF Counts
  <2> QED
    BY <1>3, <2>1, <2>2 DEF AcquireSwap
<1>4. ASSUME NEW t \in Threads, ReleaseSwap(t) PROVE Counts'
  <2>0. /\ wpc' = wpc /\ idx' = idx /\ Value' = Value /\ WaitCount' = WaitCount
        /\ cpu[t] \in Words /\ refs[t] \in SUBSET Refs /\ RunRef[cpu[t]] \in Word
    BY <1>4 DEF ReleaseSwap, waiter, Types
  <2> DEFINE c == cpu[t]
             k == -Cardinality(refs[t])
  <2>1. CASE RunRef' = RunRef /\ held' = held
    <3>1. Weights' = Weights
      BY <2>1, <1>k DEF Weights
    <3> QED
      BY <3>1, <2>0, <2>1, <1>k, TallyStays
  <2>2. CASE /\ RunRef[c] = val[t] /\ held' = held \ refs[t]
             /\ RunRef' = [RunRef EXCEPT ![c] = Cnt(RunRef[c].n - Cardinality(refs[t]))]
    <3>1. k \in Int /\ Cardinality(held') = Cardinality(held) + k
      <4>1. refs[t] \subseteq held
        BY <1>4 DEF Calls, ReleaseSwap
      <4>2. Cardinality(refs[t]) \in Nat
        BY <2>0, CardOf
      <4>3. Cardinality(held') = Cardinality(held) - Cardinality(refs[t]) /\ Cardinality(held) \in Nat
        BY <1>w, <2>0, <2>2, <4>1, CardOf
      <4> QED
        BY <4>2, <4>3
    <3>2. ~Active(RunRef[c]) /\ ~Closed(c)
      BY <2>0, <2>2, <1>4 DEF Calls, ReleaseSwap, Stages
    <3>3. RunRef[c].n \in Int
      BY <2>0, WordFacts
    <3>4. RunRef[c].n - Cardinality(refs[t]) = RunRef[c].n + k /\ RunRef[c].n + k \in Int
      <4>1. Cardinality(refs[t]) \in Nat
        BY <2>0, CardOf
      <4> QED
        BY <3>1, <3>3, <4>1
    <3>5. ~Active(Cnt(RunRef[c].n + k)) /\ Cnt(RunRef[c].n + k).n = RunRef[c].n + k
      BY <3>4, CntFacts
    <3>6. Weights' = [Weights EXCEPT ![c] = @ + k]
      BY <2>0, <2>2, <3>2, <3>4, <3>5, <1>k DEF Weights, Types
    <3>7. PICK S : Tally(S)
      BY DEF Counts
    <3>m. PICK T : Moved(T, S, Weights', Last', c, k)
      <4>1. IsSum(S, Weights, Last) /\ Last' = Last /\ c \in Words
        BY <3>7, <2>0, <1>k DEF Tally
      <4> HIDE DEF c, k
      <4> QED
        BY <4>1, <3>1, <3>6, WordMoves
    <3>8. /\ IsSum(T, Weights', Last) /\ T[Last] = S[Last] + k
          /\ \A i \in 0..(c - 1) : T[i] = S[i]
      BY <3>m, <1>k DEF Moved
    <3>9. Tally(T)'
      <4>1. wpc \notin {"add", "wait", "down", "completed"} /\ (wpc = "mark" => c >= idx)
        BY <3>2, <2>0, WordsFact DEF Closed, Types
      <4>2. wpc = "mark" => \A i \in 0..(idx - 1) : T[i] = 0
        <5>1. wpc = "mark" => \A i \in 0..(idx - 1) : S[i] = 0
          BY <3>7 DEF Tally
        <5>2. c \in Nat /\ (wpc = "mark" => idx \in Nat)
          BY <2>0, WordsFact DEF Types
        <5>3. wpc = "mark" => \A i \in 0..(idx - 1) : i \in 0..(c - 1)
          BY <4>1, <5>2
        <5> QED
          BY <5>1, <5>3, <3>8
      <4>3. T[Last] + Owed + WaitCount = Cardinality(held')
        <5>1. S[Last] \in Int /\ S[Last] + Owed + WaitCount = Cardinality(held)
          BY <3>7, WordsFact DEF Tally, IsSum
        <5>2. Owed \in Int /\ WaitCount \in Int
          BY DEF Owed, Types
        <5> QED
          BY <5>1, <5>2, <3>1, <3>8
      <4>4. Owed' = Owed
        BY <2>0 DEF Owed
      <4> QED
        BY <3>8, <4>1, <4>2, <4>3, <4>4, <1>k, <2>0 DEF Tally
    <3> QED
      BY <3>9 DEF Counts
  <2> QED
    BY <1>4, <2>1, <2>2 DEF ReleaseSwap
<1>5. ASSUME NEW t \in Threads, ReleaseInBlock(t) PROVE Counts'
  <2>1. /\ refs[t] \in SUBSET held /\ Weights' = Weights
        /\ wpc \in {"mark", "add", "wait"}
        /\ wpc' = wpc /\ idx' = idx /\ Value' = Value
    BY <1>5, <1>k DEF ReleaseInBlock, Calls, Waking, waiter, Weights
  <2>2. held' = held \ refs[t] /\ WaitCount' = WaitCount - Cardinality(refs[t])
    BY <1>5 DEF ReleaseInBlock
  <2>3. /\ Cardinality(refs[t]) \in Nat /\ Cardinality(held) \in Nat
        /\ Cardinality(held') = Cardinality(held) - Cardinality(refs[t])
    BY <1>w, <2>1, <2>2, CardOf
  <2>4. PICK S : Tally(S)
    BY DEF Counts
  <2>5. Owed' = Owed /\ Owed \in Int /\ WaitCount \in Int
    BY <2>1 DEF Owed, Types
  <2>6. S[Last] \in Int
    BY <2>4, WordsFact DEF Tally, IsSum
  <2>7. S[Last] + Owed' + WaitCount' = Cardinality(held')
    BY <2>2, <2>3, <2>4, <2>5, <2>6 DEF Tally
  <2> QED
    BY <2>1, <2>4, <2>7, <1>k DEF Counts, Tally
<1>6. ASSUME NEW t \in Threads, ReleaseWakes(t) PROVE Counts'
  <2>1. Weights' = Weights
    BY <1>6, <1>k DEF Weights, ReleaseWakes, waiter, local
  <2> QED
    BY <2>1, <1>6, <1>k, TallyStays DEF ReleaseWakes, waiter, local
<1>7. CASE WaitFast
  <2>1. PICK S : Tally(S)
    BY DEF Counts
  <2>p. kind = "plain" /\ Last = 1 /\ Words = {1} /\ Weights[1] \in Int /\ S[0] = 0 /\ S[1] = Weights[1]
    BY <1>7, <1>w, <2>1, PlainFact DEF WaitFast, Tally, IsSum
  <2>2. Value = 0 /\ WaitCount = 0 /\ wpc \in {"idle", "completed"} /\ idx' = idx /\ held' = held
    BY <1>7 DEF WaitFast, MayWait, Stages, Waking
  <2>3. CASE RunRef[1] \in {Cnt(0), Done}
    <3>1. Weights[1] = 0 /\ Weights'[1] = 0 /\ Weights' = Weights
      <4>1. RunRef' \in [Words -> Word] /\ RunRef'[1] = Done
        BY <1>7, <2>3, <2>p, ConstFacts DEF WaitFast, Types
      <4>2. Weights[1] = 0
        BY <2>3, <2>p, CntFacts, ConstFacts DEF Weights
      <4>3. Weights'[1] = 0
        BY <4>1, <2>p, <1>k, ConstFacts DEF Weights
      <4> QED
        BY <4>2, <4>3, <2>p, <1>k DEF Weights
    <3>2. Owed = 0 /\ Owed' = 0 /\ WaitCount' = 0 /\ wpc' = "down"
      BY <1>7, <2>2, <2>3 DEF Owed, WaitFast, WaitReturns
    <3> QED
      BY <2>1, <2>p, <2>2, <3>1, <3>2, <1>k DEF Counts, Tally
  <2>4. CASE RunRef[1] \notin {Cnt(0), Done}
    <3>1. wpc = "idle"
      BY <2>2, <2>4, <2>p DEF Stages
    <3>2. RunRef' = RunRef /\ wpc' = "swap" /\ WaitCount' = WaitCount
      BY <1>7, <2>4 DEF WaitFast
    <3>3. Weights' = Weights
      BY <3>2, <1>k DEF Weights
    <3>4. Owed = 0 /\ Owed' = 0
      BY <3>1, <3>2 DEF Owed
    <3> QED
      BY <2>1, <2>2, <3>1, <3>2, <3>3, <3>4, <1>k DEF Counts, Tally
  <2> QED
    BY <2>3, <2>4
<1>8. CASE WaitSwap
  <2>1. PICK S : Tally(S)
    BY DEF Counts
  <2>p. kind = "plain" /\ Last = 1 /\ Words = {1} /\ Weights[1] \in Int /\ S[0] = 0 /\ S[1] = Weights[1]
    BY <1>8, <1>w, <2>1, PlainFact DEF WaitSwap, Stages, Tally, IsSum
  <2>2. wpc = "swap" /\ WaitCount = 0 /\ idx' = idx /\ held' = held /\ Value \in Int
    BY <1>8 DEF WaitSwap, Waking, Types
  <2>3. CASE RunRef[1] = Cnt(Value)
    <3>1. Weights[1] = Value /\ Owed = 0
      BY <2>3, <2>p, <2>2, CntFacts DEF Weights, Owed
    <3>2. Value = Cardinality(held) /\ Value \in Nat
      <4>1. Cardinality(held) \in Nat
        BY <1>w, CardOf
      <4> QED
        BY <4>1, <2>1, <2>p, <2>2, <3>1 DEF Tally
    <3>3. RunRef' = [RunRef EXCEPT ![1] = Blk] /\ wpc' \in {"wait", "down"} /\ WaitCount' = Value
      BY <1>8, <2>3, <3>2 DEF WaitSwap, WaitReturns
    <3>4. Weights' = [c \in {1} |-> 0]
      BY <3>3, <2>p, <1>k, ConstFacts DEF Weights, Types
    <3>5. PICK T : T = [i \in 0..1 |-> 0]
      OBVIOUS
    <3>6. IsSum(T, Weights', 1) /\ T[1] = 0
      BY <3>4, <3>5 DEF IsSum
    <3>7. Owed' = 0
      BY <3>3 DEF Owed
    <3> QED
      BY <3>2, <3>3, <3>6, <3>7, <2>p, <2>2, <1>k DEF Counts, Tally
  <2>4. CASE RunRef[1] # Cnt(Value)
    <3>1. RunRef' = RunRef /\ wpc' = wpc /\ WaitCount' = WaitCount
      BY <1>8, <2>4 DEF WaitSwap
    <3>2. Weights' = Weights
      BY <3>1, <1>k DEF Weights
    <3>3. Owed = 0 /\ Owed' = 0
      BY <3>1, <2>2 DEF Owed
    <3> QED
      BY <2>1, <2>2, <3>1, <3>2, <3>3, <1>k DEF Counts, Tally
  <2> QED
    BY <2>3, <2>4
<1>9. CASE WaitStart
  <2>1. PICK S : Tally(S)
    BY DEF Counts
  <2>2. /\ wpc = "idle" /\ Value = 0 /\ idx = 1 /\ wpc' = "mark" /\ Value' = Value /\ idx' = idx
        /\ RunRef' = RunRef /\ held' = held /\ WaitCount' = WaitCount
    <3>1. "aware" \in Kinds /\ kind = "aware"
      BY <1>9 DEF WaitStart, Types
    <3>2. wpc = "idle"
      BY <1>9, <3>1 DEF WaitStart, MayWait, Polite
    <3> QED
      BY <1>9, <3>2 DEF WaitStart, Stages
  <2>3. Weights' = Weights /\ Owed' = 0 /\ Owed = 0
    BY <2>2, <1>k DEF Weights, Owed
  <2>4. \A i \in 0..(idx - 1) : S[i] = 0
    BY <2>1, <2>2 DEF Tally, IsSum
  <2> QED
    BY <2>1, <2>2, <2>3, <2>4, <1>k DEF Counts, Tally
<1>10. CASE WaitMark
  <2>1. PICK S : Tally(S)
    BY DEF Counts
  <2>2. PICK m \in Int : Value = 2 * m
    BY <1>10 DEF WaitMark, Waking
  <2> DEFINE n == RunRef[idx].n
  <2>3. /\ idx \in Words /\ RunRef[idx] \in Word /\ n \in Int /\ wpc = "mark"
        /\ ~Active(RunRef[idx]) /\ held' = held /\ WaitCount \in Int /\ WaitCount <= 0
    <3>1. /\ idx \in Words /\ RunRef[idx] \in Word /\ wpc = "mark" /\ held' = held
          /\ WaitCount \in Int /\ WaitCount <= 0 /\ idx \in Int
      BY <1>10, WordsFact DEF Types, WaitMark, Waking
    <3>2. n \in Int
      BY <3>1, WordFacts
    <3>3. ~Closed(idx)
      BY <3>1 DEF Closed
    <3> QED
      BY <3>1, <3>2, <3>3 DEF Stages
  <2>4. Bits(RunRef[idx]) = 2 * n
    BY <2>3, WordFacts
  <2>5. Weights[idx] = n /\ Weights' = [Weights EXCEPT ![idx] = @ + (-n)]
    <3>1. RunRef' = [RunRef EXCEPT ![idx] = Blk] /\ Weights[idx] = n
      BY <1>10, <2>3 DEF WaitMark, Weights
    <3>2. n + (-n) = 0
      BY <2>3
    <3> QED
      BY <3>1, <3>2, <2>3, <1>k, ConstFacts DEF Weights, Types
  <2>m. PICK T : Moved(T, S, Weights', Last', idx, -n)
    <3>1. IsSum(S, Weights, Last) /\ Last' = Last /\ idx \in Words /\ -n \in Int
      BY <2>1, <2>3, <1>k DEF Tally
    <3> HIDE DEF n
    <3> QED
      BY <3>1, <2>5, WordMoves
  <2>6. /\ IsSum(T, Weights', Last) /\ T[Last] = S[Last] + (-n) /\ T[idx] = S[idx] + (-n)
        /\ \A i \in 0..(idx - 1) : T[i] = S[i]
    BY <2>m, <1>k DEF Moved
  <2>7. \A i \in 0..idx : T[i] = 0
    <3>1. S[idx] = S[idx - 1] + n /\ S[idx - 1] = 0
      BY <2>1, <2>3, <2>5, WordsFact DEF Tally, IsSum
    <3>2. T[idx] = 0
      BY <2>3, <2>6, <3>1
    <3>3. \A i \in 0..(idx - 1) : T[i] = 0
      BY <2>1, <2>3, <2>6 DEF Tally
    <3> QED
      BY <3>2, <3>3, <2>3, WordsFact
  <2>8. S[Last] \in Int /\ S[Last] + m + WaitCount = Cardinality(held)
    BY <2>1, <2>2, <2>3, WordsFact DEF Tally, IsSum, Owed
  <2>9. T[Last] + (m + n) + WaitCount = Cardinality(held)
    BY <2>2, <2>3, <2>6, <2>8
  <2>10. CASE idx = Last /\ Value + Bits(RunRef[idx]) = 0
    <3>1. wpc' = "down" /\ WaitCount' = 0 /\ Owed' = 0
      BY <1>10, <2>10 DEF WaitMark, WaitReturns, Owed
    <3>2. T[Last] = 0 /\ m + n = 0
      BY <2>2, <2>3, <2>4, <2>7, <2>10, WordsFact
    <3>3. Cardinality(held) = 0
      <4>1. Cardinality(held) \in Nat
        BY <1>w, CardOf
      <4> QED
        <5>1. T[Last] + (m + n) = 0
          BY <3>2
        <5> QED
          BY <4>1, <5>1, <2>9, <2>3
    <3> QED
      BY <2>3, <2>6, <3>1, <3>2, <3>3, <1>k DEF Counts, Tally
  <2>11. CASE ~(idx = Last /\ Value + Bits(RunRef[idx]) = 0)
    <3>1. /\ Value' = 2 * m + 2 * n /\ WaitCount' = WaitCount
          /\ IF idx < Last THEN idx' = idx + 1 /\ wpc' = wpc ELSE idx' = 1 /\ wpc' = "add"
      BY <1>10, <2>2, <2>4, <2>11 DEF WaitMark
    <3>2. Owed' = m + n
      BY <3>1, <2>2, <2>3 DEF Owed
    <3>3. CASE idx < Last
      BY <2>3, <2>6, <2>7, <2>9, <3>1, <3>2, <3>3, <1>k, WordsFact DEF Counts, Tally
    <3>4. CASE ~(idx < Last)
      <4>1. idx = Last /\ T[Last] = 0
        BY <2>3, <2>7, <3>4, WordsFact
      <4> QED
        BY <4>1, <2>3, <2>6, <2>9, <3>1, <3>2, <3>4, <1>k DEF Counts, Tally
    <3> QED
      BY <3>3, <3>4
  <2> QED
    BY <2>10, <2>11
<1>11. CASE WaitAdd
  <2>1. PICK S : Tally(S)
    BY DEF Counts
  <2>2. PICK m \in Int : Value = 2 * m
    BY <1>11 DEF WaitAdd, Waking
  <2>3. /\ wpc = "add" /\ WaitCount \in Int /\ Value \div 2 = m /\ S[Last] = 0 /\ held' = held
        /\ RunRef' = RunRef /\ idx' = idx
    BY <1>11, <2>1, <2>2 DEF WaitAdd, Types, Tally
  <2>4. m + WaitCount = Cardinality(held) /\ Weights' = Weights
    BY <2>1, <2>3, <1>k DEF Tally, Owed, Weights
  <2>5. wpc' \in {"down", "wait"} /\ WaitCount' = WaitCount + m
    BY <1>11, <2>3 DEF WaitAdd, WaitReturns
  <2>6. Owed' = 0
    BY <2>5 DEF Owed
  <2>7. S[Last] + Owed' + WaitCount' = Cardinality(held')
    BY <2>2, <2>3, <2>4, <2>5, <2>6
  <2> QED
    BY <2>1, <2>3, <2>4, <2>5, <2>7, <1>k DEF Counts, Tally
<1>12. CASE WaitWake
  <2>1. PICK S : Tally(S)
    BY DEF Counts
  <2>2. /\ wpc = "wait" /\ WaitCount = 0 /\ wpc' = "down" /\ WaitCount' = 0 /\ held' = held
        /\ RunRef' = RunRef /\ idx' = idx
    BY <1>12 DEF WaitWake, WaitReturns, Waking
  <2>3. Owed = 0 /\ Owed' = 0 /\ Weights' = Weights
    BY <2>2, <1>k DEF Owed, Weights
  <2> QED
    BY <2>1, <2>2, <2>3, <1>k DEF Counts, Tally
<1>13. CASE RundownCompleted
  <2>1. PICK S : Tally(S)
    BY DEF Counts
  <2>2. /\ wpc = "down" /\ wpc' = "completed" /\ WaitCount' = WaitCount /\ held' = held /\ idx' = idx
        /\ RunRef' = [c \in Words |-> Done] /\ \A c \in Words : Active(RunRef[c])
    BY <1>13 DEF RundownCompleted, Stages, Closed
  <2>3. Owed = 0 /\ Owed' = 0 /\ Weights' = Weights
    BY <2>2, <1>k, ConstFacts DEF Owed, Weights
  <2> QED
    BY <2>1, <2>2, <2>3, <1>k DEF Counts, Tally
<1>14. CASE ReInitializeStart
  <2>1. PICK S : Tally(S)
    BY DEF Counts
  <2>2. /\ wpc \in {"down", "completed"} /\ wpc' = "reinit" /\ WaitCount' = WaitCount
        /\ held' = held /\ idx' = idx /\ RunRef' = RunRef
    BY <1>14 DEF ReInitializeStart
  <2>3. Owed = 0 /\ Owed' = 0 /\ Weights' = Weights
    BY <2>2, <1>k DEF Owed, Weights
  <2> QED
    BY <2>1, <2>2, <2>3, <1>k DEF Counts, Tally
<1>15. CASE ReInitialize
  <2>1. PICK S : Tally(S)
    BY DEF Counts
  <2>2. /\ wpc = "reinit" /\ wpc' \in {"reinit", "idle"} /\ WaitCount' = WaitCount
        /\ held' = held /\ RunRef' = [RunRef EXCEPT ![idx] = Cnt(0)] /\ idx \in Words
    BY <1>15 DEF ReInitialize, Types
  <2>3. Active(RunRef[idx])
    BY <2>2, WordsFact DEF Stages, Closed
  <2>4. Owed = 0 /\ Owed' = 0 /\ Weights' = Weights
    BY <2>2, <2>3, <1>k, CntFacts DEF Owed, Weights, Types
  <2> QED
    BY <2>1, <2>2, <2>4, <1>k DEF Counts, Tally
<1> QED
  BY <1>u, <1>1, <1>2, <1>3, <1>4, <1>5, <1>6, <1>7, <1>8, <1>9, <1>10, <1>11, <1>12, <1>13, <1>14, <1>15 DEF Next, Thread, Waiter

\* What the tally says where the words are closed.
LEMMA HeldFact ==
    ASSUME Types, Counts
    PROVE  /\ wpc \in {"wait", "down", "completed"} => WaitCount = Cardinality(held)
           /\ wpc \in {"down", "completed"} /\ WaitCount = 0 => held = {}
<1>1. PICK S : Tally(S)
  BY DEF Counts
<1>2. ASSUME wpc \in {"wait", "down", "completed"} PROVE WaitCount = Cardinality(held)
  <2>1. S[Last] = 0 /\ Owed = 0 /\ WaitCount \in Int
    BY <1>1, <1>2 DEF Tally, Owed, Types
  <2> QED
    BY <2>1, <1>1 DEF Tally
<1>3. held \in SUBSET Refs
  BY WeightsType
<1> QED
  BY <1>2, <1>3, CardOf

\* The same in the next state.
LEMMA HeldNext ==
    ASSUME Types', Counts', Last' = Last
    PROVE  wpc' \in {"wait", "down", "completed"} => WaitCount' = Cardinality(held')
<1>1. PICK S : Tally(S)'
  BY DEF Counts
<1>2. ASSUME wpc' \in {"wait", "down", "completed"} PROVE WaitCount' = Cardinality(held')
  <2>1. S[Last] = 0 /\ Owed' = 0 /\ WaitCount' \in Int
    BY <1>1, <1>2 DEF Tally, Owed, Types
  <2> QED
    BY <2>1, <1>1 DEF Tally
<1> QED
  BY <1>2

\* A thread about to use the block holds a reference.
LEMMA BlockHolds ==
    Types /\ Calls => \A t \in Threads : pc[t] = "block" => held # {} /\ refs[t] # {} /\ refs[t] \subseteq held
  BY DEF Types, Calls

\* The last reference given back wakes the waiter, once.
LEMMA WakingStep == Polite /\ Types /\ Calls /\ Stages /\ Waking /\ Counts /\ Gone /\ Types' /\ Calls' /\ Counts' /\ [Next]_vars => Waking'
<1> SUFFICES ASSUME Polite, Types, Calls, Stages, Waking, Counts, Gone, Types', Calls', Counts', [Next]_vars PROVE Waking'
  OBVIOUS
<1>k. kind' = kind /\ Words' = Words /\ Last' = Last /\ Word' = Word
  BY KindStays
<1>h. /\ wpc = "wait" => WaitCount = Cardinality(held)
      /\ wpc' = "wait" => WaitCount' = Cardinality(held')
      /\ wpc' \in {"down", "completed"} /\ WaitCount' = 0 => held' = {}
  <2>1. held' \in SUBSET Refs
    BY DEF Types
  <2> QED
    BY <1>k, <2>1, HeldFact, HeldNext, CardOf
<1>b. /\ \A t \in Threads : pc[t] = "block" => held # {}
      /\ \A t \in Threads : pc'[t] = "block" => held' # {}
  <2>1. \A t \in Threads : pc'[t] = "block" => held' # {}
    BY DEF Types, Calls
  <2> QED
    BY <2>1, BlockHolds
<1>u. CASE UNCHANGED vars
  BY <1>u, <1>k DEF Types, Waking, vars, waiter, local
<1>1. ASSUME NEW t \in Threads, NEW c \in 1..Number, NEW R \in SUBSET Refs, AcquireRead(t, c, R) PROVE Waking'
  BY <1>1, <1>k DEF Types, Waking, AcquireRead, waiter, Enter, local
<1>2. ASSUME NEW t \in Threads, NEW c \in 1..Number, NEW R \in SUBSET Refs, ReleaseRead(t, c, R) PROVE Waking'
  <2>1. held # {} /\ pc' = [pc EXCEPT ![t] = IF Active(RunRef[c]) THEN "block" ELSE "release"]
        /\ wpc' = wpc /\ Value' = Value /\ WaitCount' = WaitCount /\ WakeEvent' = WakeEvent /\ c \in Words
    BY <1>2 DEF ReleaseRead, Enter, waiter
  <2>2. Active(RunRef[c]) => wpc \in {"mark", "add", "wait"}
    BY <2>1 DEF Stages, Closed, Gone
  <2> QED
    BY <2>1, <2>2 DEF Waking, Types
<1>3. ASSUME NEW t \in Threads, AcquireSwap(t) PROVE Waking'
  BY <1>3, <1>k DEF Types, Waking, AcquireSwap, waiter, Leave, Retry, local
<1>4. ASSUME NEW t \in Threads, ReleaseSwap(t) PROVE Waking'
  <2>1. \/ pc' = [pc EXCEPT ![t] = "idle"]
        \/ pc' = [pc EXCEPT ![t] = IF Active(RunRef[cpu[t]]) THEN "block" ELSE "release"]
    BY <1>4 DEF ReleaseSwap, Leave, Retry
  <2>2. /\ wpc' = wpc /\ Value' = Value /\ WaitCount' = WaitCount /\ WakeEvent' = WakeEvent
        /\ cpu[t] \in Words /\ held # {} /\ pc[t] = "release"
    BY <1>4 DEF ReleaseSwap, waiter, Types, Calls
  <2>3. Active(RunRef[cpu[t]]) => wpc \in {"mark", "add", "wait"}
    BY <2>2 DEF Stages, Closed, Gone
  <2> QED
    BY <2>1, <2>2, <2>3 DEF Waking, Types
<1>5. ASSUME NEW t \in Threads, ReleaseInBlock(t) PROVE Waking'
  <2>1. /\ wpc \in {"mark", "add", "wait"} /\ wpc' = wpc /\ Value' = Value /\ WakeEvent' = WakeEvent
        /\ WaitCount' = WaitCount - Cardinality(refs[t]) /\ WaitCount \in Int
        /\ refs[t] \in SUBSET Refs /\ refs[t] # {} /\ refs[t] \subseteq held /\ held \in SUBSET Refs
    BY <1>5, BlockHolds DEF ReleaseInBlock, Waking, waiter, Types
  <2>2. Cardinality(refs[t]) \in Nat /\ Cardinality(refs[t]) # 0
    BY <2>1, CardOf
  <2>3. wpc \in {"mark", "add"} => WaitCount' < 0
    BY <2>1, <2>2 DEF Waking
  <2>4. Cardinality(held \ refs[t]) \in Nat /\ Cardinality(held \ refs[t]) = Cardinality(held) - Cardinality(refs[t])
    BY <2>1, CardOf
  <2>5. wpc = "wait" => WaitCount = Cardinality(held)
    BY <1>h
  <2>6. wpc = "wait" => WaitCount' \in Nat /\ WaitCount > 0 /\ WaitCount # 0
    BY <2>1, <2>2, <2>4, <2>5
  <2>7. ~WakeEvent /\ \A u \in Threads : pc[u] # "wake"
    BY <2>1, <2>6 DEF Waking
  <2>8. /\ \A u \in Threads : u # t => pc'[u] = pc[u]
        /\ pc'[t] = "wake" => WaitCount' = 0
        /\ pc'[t] \in {"wake", "idle"}
    BY <1>5 DEF ReleaseInBlock, Leave, Types
  <2>9. WaitCount' = 0 => wpc = "wait"
    BY <2>1, <2>3
  <2>10. wpc' \in {"mark", "add"} => WaitCount' <= 0 /\ \E m \in Int : Value' = 2 * m
    BY <2>1, <2>2, <2>3 DEF Waking
  <2> QED
    BY <2>1, <2>7, <2>8, <2>9, <2>10 DEF Waking
<1>6. ASSUME NEW t \in Threads, ReleaseWakes(t) PROVE Waking'
  BY <1>6, <1>k DEF Types, Waking, ReleaseWakes, waiter, Leave, local
<1>7. CASE WaitFast
  BY <1>7, <1>k, <1>h, <1>b DEF Types, Waking, WaitFast, MayWait, WaitReturns, local
<1>8. CASE WaitSwap
  BY <1>8, <1>k, <1>h, <1>b DEF Types, Waking, WaitSwap, WaitReturns, local
<1>9. CASE WaitStart
  <2>1. Value = 2 * 0 /\ WaitCount = 0 /\ ~WakeEvent /\ \A t \in Threads : pc[t] \notin {"block", "wake"}
    BY <1>9 DEF WaitStart, MayWait, Stages, Waking
  <2>2. wpc' = "mark" /\ Value' = Value /\ WaitCount' = WaitCount /\ WakeEvent' = WakeEvent /\ pc' = pc
    BY <1>9 DEF WaitStart, local
  <2> QED
    BY <2>1, <2>2 DEF Waking
<1>10. CASE WaitMark
  <2>1. PICK m \in Int : Value = 2 * m
    BY <1>10 DEF WaitMark, Waking
  <2>2. PICK b \in Int : Bits(RunRef[idx]) = 2 * b
    <3>1. idx \in Words /\ RunRef[idx] \in Word /\ ~Active(RunRef[idx])
      <4>1. idx \in Words /\ idx \in Int /\ wpc = "mark"
        BY <1>10, WordsFact DEF Types, WaitMark
      <4>2. ~Closed(idx)
        BY <4>1 DEF Closed
      <4> QED
        BY <4>1, <4>2 DEF Stages, Types
    <3> QED
      BY <3>1, WordFacts
  <2>3. Value + Bits(RunRef[idx]) = 2 * (m + b) /\ m + b \in Int
    BY <2>1, <2>2
  <2>4. pc' = pc /\ wpc = "mark" /\ ~WakeEvent /\ \A t \in Threads : pc[t] # "wake"
    BY <1>10 DEF WaitMark, Waking
  <2>5. CASE idx = Last /\ Value + Bits(RunRef[idx]) = 0
    <3>1. wpc' = "down" /\ WaitCount' = 0 /\ WakeEvent' = FALSE
      BY <1>10, <2>5 DEF WaitMark, WaitReturns
    <3> QED
      BY <2>4, <3>1, <1>h, <1>b DEF Waking
  <2>6. CASE ~(idx = Last /\ Value + Bits(RunRef[idx]) = 0)
    <3>1. /\ Value' = 2 * (m + b) /\ wpc' \in {"mark", "add"} /\ WaitCount' = WaitCount /\ WakeEvent' = WakeEvent
      BY <1>10, <2>3, <2>6 DEF WaitMark
    <3> QED
      BY <2>3, <2>4, <3>1 DEF Waking
  <2> QED
    BY <2>5, <2>6
<1>11. CASE WaitAdd
  BY <1>11, <1>k, <1>h, <1>b DEF Types, Waking, WaitAdd, WaitReturns, local
<1>12. CASE WaitWake
  BY <1>12, <1>k, <1>h, <1>b DEF Types, Waking, WaitWake, WaitReturns, local
<1>13. CASE RundownCompleted
  BY <1>13, <1>k, <1>h, <1>b DEF Types, Waking, RundownCompleted, local
<1>14. CASE ReInitializeStart
  BY <1>14, <1>k, <1>h, <1>b DEF Types, Waking, ReInitializeStart, local
<1>15. CASE ReInitialize
  BY <1>15, <1>k DEF Types, Waking, ReInitialize, local
<1> QED
  BY <1>u, <1>1, <1>2, <1>3, <1>4, <1>5, <1>6, <1>7, <1>8, <1>9, <1>10, <1>11, <1>12, <1>13, <1>14, <1>15 DEF Next, Thread, Waiter

\* Where the wait has returned the tally is empty, and stays so until the
\* object is open again.
LEMMA GoneStep ==
    ASSUME Types, Calls, Stages, Gone, [Next]_vars, Types', Counts', Waking'
    PROVE  Gone'
<1>k. kind' = kind /\ Words' = Words /\ Last' = Last /\ Word' = Word
  BY KindStays
<1>1. CASE wpc' \in {"down", "completed"}
  <2>1. WaitCount' = 0 /\ held' \in SUBSET Refs
    BY <1>1 DEF Waking, Types
  <2>2. WaitCount' = Cardinality(held')
    BY <1>k, <1>1, HeldNext
  <2> QED
    BY <1>1, <2>1, <2>2, CardOf DEF Gone
<1>2. CASE wpc' = "reinit"
  <2>1. held' = held /\ wpc \in {"down", "completed", "reinit"}
    <3>1. ASSUME NEW t \in Threads, Thread(t) PROVE held' = held /\ wpc = "reinit"
      <4>1. wpc' = wpc
        BY <3>1 DEF Thread, AcquireRead, ReleaseRead, AcquireSwap, ReleaseSwap,
           ReleaseInBlock, ReleaseWakes, waiter
      <4>2. pc[t] \notin {"release", "block"}
        BY <4>1, <1>2 DEF Gone, Calls
      <4>3. ASSUME AcquireSwap(t) PROVE held' = held
        BY <4>1, <4>3, <1>2, ShutWhileReopened
      <4> QED
        BY <4>1, <4>2, <4>3, <3>1, <1>2 DEF Thread, AcquireRead, ReleaseRead,
           ReleaseSwap, ReleaseInBlock, ReleaseWakes
    <3>2. ASSUME Waiter PROVE held' = held /\ wpc \in {"down", "completed", "reinit"}
      BY <3>2, <1>2 DEF Waiter, WaitFast, WaitSwap, WaitStart, WaitMark, WaitAdd, WaitWake,
         RundownCompleted, ReInitializeStart, ReInitialize, WaitReturns
    <3>3. CASE UNCHANGED vars
      BY <3>3, <1>2 DEF vars, waiter
    <3> QED
      BY <3>1, <3>2, <3>3 DEF Next
  <2> QED
    BY <2>1 DEF Gone
<1> QED
  BY <1>1, <1>2 DEF Gone

\* Nothing is held at the start and every word counts zero.
LEMMA InvInit == Init => Inv
<1> SUFFICES ASSUME Init PROVE Inv
  OBVIOUS
<1>1. Types
  BY TypeInit
<1>2. /\ \A c \in Words : RunRef[c] = Cnt(0) /\ ~Active(RunRef[c]) /\ RunRef[c].n = 0
      /\ \A t \in Threads : pc[t] = "idle" /\ refs[t] = {}
      /\ held = {} /\ wpc = "idle" /\ idx = 1 /\ Value = 0 /\ WaitCount = 0 /\ ~WakeEvent
  BY CntFacts DEF Init
<1>3. Calls /\ Stages /\ Waking /\ Gone
  BY <1>2 DEF Calls, Stages, Closed, Waking, Gone
<1>4. Counts
  <2> DEFINE S == [i \in 0..Last |-> 0]
  <2>1. \A i \in 1..Last : Weights[i] = 0 /\ i \in 0..Last /\ i - 1 \in 0..Last
    BY <1>2, WordsFact DEF Weights
  <2>2. IsSum(S, Weights, Last) /\ S[Last] = 0
    BY <2>1, WordsFact DEF IsSum
  <2>3. Owed = 0 /\ Cardinality(held) = 0
    BY <1>2, FS_EmptySet DEF Owed
  <2> HIDE DEF S
  <2>4. Tally(S)
    BY <1>2, <2>2, <2>3 DEF Tally
  <2> QED
    BY <2>4 DEF Counts
<1> QED
  BY <1>1, <1>3, <1>4 DEF Inv

LEMMA InvStep == Polite /\ Inv /\ [Next]_vars => Inv'
<1> SUFFICES ASSUME Polite, Inv, [Next]_vars PROVE Inv'
  OBVIOUS
<1>0. Types /\ Calls /\ Stages /\ Waking /\ Counts /\ Gone
  BY DEF Inv
<1>1. Types'
  BY <1>0, TypeStep
<1>2. Calls'
  BY <1>0, CallsStep
<1>3. Stages'
  BY <1>0, StagesStep
<1>4. Counts'
  BY <1>0, CountsStep
<1>5. Waking'
  BY <1>0, <1>1, <1>2, <1>4, WakingStep
<1>6. Gone'
  BY <1>0, <1>1, <1>4, <1>5, GoneStep
<1> QED
  BY <1>1, <1>2, <1>3, <1>4, <1>5, <1>6 DEF Inv

LEMMA PoliteInv == Polite => (Spec => []Inv)
<1>1. CASE Polite
  <2>1. Init => Inv
    BY InvInit
  <2>2. Inv /\ [Next]_vars => Inv'
    BY <1>1, InvStep
  <2> QED
    BY <2>1, <2>2, PTL DEF Spec
<1> QED
  BY <1>1

\* The event is a Boolean, which Types leaves out.
LEMMA EventStep == WakeEvent \in BOOLEAN /\ [Next]_vars => WakeEvent' \in BOOLEAN
<1> SUFFICES ASSUME WakeEvent \in BOOLEAN, [Next]_vars PROVE WakeEvent' \in BOOLEAN
  OBVIOUS
<1>1. CASE UNCHANGED vars
  BY <1>1 DEF vars
<1>2. ASSUME NEW t \in Threads, Thread(t) PROVE WakeEvent' \in BOOLEAN
  BY <1>2 DEF Thread, AcquireRead, ReleaseRead, AcquireSwap, ReleaseSwap, ReleaseInBlock,
     ReleaseWakes
<1>3. CASE Waiter
  BY <1>3 DEF Waiter, WaitFast, WaitSwap, WaitStart, WaitMark, WaitAdd, WaitWake,
     WaitReturns, RundownCompleted, ReInitializeStart, ReInitialize
<1> QED
  BY <1>1, <1>2, <1>3 DEF Next
-----------------------------------------------------------------------------
\* Types hold whatever the callers do: both structures, any interleaving.
THEOREM TypesCorrect == Spec => []TypeOK
<1> DEFINE T == Types /\ WakeEvent \in BOOLEAN
<1>1. Init => T
  BY TypeInit DEF Init
<1>2. T /\ [Next]_vars => T'
  BY TypeStep, EventStep
<1>3. T => TypeOK
  BY DEF Types, TypeOK
<1> HIDE DEF T
<1> QED
  BY <1>1, <1>2, <1>3, PTL DEF Spec

\* ExfWaitForRundownProtectionRelease and its cache-aware form return only when
\* every reference has been given back, whichever words it was taken from.
THEOREM WaitIsComplete == Polite => (Spec => []NobodyLeft)
<1>1. Inv => NobodyLeft
  BY DEF Inv, Gone, NobodyLeft
<1> QED
  BY <1>1, PoliteInv, PTL

\* No thread follows the pointer to the waiter's block, or signals its event,
\* after the waiter has left the wait and its stack frame.
THEOREM BlockOutlivesUse == Polite => (Spec => []BlockIsAlive)
<1>1. Inv => BlockIsAlive
  BY DEF Inv, Waking, BlockIsAlive
<1> QED
  BY <1>1, PoliteInv, PTL
-----------------------------------------------------------------------------
\* A block that counts zero has been, or is about to be, signalled.
Called == wpc = "wait" /\ WaitCount = 0 => WakeEvent \/ \E t \in Threads : pc[t] = "wake"

\* The thread whose decrement reaches zero signals; the waiter goes to sleep
\* only on a block that still waits for somebody.
LEMMA CalledStep == Types /\ Waking /\ Called /\ [Next]_vars => Called'
<1> SUFFICES ASSUME Types, Waking, Called, [Next]_vars PROVE Called'
  OBVIOUS
<1>t. pc \in [Threads -> InCall \cup {"idle", "wake"}] /\ WaitCount \in Int /\ Value \in Int
  BY DEF Types
<1>1. CASE UNCHANGED vars
  BY <1>1 DEF vars, waiter, Called
<1>2. ASSUME NEW t \in Threads, Thread(t) PROVE Called'
  <2>1. ASSUME NEW label, pc[t] # "wake", pc' = [pc EXCEPT ![t] = label],
               wpc' = wpc, WaitCount' = WaitCount, WakeEvent' = WakeEvent
        PROVE  Called'
    <3>1. \A u \in Threads : pc[u] = "wake" => pc'[u] = "wake"
      BY <1>t, <2>1
    <3> QED  BY <2>1, <3>1 DEF Called
  <2>2. ASSUME NEW c, NEW R, AcquireRead(t, c, R) PROVE Called'
    BY <2>1, <2>2 DEF AcquireRead, Enter, waiter
  <2>3. ASSUME NEW c, NEW R, ReleaseRead(t, c, R) PROVE Called'
    BY <2>1, <2>3 DEF ReleaseRead, Enter, waiter
  <2>4. CASE AcquireSwap(t)
    BY <2>1, <2>4 DEF AcquireSwap, Leave, Retry, waiter
  <2>5. CASE ReleaseSwap(t)
    BY <2>1, <2>5 DEF ReleaseSwap, Leave, Retry, waiter
  <2>6. CASE ReleaseInBlock(t)
    <3>1. WaitCount' = 0 => pc'[t] = "wake"
      BY <1>t, <2>6 DEF ReleaseInBlock, Leave
    <3> QED  BY <3>1 DEF Called
  <2>7. CASE ReleaseWakes(t)
    BY <2>7 DEF ReleaseWakes, Called
  <2> QED  BY <1>2, <2>2, <2>3, <2>4, <2>5, <2>6, <2>7 DEF Thread
<1>3. CASE wpc' # "wait"
  BY <1>3 DEF Called
<1>4. CASE WaitSwap /\ wpc' = "wait"
  <2>1. wpc = "swap" /\ WaitCount' = Value /\ Value > 0
    BY <1>4 DEF WaitSwap, WaitReturns
  <2> QED  BY <1>t, <2>1 DEF Called
<1>5. CASE WaitAdd /\ wpc' = "wait"
  <2>1. WaitCount # -(Value \div 2) /\ WaitCount' = WaitCount + (Value \div 2)
    BY <1>5 DEF WaitAdd, WaitReturns
  <2>2. Value \div 2 \in Int
    BY <1>t
  <2> QED  BY <1>t, <2>1, <2>2 DEF Called
<1>6. CASE Waiter /\ ~WaitSwap /\ ~WaitAdd
  <2>1. wpc' # "wait"
    BY <1>6 DEF Waiter, WaitFast, WaitStart, WaitMark, WaitWake, WaitReturns, MayWait,
       RundownCompleted, ReInitializeStart, ReInitialize
  <2> QED  BY <1>3, <2>1
<1> QED  BY <1>1, <1>2, <1>3, <1>4, <1>5, <1>6 DEF Next, Waiter

\* The wakeup is never lost: once every reference is back, a waiter that sleeps
\* has its event signalled or a thread on its way to KeSetEvent, in whatever order
\* the references came back beside the adding up of the counts.
WaiterIsCalled == wpc = "wait" /\ held = {} => WakeEvent \/ \E t \in Threads : pc[t] = "wake"

\* The part of WaitEnds that needs no fairness.
THEOREM WakeupNotLost == Polite => (Spec => []WaiterIsCalled)
<1>1. Init => Called
  BY DEF Init, Called
<1>2. Inv /\ Called /\ [Next]_vars => Called'
  BY CalledStep DEF Inv
<1>3. Inv /\ Called => WaiterIsCalled
  <2> SUFFICES ASSUME Inv, Called, wpc = "wait", held = {} PROVE WakeEvent \/ \E t \in Threads : pc[t] = "wake"
    BY DEF WaiterIsCalled
  <2>1. WaitCount = Cardinality(held)
    BY HeldFact DEF Inv
  <2>2. WaitCount = 0
    BY <2>1, FS_EmptySet
  <2> QED  BY <2>2 DEF Called
<1> QED
  BY <1>1, <1>2, <1>3, PoliteInv, PTL DEF Spec
-----------------------------------------------------------------------------
\* The phase by where the waiter is.
PhaseAt(w, i) == IF w \in {"idle", "swap", "mark"} \/ (w = "reinit" /\ i > 1) THEN "open"
                 ELSE IF w \in {"add", "wait"} THEN "closing" ELSE "done"

LEMMA PhaseFact == ASSUME Types, Stages PROVE phase = PhaseAt(wpc, idx)
<1>1. Words = 1..Last /\ Last \in Nat \ {0} /\ idx \in Words /\ 1 \in Words
  BY WordsFact DEF Types
<1>2. wpc \in {"idle", "swap"} => ~Active(RunRef[1])
  BY <1>1 DEF Stages, Closed
<1>3. wpc = "mark" => ~Active(RunRef[idx])
  BY <1>1 DEF Stages, Closed
<1>4. wpc = "reinit" /\ idx > 1 => ~Active(RunRef[1])
  BY <1>1 DEF Stages, Closed
<1>5. wpc \in {"add", "wait", "down", "completed"} => \A c \in Words : Active(RunRef[c])
  BY DEF Stages, Closed
<1>6. wpc = "reinit" /\ idx = 1 => \A c \in Words : Active(RunRef[c])
  BY <1>1 DEF Stages, Closed
<1>7. idx > 1 \/ idx = 1
  BY <1>1
<1> QED
  BY <1>1, <1>2, <1>3, <1>4, <1>5, <1>6, <1>7 DEF phase, PhaseAt, Types

LEMMA PhaseNext == ASSUME Types', Stages', Words' = Words, Last' = Last PROVE phase' = PhaseAt(wpc', idx')
<1>1. Words' = 1..Last /\ Last \in Nat \ {0} /\ idx' \in Words' /\ 1 \in Words'
  BY WordsFact DEF Types
<1>2. wpc' \in {"idle", "swap"} => ~Active(RunRef'[1])
  BY <1>1 DEF Stages, Closed
<1>3. wpc' = "mark" => ~Active(RunRef'[idx'])
  BY <1>1 DEF Stages, Closed
<1>4. wpc' = "reinit" /\ idx' > 1 => ~Active(RunRef'[1])
  BY <1>1 DEF Stages, Closed
<1>5. wpc' \in {"add", "wait", "down", "completed"} => \A c \in Words' : Active(RunRef'[c])
  BY DEF Stages, Closed
<1>6. wpc' = "reinit" /\ idx' = 1 => \A c \in Words' : Active(RunRef'[c])
  BY <1>1 DEF Stages, Closed
<1>7. idx' > 1 \/ idx' = 1
  BY <1>1
<1> QED
  BY <1>1, <1>2, <1>3, <1>4, <1>5, <1>6, <1>7 DEF phase, PhaseAt, Types

\* Each step is one of the protection's, or changes neither of its variables.
LEMMA StepImplements ==
    ASSUME Inv, Inv', [Next]_vars
    PROVE  [Protection!Next]_(Protection!vars)
<1>0. /\ Types /\ Calls /\ Stages /\ Waking /\ Gone
      /\ Types' /\ Stages' /\ Gone'
  BY DEF Inv
<1>k. Words' = Words /\ Last' = Last
  BY KindStays
<1>p. phase = PhaseAt(wpc, idx) /\ phase' = PhaseAt(wpc', idx')
  BY <1>0, <1>k, PhaseFact, PhaseNext
<1>s. ASSUME held' = held, wpc' = wpc, idx' = idx PROVE [Protection!Next]_(Protection!vars)
  BY <1>p, <1>s DEF Protection!vars
<1>u. CASE UNCHANGED vars
  BY <1>s, <1>u DEF vars, waiter
<1>1. ASSUME NEW t \in Threads, NEW c \in 1..Number, NEW R \in SUBSET Refs,
             AcquireRead(t, c, R) \/ ReleaseRead(t, c, R)
      PROVE  [Protection!Next]_(Protection!vars)
  BY <1>s, <1>1 DEF AcquireRead, ReleaseRead, waiter
<1>2. ASSUME NEW t \in Threads, AcquireSwap(t) PROVE [Protection!Next]_(Protection!vars)
  <2>1. wpc' = wpc /\ idx' = idx /\ refs[t] \in SUBSET Refs /\ cpu[t] \in Words
    BY <1>0, <1>2 DEF AcquireSwap, waiter, Types
  <2>2. CASE held' = held
    BY <1>s, <2>1, <2>2
  <2>3. CASE held' # held
    <3>1. RunRef[cpu[t]] = val[t] /\ held' = held \cup refs[t]
      BY <1>2, <2>3 DEF AcquireSwap
    <3>2. ~Active(RunRef[cpu[t]]) /\ refs[t] \cap held = {}
      BY <1>0, <1>2, <3>1 DEF Calls, AcquireSwap
    <3>3. phase = "open" /\ phase' = phase
      BY <1>p, <2>1, <3>2 DEF phase
    <3> QED
      BY <2>1, <3>1, <3>2, <3>3 DEF Protection!Next, Protection!Acquire
  <2> QED
    BY <2>2, <2>3
<1>3. ASSUME NEW t \in Threads, ReleaseSwap(t) \/ ReleaseInBlock(t) \/ ReleaseWakes(t)
      PROVE  [Protection!Next]_(Protection!vars)
  <2>1. wpc' = wpc /\ idx' = idx /\ refs[t] \in SUBSET Refs
    BY <1>0, <1>3 DEF ReleaseSwap, ReleaseInBlock, ReleaseWakes, waiter, Types
  <2>2. CASE held' = held
    BY <1>s, <2>1, <2>2
  <2>3. CASE held' # held
    <3>1. held' = held \ refs[t] /\ refs[t] \subseteq held
      BY <1>0, <1>3, <2>3 DEF ReleaseSwap, ReleaseInBlock, ReleaseWakes, Calls
    <3>2. phase' = phase
      BY <1>p, <2>1
    <3> QED
      BY <2>1, <3>1, <3>2 DEF Protection!Next, Protection!Release
  <2> QED
    BY <2>2, <2>3
<1>w. ASSUME Waiter PROVE held' = held
  BY <1>w DEF Waiter, WaitFast, WaitSwap, WaitStart, WaitMark, WaitAdd, WaitWake,
     RundownCompleted, ReInitializeStart, ReInitialize
<1>d. wpc' = "down" => held' = {}
  BY <1>0 DEF Gone
<1>c. ASSUME Waiter, PhaseAt(wpc, idx) = "open", wpc' \in {"add", "wait", "down"}
      PROVE  Protection!Next
  <2>1. phase = "open" /\ held' = held /\ phase' \in {"closing", "done"}
    BY <1>c, <1>p, <1>w DEF PhaseAt
  <2>2. phase' = "done" => held = {}
    BY <1>c, <1>p, <1>w, <1>d DEF PhaseAt
  <2> QED
    BY <2>1, <2>2 DEF Protection!Next, Protection!Close
<1>f. ASSUME Waiter, wpc \in {"add", "wait"}, wpc' = "down" PROVE Protection!Next
  BY <1>f, <1>p, <1>w, <1>d DEF PhaseAt, Protection!Next, Protection!Finish
<1>e. ASSUME Waiter, PhaseAt(wpc', idx') = PhaseAt(wpc, idx) PROVE [Protection!Next]_(Protection!vars)
  BY <1>e, <1>p, <1>w DEF Protection!vars
<1>4. CASE WaitFast
  <2>1. Waiter /\ wpc \in {"idle", "completed"} /\ wpc' \in {"down", "swap"} /\ idx' = idx /\ kind = "plain"
    BY <1>4 DEF Waiter, WaitFast, MayWait, WaitReturns
  <2>2. wpc = "completed" => wpc' = "down"
    BY <1>0, <1>4, WordsFact DEF WaitFast, Stages, WaitReturns
  <2>3. CASE wpc = "idle" /\ wpc' = "down"
    BY <1>c, <2>1, <2>3 DEF PhaseAt
  <2>4. CASE ~(wpc = "idle" /\ wpc' = "down")
    BY <1>e, <2>1, <2>2, <2>4 DEF PhaseAt
  <2> QED
    BY <2>3, <2>4
<1>5. CASE WaitSwap
  <2>1. Waiter /\ wpc = "swap" /\ wpc' \in {"wait", "down", "swap"} /\ idx' = idx
    BY <1>5 DEF Waiter, WaitSwap, WaitReturns
  <2> QED
    BY <1>c, <1>e, <2>1 DEF PhaseAt
<1>6. CASE WaitStart
  <2>1. wpc \in {"idle", "completed"} /\ wpc' = "mark" /\ idx' = idx /\ kind = "aware"
    BY <1>6 DEF WaitStart, MayWait
  <2>2. wpc = "idle"
    <3>1. ~Active(RunRef'[idx']) /\ RunRef' = RunRef /\ idx \in Words
      BY <1>0, <1>6, <1>k, <2>1, WordsFact DEF Stages, Closed, Types, WaitStart
    <3> QED
      BY <1>0, <2>1, <3>1 DEF Stages, Closed
  <2> QED
    BY <1>6, <1>e, <2>1, <2>2 DEF PhaseAt, Waiter
<1>7. CASE WaitMark
  <2>1. Waiter /\ wpc = "mark" /\ wpc' \in {"mark", "add", "down"}
    BY <1>7 DEF Waiter, WaitMark, WaitReturns
  <2> QED
    BY <1>c, <1>e, <2>1 DEF PhaseAt
<1>8. CASE WaitAdd
  <2>1. Waiter /\ wpc = "add" /\ wpc' \in {"wait", "down"}
    BY <1>8 DEF Waiter, WaitAdd, WaitReturns
  <2> QED
    BY <1>f, <1>e, <2>1 DEF PhaseAt
<1>9. CASE WaitWake
  BY <1>9, <1>f DEF Waiter, WaitWake, WaitReturns
<1>10. CASE RundownCompleted
  <2>1. Waiter /\ wpc = "down" /\ wpc' = "completed"
    BY <1>10 DEF Waiter, RundownCompleted
  <2> QED
    BY <1>e, <2>1 DEF PhaseAt
<1>11. CASE ReInitializeStart
  <2>1. Waiter /\ wpc \in {"down", "completed"} /\ wpc' = "reinit" /\ idx' = idx /\ idx = 1
    BY <1>0, <1>11 DEF Waiter, ReInitializeStart, Stages
  <2> QED
    BY <1>e, <2>1 DEF PhaseAt
<1>13. CASE ReInitialize
  <2>1. Waiter /\ wpc = "reinit" /\ idx \in Nat \ {0} /\ (wpc' = "idle" \/ (wpc' = "reinit" /\ idx' = idx + 1))
    <3>1. idx \in Nat \ {0}
      BY <1>0, WordsFact DEF Types
    <3>2. Waiter
      BY <1>13 DEF Waiter
    <3>3. wpc = "reinit" /\ (wpc' = "idle" \/ (wpc' = "reinit" /\ idx' = idx + 1))
      BY <1>13 DEF ReInitialize
    <3> QED
      BY <3>1, <3>2, <3>3
  <2>2. PhaseAt(wpc', idx') = "open"
    BY <2>1 DEF PhaseAt
  <2>3. CASE idx > 1
    BY <1>e, <2>1, <2>2, <2>3 DEF PhaseAt
  <2>4. CASE idx = 1
    BY <1>p, <1>w, <2>1, <2>2, <2>4 DEF PhaseAt, Protection!Next, Protection!Reopen
  <2> QED
    BY <2>1, <2>3, <2>4
<1> QED
  BY <1>u, <1>1, <1>2, <1>3, <1>4, <1>5, <1>6, <1>7, <1>8, <1>9, <1>10, <1>11, <1>13
     DEF Next, Thread, Waiter

LEMMA InitImplements == Init => Protection!Init
<1> SUFFICES ASSUME Init PROVE Protection!Init
  OBVIOUS
<1>1. Types /\ Stages
  BY InvInit DEF Inv
<1>2. phase = "open"
  BY <1>1, PhaseFact DEF Init, PhaseAt
<1> QED
  BY <1>2 DEF Init, Protection!Init

\* Call by call, both structures do what rundown protection promises.
THEOREM RundownImplements == Polite => (Spec => ImplementsProtection)
<1>1. Spec /\ []Inv => Protection!Spec
  BY InitImplements, StepImplements, PTL DEF Spec, Protection!Spec
<1> QED
  BY <1>1, PoliteInv, PTL DEF ImplementsProtection
=============================================================================
