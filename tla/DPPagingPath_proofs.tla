------------------------ MODULE DPPagingPath_proofs ------------------------
(***************************************************************************)
(* The paging path of the volume filter, for any finite set of files: the  *)
(* count is exact under every interleaving, and with one notification at a *)
(* time DO_POWER_PAGABLE is the truth.                                     *)
(***************************************************************************)
EXTENDS DPPagingPath, FiniteSetTheorems, TLAPS

\* The files that are in the count: those agreed to, but for a notification
\* that has been answered and not been counted yet.
Counted == {f \in Files : IF pc[f] = "adjust" THEN ~inPath[f] ELSE f \in onPath}

\* The count, and what a notification under way says about its file.
CountInv ==
    /\ event \in BOOLEAN /\ pagable \in BOOLEAN /\ onPath \subseteq Files
    /\ pc \in [Files -> Labels]
    /\ inPath \in [Files -> BOOLEAN] /\ set \in [Files -> BOOLEAN]
    /\ count = Cardinality(Counted)
    /\ \A f \in Files :
          /\ pc[f] \in {"wait", "test", "forward"} => (inPath[f] <=> f \notin onPath)
          /\ pc[f] \in {"adjust", "clear"} => (inPath[f] <=> f \in onPath)

Truthful == /\ pagable => Counted = {}
            /\ Counted = {} /\ ~Inrush => pagable

\* What the flag says at each step of the one notification under way.
FlagInv ==
    /\ \A f, g \in Files : pc[f] # "none" /\ pc[g] # "none" => f = g
    /\ Quiet => Truthful
    /\ \A f \in Files :
          /\ pc[f] \in {"wait", "test", "signal"} => Truthful
          /\ pc[f] \in {"forward", "adjust", "restore"} =>
                IF set[f] THEN pagable /\ Counted = {f}
                ELSE Truthful /\ (inPath[f] \/ Inrush \/ Counted # {f}
                                  \/ pc[f] = "restore")
          /\ pc[f] = "clear" =>
                IF inPath[f] THEN pagable => Counted = {f} ELSE Truthful

LEMMA CountedFinite == IsFiniteSet(Counted) /\ Cardinality(Counted) \in 0 .. Cardinality(Files)
<1>1. Counted \subseteq Files
  BY DEF Counted
<1>2. IsFiniteSet(Files)
  BY PagingAssumption
<1>3. IsFiniteSet(Counted) /\ Cardinality(Counted) <= Cardinality(Files)
  BY <1>1, <1>2, FS_Subset
<1> QED
  BY <1>2, <1>3, FS_CardinalityType

LEMMA CountInit == Init => CountInv
<1> SUFFICES ASSUME Init PROVE CountInv
  OBVIOUS
<1>1. Counted = {}
  BY DEF Init, Counted
<1>2. count = Cardinality(Counted)
  BY <1>1, FS_EmptySet DEF Init
<1> QED
  BY <1>2 DEF Init, CountInv, Labels

\* What IoAdjustPagingPathCount does to the count is what it does to the files.
LEMMA AdjustCounts ==
    ASSUME CountInv, NEW f \in Files, AdjustPagingPathCount(f)
    PROVE  /\ Counted' = IF inPath[f] THEN Counted \cup {f} ELSE Counted \ {f}
           /\ f \in Counted <=> ~inPath[f]
           /\ count' = Cardinality(Counted)'
<1>1. f \in Counted <=> ~inPath[f]
  BY DEF Counted, AdjustPagingPathCount
<1>2. ASSUME NEW g \in Files
      PROVE  g \in Counted' <=> IF g = f THEN inPath[f] ELSE g \in Counted
  BY <1>2 DEF CountInv, AdjustPagingPathCount, Counted
<1>3. Counted \subseteq Files /\ Counted' \subseteq Files
  BY DEF Counted
<1>4. Counted' = IF inPath[f] THEN Counted \cup {f} ELSE Counted \ {f}
  BY <1>1, <1>2, <1>3
<1>5. CASE inPath[f]
  <2>1. Cardinality(Counted') = Cardinality(Counted) + 1
    BY <1>1, <1>4, <1>5, CountedFinite, FS_AddElement
  <2> QED
    BY <1>1, <1>4, <1>5, <2>1 DEF AdjustPagingPathCount, Adjusted, CountInv
<1>6. CASE ~inPath[f]
  <2>1. Cardinality(Counted') = Cardinality(Counted) - 1
    BY <1>1, <1>4, <1>6, CountedFinite, FS_RemoveElement
  <2> QED
    BY <1>1, <1>4, <1>6, <2>1 DEF AdjustPagingPathCount, Adjusted, CountInv
<1> QED
  BY <1>1, <1>4, <1>5, <1>6

\* No other step changes which files are counted.
LEMMA OthersKeepCounted ==
    ASSUME CountInv, NEW f \in Files,
           \/ Notify(f) \/ Wait(f) \/ Test(f) \/ ForwardIrpSync(f)
           \/ ClearPagable(f) \/ RestorePagable(f) \/ Signal(f)
    PROVE  Counted' = Counted /\ count' = count
<1>1. count' = count
  BY DEF Notify, Wait, Test, ForwardIrpSync, ClearPagable, RestorePagable, Signal
<1>2. ASSUME NEW g \in Files
      PROVE  (IF pc[g] = "adjust" THEN ~inPath[g] ELSE g \in onPath)
             <=> (IF pc'[g] = "adjust" THEN ~inPath'[g] ELSE g \in onPath')
  <2>1. CASE ForwardIrpSync(f)
    BY <2>1 DEF ForwardIrpSync, CountInv
  <2>2. CASE \/ Notify(f) \/ Wait(f) \/ Test(f)
             \/ ClearPagable(f) \/ RestorePagable(f) \/ Signal(f)
    BY <2>2 DEF Notify, Wait, Test, ClearPagable, RestorePagable, Signal, CountInv
  <2> QED
    BY <2>1, <2>2
<1> QED
  BY <1>1, <1>2 DEF Counted

LEMMA CountStep == CountInv /\ [Next]_vars => CountInv'
<1> SUFFICES ASSUME CountInv, [Next]_vars PROVE CountInv'
  OBVIOUS
<1>u. CASE UNCHANGED vars
  BY <1>u DEF CountInv, Counted, vars
<1>1. ASSUME NEW f \in Files, AdjustPagingPathCount(f)
      PROVE  CountInv'
  BY <1>1, AdjustCounts DEF AdjustPagingPathCount, CountInv, Labels
<1>2. ASSUME NEW f \in Files, Notify(f)
      PROVE  CountInv'
  BY <1>2, OthersKeepCounted DEF Notify, CountInv, Labels
<1>3. ASSUME NEW f \in Files, Wait(f)
      PROVE  CountInv'
  BY <1>3, OthersKeepCounted DEF Wait, CountInv, Labels
<1>4. ASSUME NEW f \in Files, Test(f)
      PROVE  CountInv'
  <2>1. pagable' \in BOOLEAN
    BY <1>4 DEF Test
  <2>2. set' \in [Files -> BOOLEAN]
    BY <1>4, PagingAssumption DEF Test, CountInv
  <2> QED
    BY <1>4, <2>1, <2>2, OthersKeepCounted DEF Test, CountInv, Labels
<1>5. ASSUME NEW f \in Files, ForwardIrpSync(f)
      PROVE  CountInv'
  BY <1>5, OthersKeepCounted DEF ForwardIrpSync, CountInv, Labels
<1>6. ASSUME NEW f \in Files, ClearPagable(f)
      PROVE  CountInv'
  <2>1. pagable' \in BOOLEAN
    BY <1>6 DEF ClearPagable
  <2> QED
    BY <1>6, <2>1, OthersKeepCounted DEF ClearPagable, CountInv, Labels
<1>7. ASSUME NEW f \in Files, RestorePagable(f)
      PROVE  CountInv'
  <2>1. pagable' \in BOOLEAN
    BY <1>7 DEF RestorePagable
  <2> QED
    BY <1>7, <2>1, OthersKeepCounted DEF RestorePagable, CountInv, Labels
<1>8. ASSUME NEW f \in Files, Signal(f)
      PROVE  CountInv'
  BY <1>8, OthersKeepCounted DEF Signal, CountInv, Labels
<1> QED
  BY <1>u, <1>1, <1>2, <1>3, <1>4, <1>5, <1>6, <1>7, <1>8 DEF Next

\* The count is never wrong, however many notifications are under way: it
\* stays between zero and the number of files (PagingPathCount is changed by
\* an interlocked operation only).
THEOREM TypeCorrect == Spec => []TypeOK
<1>1. CountInv => TypeOK
  BY CountedFinite DEF CountInv, TypeOK
<1> QED
  BY <1>1, CountInit, CountStep, PTL DEF Spec

\* Whenever no notification is under way PagingPathCount is the number of paging
\* files on the volume, however the notifications overlapped before: the wait for
\* PagingPathCountEvent, which excludes nobody, is not needed for that.
THEOREM CountExact == Spec => [](Quiet => count = Cardinality(onPath))
<1>1. ASSUME CountInv, Quiet PROVE count = Cardinality(onPath)
  <2>1. Counted = onPath
    BY <1>1 DEF Counted, CountInv, Quiet
  <2> QED  BY <1>1, <2>1 DEF CountInv
<1>2. CountInv => (Quiet => count = Cardinality(onPath))
  BY <1>1
<1> QED
  BY <1>2, CountInit, CountStep, PTL DEF Spec

\* A count of one means the only file.
LEMMA CountOne ==
    ASSUME CountInv, NEW f \in Files
    PROVE  /\ f \in Counted => (count = 1 <=> Counted = {f})
           /\ count = 1 /\ Counted = {} => FALSE
<1>1. IsFiniteSet(Counted)
  BY CountedFinite
<1>2. Cardinality({f}) = 1
  BY FS_Singleton
<1>3. Cardinality(Counted) = 1 => \E x : Counted = {x}
  BY <1>1, FS_Singleton
<1>4. Counted = {} => Cardinality(Counted) = 0
  BY FS_EmptySet
<1> QED
  BY <1>2, <1>3, <1>4 DEF CountInv

LEMMA FlagInit == Init => FlagInv
  BY FS_EmptySet DEF Init, FlagInv, Quiet, Truthful, Counted

\* Nobody else is under way when a notification begins, and while it is.
LEMMA Alone ==
    ASSUME ~Overlap, CountInv, FlagInv, NEW f \in Files, Next, pc'[f] # pc[f]
    PROVE  \A g \in Files : g # f => pc[g] = "none" /\ pc'[g] = "none"
<1>1. PICK h \in Files :
         \/ Notify(h) \/ Wait(h) \/ Test(h) \/ ForwardIrpSync(h)
         \/ AdjustPagingPathCount(h) \/ ClearPagable(h) \/ RestorePagable(h) \/ Signal(h)
  BY DEF Next
<1>2. \A g \in Files : g # h => pc[g] = "none"
  BY <1>1 DEF FlagInv, Notify, Wait, Test, ForwardIrpSync, AdjustPagingPathCount,
              ClearPagable, RestorePagable, Signal
<1>3. \A g \in Files : g # h => pc'[g] = pc[g]
  BY <1>1 DEF CountInv, Notify, Wait, Test, ForwardIrpSync, AdjustPagingPathCount,
              ClearPagable, RestorePagable, Signal
<1> QED
  BY <1>2, <1>3

LEMMA FlagStep == ~Overlap /\ CountInv /\ FlagInv /\ [Next]_vars => FlagInv'
<1> SUFFICES ASSUME ~Overlap, CountInv, FlagInv, [Next]_vars
             PROVE  FlagInv'
  OBVIOUS
<1>u. CASE UNCHANGED vars
  BY <1>u DEF FlagInv, Truthful, Quiet, Counted, vars
<1>1. ASSUME NEW f \in Files, Notify(f)
      PROVE  FlagInv'
  <2>1. Quiet /\ \A g \in Files : g # f => pc'[g] = "none"
    BY <1>1 DEF Notify, Quiet, CountInv
  <2>2. Truthful'
    BY <1>1, <2>1, OthersKeepCounted DEF FlagInv, Truthful, Notify
  <2> QED
    BY <1>1, <2>1, <2>2 DEF Notify, FlagInv, CountInv
<1>2. ASSUME NEW f \in Files, Wait(f)
      PROVE  FlagInv'
  <2>1. \A g \in Files : g # f => pc'[g] = "none"
    BY <1>2, Alone DEF Wait, CountInv, Next
  <2>2. Truthful'
    BY <1>2, OthersKeepCounted DEF FlagInv, Truthful, Wait
  <2> QED
    BY <1>2, <2>1, <2>2 DEF Wait, FlagInv, CountInv
<1>3. ASSUME NEW f \in Files, Test(f)
      PROVE  FlagInv'
  <2>1. pc' = [pc EXCEPT ![f] = "forward"] /\ \A g \in Files : g # f => pc'[g] = "none"
    BY <1>3, Alone DEF Test, CountInv, Next
  <2>2. Counted' = Counted /\ Truthful
    BY <1>3, OthersKeepCounted DEF FlagInv, Test
  <2>3. ~inPath[f] => f \in Counted
    BY <1>3 DEF Test, CountInv, Counted
  <2>4. CASE IsLast(f) /\ ~Inrush
    <3>1. Counted = {f} /\ set'[f] /\ pagable'
      BY <1>3, <2>3, <2>4, CountOne DEF Test, IsLast, CountInv
    <3> QED
      BY <2>1, <2>2, <3>1 DEF FlagInv, CountInv, Quiet
  <2>5. CASE ~(IsLast(f) /\ ~Inrush)
    <3>1. ~set'[f] /\ pagable' = pagable /\ inPath' = inPath
      BY <1>3, <2>5 DEF Test, CountInv
    <3>2. inPath[f] \/ Inrush \/ Counted # {f}
      BY <2>3, <2>5, CountOne DEF IsLast
    <3>3. Truthful'
      BY <2>2, <3>1 DEF Truthful
    <3> QED
      BY <2>1, <2>2, <3>1, <3>2, <3>3 DEF FlagInv, CountInv, Quiet
  <2> QED
    BY <2>4, <2>5
<1>4. ASSUME NEW f \in Files, ForwardIrpSync(f)
      PROVE  FlagInv'
  <2>1. /\ pc'[f] \in {"adjust", "restore"} /\ UNCHANGED <<pagable, inPath, set>>
        /\ \A g \in Files : g # f => pc'[g] = "none"
    BY <1>4, Alone DEF ForwardIrpSync, CountInv, Next
  <2>2. Counted' = Counted
    BY <1>4, OthersKeepCounted
  <2>3. IF set[f] THEN pagable /\ Counted = {f}
        ELSE Truthful /\ (inPath[f] \/ Inrush \/ Counted # {f})
    BY <1>4 DEF ForwardIrpSync, FlagInv
  <2>4. Truthful' <=> Truthful
    BY <2>1, <2>2 DEF Truthful
  <2> QED
    BY <2>1, <2>2, <2>3, <2>4 DEF FlagInv, Quiet
<1>5. ASSUME NEW f \in Files, AdjustPagingPathCount(f)
      PROVE  FlagInv'
  <2>1. /\ pc[f] = "adjust" /\ pc'[f] = "clear" /\ UNCHANGED <<pagable, inPath, set>>
        /\ \A g \in Files : g # f => pc'[g] = "none"
    BY <1>5, Alone DEF AdjustPagingPathCount, CountInv, Next
  <2>2. /\ Counted' = IF inPath[f] THEN Counted \cup {f} ELSE Counted \ {f}
        /\ f \in Counted <=> ~inPath[f]
    BY <1>5, AdjustCounts
  <2>3. IF set[f] THEN pagable /\ Counted = {f}
        ELSE Truthful /\ (inPath[f] \/ Inrush \/ Counted # {f})
    BY <2>1 DEF FlagInv
  <2>4. CASE inPath[f]
    <3>1. pagable' => Counted' = {f}
      BY <2>1, <2>2, <2>3, <2>4 DEF Truthful
    <3> QED
      BY <2>1, <2>4, <3>1 DEF FlagInv, Quiet
  <2>5. CASE ~inPath[f]
    <3>1. Truthful'
      BY <2>1, <2>2, <2>3, <2>5 DEF Truthful
    <3> QED
      BY <2>1, <2>5, <3>1 DEF FlagInv, Quiet
  <2> QED
    BY <2>4, <2>5
<1>6. ASSUME NEW f \in Files, ClearPagable(f)
      PROVE  FlagInv'
  <2>1. /\ pc[f] = "clear" /\ pc'[f] = "signal"
        /\ \A g \in Files : g # f => pc'[g] = "none"
    BY <1>6, Alone DEF ClearPagable, CountInv, Next
  <2>2. Counted' = Counted /\ (inPath[f] => f \in Counted)
    BY <1>6, OthersKeepCounted DEF ClearPagable, CountInv, Counted
  <2>3. IF inPath[f] THEN pagable => Counted = {f} ELSE Truthful
    BY <2>1 DEF FlagInv
  <2>4. Truthful'
    BY <1>6, <2>2, <2>3, CountOne DEF ClearPagable, Truthful
  <2> QED
    BY <2>1, <2>4 DEF FlagInv, Quiet
<1>7. ASSUME NEW f \in Files, RestorePagable(f)
      PROVE  FlagInv'
  <2>1. /\ pc[f] = "restore" /\ pc'[f] = "signal"
        /\ \A g \in Files : g # f => pc'[g] = "none"
    BY <1>7, Alone DEF RestorePagable, CountInv, Next
  <2>2. Counted' = Counted
    BY <1>7, OthersKeepCounted
  <2>3. IF set[f] THEN pagable /\ Counted = {f} ELSE Truthful
    BY <2>1 DEF FlagInv
  <2>4. Truthful'
    <3>1. pagable' = (pagable /\ ~set[f])
      BY <1>7 DEF RestorePagable
    <3> QED
      BY <2>2, <2>3, <3>1 DEF Truthful
  <2> QED
    BY <2>1, <2>4 DEF FlagInv, Quiet
<1>8. ASSUME NEW f \in Files, Signal(f)
      PROVE  FlagInv'
  <2>1. \A g \in Files : pc'[g] = "none"
    <3>1. pc[f] = "signal" /\ pc'[f] = "none"
      BY <1>8 DEF Signal, CountInv
    <3>2. Next
      BY <1>8 DEF Next
    <3> QED
      BY <3>1, <3>2, Alone
  <2>2. Truthful'
    <3>1. Counted' = Counted
      BY <1>8, OthersKeepCounted
    <3>2. pagable' = pagable /\ pc[f] = "signal"
      BY <1>8 DEF Signal
    <3>3. Truthful
      BY <3>2 DEF FlagInv
    <3> QED
      BY <3>1, <3>2, <3>3 DEF Truthful
  <2> QED
    BY <2>1, <2>2 DEF FlagInv, Quiet
<1> QED
  BY <1>u, <1>1, <1>2, <1>3, <1>4, <1>5, <1>6, <1>7, <1>8 DEF Next

\* With one notification at a time DO_POWER_PAGABLE says, whenever none is
\* under way, whether the volume is free of paging files, after any sequence
\* of files that come, leave or are refused.
THEOREM FlagIsTrue == ASSUME ~Overlap PROVE Spec => []FlagFollowsFiles
<1>1. CountInv /\ FlagInv => FlagFollowsFiles
  <2> SUFFICES ASSUME CountInv, FlagInv, Quiet
               PROVE  Truthful /\ Counted = onPath
    BY DEF FlagFollowsFiles, Truthful
  <2> QED
    BY DEF FlagInv, Quiet, Counted, CountInv
<1>2. Spec => []CountInv
  BY CountInit, CountStep, PTL DEF Spec
<1>3. CountInv /\ FlagInv /\ [Next]_vars => FlagInv'
  BY FlagStep
<1> QED
  BY <1>1, <1>2, <1>3, FlagInit, PTL DEF Spec
=============================================================================
