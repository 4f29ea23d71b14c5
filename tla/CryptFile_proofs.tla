------------------------- MODULE CryptFile_proofs -------------------------
(***************************************************************************)
(* crypt_file, for any finite set of openers: a file is never listed while *)
(* another process has it open, and as long as creates and closes come one *)
(* after the other, what is seen, cached and listed always agrees.         *)
(***************************************************************************)
EXTENDS CryptFile, FiniteSetTheorems, TLAPS

\* The types of what decides where an opener goes.
CoreType ==
    /\ listed \in BOOLEAN /\ kept \in BOOLEAN /\ deleting \in BOOLEAN
    /\ pc \in [Openers -> Labels] /\ goOn \in [Openers -> BOOLEAN]
    /\ view \in [Openers -> {"raw", "plain"}]
    /\ \A t \in Openers :
          /\ pc[t] \in {"own", "decide", "closeOwn", "clear", "append", "insert"} => t \in Secure
          /\ pc[t] = "post" => t \in Normal

DataType ==
    /\ miswritten \in BOOLEAN /\ overlapped \in BOOLEAN
    /\ file \in {"empty", "other", "header"}
    /\ cache \in SUBSET {"raw", "plain"} /\ dirty \in SUBSET cache

Opened == {t \in Openers : pc[t] = "open"}

\* What an opener sees, and what it found on the list, is still so.
Agrees(t) ==
    /\ pc[t] = "open" => IF listed THEN view[t] = "plain" ELSE deleting \/ view[t] = "raw"
    /\ pc[t] = "own" => view[t] = "raw" /\ ~goOn[t]
    /\ pc[t] = "decide" => ~listed /\ view[t] = "raw" /\ ~goOn[t]
    /\ pc[t] \in {"closeOwn", "create"} /\ t \in Secure =>
          IF goOn[t] THEN ~listed /\ view[t] = "plain"
          ELSE view[t] = "plain" <=> listed
    /\ pc[t] \in {"clear", "append", "insert"} => ~listed /\ view[t] = "plain" /\ goOn[t]

ViewsAgree ==
    /\ ~kept
    /\ \A t, u \in InHandler : t = u
    /\ \A n \in Normal : view[n] = "raw"
    /\ \A t \in Openers : Agrees(t)

\* The cache is empty where the list is about to change.
CacheAgrees ==
    /\ cache \subseteq {Form} /\ dirty \subseteq cache /\ ~miswritten
    /\ \A t \in Openers : pc[t] \in {"insert", "remove"} /\ Opened = {} => cache = {}

\* Somebody is going to take the file off the list.
InUse == listed => \E t \in Openers :
                      view[t] = "plain" /\ pc[t] \in {"open", "cleaned", "closing", "remove"}

SerialInv == ~overlapped => ViewsAgree /\ (~deleting => CacheAgrees) /\ InUse
-----------------------------------------------------------------------------
LEMMA CoreInit == Init => CoreType
  BY DEF Init, CoreType, Labels

\* Every step keeps the types, and each kind of opener on its own path.
LEMMA CoreStep == CoreType /\ [Next]_vars => CoreType'
<1> SUFFICES ASSUME CoreType, [Next]_vars PROVE CoreType'
  OBVIOUS
<1>u. CASE UNCHANGED vars
  BY <1>u DEF CoreType, vars, driver, data
<1>l. CASE LazyWrite
  BY <1>l DEF CoreType, LazyWrite, driver
<1>1. ASSUME NEW t \in Openers, OpenOwn(t) PROVE CoreType'
  BY <1>1 DEF CoreType, OpenOwn, Goto, Labels, driver, data
<1>2. ASSUME NEW t \in Openers, LookUpOwn(t) PROVE CoreType'
  BY <1>2 DEF CoreType, LookUpOwn, Goto, Labels, driver, data
<1>3. ASSUME NEW t \in Openers, MustCrypt(t) PROVE CoreType'
  BY <1>3 DEF CoreType, MustCrypt, Goto, Labels, driver, data
<1>4. ASSUME NEW t \in Openers, NeedNotCrypt(t) PROVE CoreType'
  BY <1>4 DEF CoreType, NeedNotCrypt, Goto, Labels, driver, data
<1>5. ASSUME NEW t \in Openers, PreFails(t) PROVE CoreType'
  BY <1>5 DEF CoreType, PreFails, Goto, Labels, driver, data
<1>6. ASSUME NEW t \in Openers, CloseOwn(t) PROVE CoreType'
  BY <1>6 DEF CoreType, CloseOwn, Goto, Labels, driver, data
<1>7. ASSUME NEW t \in Openers, ClearOwn(t) PROVE CoreType'
  BY <1>7 DEF CoreType, ClearOwn, Goto, Labels, driver, data
<1>8. ASSUME NEW t \in Openers, CreateNormal(t) PROVE CoreType'
  BY <1>8 DEF CoreType, CreateNormal, Goto, Labels, driver, data
<1>9. ASSUME NEW t \in Openers, Create(t) PROVE CoreType'
  BY <1>9, CryptAssumption DEF CoreType, Create, Goto, Labels, driver, data, Openers
<1>10. ASSUME NEW t \in Openers, PostNormal(t) PROVE CoreType'
  BY <1>10 DEF CoreType, PostNormal, Goto, Labels, driver, data
<1>11. ASSUME NEW t \in Openers, AppendClear(t) PROVE CoreType'
  BY <1>11 DEF CoreType, AppendClear, Goto, Labels, driver, data
<1>12. ASSUME NEW t \in Openers, AppendFound(t) PROVE CoreType'
  BY <1>12 DEF CoreType, AppendFound, Goto, Labels, driver, data
<1>13. ASSUME NEW t \in Openers, AppendRefused(t) PROVE CoreType'
  BY <1>13 DEF CoreType, AppendRefused, Goto, Labels, driver, data
<1>14. ASSUME NEW t \in Openers, AppendInsert(t) PROVE CoreType'
  BY <1>14 DEF CoreType, AppendInsert, Goto, Labels, driver, data
<1>15. ASSUME NEW t \in Openers, Cancel(t) PROVE CoreType'
  BY <1>15 DEF CoreType, Cancel, Goto, Labels, driver, data
<1>16. ASSUME NEW t \in Openers, Read(t) PROVE CoreType'
  BY <1>16 DEF CoreType, Read, Goto, Labels, driver, data
<1>17. ASSUME NEW t \in Openers, Write(t) PROVE CoreType'
  BY <1>17 DEF CoreType, Write, Goto, Labels, driver, data
<1>18. ASSUME NEW t \in Openers, MarkDelete(t) PROVE CoreType'
  BY <1>18 DEF CoreType, MarkDelete, Goto, Labels, driver, data
<1>19. ASSUME NEW t \in Openers, Cleanup(t) PROVE CoreType'
  BY <1>19 DEF CoreType, Cleanup, Goto, Labels, driver, data
<1>20. ASSUME NEW t \in Openers, ClosePre(t) PROVE CoreType'
  BY <1>20 DEF CoreType, ClosePre, Goto, Labels, driver, data
<1>21. ASSUME NEW t \in Openers, CleanupComplete(t) PROVE CoreType'
  BY <1>21 DEF CoreType, CleanupComplete, Goto, Labels, driver, data
<1>22. ASSUME NEW t \in Openers, Remove(t) PROVE CoreType'
  BY <1>22 DEF CoreType, Remove, Goto, Labels, driver, data
<1> QED
  BY <1>u, <1>l, <1>1, <1>2, <1>3, <1>4, <1>5, <1>6, <1>7, <1>8, <1>9,
     <1>10, <1>11, <1>12, <1>13, <1>14, <1>15, <1>16, <1>17, <1>18, <1>19,
     <1>20, <1>21, <1>22 DEF Next, Step

LEMMA DataInit == Init => DataType
  BY DEF Init, DataType

\* What is dirty is in the cache.
LEMMA DataStep == CoreType /\ DataType /\ [Next]_vars => DataType'
<1> SUFFICES ASSUME CoreType, DataType, [Next]_vars PROVE DataType'
  OBVIOUS
<1>u. CASE UNCHANGED vars
  BY <1>u DEF DataType, vars, data
<1>o. CASE Next
  <2>1. overlapped' \in BOOLEAN
    BY <1>o DEF Next, DataType
  <2>2. Form \in {"raw", "plain"}
    BY DEF Form
  <2>3. ASSUME CacheClear PROVE DataType'
    BY <2>1, <2>3 DEF CacheClear, WriteDirty, DataType
  <2>l. ASSUME LazyWrite PROVE DataType'
    BY <2>1, <2>l DEF LazyWrite, WriteDirty, DataType
  <2>4. ASSUME NEW t \in Openers, Step(t) PROVE DataType'
    <3>1. CASE ClearOwn(t) \/ AppendClear(t)
      BY <2>3, <3>1 DEF ClearOwn, AppendClear
    <3>2. CASE CleanupComplete(t)
      BY <2>1, <2>3, <3>2 DEF CleanupComplete, CloseClear, DataType, data
    <3>3. CASE Read(t)
      BY <2>1, <2>2, <3>3 DEF Read, DataType
    <3>4. CASE Write(t)
      BY <2>1, <3>4 DEF Write, DataType, CoreType
    <3>5. CASE MustCrypt(t)
      BY <2>1, <3>5 DEF MustCrypt, NeedsHeader, HasHeader, DataType
    <3>6. CASE \/ OpenOwn(t) \/ LookUpOwn(t) \/ NeedNotCrypt(t) \/ PreFails(t) \/ CloseOwn(t)
              \/ CreateNormal(t) \/ Create(t) \/ PostNormal(t) \/ AppendFound(t)
              \/ AppendRefused(t) \/ AppendInsert(t) \/ Cancel(t) \/ MarkDelete(t)
              \/ Cleanup(t) \/ ClosePre(t) \/ Remove(t)
      BY <2>1, <3>6 DEF OpenOwn, LookUpOwn, NeedNotCrypt, PreFails, CloseOwn, CreateNormal,
         Create, PostNormal, AppendFound, AppendRefused, AppendInsert, Cancel, MarkDelete,
         Cleanup, ClosePre, Remove, DataType, data
    <3> QED
      BY <2>4, <3>1, <3>2, <3>3, <3>4, <3>5, <3>6 DEF Step
  <2> QED
    BY <1>o, <2>l, <2>4 DEF Next
<1> QED
  BY <1>u, <1>o

\* Every reachable state is well typed, for any finite set of openers; what is
\* dirty is always in the cache (cfFileCacheClear flushes before it purges).
THEOREM TypeCorrect == Spec => []TypeOK
<1>1. CoreType /\ DataType => TypeOK
  BY DEF CoreType, DataType, TypeOK
<1> QED
  BY <1>1, CoreInit, CoreStep, DataInit, DataStep, PTL DEF Spec

\* Two openers that are counted make the count exceed one.
LEMMA TwoCounted ==
    ASSUME NEW t \in Counted, NEW u \in Counted, t # u
    PROVE  UncleanCount > 1
<1>1. IsFiniteSet(Counted)
  BY CryptAssumption, FS_Subset DEF Counted
<1>2. IsFiniteSet({t}) /\ Cardinality({t}) = 1 /\ {t} \cup {u} = {t, u}
  BY FS_Singleton
<1>3. Cardinality({t, u}) = 2
  BY <1>2, FS_AddElement
<1>4. Cardinality({t, u}) <= Cardinality(Counted)
  BY <1>1, FS_Subset
<1> QED
  BY <1>1, <1>3, <1>4, FS_CardinalityType DEF UncleanCount

LEMMA NoneCounted == UncleanCount = 0 => Counted = {}
<1>1. IsFiniteSet(Counted)
  BY CryptAssumption, FS_Subset DEF Counted
<1> QED
  BY <1>1, FS_EmptySet DEF UncleanCount

\* However creates, checks, refusals and closes interleave, no other process
\* has the file open while it is listed (cfFileCryptAppendLk against
\* OnSfilterIrpPost).
THEOREM NormalExcluded == Spec => []ListedExcludesNormal
<1>1. Init => ListedExcludesNormal
  BY DEF Init, ListedExcludesNormal
<1>2. CoreType /\ ListedExcludesNormal /\ [Next]_vars => ListedExcludesNormal'
  <2> SUFFICES ASSUME CoreType, ListedExcludesNormal, [Next]_vars
               PROVE  ListedExcludesNormal'
    OBVIOUS
  <2>u. CASE UNCHANGED vars
    BY <2>u DEF ListedExcludesNormal, vars, driver
  <2>l. CASE LazyWrite
    BY <2>l DEF ListedExcludesNormal, LazyWrite, driver
  <2>1. ASSUME NEW t \in Openers, AppendInsert(t) PROVE ListedExcludesNormal'
    <3>1. t \in Counted /\ pc[t] = "insert"
      BY <2>1 DEF AppendInsert, Counted
    <3>2. ASSUME NEW n \in Normal, pc[n] = "open" PROVE FALSE
      BY <2>1, <3>1, <3>2, TwoCounted DEF AppendInsert, Refused, Counted, Openers
    <3> QED
      BY <2>1, <3>1, <3>2, CryptAssumption
         DEF AppendInsert, Goto, CoreType, ListedExcludesNormal, Openers
  <2>2. ASSUME NEW t \in Openers, PostNormal(t) PROVE ListedExcludesNormal'
    BY <2>2 DEF PostNormal, Goto, driver, CoreType, ListedExcludesNormal, Openers
  <2>3. ASSUME NEW t \in Openers, AppendFound(t) \/ Create(t) PROVE ListedExcludesNormal'
    BY <2>3, CryptAssumption
       DEF AppendFound, Create, Goto, driver, CoreType, ListedExcludesNormal, Openers
  <2>4. ASSUME NEW t \in Openers, Remove(t) PROVE ListedExcludesNormal'
    BY <2>4 DEF Remove, Goto, CoreType, ListedExcludesNormal, Openers
  <2>5. ASSUME NEW t \in Openers,
               \/ OpenOwn(t) \/ LookUpOwn(t) \/ MustCrypt(t) \/ NeedNotCrypt(t) \/ PreFails(t)
               \/ CloseOwn(t) \/ ClearOwn(t) \/ CreateNormal(t) \/ AppendClear(t)
               \/ AppendRefused(t) \/ Cancel(t) \/ Read(t) \/ Write(t) \/ MarkDelete(t)
               \/ Cleanup(t) \/ ClosePre(t) \/ CleanupComplete(t)
        PROVE ListedExcludesNormal'
    BY <2>5 DEF OpenOwn, LookUpOwn, MustCrypt, NeedNotCrypt, PreFails, CloseOwn, ClearOwn,
       CreateNormal, AppendClear, AppendRefused, Cancel, Read, Write, MarkDelete, Cleanup,
       ClosePre, CleanupComplete, Goto, driver, CoreType, ListedExcludesNormal, Openers
  <2> QED
    BY <2>u, <2>l, <2>1, <2>2, <2>3, <2>4, <2>5 DEF Next, Step
<1> QED
  BY <1>1, <1>2, CoreInit, CoreStep, PTL DEF Spec

LEMMA SerialInit == Init => SerialInv
<1> SUFFICES ASSUME Init PROVE SerialInv
  OBVIOUS
<1>1. InHandler = {} /\ Opened = {}
  BY DEF Init, InHandler, Opened
<1>2. \A n \in Normal : view[n] = "raw"
  BY DEF Init, Openers
<1> QED
  BY <1>1, <1>2 DEF Init, SerialInv, ViewsAgree, Agrees, CacheAgrees, InUse, Form

\* A step of one opener leaves the others where they are; if it moves, no
\* other one is in a create or a close, as long as nothing overlaps.
LEMMA Alone ==
    ASSUME CoreType, NEW t \in Openers, Step(t), ~Overlap
    PROVE  /\ \A u \in Openers : u # t => pc'[u] = pc[u]
           /\ pc'[t] # pc[t] => \A u \in Openers : u # t => u \notin InHandler
<1>1. \A u \in Openers : u # t => pc'[u] = pc[u]
  BY DEF Step, OpenOwn, LookUpOwn, MustCrypt, NeedNotCrypt, PreFails, CloseOwn, ClearOwn, CreateNormal, Create, PostNormal, AppendClear, AppendFound, AppendRefused, AppendInsert, Cancel, Read, Write, MarkDelete, Cleanup, ClosePre, CleanupComplete, Remove, Goto, CoreType
<1> QED
  BY <1>1 DEF Overlap

LEMMA SerialStep == CoreType /\ DataType /\ SerialInv /\ [Next]_vars => SerialInv'
<1> SUFFICES ASSUME CoreType, DataType, SerialInv, [Next]_vars, ~overlapped'
             PROVE  ViewsAgree' /\ (~deleting' => CacheAgrees') /\ InUse'
  BY DEF SerialInv
<1> USE DEF SerialInv
<1>u. CASE UNCHANGED vars
  BY <1>u DEF vars, driver, data, ViewsAgree, Agrees, CacheAgrees, InUse, InHandler, Opened, Form
<1>o. CASE Next
  <2>1. ~overlapped /\ ~Overlap
    BY <1>o DEF Next, DataType
  <2>2. ViewsAgree /\ (~deleting => CacheAgrees) /\ InUse
    BY <2>1
  <2>l. CASE LazyWrite
    <3>1. ViewsAgree' /\ InUse'
      BY <2>2, <2>l DEF LazyWrite, driver, ViewsAgree, Agrees, InUse, InHandler, Opened
    <3>2. Form' = Form /\ deleting' = deleting /\ pc' = pc /\ cache' = cache /\ dirty' = {}
      BY <2>l DEF LazyWrite, driver, Form
    <3>3. ~deleting => CacheAgrees'
      BY <2>2, <2>l, <3>2 DEF LazyWrite, WriteDirty, CacheAgrees, Opened
    <3> QED
      BY <3>1, <3>2, <3>3
  <2>3. ASSUME NEW t \in Openers, OpenOwn(t)
        PROVE  ViewsAgree' /\ (~deleting' => CacheAgrees') /\ InUse'
    <3>0. /\ \A u \in Openers : u # t => pc'[u] = pc[u]
          /\ pc'[t] # pc[t] => \A u \in Openers : u # t => u \notin InHandler
      BY <2>1, <2>3, Alone DEF Step
    <3>1. ViewsAgree'
      <4>1. ~kept' /\ \A n \in Normal : view'[n] = "raw"
        BY <2>2, <2>3, CryptAssumption DEF OpenOwn, driver, CoreType, ViewsAgree, Openers
      <4>2. \A u, v \in InHandler' : u = v
        BY <2>2, <2>3, <3>0 DEF OpenOwn, Goto, ViewsAgree, InHandler, CoreType
      <4>3. \A u \in Openers : Agrees(u)'
        BY <2>2, <2>3, <3>0, CryptAssumption DEF OpenOwn, Goto, driver, CoreType, ViewsAgree, Agrees, InHandler, Opened
      <4> QED
        BY <4>1, <4>2, <4>3 DEF ViewsAgree
    <3>2. ~deleting' => CacheAgrees'
      BY <2>2, <2>3, <3>0 DEF OpenOwn, Goto, driver, data, CoreType, DataType, Labels, ViewsAgree, Agrees, CacheAgrees, InHandler, Opened, Form
    <3>3. InUse'
      BY <2>2, <2>3, <3>0 DEF OpenOwn, Goto, driver, data, CoreType, Labels, ViewsAgree, Agrees, InUse, InHandler, Opened
    <3> QED
      BY <3>1, <3>2, <3>3
  <2>4. ASSUME NEW t \in Openers, LookUpOwn(t)
        PROVE  ViewsAgree' /\ (~deleting' => CacheAgrees') /\ InUse'
    <3>0. /\ \A u \in Openers : u # t => pc'[u] = pc[u]
          /\ pc'[t] # pc[t] => \A u \in Openers : u # t => u \notin InHandler
      BY <2>1, <2>4, Alone DEF Step
    <3>1. ViewsAgree'
      <4>1. ~kept' /\ \A n \in Normal : view'[n] = "raw"
        BY <2>2, <2>4, CryptAssumption DEF LookUpOwn, driver, CoreType, ViewsAgree, Openers
      <4>2. \A u, v \in InHandler' : u = v
        BY <2>2, <2>4, <3>0 DEF LookUpOwn, Goto, ViewsAgree, InHandler, CoreType
      <4>3. \A u \in Openers : Agrees(u)'
        BY <2>2, <2>4, <3>0, CryptAssumption DEF LookUpOwn, Goto, driver, CoreType, ViewsAgree, Agrees, InHandler, Opened
      <4> QED
        BY <4>1, <4>2, <4>3 DEF ViewsAgree
    <3>2. ~deleting' => CacheAgrees'
      BY <2>2, <2>4, <3>0 DEF LookUpOwn, Goto, driver, data, CoreType, DataType, Labels, ViewsAgree, Agrees, CacheAgrees, InHandler, Opened, Form
    <3>3. InUse'
      BY <2>2, <2>4, <3>0 DEF LookUpOwn, Goto, driver, data, CoreType, Labels, ViewsAgree, Agrees, InUse, InHandler, Opened
    <3> QED
      BY <3>1, <3>2, <3>3
  <2>5. ASSUME NEW t \in Openers, MustCrypt(t)
        PROVE  ViewsAgree' /\ (~deleting' => CacheAgrees') /\ InUse'
    <3>0. /\ \A u \in Openers : u # t => pc'[u] = pc[u]
          /\ pc'[t] # pc[t] => \A u \in Openers : u # t => u \notin InHandler
      BY <2>1, <2>5, Alone DEF Step
    <3>1. ViewsAgree'
      <4>1. ~kept' /\ \A n \in Normal : view'[n] = "raw"
        BY <2>2, <2>5, CryptAssumption DEF MustCrypt, driver, CoreType, ViewsAgree, Openers
      <4>2. \A u, v \in InHandler' : u = v
        BY <2>2, <2>5, <3>0 DEF MustCrypt, Goto, ViewsAgree, InHandler, CoreType
      <4>3. \A u \in Openers : Agrees(u)'
        BY <2>2, <2>5, <3>0, CryptAssumption DEF MustCrypt, Goto, driver, CoreType, ViewsAgree, Agrees, InHandler, Opened
      <4> QED
        BY <4>1, <4>2, <4>3 DEF ViewsAgree
    <3>2. ~deleting' => CacheAgrees'
      BY <2>2, <2>5, <3>0 DEF MustCrypt, Goto, driver, data, CoreType, DataType, Labels, ViewsAgree, Agrees, CacheAgrees, InHandler, Opened, Form
    <3>3. InUse'
      BY <2>2, <2>5, <3>0 DEF MustCrypt, Goto, driver, data, CoreType, Labels, ViewsAgree, Agrees, InUse, InHandler, Opened
    <3> QED
      BY <3>1, <3>2, <3>3
  <2>6. ASSUME NEW t \in Openers, NeedNotCrypt(t)
        PROVE  ViewsAgree' /\ (~deleting' => CacheAgrees') /\ InUse'
    <3>0. /\ \A u \in Openers : u # t => pc'[u] = pc[u]
          /\ pc'[t] # pc[t] => \A u \in Openers : u # t => u \notin InHandler
      BY <2>1, <2>6, Alone DEF Step
    <3>1. ViewsAgree'
      BY <2>2, <2>6, <3>0 DEF NeedNotCrypt, Goto, driver, data, CoreType, Labels, ViewsAgree, Agrees, InHandler, Opened, Openers
    <3>2. ~deleting' => CacheAgrees'
      BY <2>2, <2>6, <3>0 DEF NeedNotCrypt, Goto, driver, data, CoreType, DataType, Labels, ViewsAgree, Agrees, CacheAgrees, InHandler, Opened, Form
    <3>3. InUse'
      BY <2>2, <2>6, <3>0 DEF NeedNotCrypt, Goto, driver, data, CoreType, Labels, ViewsAgree, Agrees, InUse, InHandler, Opened
    <3> QED
      BY <3>1, <3>2, <3>3
  <2>7. ASSUME NEW t \in Openers, PreFails(t)
        PROVE  ViewsAgree' /\ (~deleting' => CacheAgrees') /\ InUse'
    <3>0. /\ \A u \in Openers : u # t => pc'[u] = pc[u]
          /\ pc'[t] # pc[t] => \A u \in Openers : u # t => u \notin InHandler
      BY <2>1, <2>7, Alone DEF Step
    <3>1. ViewsAgree'
      BY <2>2, <2>7, <3>0 DEF PreFails, Goto, driver, data, CoreType, Labels, ViewsAgree, Agrees, InHandler, Opened, Openers
    <3>2. ~deleting' => CacheAgrees'
      BY <2>2, <2>7, <3>0 DEF PreFails, Goto, driver, data, CoreType, DataType, Labels, ViewsAgree, Agrees, CacheAgrees, InHandler, Opened, Form
    <3>3. InUse'
      BY <2>2, <2>7, <3>0 DEF PreFails, Goto, driver, data, CoreType, Labels, ViewsAgree, Agrees, InUse, InHandler, Opened
    <3> QED
      BY <3>1, <3>2, <3>3
  <2>8. ASSUME NEW t \in Openers, CloseOwn(t)
        PROVE  ViewsAgree' /\ (~deleting' => CacheAgrees') /\ InUse'
    <3>0. /\ \A u \in Openers : u # t => pc'[u] = pc[u]
          /\ pc'[t] # pc[t] => \A u \in Openers : u # t => u \notin InHandler
      BY <2>1, <2>8, Alone DEF Step
    <3>1. ViewsAgree'
      BY <2>2, <2>8, <3>0 DEF CloseOwn, Goto, driver, data, CoreType, Labels, ViewsAgree, Agrees, InHandler, Opened, Openers
    <3>2. ~deleting' => CacheAgrees'
      BY <2>2, <2>8, <3>0 DEF CloseOwn, Goto, driver, data, CoreType, DataType, Labels, ViewsAgree, Agrees, CacheAgrees, InHandler, Opened, Form
    <3>3. InUse'
      BY <2>2, <2>8, <3>0 DEF CloseOwn, Goto, driver, data, CoreType, Labels, ViewsAgree, Agrees, InUse, InHandler, Opened
    <3> QED
      BY <3>1, <3>2, <3>3
  <2>9. ASSUME NEW t \in Openers, ClearOwn(t)
        PROVE  ViewsAgree' /\ (~deleting' => CacheAgrees') /\ InUse'
    <3>0. /\ \A u \in Openers : u # t => pc'[u] = pc[u]
          /\ pc'[t] # pc[t] => \A u \in Openers : u # t => u \notin InHandler
      BY <2>1, <2>9, Alone DEF Step
    <3>1. ViewsAgree'
      BY <2>2, <2>9, <3>0 DEF ClearOwn, Goto, driver, data, CoreType, Labels, ViewsAgree, Agrees, InHandler, Opened, Openers
    <3>2. ~deleting' => CacheAgrees'
      <4> SUFFICES ASSUME ~deleting' PROVE CacheAgrees'
        OBVIOUS
      <4>1. CacheAgrees /\ Form' = Form
        BY <2>2, <2>9 DEF ClearOwn, driver, Form
      <4>2. ASSUME CacheClear PROVE cache' = {} /\ dirty' = {} /\ ~miswritten'
        BY <4>1, <4>2 DEF CacheClear, WriteDirty, CacheAgrees
      <4> QED
        BY <2>9, <4>2 DEF ClearOwn, CacheAgrees
    <3>3. InUse'
      BY <2>2, <2>9, <3>0 DEF ClearOwn, Goto, driver, data, CoreType, Labels, ViewsAgree, Agrees, InUse, InHandler, Opened
    <3> QED
      BY <3>1, <3>2, <3>3
  <2>10. ASSUME NEW t \in Openers, CreateNormal(t)
        PROVE  ViewsAgree' /\ (~deleting' => CacheAgrees') /\ InUse'
    <3>0. /\ \A u \in Openers : u # t => pc'[u] = pc[u]
          /\ pc'[t] # pc[t] => \A u \in Openers : u # t => u \notin InHandler
      BY <2>1, <2>10, Alone DEF Step
    <3>1. ViewsAgree'
      <4>1. ~kept' /\ \A n \in Normal : view'[n] = "raw"
        BY <2>2, <2>10, CryptAssumption DEF CreateNormal, driver, CoreType, ViewsAgree, Openers
      <4>2. \A u, v \in InHandler' : u = v
        BY <2>2, <2>10, <3>0 DEF CreateNormal, Goto, ViewsAgree, InHandler, CoreType
      <4>3. \A u \in Openers : Agrees(u)'
        BY <2>2, <2>10, <3>0, CryptAssumption DEF CreateNormal, Goto, driver, CoreType, ViewsAgree, Agrees, InHandler, Opened
      <4> QED
        BY <4>1, <4>2, <4>3 DEF ViewsAgree
    <3>2. ~deleting' => CacheAgrees'
      BY <2>2, <2>10, <3>0 DEF CreateNormal, Goto, driver, data, CoreType, DataType, Labels, ViewsAgree, Agrees, CacheAgrees, InHandler, Opened, Form
    <3>3. InUse'
      BY <2>2, <2>10, <3>0 DEF CreateNormal, Goto, driver, data, CoreType, Labels, ViewsAgree, Agrees, InUse, InHandler, Opened
    <3> QED
      BY <3>1, <3>2, <3>3
  <2>11. ASSUME NEW t \in Openers, Create(t)
        PROVE  ViewsAgree' /\ (~deleting' => CacheAgrees') /\ InUse'
    <3>0. /\ \A u \in Openers : u # t => pc'[u] = pc[u]
          /\ pc'[t] # pc[t] => \A u \in Openers : u # t => u \notin InHandler
      BY <2>1, <2>11, Alone DEF Step
    <3>1. ViewsAgree'
      BY <2>2, <2>11, <3>0 DEF Create, Goto, driver, data, CoreType, Labels, ViewsAgree, Agrees, InHandler, Opened, Openers
    <3>2. ~deleting' => CacheAgrees'
      BY <2>2, <2>11, <3>0 DEF Create, Goto, driver, data, CoreType, DataType, Labels, ViewsAgree, Agrees, CacheAgrees, InHandler, Opened, Form
    <3>3. InUse'
      BY <2>2, <2>11, <3>0 DEF Create, Goto, driver, data, CoreType, Labels, ViewsAgree, Agrees, InUse, InHandler, Opened
    <3> QED
      BY <3>1, <3>2, <3>3
  <2>12. ASSUME NEW t \in Openers, PostNormal(t)
        PROVE  ViewsAgree' /\ (~deleting' => CacheAgrees') /\ InUse'
    <3>0. /\ \A u \in Openers : u # t => pc'[u] = pc[u]
          /\ pc'[t] # pc[t] => \A u \in Openers : u # t => u \notin InHandler
      BY <2>1, <2>12, Alone DEF Step
    <3>1. ViewsAgree'
      BY <2>2, <2>12, <3>0 DEF PostNormal, Goto, driver, data, CoreType, Labels, ViewsAgree, Agrees, InHandler, Opened, Openers
    <3>2. ~deleting' => CacheAgrees'
      BY <2>2, <2>12, <3>0 DEF PostNormal, Goto, driver, data, CoreType, DataType, Labels, ViewsAgree, Agrees, CacheAgrees, InHandler, Opened, Form
    <3>3. InUse'
      BY <2>2, <2>12, <3>0 DEF PostNormal, Goto, driver, data, CoreType, Labels, ViewsAgree, Agrees, InUse, InHandler, Opened
    <3> QED
      BY <3>1, <3>2, <3>3
  <2>13. ASSUME NEW t \in Openers, AppendClear(t)
        PROVE  ViewsAgree' /\ (~deleting' => CacheAgrees') /\ InUse'
    <3>0. /\ \A u \in Openers : u # t => pc'[u] = pc[u]
          /\ pc'[t] # pc[t] => \A u \in Openers : u # t => u \notin InHandler
      BY <2>1, <2>13, Alone DEF Step
    <3>1. ViewsAgree'
      BY <2>2, <2>13, <3>0 DEF AppendClear, Goto, driver, data, CoreType, Labels, ViewsAgree, Agrees, InHandler, Opened, Openers
    <3>2. ~deleting' => CacheAgrees'
      <4> SUFFICES ASSUME ~deleting' PROVE CacheAgrees'
        OBVIOUS
      <4>1. CacheAgrees /\ Form' = Form
        BY <2>2, <2>13 DEF AppendClear, driver, Form
      <4>2. ASSUME CacheClear PROVE cache' = {} /\ dirty' = {} /\ ~miswritten'
        BY <4>1, <4>2 DEF CacheClear, WriteDirty, CacheAgrees
      <4> QED
        BY <2>13, <4>2 DEF AppendClear, CacheAgrees
    <3>3. InUse'
      BY <2>2, <2>13, <3>0 DEF AppendClear, Goto, driver, data, CoreType, Labels, ViewsAgree, Agrees, InUse, InHandler, Opened
    <3> QED
      BY <3>1, <3>2, <3>3
  <2>14. ASSUME NEW t \in Openers, AppendFound(t)
        PROVE  ViewsAgree' /\ (~deleting' => CacheAgrees') /\ InUse'
    <3>0. /\ \A u \in Openers : u # t => pc'[u] = pc[u]
          /\ pc'[t] # pc[t] => \A u \in Openers : u # t => u \notin InHandler
      BY <2>1, <2>14, Alone DEF Step
    <3>1. ViewsAgree'
      BY <2>2, <2>14, <3>0 DEF AppendFound, Goto, driver, data, CoreType, Labels, ViewsAgree, Agrees, InHandler, Opened, Openers
    <3>2. ~deleting' => CacheAgrees'
      BY <2>2, <2>14, <3>0 DEF AppendFound, Goto, driver, data, CoreType, DataType, Labels, ViewsAgree, Agrees, CacheAgrees, InHandler, Opened, Form
    <3>3. InUse'
      BY <2>2, <2>14, <3>0 DEF AppendFound, Goto, driver, data, CoreType, Labels, ViewsAgree, Agrees, InUse, InHandler, Opened
    <3> QED
      BY <3>1, <3>2, <3>3
  <2>15. ASSUME NEW t \in Openers, AppendRefused(t)
        PROVE  ViewsAgree' /\ (~deleting' => CacheAgrees') /\ InUse'
    <3>0. /\ \A u \in Openers : u # t => pc'[u] = pc[u]
          /\ pc'[t] # pc[t] => \A u \in Openers : u # t => u \notin InHandler
      BY <2>1, <2>15, Alone DEF Step
    <3>1. ViewsAgree'
      BY <2>2, <2>15, <3>0 DEF AppendRefused, Goto, driver, data, CoreType, Labels, ViewsAgree, Agrees, InHandler, Opened, Openers
    <3>2. ~deleting' => CacheAgrees'
      BY <2>2, <2>15, <3>0 DEF AppendRefused, Goto, driver, data, CoreType, DataType, Labels, ViewsAgree, Agrees, CacheAgrees, InHandler, Opened, Form
    <3>3. InUse'
      BY <2>2, <2>15, <3>0 DEF AppendRefused, Goto, driver, data, CoreType, Labels, ViewsAgree, Agrees, InUse, InHandler, Opened
    <3> QED
      BY <3>1, <3>2, <3>3
  <2>16. ASSUME NEW t \in Openers, AppendInsert(t)
        PROVE  ViewsAgree' /\ (~deleting' => CacheAgrees') /\ InUse'
    <3>0. /\ \A u \in Openers : u # t => pc'[u] = pc[u]
          /\ pc'[t] # pc[t] => \A u \in Openers : u # t => u \notin InHandler
      BY <2>1, <2>16, Alone DEF Step
    <3>1. ViewsAgree'
      <4>0. Opened = {}
        BY <2>16, TwoCounted DEF AppendInsert, Refused, Counted, Opened
      <4>1. ~kept' /\ \A n \in Normal : view'[n] = "raw"
        BY <2>2, <2>16 DEF AppendInsert, driver, CoreType, ViewsAgree, Openers
      <4>2. \A u, v \in InHandler' : u = v
        BY <2>2, <2>16, <3>0 DEF AppendInsert, Goto, ViewsAgree, InHandler, CoreType
      <4>3. \A u \in Openers : Agrees(u)'
        BY <2>2, <4>0, <2>16, <3>0 DEF AppendInsert, Goto, driver, CoreType, ViewsAgree, Agrees, InHandler, Opened
      <4> QED
        BY <4>1, <4>2, <4>3 DEF ViewsAgree
    <3>2. ~deleting' => CacheAgrees'
      <4> SUFFICES ASSUME ~deleting' PROVE CacheAgrees'
        OBVIOUS
      <4>1. CacheAgrees /\ ~deleting
        BY <2>2, <2>16 DEF AppendInsert
      <4>2. listed' # listed => Opened = {}
        BY <2>16, <4>1, TwoCounted DEF AppendInsert, Refused, Counted, Opened, CoreType
      <4>3. listed' # listed => cache = {}
        BY <2>16, <4>1, <4>2 DEF AppendInsert, CacheAgrees
      <4>4. cache' \subseteq {Form'}
        BY <2>16, <4>1, <4>3 DEF AppendInsert, CacheAgrees, data, Form
      <4> QED
        BY <2>16, <3>0, <4>1, <4>4 DEF AppendInsert, Goto, CacheAgrees, data, CoreType, Opened, InHandler
    <3>3. InUse'
      BY <2>2, <2>16, <3>0 DEF AppendInsert, Goto, driver, data, CoreType, Labels, ViewsAgree, Agrees, InUse, InHandler, Opened
    <3> QED
      BY <3>1, <3>2, <3>3
  <2>17. ASSUME NEW t \in Openers, Cancel(t)
        PROVE  ViewsAgree' /\ (~deleting' => CacheAgrees') /\ InUse'
    <3>0. /\ \A u \in Openers : u # t => pc'[u] = pc[u]
          /\ pc'[t] # pc[t] => \A u \in Openers : u # t => u \notin InHandler
      BY <2>1, <2>17, Alone DEF Step
    <3>1. ViewsAgree'
      BY <2>2, <2>17, <3>0 DEF Cancel, Goto, driver, data, CoreType, Labels, ViewsAgree, Agrees, InHandler, Opened, Openers
    <3>2. ~deleting' => CacheAgrees'
      BY <2>2, <2>17, <3>0 DEF Cancel, Goto, driver, data, CoreType, DataType, Labels, ViewsAgree, Agrees, CacheAgrees, InHandler, Opened, Form
    <3>3. InUse'
      BY <2>2, <2>17, <3>0 DEF Cancel, Goto, driver, data, CoreType, Labels, ViewsAgree, Agrees, InUse, InHandler, Opened
    <3> QED
      BY <3>1, <3>2, <3>3
  <2>18. ASSUME NEW t \in Openers, Read(t)
        PROVE  ViewsAgree' /\ (~deleting' => CacheAgrees') /\ InUse'
    <3>0. /\ \A u \in Openers : u # t => pc'[u] = pc[u]
          /\ pc'[t] # pc[t] => \A u \in Openers : u # t => u \notin InHandler
      BY <2>1, <2>18, Alone DEF Step
    <3>1. ViewsAgree'
      BY <2>2, <2>18, <3>0 DEF Read, Goto, driver, data, CoreType, Labels, ViewsAgree, Agrees, InHandler, Opened, Openers
    <3>2. ~deleting' => CacheAgrees'
      BY <2>2, <2>18, <3>0 DEF Read, Goto, driver, data, CoreType, DataType, Labels, ViewsAgree, Agrees, CacheAgrees, InHandler, Opened, Form
    <3>3. InUse'
      BY <2>2, <2>18, <3>0 DEF Read, Goto, driver, data, CoreType, Labels, ViewsAgree, Agrees, InUse, InHandler, Opened
    <3> QED
      BY <3>1, <3>2, <3>3
  <2>19. ASSUME NEW t \in Openers, Write(t)
        PROVE  ViewsAgree' /\ (~deleting' => CacheAgrees') /\ InUse'
    <3>0. /\ \A u \in Openers : u # t => pc'[u] = pc[u]
          /\ pc'[t] # pc[t] => \A u \in Openers : u # t => u \notin InHandler
      BY <2>1, <2>19, Alone DEF Step
    <3>1. ViewsAgree'
      BY <2>2, <2>19, <3>0 DEF Write, Goto, driver, data, CoreType, Labels, ViewsAgree, Agrees, InHandler, Opened, Openers
    <3>2. ~deleting' => CacheAgrees'
      BY <2>2, <2>19, <3>0 DEF Write, Goto, driver, data, CoreType, DataType, Labels, ViewsAgree, Agrees, CacheAgrees, InHandler, Opened, Form
    <3>3. InUse'
      BY <2>2, <2>19, <3>0 DEF Write, Goto, driver, data, CoreType, Labels, ViewsAgree, Agrees, InUse, InHandler, Opened
    <3> QED
      BY <3>1, <3>2, <3>3
  <2>20. ASSUME NEW t \in Openers, MarkDelete(t)
        PROVE  ViewsAgree' /\ (~deleting' => CacheAgrees') /\ InUse'
    <3>0. /\ \A u \in Openers : u # t => pc'[u] = pc[u]
          /\ pc'[t] # pc[t] => \A u \in Openers : u # t => u \notin InHandler
      BY <2>1, <2>20, Alone DEF Step
    <3>1. ViewsAgree'
      BY <2>2, <2>20, <3>0 DEF MarkDelete, Goto, driver, data, CoreType, Labels, ViewsAgree, Agrees, InHandler, Opened, Openers
    <3>2. ~deleting' => CacheAgrees'
      BY <2>2, <2>20, <3>0 DEF MarkDelete, Goto, driver, data, CoreType, DataType, Labels, ViewsAgree, Agrees, CacheAgrees, InHandler, Opened, Form
    <3>3. InUse'
      BY <2>2, <2>20, <3>0 DEF MarkDelete, Goto, driver, data, CoreType, Labels, ViewsAgree, Agrees, InUse, InHandler, Opened
    <3> QED
      BY <3>1, <3>2, <3>3
  <2>21. ASSUME NEW t \in Openers, Cleanup(t)
        PROVE  ViewsAgree' /\ (~deleting' => CacheAgrees') /\ InUse'
    <3>0. /\ \A u \in Openers : u # t => pc'[u] = pc[u]
          /\ pc'[t] # pc[t] => \A u \in Openers : u # t => u \notin InHandler
      BY <2>1, <2>21, Alone DEF Step
    <3>1. ViewsAgree'
      BY <2>2, <2>21, <3>0 DEF Cleanup, Goto, driver, data, CoreType, Labels, ViewsAgree, Agrees, InHandler, Opened, Openers
    <3>2. ~deleting' => CacheAgrees'
      BY <2>2, <2>21, <3>0 DEF Cleanup, Goto, driver, data, CoreType, DataType, Labels, ViewsAgree, Agrees, CacheAgrees, InHandler, Opened, Form
    <3>3. InUse'
      BY <2>2, <2>21, <3>0 DEF Cleanup, Goto, driver, data, CoreType, Labels, ViewsAgree, Agrees, InUse, InHandler, Opened
    <3> QED
      BY <3>1, <3>2, <3>3
  <2>22. ASSUME NEW t \in Openers, ClosePre(t)
        PROVE  ViewsAgree' /\ (~deleting' => CacheAgrees') /\ InUse'
    <3>0. /\ \A u \in Openers : u # t => pc'[u] = pc[u]
          /\ pc'[t] # pc[t] => \A u \in Openers : u # t => u \notin InHandler
      BY <2>1, <2>22, Alone DEF Step
    <3>1. ViewsAgree'
      BY <2>2, <2>22, <3>0 DEF ClosePre, Goto, driver, data, CoreType, Labels, ViewsAgree, Agrees, InHandler, Opened, Openers
    <3>2. ~deleting' => CacheAgrees'
      BY <2>2, <2>22, <3>0 DEF ClosePre, Goto, driver, data, CoreType, DataType, Labels, ViewsAgree, Agrees, CacheAgrees, InHandler, Opened, Form
    <3>3. InUse'
      BY <2>2, <2>22, <3>0 DEF ClosePre, Goto, driver, data, CoreType, Labels, ViewsAgree, Agrees, InUse, InHandler, Opened
    <3> QED
      BY <3>1, <3>2, <3>3
  <2>23. ASSUME NEW t \in Openers, CleanupComplete(t)
        PROVE  ViewsAgree' /\ (~deleting' => CacheAgrees') /\ InUse'
    <3>0. /\ \A u \in Openers : u # t => pc'[u] = pc[u]
          /\ pc'[t] # pc[t] => \A u \in Openers : u # t => u \notin InHandler
      BY <2>1, <2>23, Alone DEF Step
    <3>1. ViewsAgree'
      BY <2>2, <2>23, <3>0 DEF CleanupComplete, Goto, driver, data, CoreType, Labels, ViewsAgree, Agrees, InHandler, Opened, Openers
    <3>2. ~deleting' => CacheAgrees'
      <4> SUFFICES ASSUME ~deleting' PROVE CacheAgrees'
        OBVIOUS
      <4>1. CacheAgrees /\ Form' = Form
        BY <2>2, <2>23 DEF CleanupComplete, driver, Form
      <4>2. ASSUME CacheClear PROVE cache' = {} /\ dirty' = {} /\ ~miswritten'
        BY <4>1, <4>2 DEF CacheClear, WriteDirty, CacheAgrees
      <4>3. CASE UncleanCount <= 1 \/ deleting
        BY <2>23, <4>2, <4>3 DEF CleanupComplete, CloseClear, CacheAgrees
      <4>4. CASE ~(UncleanCount <= 1 \/ deleting)
        <5>1. data' = data /\ pc' = [pc EXCEPT ![t] = "none"] /\ pc[t] = "closing"
          BY <2>23, <4>4 DEF CleanupComplete, Goto
        <5> QED
          BY <4>1, <5>1 DEF CacheAgrees, data, CoreType, Opened
      <4> QED
        BY <4>3, <4>4
    <3>3. InUse'
      <4>1. ASSUME listed', pc'[t] = "none" PROVE \E u \in Opened : u # t
        <5>1. UncleanCount # 0 /\ listed
          BY <2>23, <4>1 DEF CleanupComplete, Goto, driver, CoreType
        <5>2. PICK u \in Counted : TRUE
          BY <5>1, FS_EmptySet DEF UncleanCount
        <5> QED
          BY <2>23, <3>0, <4>1, <5>2 DEF CleanupComplete, Goto, Counted, InHandler, Opened, CoreType
      <4> QED
        BY <2>2, <2>23, <3>0, <4>1 DEF CleanupComplete, Goto, driver, CoreType, ViewsAgree, Agrees, InUse, Opened
    <3> QED
      BY <3>1, <3>2, <3>3
  <2>24. ASSUME NEW t \in Openers, Remove(t)
        PROVE  ViewsAgree' /\ (~deleting' => CacheAgrees') /\ InUse'
    <3>0. /\ \A u \in Openers : u # t => pc'[u] = pc[u]
          /\ pc'[t] # pc[t] => \A u \in Openers : u # t => u \notin InHandler
      BY <2>1, <2>24, Alone DEF Step
    <3>1. ViewsAgree'
      <4>0. listed' \/ deleting \/ Opened = {} \/ ~listed
        BY <2>24, NoneCounted DEF Remove, Unused, Counted, Opened
      <4>1. ~kept' /\ \A n \in Normal : view'[n] = "raw"
        BY <2>2, <2>24 DEF Remove, driver, CoreType, ViewsAgree, Openers
      <4>2. \A u, v \in InHandler' : u = v
        BY <2>2, <2>24, <3>0 DEF Remove, Goto, ViewsAgree, InHandler, CoreType
      <4>3. \A u \in Openers : Agrees(u)'
        BY <2>2, <4>0, <2>24, <3>0 DEF Remove, Goto, driver, CoreType, ViewsAgree, Agrees, InHandler, Opened
      <4> QED
        BY <4>1, <4>2, <4>3 DEF ViewsAgree
    <3>2. ~deleting' => CacheAgrees'
      <4> SUFFICES ASSUME ~deleting' PROVE CacheAgrees'
        OBVIOUS
      <4>1. CacheAgrees /\ ~deleting
        BY <2>2, <2>24 DEF Remove
      <4>2. listed' # listed => Opened = {}
        BY <2>24, <4>1, NoneCounted DEF Remove, Unused, Counted, Opened, CoreType
      <4>3. listed' # listed => cache = {}
        BY <2>24, <4>1, <4>2 DEF Remove, CacheAgrees
      <4>4. cache' \subseteq {Form'}
        BY <2>24, <4>1, <4>3 DEF Remove, CacheAgrees, data, Form
      <4> QED
        BY <2>24, <3>0, <4>1, <4>4 DEF Remove, Goto, CacheAgrees, data, CoreType, Opened, InHandler
    <3>3. InUse'
      <4>1. ASSUME listed', pc'[t] = "none" PROVE \E u \in Opened : u # t
        <5>1. UncleanCount # 0 /\ listed
          BY <2>24, <4>1 DEF Remove, Unused
        <5>2. PICK u \in Counted : TRUE
          BY <5>1, FS_EmptySet DEF UncleanCount
        <5> QED
          BY <2>24, <3>0, <4>1, <5>2 DEF Remove, Goto, Counted, InHandler, Opened, CoreType
      <4> QED
        BY <2>2, <2>24, <3>0, <4>1 DEF Remove, Goto, driver, CoreType, ViewsAgree, Agrees, InUse, Opened
    <3> QED
      BY <3>1, <3>2, <3>3
  <2> QED
    BY <1>o, <2>l, <2>3, <2>4, <2>5, <2>6, <2>7, <2>8, <2>9, <2>10, <2>11, <2>12, <2>13, <2>14, <2>15, <2>16, <2>17, <2>18, <2>19, <2>20, <2>21, <2>22, <2>23, <2>24 DEF Next, Step
<1> QED
  BY <1>u, <1>o

LEMMA Serial == Spec => []SerialInv
  BY CoreInit, CoreStep, DataInit, DataStep, SerialInit, SerialStep, PTL DEF Spec

\* One create or close at a time: whoever has the file open sees what the
\* driver's reads and writes give (OnSfilterIrpPre and OnSfilterIrpPost against
\* cfIrpReadPost and cfIrpWritePre).
THEOREM ViewSafe == Spec => []ViewIsForm
<1>1. SerialInv => ViewIsForm
  BY DEF SerialInv, ViewsAgree, Agrees, ViewIsForm, Form
<1> QED
  BY <1>1, Serial, PTL

\* ... the cache never mixes what is decrypted with what is not, and every page
\* reaches the disk in the form the disk is to have (the flushes of
\* cfFileCryptAppendLk and cfCryptFileCleanupComplete).
THEOREM CacheSafe == Spec => []CacheIsForm
<1>1. SerialInv => CacheIsForm
  BY DEF SerialInv, CacheAgrees, CacheIsForm
<1> QED
  BY <1>1, Serial, PTL

\* ... and no file stays on the list when the last one it was listed for is
\* gone (cfCryptFileCleanupComplete).
THEOREM ListSafe == Spec => []ListedIsUsed
<1>1. SerialInv => ListedIsUsed
  BY DEF SerialInv, InUse, ListedIsUsed
<1> QED
  BY <1>1, Serial, PTL
-----------------------------------------------------------------------------
\* One opener at most encrypts.
Lone == \A s, u \in Secure : s = u

\* What the one that encrypts found on the list is so until it appends the file,
\* however the other openers come and go meanwhile.
LoneInv ==
    /\ ~kept
    /\ \A s \in Secure :
          /\ pc[s] = "own" => ~goOn[s]
          /\ pc[s] = "decide" => ~listed /\ ~goOn[s]
          /\ pc[s] \in {"closeOwn", "create"} /\ goOn[s] => ~listed
          /\ pc[s] \in {"clear", "append", "insert"} => ~listed /\ goOn[s]

LEMMA LoneStep == Lone /\ CoreType /\ LoneInv /\ [Next]_vars => LoneInv'
<1> SUFFICES ASSUME Lone, CoreType, LoneInv, [Next]_vars PROVE LoneInv'
  OBVIOUS
<1>s. Secure \subseteq Openers
  BY DEF Openers
<1>u. CASE UNCHANGED vars
  BY <1>u DEF LoneInv, vars, driver
<1>l. CASE LazyWrite
  BY <1>l DEF LoneInv, LazyWrite, driver
<1>1. ASSUME NEW t \in Openers, OpenOwn(t) PROVE LoneInv'
  BY <1>1, <1>s DEF CoreType, LoneInv, OpenOwn, Goto, driver
<1>2. ASSUME NEW t \in Openers, LookUpOwn(t) PROVE LoneInv'
  BY <1>2, <1>s DEF CoreType, LoneInv, LookUpOwn, Goto, driver
<1>3. ASSUME NEW t \in Openers, MustCrypt(t) PROVE LoneInv'
  BY <1>3, <1>s DEF CoreType, LoneInv, MustCrypt, Goto, driver
<1>4. ASSUME NEW t \in Openers, NeedNotCrypt(t) PROVE LoneInv'
  BY <1>4, <1>s DEF CoreType, LoneInv, NeedNotCrypt, Goto, driver
<1>5. ASSUME NEW t \in Openers, PreFails(t) PROVE LoneInv'
  BY <1>5, <1>s DEF CoreType, LoneInv, PreFails, Goto, driver
<1>6. ASSUME NEW t \in Openers, CloseOwn(t) PROVE LoneInv'
  BY <1>6, <1>s DEF CoreType, LoneInv, CloseOwn, Goto, driver
<1>7. ASSUME NEW t \in Openers, ClearOwn(t) PROVE LoneInv'
  BY <1>7, <1>s DEF CoreType, LoneInv, ClearOwn, Goto, driver
<1>8. ASSUME NEW t \in Openers, CreateNormal(t) PROVE LoneInv'
  BY <1>8, <1>s, CryptAssumption DEF CoreType, LoneInv, CreateNormal, Goto, driver
<1>9. ASSUME NEW t \in Openers, Create(t) PROVE LoneInv'
  BY <1>9, <1>s, CryptAssumption DEF CoreType, LoneInv, Create, Goto, driver
<1>10. ASSUME NEW t \in Openers, PostNormal(t) PROVE LoneInv'
  BY <1>10, <1>s DEF CoreType, LoneInv, PostNormal, Goto, driver
<1>11. ASSUME NEW t \in Openers, AppendClear(t) PROVE LoneInv'
  BY <1>11, <1>s DEF CoreType, LoneInv, AppendClear, Goto, driver
<1>12. ASSUME NEW t \in Openers, AppendFound(t) PROVE LoneInv'
  BY <1>12, <1>s DEF CoreType, LoneInv, AppendFound, Goto, driver
<1>13. ASSUME NEW t \in Openers, AppendRefused(t) PROVE LoneInv'
  BY <1>13, <1>s DEF CoreType, LoneInv, AppendRefused, Goto, driver
<1>14. ASSUME NEW t \in Openers, AppendInsert(t) PROVE LoneInv'
  <2>1. t \in Secure
    BY <1>14 DEF CoreType, AppendInsert
  <2>2. pc'[t] = "open" /\ ~kept'
    BY <1>14 DEF CoreType, LoneInv, AppendInsert, Goto
  <2> QED  BY <2>1, <2>2 DEF Lone, LoneInv
<1>15. ASSUME NEW t \in Openers, Cancel(t) PROVE LoneInv'
  BY <1>15, <1>s DEF CoreType, LoneInv, Cancel, Goto, driver
<1>16. ASSUME NEW t \in Openers, Read(t) PROVE LoneInv'
  BY <1>16, <1>s DEF CoreType, LoneInv, Read, Goto, driver
<1>17. ASSUME NEW t \in Openers, Write(t) PROVE LoneInv'
  BY <1>17, <1>s DEF CoreType, LoneInv, Write, Goto, driver
<1>18. ASSUME NEW t \in Openers, MarkDelete(t) PROVE LoneInv'
  BY <1>18, <1>s DEF CoreType, LoneInv, MarkDelete, Goto, driver
<1>19. ASSUME NEW t \in Openers, Cleanup(t) PROVE LoneInv'
  BY <1>19, <1>s DEF CoreType, LoneInv, Cleanup, Goto, driver
<1>20. ASSUME NEW t \in Openers, ClosePre(t) PROVE LoneInv'
  BY <1>20, <1>s DEF CoreType, LoneInv, ClosePre, Goto, driver
<1>21. ASSUME NEW t \in Openers, CleanupComplete(t) PROVE LoneInv'
  BY <1>21, <1>s DEF CoreType, LoneInv, CleanupComplete, Goto, driver
<1>22. ASSUME NEW t \in Openers, Remove(t) PROVE LoneInv'
  BY <1>22, <1>s DEF CoreType, LoneInv, Remove, Goto, driver
<1> QED
  BY <1>u, <1>l, <1>1, <1>2, <1>3, <1>4, <1>5, <1>6, <1>7, <1>8, <1>9,
     <1>10, <1>11, <1>12, <1>13, <1>14, <1>15, <1>16, <1>17, <1>18, <1>19,
     <1>20, <1>21, <1>22 DEF Next, Step

\* With one encrypting opener at most, cfFileCryptAppendLk never finds the file
\* in the list, and the list lock is released by every call, in whatever order
\* the creates and closes of others come: it takes two to keep the lock.
THEOREM LoneReleases == Lone => (Spec => []LockReleased)
<1>1. CASE Lone
  <2>1. Init => CoreType /\ LoneInv
    BY CoreInit DEF Init, LoneInv, Openers
  <2>2. CoreType /\ LoneInv /\ [Next]_vars => CoreType' /\ LoneInv'
    BY <1>1, CoreStep, LoneStep
  <2>3. LoneInv => LockReleased
    BY DEF LoneInv, LockReleased
  <2> QED  BY <2>1, <2>2, <2>3, PTL DEF Spec
<1> QED  BY <1>1

\* Nor is the lock kept, by however many openers, as long as nothing is opened
\* or closed during a create or close.
THEOREM SerialReleases == Spec => [](~overlapped => LockReleased)
<1>1. SerialInv => (~overlapped => LockReleased)
  BY DEF SerialInv, ViewsAgree, LockReleased
<1> QED  BY <1>1, Serial, PTL
=============================================================================
