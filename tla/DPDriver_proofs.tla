-------------------------- MODULE DPDriver_proofs --------------------------
(***************************************************************************)
(* Safety of the volume filter, for any number of requests and sectors,    *)
(* any set of faults and any number of restarts.  The first half shows the *)
(* types, that no wakeup of the worker is lost, that nothing but requests  *)
(* which found the volume unprotected reaches the disk, and that every     *)
(* marked sector has data in the temporary file.  The second half shows    *)
(* what the users of the volume see, the refinement of ProtectedVolume     *)
(* among it.                                                               *)
(***************************************************************************)
EXTENDS DPDriver, TLAPS

\* All of TypeOK but the history.
CoreType ==
    /\ disk \in [Sectors -> Content] /\ temp \in [Sectors -> Content]
    /\ protect \in BOOLEAN /\ tempOpen \in BOOLEAN /\ target \in BOOLEAN
    /\ bitmap \in {NULL} \cup SUBSET Sectors
    /\ queue \in Seq(Irps) /\ event \in BOOLEAN /\ term \in BOOLEAN
    /\ pc \in Labels /\ cur \in Irps \cup {NULL}
    /\ fileBuf \in [Sectors -> Content]
    /\ disp \in [Irps -> Dispatching] /\ where \in [Irps -> Owners]
    /\ kind \in [Irps -> {"read", "write"}] /\ range \in [Irps -> SUBSET Sectors]
    /\ sysBuf \in [Irps -> [Sectors -> Content]]
    /\ through \subseteq Irps
    /\ reinit \in BOOLEAN /\ removal \in {"no", "started", "done"}
    /\ onlines \in Nat /\ restarts \in Nat

\* Labels at which the worker holds a request.
Serving == {"serve", "readSet", "readBlend", "forwarded", "write", "mark",
            "served", "failed"}

\* Owners of a request that went through the queue and has not ended.
Held == {"worker", "sync", "syncOk", "syncErr"}

\* Who may hold a request, and what that says about protection.
Ownership ==
    /\ \A i \in Irps :
          /\ where[i] = "idle" => disp[i] = "none"
          /\ disp[i] \in {"check", "insert"} => where[i] = "caller" /\ i \notin through
          /\ disp[i] = "insert" => protect
          /\ where[i] \in Held => i \notin through /\ protect
          /\ where[i] = "lower" /\ kind[i] = "write" /\ range[i] # {}
             => i \in through \/ "map" \in Faults
          /\ where[i] = "idle" => i \notin through
    /\ pc \in Serving => cur \in Irps /\ where[cur] \in Held
    /\ queue # <<>> => protect
    /\ \A k \in 1 .. Len(queue) :
          queue[k] \notin through /\ where[queue[k]] \notin {"idle", "caller"}

\* What the file holds, and what the bitmap says about it.
FileData ==
    /\ \A s \in Sectors : temp[s] \in Irps =>
          temp[s] \notin through /\ where[temp[s]] \notin {"idle", "caller"}
    /\ pc = "mark" => \A s \in range[cur] : temp[s] = cur
    /\ protect /\ bitmap # NULL => \A s \in bitmap : temp[s] \in Irps
    /\ ~protect /\ bitmap # NULL => bitmap = {}
    /\ protect => reinit
    /\ onlines = 0 => bitmap = NULL

LEMMA BlankType == Blank \in [Sectors -> Content]
  BY DEF Blank, Content

LEMMA InitCore == Init => CoreType /\ Ownership
<1> SUFFICES ASSUME Init PROVE CoreType /\ Ownership
  OBVIOUS
<1>1. Ownership
  BY DEF Init, Ownership, Held, Serving
<1>2. /\ disk \in [Sectors -> Content] /\ temp \in [Sectors -> Content]
      /\ fileBuf \in [Sectors -> Content]
      /\ sysBuf \in [Irps -> [Sectors -> Content]]
  BY BlankType DEF Init, Content
<1>3. /\ disp \in [Irps -> Dispatching] /\ where \in [Irps -> Owners]
      /\ kind \in [Irps -> {"read", "write"}] /\ range \in [Irps -> SUBSET Sectors]
  BY DEF Init, Dispatching, Owners
<1>4. /\ protect \in BOOLEAN /\ tempOpen \in BOOLEAN /\ target \in BOOLEAN
      /\ event \in BOOLEAN /\ term \in BOOLEAN /\ reinit \in BOOLEAN
      /\ removal \in {"no", "started", "done"} /\ onlines \in Nat /\ restarts \in Nat
  BY DEF Init
<1>5. /\ bitmap \in {NULL} \cup SUBSET Sectors /\ cur \in Irps \cup {NULL}
      /\ pc \in Labels /\ queue \in Seq(Irps) /\ through \subseteq Irps
  BY DEF Init, Labels
<1> QED
  BY <1>1, <1>2, <1>3, <1>4, <1>5 DEF CoreType

LEMMA LoseMemoryType == ASSUME CoreType, LoseMemory PROVE CoreType'
<1>0. restarts \in Nat
  BY DEF CoreType
<1>1. where' \in [Irps -> Owners]
  BY DEF LoseMemory, Owners, Ended
<1>2. fileBuf' \in [Sectors -> Content] /\ sysBuf' \in [Irps -> [Sectors -> Content]]
  BY BlankType DEF LoseMemory
<1>3. disp' \in [Irps -> Dispatching] /\ pc' \in Labels /\ queue' \in Seq(Irps)
  BY DEF LoseMemory, Dispatching, Labels
<1>4. /\ protect' \in BOOLEAN /\ tempOpen' \in BOOLEAN /\ target' \in BOOLEAN
      /\ event' \in BOOLEAN /\ term' \in BOOLEAN /\ reinit' \in BOOLEAN
  BY ZenonT(30) DEF LoseMemory
<1>5. /\ bitmap' \in {NULL} \cup SUBSET Sectors /\ cur' \in Irps \cup {NULL}
      /\ UNCHANGED <<disk, temp, kind, range, through>>
  BY DEF LoseMemory
<1>6. removal' \in {"no", "started", "done"}
  BY DEF LoseMemory
<1>7. onlines' \in Nat
  BY DEF LoseMemory
<1>8. restarts' \in Nat
  BY <1>0 DEF LoseMemory
<1> QED
  BY <1>1, <1>2, <1>3, <1>4, <1>5, <1>6, <1>7, <1>8 DEF CoreType

\* Reading a range of the file fills a buffer with contents.
LEMMA PartOfFileType ==
    ASSUME CoreType, NEW R
    PROVE  [s \in Sectors |-> IF s \in R THEN temp[s] ELSE Hole] \in [Sectors -> Content]
  BY DEF CoreType, Content

\* The worker holds a request while it serves one.
LEMMA ServedIrp ==
    ASSUME Ownership, pc \in Serving
    PROVE  cur \in Irps /\ where[cur] \in Held
  BY DEF Ownership

\* Every step keeps the types.
LEMMA CoreTypeStep ==
    ASSUME CoreType, Ownership, [Next]_vars
    PROVE  CoreType'
<1>u. CASE UNCHANGED vars
  BY <1>u DEF CoreType, vars, devVars, reqVars, workVars, irpVars, boot
<1>n. CASE Next
  <2> USE DEF devVars, reqVars, workVars, irpVars, boot
  <2>1. ASSUME NEW i \in Irps, NEW k \in {"read", "write"}, NEW r \in Ranges, Submit(i, k, r)
        PROVE  CoreType'
    BY <2>1, DriverAssumption DEF Submit, CoreType, Dispatching, Owners
  <2>2. ASSUME NEW i \in Irps, CheckProtect(i)
        PROVE  CoreType'
    <3>1. where' \in [Irps -> Owners] /\ through' \subseteq Irps
      BY <2>2 DEF CheckProtect, CoreType, Owners
    <3>2. disp' \in [Irps -> Dispatching]
      BY <2>2 DEF CheckProtect, CoreType, Dispatching
    <3> QED
      BY <2>2, <3>1, <3>2 DEF CheckProtect, CoreType
  <2>3. ASSUME NEW i \in Irps, InsertTail(i)
        PROVE  CoreType'
    BY <2>3 DEF InsertTail, CoreType, Dispatching, Owners
  <2>4. ASSUME NEW i \in Irps, SetReqEvent(i)
        PROVE  CoreType'
    BY <2>4 DEF SetReqEvent, CoreType, Dispatching
  <2>5. CASE WaitReqEvent
    BY <2>5 DEF WaitReqEvent, Goto, CoreType, Labels
  <2>6. CASE TestTermFlag
    BY <2>6 DEF TestTermFlag, Goto, CoreType, Labels
  <2>7. CASE QueueIsEmpty
    BY <2>7 DEF QueueIsEmpty, Goto, CoreType, Labels
  <2>8. CASE RemoveHead
    <3>1. Head(queue) \in Irps /\ Tail(queue) \in Seq(Irps)
      BY <2>8 DEF RemoveHead, Drained, CoreType
    <3>2. where' \in [Irps -> Owners]
      BY <2>8, <3>1 DEF RemoveHead, CoreType, Owners
    <3> QED
      BY <2>8, <3>1, <3>2 DEF RemoveHead, CoreType, Labels
  <2>9. CASE Serve
    <3>1. where' \in [Irps -> Owners]
      BY <2>9 DEF Serve, SendDown, CoreType, Owners
    <3>2. pc' \in Labels /\ cur' \in Irps \cup {NULL} /\ fileBuf' = fileBuf
      BY <2>9 DEF Serve, SendDown, Goto, FirstWriteStep, CoreType, Labels
    <3>3. UNCHANGED <<disp, kind, range, sysBuf, through>>
      BY <2>9 DEF Serve, SendDown
    <3> QED
      BY <2>9, <3>1, <3>2, <3>3 DEF Serve, CoreType
  <2>10. CASE ReadFileFails
    BY <2>10 DEF ReadFileFails, Goto, CoreType, Labels
  <2>11. CASE ReadFileOfSet
    <3>1. sysBuf' \in [Irps -> [Sectors -> Content]]
      BY <2>11, PartOfFileType DEF ReadFileOfSet, CoreType
    <3> QED
      BY <2>11, <3>1 DEF ReadFileOfSet, Goto, CoreType, Labels
  <2>12. CASE ReadFileOfBlend
    <3>1. where' \in [Irps -> Owners]
      BY <2>12 DEF ReadFileOfBlend, CoreType, Owners
    <3>2. fileBuf' \in [Sectors -> Content]
      BY <2>12, PartOfFileType DEF ReadFileOfBlend, CoreType
    <3> QED
      BY <2>12, <3>1, <3>2 DEF ReadFileOfBlend, CoreType, Labels
  <2>13. CASE Merge
    <3>1. cur \in Irps
      BY <2>13, ServedIrp DEF Merge, Serving
    <3>2. [s \in Sectors |-> Merged(s)] \in [Sectors -> Content]
      BY <3>1 DEF Merged, CoreType
    <3>3. sysBuf' \in [Irps -> [Sectors -> Content]]
      BY <2>13, <3>2 DEF Merge, CoreType
    <3>4. where' \in [Irps -> Owners]
      BY <2>13 DEF Merge, CoreType, Owners
    <3> QED
      BY <2>13, <3>3, <3>4, BlankType DEF Merge, CoreType, Labels
  <2>14. CASE MergeFails
    <3>1. where' \in [Irps -> Owners]
      BY <2>14 DEF MergeFails, CoreType, Owners
    <3> QED
      BY <2>14, <3>1, BlankType DEF MergeFails, CoreType, Labels
  <2>15. CASE WriteFile
    <3>1. cur \in Irps
      BY <2>15, ServedIrp DEF WriteFile, Serving
    <3>2. temp' \in [Sectors -> Content]
      BY <2>15, <3>1 DEF WriteFile, CoreType, Content
    <3> QED
      BY <2>15, <3>2 DEF WriteFile, Goto, CoreType, Labels
  <2>16. CASE WriteFileFails
    <3>1. cur \in Irps
      BY <2>16, ServedIrp DEF WriteFileFails, Serving
    <3>2. temp' \in [Sectors -> Content]
      BY <2>16, <3>1 DEF WriteFileFails, CoreType, Content
    <3> QED
      BY <2>16, <3>2 DEF WriteFileFails, Goto, CoreType, Labels
  <2>17. CASE MarkBitmap
    <3>1. cur \in Irps
      BY <2>17, ServedIrp DEF MarkBitmap, Serving
    <3>2. bitmap' \in SUBSET Sectors
      BY <2>17, <3>1 DEF MarkBitmap, Marked, CoreType
    <3> QED
      BY <2>17, <3>2 DEF MarkBitmap, Goto, CoreType, Labels
  <2>18. CASE MarkBitmapFails
    BY <2>18 DEF MarkBitmapFails, Goto, CoreType, Labels
  <2>19. CASE CompleteRequest
    <3>1. where' \in [Irps -> Owners]
      BY <2>19 DEF CompleteRequest, Ending, CoreType, Owners, Ended
    <3>2. sysBuf' \in [Irps -> [Sectors -> Content]]
      BY <2>19, BlankType DEF CompleteRequest, CoreType
    <3> QED
      BY <2>19, <3>1, <3>2 DEF CompleteRequest, CoreType, Labels
  <2>20. ASSUME NEW i \in Irps, LowerRead(i)
        PROVE  CoreType'
    <3>1. where' \in [Irps -> Owners]
      BY <2>20 DEF LowerRead, CoreType, Owners
    <3>2. sysBuf' \in [Irps -> [Sectors -> Content]]
      BY <2>20 DEF LowerRead, CoreType, Content
    <3> QED
      BY <2>20, <3>1, <3>2 DEF LowerRead, CoreType
  <2>21. ASSUME NEW i \in Irps, LowerWrite(i)
        PROVE  CoreType'
    <3>1. where' \in [Irps -> Owners]
      BY <2>21 DEF LowerWrite, CoreType, Owners
    <3>2. disk' \in [Sectors -> Content]
      BY <2>21 DEF LowerWrite, CoreType, Content
    <3> QED
      BY <2>21, <3>1, <3>2 DEF LowerWrite, CoreType
  <2>22. ASSUME NEW i \in Irps, LowerComplete(i)
        PROVE  CoreType'
    <3>1. where' \in [Irps -> Owners]
      BY <2>22 DEF LowerComplete, CoreType, Owners, Ended
    <3>2. sysBuf' \in [Irps -> [Sectors -> Content]]
      BY <2>22, BlankType DEF LowerComplete, CoreType
    <3> QED
      BY <2>22, <3>1, <3>2 DEF LowerComplete, CoreType
  <2>23. CASE VolumeOnline
    BY <2>23 DEF VolumeOnline, CoreType
  <2>24. CASE VolumeOnlineFails
    <3>1. bitmap' \in {NULL} \cup SUBSET Sectors
      BY <2>24 DEF VolumeOnlineFails
    <3>2. onlines' \in Nat
      BY <2>24 DEF VolumeOnlineFails, CoreType
    <3> QED
      BY <2>24, <3>1, <3>2 DEF VolumeOnlineFails, CoreType
  <2>25. CASE Restart
    BY <2>25, LoseMemoryType DEF Restart
  <2>26. CASE Reinitialize
    <3>1. temp' \in [Sectors -> Content]
      BY <2>26, BlankType DEF Reinitialize, CoreType
    <3>2. protect' \in BOOLEAN /\ tempOpen' \in BOOLEAN
      BY <2>26 DEF Reinitialize, CoreType
    <3> QED
      BY <2>26, <3>1, <3>2 DEF Reinitialize, CoreType
  <2>27. CASE ReinitializeCrashes
    BY <2>27, LoseMemoryType DEF ReinitializeCrashes
  <2>28. CASE RemoveDevice
    BY <2>28 DEF RemoveDevice, CoreType
  <2>29. CASE RemoveDeviceEnds
    BY <2>29 DEF RemoveDeviceEnds, CoreType
  <2> QED
    BY <2>1, <2>2, <2>3, <2>4, <2>5, <2>6, <2>7, <2>8, <2>9, <2>10, <2>11,
       <2>12, <2>13, <2>14, <2>15, <2>16, <2>17, <2>18, <2>19, <2>20, <2>21,
       <2>22, <2>23, <2>24, <2>25, <2>26, <2>27, <2>28, <2>29, <1>n
       DEF Next, Step, Dispatch, Worker, Lower, System
<1> QED
  BY <1>u, <1>n

\* Every step keeps the rules of ownership.
LEMMA OwnershipStep ==
    ASSUME CoreType, Ownership, [Next]_vars
    PROVE  Ownership'
<1>u. CASE UNCHANGED vars
  BY <1>u DEF Ownership, vars, devVars, reqVars, workVars, irpVars, boot
<1>n. CASE Next
  <2> USE DEF devVars, reqVars, workVars, irpVars, boot
  <2>1. ASSUME NEW i \in Irps, NEW k \in {"read", "write"}, NEW r \in Ranges, Submit(i, k, r)
        PROVE  Ownership'
    BY <2>1 DEF Submit, CoreType, Ownership, Held
  <2>2. ASSUME NEW i \in Irps, CheckProtect(i)
        PROVE  Ownership'
    BY <2>2 DEF CheckProtect, CoreType, Ownership, Held
  <2>3. ASSUME NEW i \in Irps, InsertTail(i)
        PROVE  Ownership'
    BY <2>3 DEF InsertTail, CoreType, Ownership, Held
  <2>4. ASSUME NEW i \in Irps, SetReqEvent(i)
        PROVE  Ownership'
    BY <2>4 DEF SetReqEvent, Ownership
  <2>5. CASE WaitReqEvent
    BY <2>5 DEF WaitReqEvent, Goto, CoreType, Ownership, Serving
  <2>6. CASE TestTermFlag
    BY <2>6 DEF TestTermFlag, Goto, CoreType, Ownership, Serving
  <2>7. CASE QueueIsEmpty
    BY <2>7 DEF QueueIsEmpty, Goto, Drained, CoreType, Ownership, Serving
  <2>8. CASE RemoveHead
    <3> DEFINE h == Head(queue)
    <3>1. /\ h \in Irps /\ h \notin through /\ protect
      BY <2>8 DEF RemoveHead, Drained, CoreType, Ownership
    <3>2. /\ where' = [where EXCEPT ![h] = "worker"] /\ pc' = "serve" /\ cur' = h
          /\ queue' = Tail(queue) /\ UNCHANGED <<protect, disp, kind, range, through>>
      BY <2>8 DEF RemoveHead
    <3>3. Len(queue') = Len(queue) - 1 /\ \A k \in 1 .. Len(queue') : queue'[k] = queue[k + 1]
      BY <2>8, <3>2 DEF RemoveHead, Drained
    <3>5. where[h] \notin {"idle", "caller"}
      BY <3>1, <2>8 DEF Ownership, RemoveHead, Drained
    <3>6. \A i \in Irps : where'[i] = IF i = h THEN "worker" ELSE where[i]
      BY <3>2 DEF CoreType
    <3>4. \A k \in 1 .. Len(queue') :
             queue'[k] \notin through' /\ where'[queue'[k]] \notin {"idle", "caller"}
      BY <3>1, <3>2, <3>3, <3>6 DEF Ownership
    <3> HIDE DEF h
    <3>7. pc' \in Serving => cur' \in Irps /\ where'[cur'] \in Held
      BY <3>1, <3>2, <3>6 DEF Held
    <3>8. \A i \in Irps :
             /\ where'[i] = "idle" => disp'[i] = "none"
             /\ disp'[i] \in {"check", "insert"} => where'[i] = "caller" /\ i \notin through'
             /\ disp'[i] = "insert" => protect'
             /\ where'[i] \in Held => i \notin through' /\ protect'
             /\ where'[i] = "lower" /\ kind'[i] = "write" /\ range'[i] # {}
                => i \in through' \/ "map" \in Faults
             /\ where'[i] = "idle" => i \notin through'
      BY <3>1, <3>2, <3>5, <3>6 DEF Ownership
    <3> QED
      BY <3>1, <3>2, <3>4, <3>7, <3>8 DEF Ownership
  <2>9. CASE Serve
    BY <2>9 DEF Serve, Goto, SendDown, NothingToDo, FirstWriteStep, CoreType,
           Ownership, Held, Serving
  <2>10. CASE ReadFileFails
    BY <2>10 DEF ReadFileFails, Goto, CoreType, Ownership, Serving
  <2>11. CASE ReadFileOfSet
    BY <2>11 DEF ReadFileOfSet, Goto, CoreType, Ownership, Serving
  <2>12. CASE ReadFileOfBlend
    BY <2>12 DEF ReadFileOfBlend, CoreType, Ownership, Held, Serving
  <2>13. CASE Merge
    BY <2>13 DEF Merge, Merged, CoreType, Ownership, Held, Serving
  <2>14. CASE MergeFails
    BY <2>14 DEF MergeFails, CoreType, Ownership, Held, Serving
  <2>15. CASE WriteFile
    BY <2>15 DEF WriteFile, Goto, CoreType, Ownership, Serving
  <2>16. CASE WriteFileFails
    BY <2>16 DEF WriteFileFails, Goto, CoreType, Ownership, Serving
  <2>17. CASE MarkBitmap
    BY <2>17 DEF MarkBitmap, Goto, Marked, CoreType, Ownership, Serving
  <2>18. CASE MarkBitmapFails
    BY <2>18 DEF MarkBitmapFails, Goto, CoreType, Ownership, Serving
  <2>19. CASE CompleteRequest
    BY <2>19 DEF CompleteRequest, Ending, CoreType, Ownership, Held, Serving
  <2>20. ASSUME NEW i \in Irps, LowerRead(i)
        PROVE  Ownership'
    BY <2>20 DEF LowerRead, CoreType, Ownership, Held
  <2>21. ASSUME NEW i \in Irps, LowerWrite(i)
        PROVE  Ownership'
    BY <2>21 DEF LowerWrite, CoreType, Ownership, Held
  <2>22. ASSUME NEW i \in Irps, LowerComplete(i)
        PROVE  Ownership'
    BY <2>22 DEF LowerComplete, Ownership, Held
  <2>23. CASE VolumeOnline
    BY <2>23 DEF VolumeOnline, Ownership
  <2>24. CASE VolumeOnlineFails
    BY <2>24 DEF VolumeOnlineFails, Ownership
  <2>25. CASE Restart
    BY <2>25
       DEF Restart, LoseMemory, CoreType, Ownership, Held, Ended, Serving
  <2>26. CASE Reinitialize
    BY <2>26 DEF Reinitialize, Ownership
  <2>27. CASE ReinitializeCrashes
    BY <2>27
       DEF ReinitializeCrashes, LoseMemory, CoreType, Ownership, Held, Ended,
           Serving
  <2>28. CASE RemoveDevice
    BY <2>28 DEF RemoveDevice, Ownership
  <2>29. CASE RemoveDeviceEnds
    BY <2>29 DEF RemoveDeviceEnds, Ownership
  <2> QED
    BY <2>1, <2>2, <2>3, <2>4, <2>5, <2>6, <2>7, <2>8, <2>9, <2>10, <2>11,
       <2>12, <2>13, <2>14, <2>15, <2>16, <2>17, <2>18, <2>19, <2>20, <2>21,
       <2>22, <2>23, <2>24, <2>25, <2>26, <2>27, <2>28, <2>29, <1>n
       DEF Next, Step, Dispatch, Worker, Lower, System
<1> QED
  BY <1>u, <1>n

\* No step of the worker reaches the disk.
LEMMA DiskStep ==
    ASSUME "map" \notin Faults, CoreType, Ownership, DiskProtected, [Next]_vars
    PROVE  DiskProtected'
<1>u. CASE UNCHANGED vars
  BY <1>u DEF DiskProtected, vars, devVars, reqVars, workVars, irpVars, boot
<1>n. CASE Next
  <2> USE DEF devVars, reqVars, workVars, irpVars, boot
  <2>1. ASSUME NEW i \in Irps, NEW k \in {"read", "write"}, NEW r \in Ranges, Submit(i, k, r)
        PROVE  DiskProtected'
    BY <2>1 DEF Submit, DiskProtected
  <2>2. ASSUME NEW i \in Irps, CheckProtect(i)
        PROVE  DiskProtected'
    BY <2>2 DEF CheckProtect, DiskProtected
  <2>3. ASSUME NEW i \in Irps, InsertTail(i)
        PROVE  DiskProtected'
    BY <2>3 DEF InsertTail, DiskProtected
  <2>4. ASSUME NEW i \in Irps, SetReqEvent(i)
        PROVE  DiskProtected'
    BY <2>4 DEF SetReqEvent, DiskProtected
  <2>5. CASE WaitReqEvent
    BY <2>5 DEF WaitReqEvent, DiskProtected
  <2>6. CASE TestTermFlag
    BY <2>6 DEF TestTermFlag, DiskProtected
  <2>7. CASE QueueIsEmpty
    BY <2>7 DEF QueueIsEmpty, DiskProtected
  <2>8. CASE RemoveHead
    BY <2>8 DEF RemoveHead, DiskProtected
  <2>9. CASE Serve
    BY <2>9 DEF Serve, SendDown, DiskProtected
  <2>10. CASE ReadFileFails
    BY <2>10 DEF ReadFileFails, DiskProtected
  <2>11. CASE ReadFileOfSet
    BY <2>11 DEF ReadFileOfSet, DiskProtected
  <2>12. CASE ReadFileOfBlend
    BY <2>12 DEF ReadFileOfBlend, DiskProtected
  <2>13. CASE Merge
    BY <2>13 DEF Merge, DiskProtected
  <2>14. CASE MergeFails
    BY <2>14 DEF MergeFails, DiskProtected
  <2>15. CASE WriteFile
    BY <2>15 DEF WriteFile, DiskProtected
  <2>16. CASE WriteFileFails
    BY <2>16 DEF WriteFileFails, DiskProtected
  <2>17. CASE MarkBitmap
    BY <2>17 DEF MarkBitmap, DiskProtected
  <2>18. CASE MarkBitmapFails
    BY <2>18 DEF MarkBitmapFails, DiskProtected
  <2>19. CASE CompleteRequest
    BY <2>19 DEF CompleteRequest, DiskProtected
  <2>20. ASSUME NEW i \in Irps, LowerRead(i)
        PROVE  DiskProtected'
    BY <2>20 DEF LowerRead, DiskProtected
  <2>21. ASSUME NEW i \in Irps, LowerWrite(i)
        PROVE  DiskProtected'
    BY <2>21 DEF LowerWrite, DiskProtected, Ownership
  <2>22. ASSUME NEW i \in Irps, LowerComplete(i)
        PROVE  DiskProtected'
    BY <2>22 DEF LowerComplete, DiskProtected
  <2>23. CASE VolumeOnline
    BY <2>23 DEF VolumeOnline, DiskProtected
  <2>24. CASE VolumeOnlineFails
    BY <2>24 DEF VolumeOnlineFails, DiskProtected
  <2>25. CASE Restart
    BY <2>25 DEF Restart, LoseMemory, DiskProtected
  <2>26. CASE Reinitialize
    BY <2>26 DEF Reinitialize, DiskProtected
  <2>27. CASE ReinitializeCrashes
    BY <2>27 DEF ReinitializeCrashes, LoseMemory, DiskProtected
  <2>28. CASE RemoveDevice
    BY <2>28 DEF RemoveDevice, DiskProtected
  <2>29. CASE RemoveDeviceEnds
    BY <2>29 DEF RemoveDeviceEnds, DiskProtected
  <2> QED
    BY <2>1, <2>2, <2>3, <2>4, <2>5, <2>6, <2>7, <2>8, <2>9, <2>10, <2>11,
       <2>12, <2>13, <2>14, <2>15, <2>16, <2>17, <2>18, <2>19, <2>20, <2>21,
       <2>22, <2>23, <2>24, <2>25, <2>26, <2>27, <2>28, <2>29, <1>n
       DEF Next, Step, Dispatch, Worker, Lower, System
<1> QED
  BY <1>u, <1>n

\* No step loses the wakeup of the worker.
LEMMA WakeupStep ==
    ASSUME CoreType, Ownership, NoLostWakeup, [Next]_vars
    PROVE  NoLostWakeup'
<1>u. CASE UNCHANGED vars
  BY <1>u DEF NoLostWakeup, vars, devVars, reqVars, workVars, irpVars, boot
<1>n. CASE Next
  <2> USE DEF devVars, reqVars, workVars, irpVars, boot
  <2>1. ASSUME NEW i \in Irps, NEW k \in {"read", "write"}, NEW r \in Ranges, Submit(i, k, r)
        PROVE  NoLostWakeup'
    BY <2>1 DEF Submit, NoLostWakeup, Ownership
  <2>2. ASSUME NEW i \in Irps, CheckProtect(i)
        PROVE  NoLostWakeup'
    BY <2>2 DEF CheckProtect, NoLostWakeup, CoreType
  <2>3. ASSUME NEW i \in Irps, InsertTail(i)
        PROVE  NoLostWakeup'
    BY <2>3 DEF InsertTail, NoLostWakeup, CoreType
  <2>4. ASSUME NEW i \in Irps, SetReqEvent(i)
        PROVE  NoLostWakeup'
    BY <2>4 DEF SetReqEvent, NoLostWakeup
  <2>5. CASE WaitReqEvent
    BY <2>5 DEF WaitReqEvent, Goto, NoLostWakeup
  <2>6. CASE TestTermFlag
    BY <2>6 DEF TestTermFlag, Goto, NoLostWakeup
  <2>7. CASE QueueIsEmpty
    BY <2>7 DEF QueueIsEmpty, Drained, NoLostWakeup
  <2>8. CASE RemoveHead
    BY <2>8 DEF RemoveHead, NoLostWakeup
  <2>9. CASE Serve
    BY <2>9 DEF Serve, Goto, SendDown, FirstWriteStep, NoLostWakeup
  <2>10. CASE ReadFileFails
    BY <2>10 DEF ReadFileFails, Goto, NoLostWakeup
  <2>11. CASE ReadFileOfSet
    BY <2>11 DEF ReadFileOfSet, Goto, NoLostWakeup
  <2>12. CASE ReadFileOfBlend
    BY <2>12 DEF ReadFileOfBlend, NoLostWakeup
  <2>13. CASE Merge
    BY <2>13 DEF Merge, NoLostWakeup
  <2>14. CASE MergeFails
    BY <2>14 DEF MergeFails, NoLostWakeup
  <2>15. CASE WriteFile
    BY <2>15 DEF WriteFile, Goto, NoLostWakeup
  <2>16. CASE WriteFileFails
    BY <2>16 DEF WriteFileFails, Goto, NoLostWakeup
  <2>17. CASE MarkBitmap
    BY <2>17 DEF MarkBitmap, Goto, NoLostWakeup
  <2>18. CASE MarkBitmapFails
    BY <2>18 DEF MarkBitmapFails, Goto, NoLostWakeup
  <2>19. CASE CompleteRequest
    BY <2>19 DEF CompleteRequest, NoLostWakeup
  <2>20. ASSUME NEW i \in Irps, LowerRead(i)
        PROVE  NoLostWakeup'
    BY <2>20 DEF LowerRead, NoLostWakeup
  <2>21. ASSUME NEW i \in Irps, LowerWrite(i)
        PROVE  NoLostWakeup'
    BY <2>21 DEF LowerWrite, NoLostWakeup
  <2>22. ASSUME NEW i \in Irps, LowerComplete(i)
        PROVE  NoLostWakeup'
    BY <2>22 DEF LowerComplete, NoLostWakeup
  <2>23. CASE VolumeOnline
    BY <2>23 DEF VolumeOnline, NoLostWakeup
  <2>24. CASE VolumeOnlineFails
    BY <2>24 DEF VolumeOnlineFails, NoLostWakeup
  <2>25. CASE Restart
    BY <2>25 DEF Restart, LoseMemory, NoLostWakeup
  <2>26. CASE Reinitialize
    BY <2>26 DEF Reinitialize, NoLostWakeup
  <2>27. CASE ReinitializeCrashes
    BY <2>27 DEF ReinitializeCrashes, LoseMemory, NoLostWakeup
  <2>28. CASE RemoveDevice
    BY <2>28 DEF RemoveDevice, NoLostWakeup
  <2>29. CASE RemoveDeviceEnds
    BY <2>29 DEF RemoveDeviceEnds, NoLostWakeup
  <2> QED
    BY <2>1, <2>2, <2>3, <2>4, <2>5, <2>6, <2>7, <2>8, <2>9, <2>10, <2>11,
       <2>12, <2>13, <2>14, <2>15, <2>16, <2>17, <2>18, <2>19, <2>20, <2>21,
       <2>22, <2>23, <2>24, <2>25, <2>26, <2>27, <2>28, <2>29, <1>n
       DEF Next, Step, Dispatch, Worker, Lower, System
<1> QED
  BY <1>u, <1>n

\* Every step keeps the file and the bitmap in agreement.
LEMMA FileStep ==
    ASSUME MaxOnline <= 1, CoreType, Ownership, FileData, [Next]_vars
    PROVE  FileData'
<1>u. CASE UNCHANGED vars
  BY <1>u DEF FileData, vars, devVars, reqVars, workVars, irpVars, boot
<1>n. CASE Next
  <2> USE DEF devVars, reqVars, workVars, irpVars, boot
  <2>1. ASSUME NEW i \in Irps, NEW k \in {"read", "write"}, NEW r \in Ranges, Submit(i, k, r)
        PROVE  FileData'
    BY <2>1 DEF Submit, FileData, Ownership, CoreType, Held, Serving
  <2>2. ASSUME NEW i \in Irps, CheckProtect(i)
        PROVE  FileData'
    BY <2>2 DEF CheckProtect, FileData, Ownership, CoreType
  <2>3. ASSUME NEW i \in Irps, InsertTail(i)
        PROVE  FileData'
    BY <2>3 DEF InsertTail, FileData
  <2>4. ASSUME NEW i \in Irps, SetReqEvent(i)
        PROVE  FileData'
    BY <2>4 DEF SetReqEvent, FileData
  <2>5. CASE WaitReqEvent
    BY <2>5 DEF WaitReqEvent, Goto, FileData
  <2>6. CASE TestTermFlag
    BY <2>6 DEF TestTermFlag, Goto, FileData
  <2>7. CASE QueueIsEmpty
    BY <2>7 DEF QueueIsEmpty, Goto, FileData
  <2>8. CASE RemoveHead
    BY <2>8 DEF RemoveHead, FileData
  <2>9. CASE Serve
    BY <2>9 DEF Serve, Goto, SendDown, FirstWriteStep, FileData, CoreType
  <2>10. CASE ReadFileFails
    BY <2>10 DEF ReadFileFails, Goto, FileData
  <2>11. CASE ReadFileOfSet
    BY <2>11 DEF ReadFileOfSet, Goto, FileData
  <2>12. CASE ReadFileOfBlend
    BY <2>12 DEF ReadFileOfBlend, FileData
  <2>13. CASE Merge
    BY <2>13 DEF Merge, FileData
  <2>14. CASE MergeFails
    BY <2>14 DEF MergeFails, FileData
  <2>15. CASE WriteFile
    BY <2>15 DEF WriteFile, Goto, FileData, Ownership, CoreType, Held, Serving
  <2>16. CASE WriteFileFails
    <3>1. /\ cur \in Irps /\ cur \notin through /\ where[cur] \notin {"idle", "caller"}
      BY <2>16 DEF WriteFileFails, Ownership, Held, Serving
    <3>2. \A s \in Sectors : temp'[s] = cur \/ temp'[s] = temp[s]
      BY <2>16 DEF WriteFileFails
    <3>3. /\ pc' = "failed"
          /\ UNCHANGED <<where, through, range, cur, protect, bitmap, reinit, onlines>>
      BY <2>16 DEF WriteFileFails, Goto
    <3> QED
      BY <3>1, <3>2, <3>3 DEF FileData, CoreType
  <2>17. CASE MarkBitmap
    BY <2>17
       DEF MarkBitmap, Goto, Marked, FileData, Ownership, CoreType, Serving
  <2>18. CASE MarkBitmapFails
    BY <2>18 DEF MarkBitmapFails, Goto, FileData
  <2>19. CASE CompleteRequest
    BY <2>19 DEF CompleteRequest, Ending, FileData
  <2>20. ASSUME NEW i \in Irps, LowerRead(i)
        PROVE  FileData'
    BY <2>20 DEF LowerRead, FileData, CoreType
  <2>21. ASSUME NEW i \in Irps, LowerWrite(i)
        PROVE  FileData'
    BY <2>21 DEF LowerWrite, FileData, CoreType
  <2>22. ASSUME NEW i \in Irps, LowerComplete(i)
        PROVE  FileData'
    BY <2>22 DEF LowerComplete, FileData
  <2>23. CASE VolumeOnline
    BY <2>23 DEF VolumeOnline, FileData, CoreType
  <2>24. CASE VolumeOnlineFails
    <3>1. onlines = 0 /\ onlines' = 1
      BY <2>24, DriverAssumption DEF VolumeOnlineFails, CoreType
    <3>2. bitmap' = NULL
      BY <2>24, <3>1 DEF VolumeOnlineFails, FileData
    <3>3. UNCHANGED <<temp, protect, pc, cur, where, through, range, reinit>>
      BY <2>24 DEF VolumeOnlineFails
    <3> QED
      BY <3>1, <3>2, <3>3 DEF FileData
  <2>25. CASE Restart
    BY <2>25 DEF Restart, LoseMemory, FileData
  <2>26. CASE Reinitialize
    <3>1. ~protect /\ (bitmap # NULL => bitmap = {}) /\ reinit'
      BY <2>26 DEF Reinitialize, FileData
    <3>2. UNCHANGED <<bitmap, pc, cur, where, through, range, onlines>>
      BY <2>26 DEF Reinitialize
    <3>3. pc # "mark"
      BY <3>1 DEF Ownership, Serving
    <3>4. temp' = Blank \/ temp' = temp
      BY <2>26 DEF Reinitialize
    <3>5. \A s \in Sectors : temp'[s] \in Irps => temp[s] = temp'[s]
      BY <3>4, DriverAssumption DEF Blank
    <3> QED
      BY <3>1, <3>2, <3>3, <3>5 DEF FileData
  <2>27. CASE ReinitializeCrashes
    BY <2>27 DEF ReinitializeCrashes, LoseMemory, FileData
  <2>28. CASE RemoveDevice
    BY <2>28 DEF RemoveDevice, FileData
  <2>29. CASE RemoveDeviceEnds
    BY <2>29 DEF RemoveDeviceEnds, FileData
  <2> QED
    BY <2>1, <2>2, <2>3, <2>4, <2>5, <2>6, <2>7, <2>8, <2>9, <2>10, <2>11,
       <2>12, <2>13, <2>14, <2>15, <2>16, <2>17, <2>18, <2>19, <2>20, <2>21,
       <2>22, <2>23, <2>24, <2>25, <2>26, <2>27, <2>28, <2>29, <1>n
       DEF Next, Step, Dispatch, Worker, Lower, System
<1> QED
  BY <1>u, <1>n

LEMMA InitSafe == Init => FileData /\ DiskProtected /\ NoLostWakeup
  BY DriverAssumption DEF Init, FileData, DiskProtected, NoLostWakeup, Blank

\* The history records contents only.
LEMMA SeenType ==
    ASSUME CoreType, CoreType', Observe, seen \in [Irps -> [Sectors -> SUBSET Content]]
    PROVE  seen' \in [Irps -> [Sectors -> SUBSET Content]]
<1> SUFFICES ASSUME NEW i \in Irps, NEW s \in Sectors
             PROVE  /\ Visible'[s] \in Content /\ disk'[s] \in Content
                    /\ seen[i][s] \subseteq Content
  BY DEF Observe
<1>1. disk'[s] \in Content /\ temp'[s] \in Content
  BY DEF CoreType
<1>2. Visible'[s] \in Content
  BY <1>1 DEF Visible
<1> QED
  BY <1>1, <1>2

\* One step of the inductive invariant, and of what follows with it.
LEMMA InvStep ==
    ASSUME CoreType, Ownership, [Next]_vars
    PROVE  CoreType' /\ Ownership'
  BY CoreTypeStep, OwnershipStep

LEMMA InvHolds == Spec => [](CoreType /\ Ownership)
<1>1. Init => CoreType /\ Ownership
  BY InitCore
<1>2. (CoreType /\ Ownership) /\ [Next]_vars => (CoreType /\ Ownership)'
  BY InvStep
<1> QED
  BY <1>1, <1>2, PTL DEF Spec

\* In every reachable state every variable of the driver has its type
\* (DP_FILTER_DEV_EXTENSION and the locals of DPReadWriteThread).
THEOREM TypeCorrect == Spec => []TypeOK
<1> DEFINE SeenOK == seen \in [Irps -> [Sectors -> SUBSET Content]]
<1>1. Init => SeenOK
  BY DEF Init
<1>2. (CoreType /\ Ownership) /\ (CoreType /\ Ownership)' /\ SeenOK /\ [Next]_vars => SeenOK'
  <2> SUFFICES ASSUME CoreType, CoreType', SeenOK, [Next]_vars PROVE SeenOK'
    OBVIOUS
  <2>1. CASE UNCHANGED vars
    BY <2>1 DEF vars
  <2>2. CASE Next
    BY <2>2, SeenType DEF Next
  <2> QED
    BY <2>1, <2>2
<1>3. CoreType /\ SeenOK => TypeOK
  BY DEF CoreType, TypeOK
<1> HIDE DEF SeenOK
<1> QED
  BY <1>1, <1>2, <1>3, InvHolds, PTL DEF Spec

\* DPReadWriteThread never sleeps on ReqEvent while requests wait in ReqList
\* and no dispatcher is about to signal it, for any number of dispatchers.
THEOREM WakeupSafe == Spec => []NoLostWakeup
<1>1. Init => NoLostWakeup
  BY InitSafe
<1>2. (CoreType /\ Ownership) /\ NoLostWakeup /\ [Next]_vars => NoLostWakeup'
  BY WakeupStep
<1> QED
  BY <1>1, <1>2, InvHolds, PTL DEF Spec

\* The protected disk holds only what it held at first and the data of writes
\* that DPDispatchReadWrite let through before protection was on, whatever
\* fails but the mapping of a buffer, over any number of restarts and of
\* volumes brought online again.
THEOREM DiskSafe == ASSUME "map" \notin Faults PROVE Spec => []DiskProtected
<1>1. Init => DiskProtected
  BY InitSafe
<1>2. (CoreType /\ Ownership) /\ DiskProtected /\ [Next]_vars => DiskProtected'
  BY DiskStep
<1> QED
  BY <1>1, <1>2, InvHolds, PTL DEF Spec

\* When the volume is brought online at most once per boot, every sector that
\* the bitmap redirects has data of a queued write in the temporary file.
THEOREM MarkedHasData == ASSUME MaxOnline <= 1 PROVE Spec => []BitmapHasData
<1>1. Init => FileData
  BY InitSafe
<1>2. (CoreType /\ Ownership) /\ FileData /\ [Next]_vars => FileData'
  BY FileStep
<1>3. CoreType /\ FileData => BitmapHasData
  BY DriverAssumption DEF CoreType, FileData, BitmapHasData
<1> QED
  BY <1>1, <1>2, <1>3, InvHolds, PTL DEF Spec
-----------------------------------------------------------------------------
(***************************************************************************)
(* What those who use the protected volume see, as long as every buffer    *)
(* can be mapped and the volume comes online at most once per boot: reads  *)
(* are current, completed writes are redirected, and the driver implements *)
(* ProtectedVolume.                                                        *)
(***************************************************************************)

Pending(i) == where[i] \notin Ended \cup {"idle"}

\* A request is in the queue at most once, and the queue has it.
QueueOnce ==
    \A k \in 1 .. Len(queue) :
        /\ where[queue[k]] = "queue"
        /\ \A j \in 1 .. Len(queue) : queue[j] = queue[k] => j = k

\* The worker has one request at a time, of a kind that fits its label.
OneServed ==
    /\ \A i \in Irps : where[i] \in Held => cur = i /\ pc \in Serving
    /\ pc \in Serving \ {"forwarded"} => where[cur] = "worker"
    /\ pc = "forwarded" => where[cur] # "worker"
    /\ pc \in {"readSet", "readBlend", "forwarded"} => kind[cur] = "read"
    /\ pc \in {"write", "mark"} => kind[cur] = "write"

\* A request whose data is in the file has ended or is about to; one whose data
\* is on the disk has been served by the device below.
Writers ==
    /\ \A s \in Sectors : temp[s] \in Irps =>
          /\ s \in range[temp[s]] /\ kind[temp[s]] = "write"
          /\ \/ where[temp[s]] \in Ended
             \/ temp[s] = cur /\ pc \in {"mark", "served", "failed"}
    /\ \A s \in Sectors : disk[s] \in Irps =>
          where[disk[s]] \in {"lowerOk", "lowerErr"} \cup Ended

\* Protection follows the one online notification of the boot.
Booted == (protect => target) /\ (target => onlines # 0)

\* The data of a completed write is found again through the bitmap.
Redirected ==
    /\ pc = "served" /\ bitmap # NULL => \A s \in Sectors : temp[s] = cur => s \in bitmap
    /\ protect /\ bitmap # NULL =>
          \A s \in Sectors : temp[s] \in Irps /\ where[temp[s]] = "ok" => s \in bitmap

\* The history has what the volume shows, and of a request that does not go
\* through the queue what the disk holds.
History ==
    /\ seen \in [Irps -> [Sectors -> SUBSET Content]]
    /\ \A i \in Irps, s \in Sectors :
          IF Pending(i) THEN Visible[s] \in seen[i][s] ELSE seen[i][s] = {}
    /\ \A i \in through : Pending(i) => \A s \in Sectors : disk[s] \in seen[i][s]
    /\ \A i \in Irps : where[i] = "lower" /\ kind[i] = "read"
          => \A s \in range[i] : disk[s] \in seen[i][s]

\* What a request has delivered or written is in its history.
Replies ==
    /\ \A i \in Irps : where[i] = "lowerOk"
          => \A s \in range[i] : IF kind[i] = "read" THEN sysBuf[i][s] \in seen[i][s]
                                                     ELSE i \in seen[i][s]
    /\ pc = "served"
          => \A s \in range[cur] : IF kind[cur] = "read" THEN sysBuf[cur][s] \in seen[cur][s]
                                                         ELSE cur \in seen[cur][s]
    /\ pc = "readSet" => bitmap # NULL /\ range[cur] \subseteq bitmap
    /\ pc = "forwarded" /\ bitmap # NULL => \A s \in range[cur] :
          IF s \in bitmap THEN fileBuf[s] \in seen[cur][s]
          ELSE /\ where[cur] = "sync" => disk[s] \in seen[cur][s]
               /\ where[cur] = "syncOk" => sysBuf[cur][s] \in seen[cur][s]

\* What a step adds to the history of the requests that are under way after it.
Grown ==
    \A i \in Irps, s \in Sectors : Pending(i)' =>
        /\ seen[i][s] \subseteq seen'[i][s]
        /\ Visible'[s] \in seen'[i][s]
        /\ disk'[s] = disk[s] \/ disk'[s] \in seen'[i][s]

\* Who is let through finds the volume unprotected; a read that is left to the
\* disk covers no marked sector.
GoesDown ==
    /\ \A i \in through' : Pending(i)' => (i \in through /\ Pending(i)) \/ ~protect'
    /\ \A i \in Irps : where'[i] = "lower" /\ kind'[i] = "read" =>
          \A s \in range'[i] : \/ where[i] = "lower" /\ kind[i] = "read" /\ s \in range[i]
                               \/ ~protect'
                               \/ bitmap' # NULL => s \notin bitmap'

VolumeInv ==
    /\ CoreType /\ Ownership /\ FileData /\ DiskProtected
    /\ QueueOnce /\ OneServed /\ Writers /\ Booted /\ Redirected /\ History /\ Replies

\* A step of the abstract volume, or none; and what makes it none.
VolumeStep == [Volume!Next]_(Volume!vars)

PhaseOf(i) == IF Pending(i) THEN "pending" ELSE where[i]

Silent ==
    /\ UNCHANGED <<disk, protect, kind, range, through, sysBuf, Visible>>
    /\ \A i \in Irps : PhaseOf(i)' = PhaseOf(i)

-----------------------------------------------------------------------------
LEMMA Grows == ASSUME Observe PROVE Grown
  BY DEF Observe, Grown, Pending

\* A request is queued by its own dispatcher once, and leaves when it is removed.
LEMMA QueueStep ==
    ASSUME CoreType, Ownership, QueueOnce, [Next]_vars
    PROVE  QueueOnce'
<1>u. CASE UNCHANGED vars
  BY <1>u DEF CoreType, Ownership, QueueOnce, Serving, Held, vars, devVars, reqVars,
     workVars, irpVars, boot
<1>n. CASE Next
  <2> USE DEF devVars, reqVars, workVars, irpVars, boot
  <2>1. ASSUME NEW i \in Irps, NEW k \in {"read", "write"}, NEW r \in Ranges, Submit(i, k, r) PROVE QueueOnce'
    BY <2>1 DEF Submit, CoreType, Ownership, QueueOnce, Serving, Held
  <2>2. ASSUME NEW i \in Irps, CheckProtect(i) PROVE QueueOnce'
    BY <2>2 DEF CheckProtect, CoreType, Ownership, QueueOnce, Serving, Held
  <2>3. ASSUME NEW i \in Irps, InsertTail(i) PROVE QueueOnce'
    BY <2>3 DEF InsertTail, CoreType, Ownership, QueueOnce, Serving, Held
  <2>4. ASSUME NEW i \in Irps, SetReqEvent(i) PROVE QueueOnce'
    BY <2>4 DEF SetReqEvent, CoreType, Ownership, QueueOnce, Serving, Held
  <2>5. CASE WaitReqEvent
    BY <2>5 DEF WaitReqEvent, Goto, CoreType, Ownership, QueueOnce, Serving, Held
  <2>6. CASE TestTermFlag
    BY <2>6 DEF TestTermFlag, Goto, CoreType, Ownership, QueueOnce, Serving, Held
  <2>7. CASE QueueIsEmpty
    BY <2>7 DEF QueueIsEmpty, Goto, CoreType, Ownership, QueueOnce, Serving, Held
  <2>8. CASE RemoveHead
    BY <2>8 DEF RemoveHead, Drained, CoreType, Ownership, QueueOnce, Serving, Held
  <2>9. CASE Serve
    BY <2>9 DEF Serve, Goto, SendDown, NothingToDo, TestBitmap, FirstWriteStep, CoreType,
       Ownership, QueueOnce, Serving, Held
  <2>10. CASE ReadFileFails
    BY <2>10 DEF ReadFileFails, Goto, CoreType, Ownership, QueueOnce, Serving, Held
  <2>11. CASE ReadFileOfSet
    BY <2>11 DEF ReadFileOfSet, Goto, CoreType, Ownership, QueueOnce, Serving, Held
  <2>12. CASE ReadFileOfBlend
    BY <2>12 DEF ReadFileOfBlend, CoreType, Ownership, QueueOnce, Serving, Held
  <2>13. CASE Merge
    BY <2>13 DEF Merge, Merged, CoreType, Ownership, QueueOnce, Serving, Held
  <2>14. CASE MergeFails
    BY <2>14 DEF MergeFails, CoreType, Ownership, QueueOnce, Serving, Held
  <2>15. CASE WriteFile
    BY <2>15 DEF WriteFile, Goto, CoreType, Ownership, QueueOnce, Serving, Held
  <2>16. CASE WriteFileFails
    BY <2>16 DEF WriteFileFails, Goto, CoreType, Ownership, QueueOnce, Serving, Held
  <2>17. CASE MarkBitmap
    BY <2>17 DEF MarkBitmap, Goto, Marked, CoreType, Ownership, QueueOnce, Serving, Held
  <2>18. CASE MarkBitmapFails
    BY <2>18 DEF MarkBitmapFails, Goto, CoreType, Ownership, QueueOnce, Serving, Held
  <2>19. CASE CompleteRequest
    BY <2>19 DEF CompleteRequest, Ending, CoreType, Ownership, QueueOnce, Serving, Held
  <2>20. ASSUME NEW i \in Irps, LowerRead(i) PROVE QueueOnce'
    BY <2>20 DEF LowerRead, CoreType, Ownership, QueueOnce, Serving, Held
  <2>21. ASSUME NEW i \in Irps, LowerWrite(i) PROVE QueueOnce'
    BY <2>21 DEF LowerWrite, CoreType, Ownership, QueueOnce, Serving, Held
  <2>22. ASSUME NEW i \in Irps, LowerComplete(i) PROVE QueueOnce'
    BY <2>22 DEF LowerComplete, CoreType, Ownership, QueueOnce, Serving, Held
  <2>23. CASE VolumeOnline
    BY <2>23 DEF VolumeOnline, CoreType, Ownership, QueueOnce, Serving, Held
  <2>24. CASE VolumeOnlineFails
    BY <2>24 DEF VolumeOnlineFails, CoreType, Ownership, QueueOnce, Serving, Held
  <2>25. CASE Restart
    BY <2>25 DEF Restart, LoseMemory, CoreType, Ownership, QueueOnce, Serving, Held
  <2>26. CASE Reinitialize
    BY <2>26 DEF Reinitialize, CoreType, Ownership, QueueOnce, Serving, Held
  <2>27. CASE ReinitializeCrashes
    BY <2>27 DEF ReinitializeCrashes, LoseMemory, CoreType, Ownership, QueueOnce, Serving,
       Held
  <2>28. CASE RemoveDevice
    BY <2>28 DEF RemoveDevice, CoreType, Ownership, QueueOnce, Serving, Held
  <2>29. CASE RemoveDeviceEnds
    BY <2>29 DEF RemoveDeviceEnds, CoreType, Ownership, QueueOnce, Serving, Held
  <2> QED
    BY <2>1, <2>2, <2>3, <2>4, <2>5, <2>6, <2>7, <2>8, <2>9, <2>10, <2>11, <2>12, <2>13,
       <2>14, <2>15, <2>16, <2>17, <2>18, <2>19, <2>20, <2>21, <2>22, <2>23, <2>24, <2>25,
       <2>26, <2>27, <2>28, <2>29, <1>n DEF Next, Step, Dispatch, Worker, Lower, System
<1> QED  BY <1>u, <1>n

\* The worker takes a request only when it has none.
LEMMA ServedStep ==
    ASSUME CoreType, Ownership, QueueOnce, OneServed, [Next]_vars
    PROVE  OneServed'
<1>u. CASE UNCHANGED vars
  BY <1>u DEF CoreType, Ownership, OneServed, Serving, Held, vars, devVars, reqVars,
     workVars, irpVars, boot
<1>n. CASE Next
  <2> USE DEF devVars, reqVars, workVars, irpVars, boot
  <2>1. ASSUME NEW i \in Irps, NEW k \in {"read", "write"}, NEW r \in Ranges, Submit(i, k, r) PROVE OneServed'
    BY <2>1 DEF Submit, CoreType, Ownership, OneServed, Serving, Held
  <2>2. ASSUME NEW i \in Irps, CheckProtect(i) PROVE OneServed'
    BY <2>2 DEF CheckProtect, CoreType, Ownership, OneServed, Serving, Held
  <2>3. ASSUME NEW i \in Irps, InsertTail(i) PROVE OneServed'
    BY <2>3 DEF InsertTail, CoreType, Ownership, OneServed, Serving, Held
  <2>4. ASSUME NEW i \in Irps, SetReqEvent(i) PROVE OneServed'
    BY <2>4 DEF SetReqEvent, CoreType, Ownership, OneServed, Serving, Held
  <2>5. CASE WaitReqEvent
    BY <2>5 DEF WaitReqEvent, Goto, CoreType, Ownership, OneServed, Serving, Held
  <2>6. CASE TestTermFlag
    BY <2>6 DEF TestTermFlag, Goto, CoreType, Ownership, OneServed, Serving, Held
  <2>7. CASE QueueIsEmpty
    BY <2>7 DEF QueueIsEmpty, Goto, CoreType, Ownership, OneServed, Serving, Held
  <2>8. CASE RemoveHead
    BY <2>8 DEF RemoveHead, Drained, CoreType, Ownership, OneServed, Serving, Held
  <2>9. CASE Serve
    <3>1. cur \in Irps /\ where[cur] = "worker" /\ kind' = kind
      BY <2>9 DEF Serve, SendDown, Goto, Ownership, OneServed, Serving
    <3>2. \/ where'[cur] = "lower" /\ pc' = "drain"
          \/ /\ where'[cur] = "worker" /\ cur' = cur
             /\ \/ pc' \in {"readSet", "readBlend"} /\ kind[cur] = "read"
                \/ pc' = "write" /\ kind[cur] = "write"
                \/ pc' = "failed"
      BY <2>9, <3>1 DEF Serve, Goto, SendDown, FirstWriteStep, CoreType
    <3>3. \A i \in Irps : i # cur => where'[i] = where[i] /\ where[i] \notin Held
      BY <2>9, <3>1 DEF Serve, Goto, SendDown, OneServed, CoreType
    <3> QED  BY <3>1, <3>2, <3>3 DEF OneServed, Serving, Held
  <2>10. CASE ReadFileFails
    BY <2>10 DEF ReadFileFails, Goto, CoreType, Ownership, OneServed, Serving, Held
  <2>11. CASE ReadFileOfSet
    BY <2>11 DEF ReadFileOfSet, Goto, CoreType, Ownership, OneServed, Serving, Held
  <2>12. CASE ReadFileOfBlend
    BY <2>12 DEF ReadFileOfBlend, CoreType, Ownership, OneServed, Serving, Held
  <2>13. CASE Merge
    BY <2>13 DEF Merge, Merged, CoreType, Ownership, OneServed, Serving, Held
  <2>14. CASE MergeFails
    BY <2>14 DEF MergeFails, CoreType, Ownership, OneServed, Serving, Held
  <2>15. CASE WriteFile
    BY <2>15 DEF WriteFile, Goto, CoreType, Ownership, OneServed, Serving, Held
  <2>16. CASE WriteFileFails
    BY <2>16 DEF WriteFileFails, Goto, CoreType, Ownership, OneServed, Serving, Held
  <2>17. CASE MarkBitmap
    BY <2>17 DEF MarkBitmap, Goto, Marked, CoreType, Ownership, OneServed, Serving, Held
  <2>18. CASE MarkBitmapFails
    BY <2>18 DEF MarkBitmapFails, Goto, CoreType, Ownership, OneServed, Serving, Held
  <2>19. CASE CompleteRequest
    BY <2>19 DEF CompleteRequest, Ending, CoreType, Ownership, OneServed, Serving, Held
  <2>20. ASSUME NEW i \in Irps, LowerRead(i) PROVE OneServed'
    BY <2>20 DEF LowerRead, CoreType, Ownership, OneServed, Serving, Held
  <2>21. ASSUME NEW i \in Irps, LowerWrite(i) PROVE OneServed'
    BY <2>21 DEF LowerWrite, CoreType, Ownership, OneServed, Serving, Held
  <2>22. ASSUME NEW i \in Irps, LowerComplete(i) PROVE OneServed'
    BY <2>22 DEF LowerComplete, CoreType, Ownership, OneServed, Serving, Held
  <2>23. CASE VolumeOnline
    BY <2>23 DEF VolumeOnline, CoreType, Ownership, OneServed, Serving, Held
  <2>24. CASE VolumeOnlineFails
    BY <2>24 DEF VolumeOnlineFails, CoreType, Ownership, OneServed, Serving, Held
  <2>25. CASE Restart
    BY <2>25 DEF Restart, LoseMemory, OneServed, CoreType, Serving, Held, Ended
  <2>26. CASE Reinitialize
    BY <2>26 DEF Reinitialize, CoreType, Ownership, OneServed, Serving, Held
  <2>27. CASE ReinitializeCrashes
    BY <2>27 DEF ReinitializeCrashes, LoseMemory, OneServed, CoreType, Serving, Held, Ended
  <2>28. CASE RemoveDevice
    BY <2>28 DEF RemoveDevice, CoreType, Ownership, OneServed, Serving, Held
  <2>29. CASE RemoveDeviceEnds
    BY <2>29 DEF RemoveDeviceEnds, CoreType, Ownership, OneServed, Serving, Held
  <2> QED
    BY <2>1, <2>2, <2>3, <2>4, <2>5, <2>6, <2>7, <2>8, <2>9, <2>10, <2>11, <2>12, <2>13,
       <2>14, <2>15, <2>16, <2>17, <2>18, <2>19, <2>20, <2>21, <2>22, <2>23, <2>24, <2>25,
       <2>26, <2>27, <2>28, <2>29, <1>n DEF Next, Step, Dispatch, Worker, Lower, System
<1> QED  BY <1>u, <1>n

\* Data gets to the file and to the disk only with the request that carries it.
LEMMA WritersStep ==
    ASSUME CoreType, Ownership, FileData, QueueOnce, OneServed, Writers, [Next]_vars
    PROVE  Writers'
<1>u. CASE UNCHANGED vars
  BY <1>u DEF CoreType, Ownership, FileData, OneServed, Writers, Serving, Held, Ended, vars,
     devVars, reqVars, workVars, irpVars, boot
<1>n. CASE Next
  <2> USE DEF devVars, reqVars, workVars, irpVars, boot
  <2>1. ASSUME NEW i \in Irps, NEW k \in {"read", "write"}, NEW r \in Ranges, Submit(i, k, r) PROVE Writers'
    BY <2>1 DEF Submit, CoreType, Ownership, FileData, OneServed, Writers, Serving, Held,
       Ended
  <2>2. ASSUME NEW i \in Irps, CheckProtect(i) PROVE Writers'
    <3>1. /\ where[i] = "caller" /\ UNCHANGED <<temp, disk, kind, range, cur, pc>>
          /\ \A j \in Irps : j # i => where'[j] = where[j]
      BY <2>2 DEF CheckProtect, CoreType, Ownership
    <3>2. \A s \in Sectors : temp[s] # i /\ disk[s] # i
      BY <3>1 DEF FileData, Writers, Ended
    <3> QED  BY <3>1, <3>2 DEF Writers
  <2>3. ASSUME NEW i \in Irps, InsertTail(i) PROVE Writers'
    BY <2>3 DEF InsertTail, CoreType, Ownership, FileData, OneServed, Writers, Serving,
       Held, Ended
  <2>4. ASSUME NEW i \in Irps, SetReqEvent(i) PROVE Writers'
    BY <2>4 DEF SetReqEvent, CoreType, Ownership, FileData, OneServed, Writers, Serving,
       Held, Ended
  <2>5. CASE WaitReqEvent
    BY <2>5 DEF WaitReqEvent, Goto, CoreType, Ownership, FileData, OneServed, Writers,
       Serving, Held, Ended
  <2>6. CASE TestTermFlag
    BY <2>6 DEF TestTermFlag, Goto, CoreType, Ownership, FileData, OneServed, Writers,
       Serving, Held, Ended
  <2>7. CASE QueueIsEmpty
    BY <2>7 DEF QueueIsEmpty, Goto, CoreType, Ownership, FileData, OneServed, Writers,
       Serving, Held, Ended
  <2>8. CASE RemoveHead
    <3> DEFINE h == Head(queue)
    <3>1. h \in Irps /\ where[h] = "queue"
      BY <2>8 DEF RemoveHead, Drained, CoreType, QueueOnce
    <3>2. /\ pc = "drain" /\ UNCHANGED <<temp, disk, kind, range>>
          /\ \A i \in Irps : i # h => where'[i] = where[i]
      BY <2>8, <3>1 DEF RemoveHead, CoreType
    <3>3. \A s \in Sectors : temp[s] # h /\ disk[s] # h
      BY <3>1, <3>2 DEF Writers, Ended
    <3> QED  BY <3>2, <3>3 DEF Writers
  <2>9. CASE Serve
    <3>1. cur \in Irps /\ where[cur] = "worker" /\ pc = "serve"
      BY <2>9 DEF Serve, Ownership, OneServed, Serving
    <3>2. /\ UNCHANGED <<temp, disk, kind, range>>
          /\ \A i \in Irps : i # cur => where'[i] = where[i]
      BY <2>9, <3>1 DEF Serve, Goto, SendDown, CoreType
    <3>3. \A s \in Sectors : temp[s] # cur /\ disk[s] # cur
      BY <3>1 DEF Writers, Ended
    <3> QED  BY <3>1, <3>2, <3>3 DEF Writers
  <2>10. CASE ReadFileFails
    BY <2>10 DEF ReadFileFails, Goto, CoreType, Ownership, FileData, OneServed, Writers,
       Serving, Held, Ended
  <2>11. CASE ReadFileOfSet
    BY <2>11 DEF ReadFileOfSet, Goto, CoreType, Ownership, FileData, OneServed, Writers,
       Serving, Held, Ended
  <2>12. CASE ReadFileOfBlend
    BY <2>12 DEF ReadFileOfBlend, CoreType, Ownership, FileData, OneServed, Writers,
       Serving, Held, Ended
  <2>13. CASE Merge
    BY <2>13 DEF Merge, Merged, CoreType, Ownership, FileData, OneServed, Writers, Serving,
       Held, Ended
  <2>14. CASE MergeFails
    BY <2>14 DEF MergeFails, CoreType, Ownership, FileData, OneServed, Writers, Serving,
       Held, Ended
  <2>15. CASE WriteFile
    BY <2>15 DEF WriteFile, Goto, CoreType, Ownership, FileData, OneServed, Writers,
       Serving, Held, Ended
  <2>16. CASE WriteFileFails
    BY <2>16 DEF WriteFileFails, Goto, CoreType, Ownership, FileData, OneServed, Writers,
       Serving, Held, Ended
  <2>17. CASE MarkBitmap
    BY <2>17 DEF MarkBitmap, Goto, Marked, CoreType, Ownership, FileData, OneServed,
       Writers, Serving, Held, Ended
  <2>18. CASE MarkBitmapFails
    BY <2>18 DEF MarkBitmapFails, Goto, CoreType, Ownership, FileData, OneServed, Writers,
       Serving, Held, Ended
  <2>19. CASE CompleteRequest
    BY <2>19 DEF CompleteRequest, Ending, CoreType, Ownership, FileData, OneServed, Writers,
       Serving, Held, Ended
  <2>20. ASSUME NEW i \in Irps, LowerRead(i) PROVE Writers'
    <3>1. /\ kind[i] = "read" /\ where[i] \in {"lower", "sync"}
          /\ where'[i] \in {"syncOk", "lowerOk", "syncErr", "lowerErr"}
          /\ UNCHANGED <<disk, temp, kind, range, pc, cur>>
          /\ \A j \in Irps : j # i => where'[j] = where[j]
      BY <2>20 DEF LowerRead, reqVars, workVars, CoreType
    <3>2. \A s \in Sectors : temp[s] # i
      BY <3>1 DEF Writers
    <3>3. \A s \in Sectors : disk[s] # i
      BY <3>1 DEF Writers, Ended
    <3> QED  BY <3>1, <3>2, <3>3 DEF Writers
  <2>21. ASSUME NEW i \in Irps, LowerWrite(i) PROVE Writers'
    <3>1. /\ where'[i] \in {"lowerOk", "lowerErr"} /\ UNCHANGED <<temp, kind, range, pc, cur>>
          /\ \A j \in Irps : j # i => where'[j] = where[j]
      BY <2>21 DEF LowerWrite, CoreType
    <3>2. \A s \in Sectors : disk'[s] = i \/ disk'[s] = disk[s]
      BY <2>21 DEF LowerWrite
    <3>3. \A s \in Sectors : temp[s] # i
      BY <2>21 DEF LowerWrite, Writers, Ownership, Serving, Held, Ended
    <3> QED  BY <3>1, <3>2, <3>3 DEF Writers
  <2>22. ASSUME NEW i \in Irps, LowerComplete(i) PROVE Writers'
    BY <2>22 DEF LowerComplete, CoreType, Ownership, FileData, OneServed, Writers, Serving,
       Held, Ended
  <2>23. CASE VolumeOnline
    BY <2>23 DEF VolumeOnline, CoreType, Ownership, FileData, OneServed, Writers, Serving,
       Held, Ended
  <2>24. CASE VolumeOnlineFails
    BY <2>24 DEF VolumeOnlineFails, CoreType, Ownership, FileData, OneServed, Writers,
       Serving, Held, Ended
  <2>25. CASE Restart
    BY <2>25 DEF Restart, LoseMemory, CoreType, Ownership, FileData, OneServed, Writers,
       Serving, Held, Ended
  <2>26. CASE Reinitialize
    <3>1. UNCHANGED <<disk, kind, range, where, pc, cur>>
      BY <2>26 DEF Reinitialize
    <3>2. temp' = Blank \/ temp' = temp
      BY <2>26 DEF Reinitialize
    <3>3. \A s \in Sectors : temp'[s] \in Irps => temp[s] = temp'[s]
      BY <3>2, DriverAssumption DEF Blank
    <3> QED  BY <3>1, <3>3 DEF Writers
  <2>27. CASE ReinitializeCrashes
    BY <2>27 DEF ReinitializeCrashes, LoseMemory, CoreType, Ownership, FileData, OneServed,
       Writers, Serving, Held, Ended
  <2>28. CASE RemoveDevice
    BY <2>28 DEF RemoveDevice, CoreType, Ownership, FileData, OneServed, Writers, Serving,
       Held, Ended
  <2>29. CASE RemoveDeviceEnds
    BY <2>29 DEF RemoveDeviceEnds, CoreType, Ownership, FileData, OneServed, Writers,
       Serving, Held, Ended
  <2> QED
    BY <2>1, <2>2, <2>3, <2>4, <2>5, <2>6, <2>7, <2>8, <2>9, <2>10, <2>11, <2>12, <2>13,
       <2>14, <2>15, <2>16, <2>17, <2>18, <2>19, <2>20, <2>21, <2>22, <2>23, <2>24, <2>25,
       <2>26, <2>27, <2>28, <2>29, <1>n DEF Next, Step, Dispatch, Worker, Lower, System
<1> QED  BY <1>u, <1>n

\* Reinitialisation protects only a volume that came online.
LEMMA BootedStep ==
    ASSUME CoreType, Booted, [Next]_vars
    PROVE  Booted'
<1>u. CASE UNCHANGED vars
  BY <1>u DEF CoreType, Booted, vars, devVars, reqVars, workVars, irpVars, boot
<1>n. CASE Next
  <2> USE DEF devVars, reqVars, workVars, irpVars, boot
  <2>1. ASSUME NEW i \in Irps, NEW k \in {"read", "write"}, NEW r \in Ranges, Submit(i, k, r) PROVE Booted'
    BY <2>1 DEF Submit, CoreType, Booted
  <2>2. ASSUME NEW i \in Irps, CheckProtect(i) PROVE Booted'
    BY <2>2 DEF CheckProtect, CoreType, Booted
  <2>3. ASSUME NEW i \in Irps, InsertTail(i) PROVE Booted'
    BY <2>3 DEF InsertTail, CoreType, Booted
  <2>4. ASSUME NEW i \in Irps, SetReqEvent(i) PROVE Booted'
    BY <2>4 DEF SetReqEvent, CoreType, Booted
  <2>5. CASE WaitReqEvent
    BY <2>5 DEF WaitReqEvent, Goto, CoreType, Booted
  <2>6. CASE TestTermFlag
    BY <2>6 DEF TestTermFlag, Goto, CoreType, Booted
  <2>7. CASE QueueIsEmpty
    BY <2>7 DEF QueueIsEmpty, Goto, CoreType, Booted
  <2>8. CASE RemoveHead
    BY <2>8 DEF RemoveHead, Drained, CoreType, Booted
  <2>9. CASE Serve
    BY <2>9 DEF Serve, Goto, SendDown, NothingToDo, TestBitmap, FirstWriteStep, CoreType,
       Booted
  <2>10. CASE ReadFileFails
    BY <2>10 DEF ReadFileFails, Goto, CoreType, Booted
  <2>11. CASE ReadFileOfSet
    BY <2>11 DEF ReadFileOfSet, Goto, CoreType, Booted
  <2>12. CASE ReadFileOfBlend
    BY <2>12 DEF ReadFileOfBlend, CoreType, Booted
  <2>13. CASE Merge
    BY <2>13 DEF Merge, Merged, CoreType, Booted
  <2>14. CASE MergeFails
    BY <2>14 DEF MergeFails, CoreType, Booted
  <2>15. CASE WriteFile
    BY <2>15 DEF WriteFile, Goto, CoreType, Booted
  <2>16. CASE WriteFileFails
    BY <2>16 DEF WriteFileFails, Goto, CoreType, Booted
  <2>17. CASE MarkBitmap
    BY <2>17 DEF MarkBitmap, Goto, Marked, CoreType, Booted
  <2>18. CASE MarkBitmapFails
    BY <2>18 DEF MarkBitmapFails, Goto, CoreType, Booted
  <2>19. CASE CompleteRequest
    BY <2>19 DEF CompleteRequest, Ending, CoreType, Booted
  <2>20. ASSUME NEW i \in Irps, LowerRead(i) PROVE Booted'
    BY <2>20 DEF LowerRead, CoreType, Booted
  <2>21. ASSUME NEW i \in Irps, LowerWrite(i) PROVE Booted'
    BY <2>21 DEF LowerWrite, CoreType, Booted
  <2>22. ASSUME NEW i \in Irps, LowerComplete(i) PROVE Booted'
    BY <2>22 DEF LowerComplete, CoreType, Booted
  <2>23. CASE VolumeOnline
    BY <2>23 DEF VolumeOnline, CoreType, Booted
  <2>24. CASE VolumeOnlineFails
    BY <2>24 DEF VolumeOnlineFails, CoreType, Booted
  <2>25. CASE Restart
    BY <2>25 DEF Restart, LoseMemory, CoreType, Booted
  <2>26. CASE Reinitialize
    BY <2>26 DEF Reinitialize, CoreType, Booted
  <2>27. CASE ReinitializeCrashes
    BY <2>27 DEF ReinitializeCrashes, LoseMemory, CoreType, Booted
  <2>28. CASE RemoveDevice
    BY <2>28 DEF RemoveDevice, CoreType, Booted
  <2>29. CASE RemoveDeviceEnds
    BY <2>29 DEF RemoveDeviceEnds, CoreType, Booted
  <2> QED
    BY <2>1, <2>2, <2>3, <2>4, <2>5, <2>6, <2>7, <2>8, <2>9, <2>10, <2>11, <2>12, <2>13,
       <2>14, <2>15, <2>16, <2>17, <2>18, <2>19, <2>20, <2>21, <2>22, <2>23, <2>24, <2>25,
       <2>26, <2>27, <2>28, <2>29, <1>n DEF Next, Step, Dispatch, Worker, Lower, System
<1> QED  BY <1>u, <1>n

\* A write ends well only when the bitmap has its sectors.
LEMMA RedirectedStep ==
    ASSUME MaxOnline <= 1, CoreType, Ownership, FileData, OneServed, Writers, Booted,
       Redirected, [Next]_vars
    PROVE  Redirected'
<1>u. CASE UNCHANGED vars
  BY <1>u DEF CoreType, Ownership, FileData, OneServed, Writers, Booted, Redirected,
     Serving, Held, Ended, vars, devVars, reqVars, workVars, irpVars, boot
<1>n. CASE Next
  <2> USE DEF devVars, reqVars, workVars, irpVars, boot
  <2>1. ASSUME NEW i \in Irps, NEW k \in {"read", "write"}, NEW r \in Ranges, Submit(i, k, r) PROVE Redirected'
    BY <2>1 DEF Submit, CoreType, Ownership, FileData, OneServed, Writers, Booted,
       Redirected, Serving, Held, Ended
  <2>2. ASSUME NEW i \in Irps, CheckProtect(i) PROVE Redirected'
    BY <2>2 DEF CheckProtect, CoreType, Ownership, FileData, OneServed, Writers, Booted,
       Redirected, Serving, Held, Ended
  <2>3. ASSUME NEW i \in Irps, InsertTail(i) PROVE Redirected'
    BY <2>3 DEF InsertTail, CoreType, Ownership, FileData, OneServed, Writers, Booted,
       Redirected, Serving, Held, Ended
  <2>4. ASSUME NEW i \in Irps, SetReqEvent(i) PROVE Redirected'
    BY <2>4 DEF SetReqEvent, CoreType, Ownership, FileData, OneServed, Writers, Booted,
       Redirected, Serving, Held, Ended
  <2>5. CASE WaitReqEvent
    BY <2>5 DEF WaitReqEvent, Goto, CoreType, Ownership, FileData, OneServed, Writers,
       Booted, Redirected, Serving, Held, Ended
  <2>6. CASE TestTermFlag
    BY <2>6 DEF TestTermFlag, Goto, CoreType, Ownership, FileData, OneServed, Writers,
       Booted, Redirected, Serving, Held, Ended
  <2>7. CASE QueueIsEmpty
    BY <2>7 DEF QueueIsEmpty, Goto, CoreType, Ownership, FileData, OneServed, Writers,
       Booted, Redirected, Serving, Held, Ended
  <2>8. CASE RemoveHead
    BY <2>8 DEF RemoveHead, Drained, CoreType, Ownership, FileData, OneServed, Writers,
       Booted, Redirected, Serving, Held, Ended
  <2>9. CASE Serve
    BY <2>9 DEF Serve, Goto, SendDown, NothingToDo, TestBitmap, FirstWriteStep, CoreType,
       Ownership, FileData, OneServed, Writers, Booted, Redirected, Serving, Held, Ended
  <2>10. CASE ReadFileFails
    BY <2>10 DEF ReadFileFails, Goto, CoreType, Ownership, FileData, OneServed, Writers,
       Booted, Redirected, Serving, Held, Ended
  <2>11. CASE ReadFileOfSet
    BY <2>11 DEF ReadFileOfSet, Goto, CoreType, Ownership, FileData, OneServed, Writers,
       Booted, Redirected, Serving, Held, Ended
  <2>12. CASE ReadFileOfBlend
    BY <2>12 DEF ReadFileOfBlend, CoreType, Ownership, FileData, OneServed, Writers, Booted,
       Redirected, Serving, Held, Ended
  <2>13. CASE Merge
    BY <2>13 DEF Merge, Merged, CoreType, Ownership, FileData, OneServed, Writers, Booted,
       Redirected, Serving, Held, Ended
  <2>14. CASE MergeFails
    BY <2>14 DEF MergeFails, CoreType, Ownership, FileData, OneServed, Writers, Booted,
       Redirected, Serving, Held, Ended
  <2>15. CASE WriteFile
    BY <2>15 DEF WriteFile, Goto, CoreType, Ownership, FileData, OneServed, Writers, Booted,
       Redirected, Serving, Held, Ended
  <2>16. CASE WriteFileFails
    <3>1. /\ cur \in Irps /\ where[cur] = "worker"
      BY <2>16 DEF WriteFileFails, Ownership, OneServed, Serving
    <3>2. /\ pc' = "failed" /\ UNCHANGED <<where, bitmap, protect>>
      BY <2>16 DEF WriteFileFails, Goto
    <3>3. \A s \in Sectors : temp'[s] = cur \/ temp'[s] = temp[s]
      BY <2>16 DEF WriteFileFails
    <3> QED  BY <3>1, <3>2, <3>3 DEF Redirected
  <2>17. CASE MarkBitmap
    BY <2>17 DEF MarkBitmap, Goto, Marked, CoreType, Ownership, FileData, OneServed,
       Writers, Booted, Redirected, Serving, Held, Ended
  <2>18. CASE MarkBitmapFails
    BY <2>18 DEF MarkBitmapFails, Goto, CoreType, Ownership, FileData, OneServed, Writers,
       Booted, Redirected, Serving, Held, Ended
  <2>19. CASE CompleteRequest
    BY <2>19 DEF CompleteRequest, Ending, CoreType, Ownership, FileData, OneServed, Writers,
       Booted, Redirected, Serving, Held, Ended
  <2>20. ASSUME NEW i \in Irps, LowerRead(i) PROVE Redirected'
    BY <2>20 DEF LowerRead, CoreType, Ownership, FileData, OneServed, Writers, Booted,
       Redirected, Serving, Held, Ended
  <2>21. ASSUME NEW i \in Irps, LowerWrite(i) PROVE Redirected'
    BY <2>21 DEF LowerWrite, CoreType, Ownership, FileData, OneServed, Writers, Booted,
       Redirected, Serving, Held, Ended
  <2>22. ASSUME NEW i \in Irps, LowerComplete(i) PROVE Redirected'
    <3>1. /\ where[i] \in {"lowerOk", "lowerErr"}
          /\ UNCHANGED <<temp, bitmap, protect, cur, pc>>
          /\ \A j \in Irps : j # i => where'[j] = where[j]
      BY <2>22 DEF LowerComplete, CoreType
    <3>2. pc \in Serving => cur # i
      BY <3>1 DEF Ownership, Held
    <3>3. \A s \in Sectors : temp[s] # i
      BY <3>1, <3>2 DEF Writers, Ended, Serving
    <3> QED  BY <3>1, <3>3 DEF Redirected
  <2>23. CASE VolumeOnline
    <3>1. onlines = 0
      BY <2>23, DriverAssumption DEF VolumeOnline, CoreType
    <3>2. ~protect /\ ~protect'
      BY <2>23, <3>1 DEF VolumeOnline, Booted
    <3>3. pc' = pc /\ pc # "served"
      BY <2>23, <3>2 DEF VolumeOnline, Ownership, Serving
    <3> QED  BY <3>2, <3>3 DEF Redirected
  <2>24. CASE VolumeOnlineFails
    <3>1. onlines = 0
      BY <2>24, DriverAssumption DEF VolumeOnlineFails, CoreType
    <3>2. ~protect /\ ~protect'
      BY <2>24, <3>1 DEF VolumeOnlineFails, Booted
    <3>3. pc' = pc /\ pc # "served"
      BY <2>24, <3>2 DEF VolumeOnlineFails, Ownership, Serving
    <3> QED  BY <3>2, <3>3 DEF Redirected
  <2>25. CASE Restart
    BY <2>25 DEF Restart, LoseMemory, CoreType, Ownership, FileData, OneServed, Writers,
       Booted, Redirected, Serving, Held, Ended
  <2>26. CASE Reinitialize
    <3>1. ~protect /\ UNCHANGED <<bitmap, where, pc>>
      BY <2>26 DEF Reinitialize, FileData
    <3>2. pc # "served"
      BY <3>1 DEF Ownership, Serving
    <3>3. temp' = Blank \/ ~protect'
      BY <2>26, <3>1 DEF Reinitialize
    <3>4. protect' => \A s \in Sectors : temp'[s] \notin Irps
      BY <3>3, DriverAssumption DEF Blank
    <3> QED  BY <3>1, <3>2, <3>4 DEF Redirected
  <2>27. CASE ReinitializeCrashes
    BY <2>27 DEF ReinitializeCrashes, LoseMemory, CoreType, Ownership, FileData, OneServed,
       Writers, Booted, Redirected, Serving, Held, Ended
  <2>28. CASE RemoveDevice
    BY <2>28 DEF RemoveDevice, CoreType, Ownership, FileData, OneServed, Writers, Booted,
       Redirected, Serving, Held, Ended
  <2>29. CASE RemoveDeviceEnds
    BY <2>29 DEF RemoveDeviceEnds, CoreType, Ownership, FileData, OneServed, Writers,
       Booted, Redirected, Serving, Held, Ended
  <2> QED
    BY <2>1, <2>2, <2>3, <2>4, <2>5, <2>6, <2>7, <2>8, <2>9, <2>10, <2>11, <2>12, <2>13,
       <2>14, <2>15, <2>16, <2>17, <2>18, <2>19, <2>20, <2>21, <2>22, <2>23, <2>24, <2>25,
       <2>26, <2>27, <2>28, <2>29, <1>n DEF Next, Step, Dispatch, Worker, Lower, System
<1> QED  BY <1>u, <1>n

\* Protection is looked at before a request is let through, and the bitmap before a read is.
LEMMA DownStep ==
    ASSUME "map" \notin Faults, CoreType, Ownership, Step
    PROVE  GoesDown
<1> USE DEF devVars, reqVars, workVars, irpVars, boot
<1>1. ASSUME NEW i \in Irps, NEW k \in {"read", "write"}, NEW r \in Ranges, Submit(i, k, r) PROVE GoesDown
  BY <1>1 DEF Submit, CoreType, Ownership, Pending, Ended, GoesDown, Serving, Held
<1>2. ASSUME NEW i \in Irps, CheckProtect(i) PROVE GoesDown
  BY <1>2 DEF CheckProtect, CoreType, Ownership, Pending, Ended, GoesDown, Serving, Held
<1>3. ASSUME NEW i \in Irps, InsertTail(i) PROVE GoesDown
  BY <1>3 DEF InsertTail, CoreType, Ownership, Pending, Ended, GoesDown, Serving, Held
<1>4. ASSUME NEW i \in Irps, SetReqEvent(i) PROVE GoesDown
  BY <1>4 DEF SetReqEvent, CoreType, Ownership, Pending, Ended, GoesDown, Serving, Held
<1>5. CASE WaitReqEvent
  BY <1>5 DEF WaitReqEvent, Goto, CoreType, Ownership, Pending, Ended, GoesDown, Serving,
     Held
<1>6. CASE TestTermFlag
  BY <1>6 DEF TestTermFlag, Goto, CoreType, Ownership, Pending, Ended, GoesDown, Serving,
     Held
<1>7. CASE QueueIsEmpty
  BY <1>7 DEF QueueIsEmpty, Goto, CoreType, Ownership, Pending, Ended, GoesDown, Serving,
     Held
<1>8. CASE RemoveHead
  BY <1>8 DEF RemoveHead, Drained, CoreType, Ownership, Pending, Ended, GoesDown, Serving,
     Held
<1>9. CASE Serve
  BY <1>9 DEF Serve, Goto, SendDown, NothingToDo, TestBitmap, FirstWriteStep, CoreType,
     Ownership, Pending, Ended, GoesDown, Serving, Held
<1>10. CASE ReadFileFails
  BY <1>10 DEF ReadFileFails, Goto, CoreType, Ownership, Pending, Ended, GoesDown, Serving,
     Held
<1>11. CASE ReadFileOfSet
  BY <1>11 DEF ReadFileOfSet, Goto, CoreType, Ownership, Pending, Ended, GoesDown, Serving,
     Held
<1>12. CASE ReadFileOfBlend
  BY <1>12 DEF ReadFileOfBlend, CoreType, Ownership, Pending, Ended, GoesDown, Serving, Held
<1>13. CASE Merge
  BY <1>13 DEF Merge, Merged, CoreType, Ownership, Pending, Ended, GoesDown, Serving, Held
<1>14. CASE MergeFails
  BY <1>14 DEF MergeFails, CoreType, Ownership, Pending, Ended, GoesDown, Serving, Held
<1>15. CASE WriteFile
  BY <1>15 DEF WriteFile, Goto, CoreType, Ownership, Pending, Ended, GoesDown, Serving, Held
<1>16. CASE WriteFileFails
  BY <1>16 DEF WriteFileFails, Goto, CoreType, Ownership, Pending, Ended, GoesDown, Serving,
     Held
<1>17. CASE MarkBitmap
  BY <1>17 DEF MarkBitmap, Goto, Marked, CoreType, Ownership, Pending, Ended, GoesDown,
     Serving, Held
<1>18. CASE MarkBitmapFails
  BY <1>18 DEF MarkBitmapFails, Goto, CoreType, Ownership, Pending, Ended, GoesDown,
     Serving, Held
<1>19. CASE CompleteRequest
  BY <1>19 DEF CompleteRequest, Ending, CoreType, Ownership, Pending, Ended, GoesDown,
     Serving, Held
<1>20. ASSUME NEW i \in Irps, LowerRead(i) PROVE GoesDown
  BY <1>20 DEF LowerRead, CoreType, Ownership, Pending, Ended, GoesDown, Serving, Held
<1>21. ASSUME NEW i \in Irps, LowerWrite(i) PROVE GoesDown
  BY <1>21 DEF LowerWrite, CoreType, Ownership, Pending, Ended, GoesDown, Serving, Held
<1>22. ASSUME NEW i \in Irps, LowerComplete(i) PROVE GoesDown
  BY <1>22 DEF LowerComplete, CoreType, Ownership, Pending, Ended, GoesDown, Serving, Held
<1>23. CASE VolumeOnline
  BY <1>23 DEF VolumeOnline, CoreType, Ownership, Pending, Ended, GoesDown, Serving, Held
<1>24. CASE VolumeOnlineFails
  BY <1>24 DEF VolumeOnlineFails, CoreType, Ownership, Pending, Ended, GoesDown, Serving,
     Held
<1>25. CASE Restart
  BY <1>25 DEF Restart, LoseMemory, CoreType, Ownership, Pending, Ended, GoesDown, Serving,
     Held
<1>26. CASE Reinitialize
  BY <1>26 DEF Reinitialize, CoreType, Ownership, Pending, Ended, GoesDown, Serving, Held
<1>27. CASE ReinitializeCrashes
  BY <1>27 DEF ReinitializeCrashes, LoseMemory, CoreType, Ownership, Pending, Ended,
     GoesDown, Serving, Held
<1>28. CASE RemoveDevice
  BY <1>28 DEF RemoveDevice, CoreType, Ownership, Pending, Ended, GoesDown, Serving, Held
<1>29. CASE RemoveDeviceEnds
  BY <1>29 DEF RemoveDeviceEnds, CoreType, Ownership, Pending, Ended, GoesDown, Serving,
     Held
<1> QED
  BY <1>1, <1>2, <1>3, <1>4, <1>5, <1>6, <1>7, <1>8, <1>9, <1>10, <1>11, <1>12, <1>13,
     <1>14, <1>15, <1>16, <1>17, <1>18, <1>19, <1>20, <1>21, <1>22, <1>23, <1>24, <1>25,
     <1>26, <1>27, <1>28, <1>29 DEF Step, Dispatch, Worker, Lower, System

\* Every step keeps the history.
LEMMA HistoryStep ==
    ASSUME "map" \notin Faults, CoreType, CoreType', Ownership, FileData', History, [Next]_vars
    PROVE  History'
<1>u. CASE UNCHANGED vars
  BY <1>u DEF History, Pending, Visible, vars, devVars, irpVars
<1>n. CASE Next
  <2>1. Grown /\ GoesDown /\ Observe
    BY <1>n, Grows, DownStep DEF Next
  <2>2. seen' \in [Irps -> [Sectors -> SUBSET Content]]
    BY <2>1, SeenType DEF History
  <2>3. ASSUME NEW i \in Irps, NEW s \in Sectors
        PROVE  IF Pending(i)' THEN Visible'[s] \in seen'[i][s] ELSE seen'[i][s] = {}
    BY <2>1 DEF Observe, Grown, Pending
  <2>4. ~protect' => \A s \in Sectors : Visible'[s] = disk'[s]
    BY DEF FileData, Visible
  <2>5. ASSUME NEW i \in through', Pending(i)', NEW s \in Sectors PROVE disk'[s] \in seen'[i][s]
    <3>1. i \in Irps
      BY DEF CoreType
    <3>2. CASE ~protect'
      BY <2>3, <2>4, <2>5, <3>1, <3>2
    <3>3. CASE i \in through /\ Pending(i)
      BY <2>1, <2>5, <3>1, <3>3 DEF History, Grown
    <3> QED  BY <2>1, <2>5, <3>2, <3>3 DEF GoesDown
  <2>6. ASSUME NEW i \in Irps, where'[i] = "lower", kind'[i] = "read", NEW s \in range'[i]
        PROVE  disk'[s] \in seen'[i][s]
    <3>1. s \in Sectors /\ Pending(i)'
      BY <2>6 DEF CoreType, Pending, Ended
    <3>2. CASE ~protect' \/ (bitmap' # NULL => s \notin bitmap')
      BY <2>3, <2>4, <3>1, <3>2 DEF Visible
    <3>3. CASE where[i] = "lower" /\ kind[i] = "read" /\ s \in range[i]
      BY <2>1, <3>1, <3>3 DEF History, Grown
    <3> QED  BY <2>1, <2>6, <3>2, <3>3 DEF GoesDown
  <2> QED  BY <2>2, <2>3, <2>5, <2>6 DEF History
<1> QED  BY <1>u, <1>n


\* What has been delivered stays in the history, as long as nobody delivers more.
LEMMA RepliesKept ==
    ASSUME CoreType, Ownership, Replies, Grown, UNCHANGED <<disk, bitmap, kind, range>>,
       \A i \in Irps : where'[i] = "lowerOk" => where[i] = "lowerOk" /\ sysBuf'[i] = sysBuf[i],
       pc' \in {"served", "readSet", "forwarded"} =>
          /\ UNCHANGED <<pc, cur, fileBuf>>
          /\ where'[cur] = where[cur] /\ sysBuf'[cur] = sysBuf[cur]
    PROVE  Replies'
<1>1. ASSUME NEW i \in Irps, where'[i] = "lowerOk", NEW s \in range[i]
      PROVE  IF kind[i] = "read" THEN sysBuf'[i][s] \in seen'[i][s] ELSE i \in seen'[i][s]
  <2>1. where[i] = "lowerOk" /\ sysBuf'[i] = sysBuf[i] /\ Pending(i)' /\ s \in Sectors
    BY <1>1 DEF Pending, Ended, CoreType
  <2>2. seen[i][s] \subseteq seen'[i][s]
    BY <2>1 DEF Grown
  <2> QED  BY <2>1, <2>2 DEF Replies
<1>2. ASSUME pc' \in {"served", "readSet", "forwarded"}
      PROVE  /\ UNCHANGED <<pc, cur, fileBuf>>
             /\ where'[cur] = where[cur] /\ sysBuf'[cur] = sysBuf[cur]
             /\ \A s \in range[cur] : seen[cur][s] \subseteq seen'[cur][s]
  <2>1. pc' = pc /\ cur' = cur /\ where'[cur] = where[cur] /\ pc \in Serving
    BY <1>2 DEF Serving
  <2>2. cur \in Irps /\ where[cur] \in Held /\ range[cur] \subseteq Sectors
    BY <2>1 DEF Ownership, CoreType
  <2>3. Pending(cur)'
    BY <2>1, <2>2 DEF Pending, Ended, Held
  <2>4. \A s \in range[cur] : seen[cur][s] \subseteq seen'[cur][s]
    BY <2>1, <2>2, <2>3 DEF Grown, Pending
  <2> QED  BY <1>2, <2>4
<1>3. pc' = "served" => \A s \in range[cur] :
          IF kind[cur] = "read" THEN sysBuf'[cur][s] \in seen'[cur][s] ELSE cur \in seen'[cur][s]
  BY <1>2 DEF Replies
<1>4. pc' = "readSet" => bitmap # NULL /\ range[cur] \subseteq bitmap
  BY <1>2 DEF Replies
<1>5. pc' = "forwarded" /\ bitmap # NULL => \A s \in range[cur] :
          IF s \in bitmap THEN fileBuf[s] \in seen'[cur][s]
          ELSE /\ where'[cur] = "sync" => disk[s] \in seen'[cur][s]
               /\ where'[cur] = "syncOk" => sysBuf'[cur][s] \in seen'[cur][s]
  BY <1>2 DEF Replies
<1> QED  BY <1>1, <1>2, <1>3, <1>4, <1>5 DEF Replies

\* What is delivered or written was shown while the request was under way.
LEMMA RepliesStep ==
    ASSUME MaxOnline <= 1, CoreType, CoreType', Ownership, FileData, OneServed, Writers,
       Booted, History, Replies, Grown, Step
    PROVE  Replies'
<1> USE DEF devVars, reqVars, workVars, irpVars, boot
<1>1. ASSUME NEW i \in Irps, NEW k \in {"read", "write"}, NEW r \in Ranges, Submit(i, k, r) PROVE Replies'
  <2>1. /\ where[i] = "idle" /\ UNCHANGED <<disk, bitmap, fileBuf, sysBuf, pc, cur>>
        /\ where'[i] = "caller" /\ \A j \in Irps : j # i =>
              where'[j] = where[j] /\ kind'[j] = kind[j] /\ range'[j] = range[j]
    BY <1>1 DEF Submit, CoreType
  <2>2. pc \in {"served", "readSet", "forwarded"} =>
           cur \in Irps /\ cur # i /\ where[cur] \in Held
    BY <2>1 DEF CoreType, Ownership, Serving, Held
  <2>3. \A j \in Irps : j # i /\ (where[j] = "lowerOk" \/ where[j] \in Held) =>
           \A s \in Sectors : seen[j][s] \subseteq seen'[j][s]
    BY <2>1 DEF Grown, Pending, Ended, Held
  <2>4. \A j \in Irps : range[j] \subseteq Sectors
    BY DEF CoreType
  <2> QED
    BY <2>1, <2>2, <2>3, <2>4 DEF Replies
<1>2. ASSUME NEW i \in Irps, CheckProtect(i) PROVE Replies'
  <2>1. /\ UNCHANGED <<disk, bitmap, kind, range, pc, cur, fileBuf>>
        /\ where[i] = "caller"
        /\ \A j \in Irps : j # i => where'[j] = where[j] /\ sysBuf'[j] = sysBuf[j]
        /\ where'[i] # "lowerOk"
    BY <1>2 DEF CheckProtect, CoreType, Ownership
  <2>2. pc \in {"served", "readSet", "forwarded"} => cur \in Irps /\ cur # i
    BY <2>1 DEF Ownership, Serving, Held
  <2> QED  BY <2>1, <2>2, RepliesKept
<1>3. ASSUME NEW i \in Irps, InsertTail(i) PROVE Replies'
  <2>1. /\ UNCHANGED <<disk, bitmap, kind, range, pc, cur, fileBuf>>
        /\ where[i] = "caller"
        /\ \A j \in Irps : j # i => where'[j] = where[j] /\ sysBuf'[j] = sysBuf[j]
        /\ where'[i] # "lowerOk"
    BY <1>3 DEF InsertTail, CoreType, Ownership
  <2>2. pc \in {"served", "readSet", "forwarded"} => cur \in Irps /\ cur # i
    BY <2>1 DEF Ownership, Serving, Held
  <2> QED  BY <2>1, <2>2, RepliesKept
<1>4. ASSUME NEW i \in Irps, SetReqEvent(i) PROVE Replies'
  <2>1. UNCHANGED <<disk, bitmap, kind, range, pc, cur, fileBuf, where, sysBuf>>
    BY <1>4 DEF SetReqEvent
  <2> QED  BY <2>1, RepliesKept
<1>5. CASE WaitReqEvent
  <2>1. /\ UNCHANGED <<disk, bitmap, kind, range>>
        /\ \A i \in Irps : where'[i] = "lowerOk" => where[i] = "lowerOk" /\ sysBuf'[i] = sysBuf[i]
        /\ pc' \notin {"served", "readSet", "forwarded"}
    BY <1>5 DEF WaitReqEvent, Goto
  <2> QED  BY <2>1, RepliesKept
<1>6. CASE TestTermFlag
  <2>1. /\ UNCHANGED <<disk, bitmap, kind, range>>
        /\ \A i \in Irps : where'[i] = "lowerOk" => where[i] = "lowerOk" /\ sysBuf'[i] = sysBuf[i]
        /\ pc' \notin {"served", "readSet", "forwarded"}
    BY <1>6 DEF TestTermFlag, Goto
  <2> QED  BY <2>1, RepliesKept
<1>7. CASE QueueIsEmpty
  <2>1. /\ UNCHANGED <<disk, bitmap, kind, range>>
        /\ \A i \in Irps : where'[i] = "lowerOk" => where[i] = "lowerOk" /\ sysBuf'[i] = sysBuf[i]
        /\ pc' \notin {"served", "readSet", "forwarded"}
    BY <1>7 DEF QueueIsEmpty, Goto
  <2> QED  BY <2>1, RepliesKept
<1>8. CASE RemoveHead
  <2>1. /\ UNCHANGED <<disk, bitmap, kind, range>>
        /\ \A i \in Irps : where'[i] = "lowerOk" => where[i] = "lowerOk" /\ sysBuf'[i] = sysBuf[i]
        /\ pc' \notin {"served", "readSet", "forwarded"}
    BY <1>8 DEF RemoveHead, CoreType
  <2> QED  BY <2>1, RepliesKept
<1>9. CASE Serve
  <2>1. cur \in Irps /\ where[cur] = "worker" /\ Pending(cur)
    BY <1>9 DEF Serve, Ownership, OneServed, Serving, Pending, Ended
  <2>2. /\ UNCHANGED <<disk, bitmap, range, kind, sysBuf>>
        /\ \A i \in Irps : where'[i] = where[i] \/ (i = cur /\ where'[i] = "lower")
        /\ pc' \in {"drain", "readSet", "readBlend", "failed", "write"}
    BY <1>9 DEF Serve, SendDown, Goto, FirstWriteStep, CoreType
  <2>3. pc' = "readSet" => cur' = cur /\ bitmap # NULL /\ range[cur] \subseteq bitmap
    BY <1>9 DEF Serve, SendDown, Goto, FirstWriteStep, TestBitmap
  <2>4. ASSUME NEW i \in Irps, where'[i] = "lowerOk", NEW s \in range[i]
        PROVE  IF kind[i] = "read" THEN sysBuf[i][s] \in seen'[i][s] ELSE i \in seen'[i][s]
    <3>1. where[i] = "lowerOk" /\ Pending(i)' /\ s \in Sectors
      BY <2>2, <2>4 DEF Pending, Ended, CoreType
    <3> QED  BY <3>1, <2>4 DEF Replies, Grown
  <2> QED  BY <2>2, <2>3, <2>4 DEF Replies
<1>10. CASE ReadFileFails
  <2>1. /\ UNCHANGED <<disk, bitmap, kind, range>>
        /\ \A i \in Irps : where'[i] = "lowerOk" => where[i] = "lowerOk" /\ sysBuf'[i] = sysBuf[i]
        /\ pc' \notin {"served", "readSet", "forwarded"}
    BY <1>10 DEF ReadFileFails, Goto
  <2> QED  BY <2>1, RepliesKept
<1>11. CASE ReadFileOfSet
  <2>1. cur \in Irps /\ where[cur] = "worker" /\ Pending(cur)
    BY <1>11 DEF ReadFileOfSet, Ownership, OneServed, Serving, Pending, Ended
  <2>2. /\ pc = "readSet" /\ pc' = "served" /\ kind[cur] = "read"
        /\ bitmap # NULL /\ range[cur] \subseteq bitmap
        /\ UNCHANGED <<temp, bitmap, range, kind, where, cur>>
    BY <1>11 DEF ReadFileOfSet, Goto, OneServed, Replies
  <2>3. /\ \A s \in range[cur] : s \in Sectors /\ sysBuf'[cur][s] = temp[s]
        /\ \A i \in Irps : i # cur => sysBuf'[i] = sysBuf[i]
    BY <1>11, <2>1 DEF ReadFileOfSet, CoreType
  <2>4. \A s \in range[cur] : Visible'[s] = temp[s]
    BY <2>2, <2>3 DEF Visible
  <2>5. \A s \in range[cur] : sysBuf'[cur][s] \in seen'[cur][s]
    BY <2>1, <2>2, <2>3, <2>4 DEF Grown, Pending
  <2>6. ASSUME NEW i \in Irps, where[i] = "lowerOk", NEW s \in range[i]
        PROVE  IF kind[i] = "read" THEN sysBuf'[i][s] \in seen'[i][s] ELSE i \in seen'[i][s]
    <3>1. i # cur /\ Pending(i)' /\ s \in Sectors
      BY <2>1, <2>2, <2>6 DEF Pending, Ended, CoreType
    <3> QED  BY <3>1, <2>3, <2>6 DEF Replies, Grown
  <2> QED  BY <2>2, <2>5, <2>6 DEF Replies
<1>12. CASE ReadFileOfBlend
  <2>1. cur \in Irps /\ where[cur] = "worker" /\ Pending(cur)
    BY <1>12 DEF ReadFileOfBlend, Ownership, OneServed, Serving, Pending, Ended
  <2>2. /\ pc' = "forwarded" /\ where'[cur] = "sync"
        /\ UNCHANGED <<temp, disk, bitmap, range, kind, sysBuf, cur>>
        /\ \A i \in Irps : i # cur => where'[i] = where[i]
    BY <1>12, <2>1 DEF ReadFileOfBlend, CoreType
  <2>3. \A s \in range[cur] : s \in Sectors /\ fileBuf'[s] = temp[s]
    BY <1>12, <2>1 DEF ReadFileOfBlend, CoreType
  <2>4. bitmap # NULL => \A s \in range[cur] :
            Visible'[s] = IF s \in bitmap THEN temp[s] ELSE disk[s]
    BY <2>2, <2>3 DEF Visible
  <2>5. \A s \in range[cur] : Visible'[s] \in seen'[cur][s]
    BY <2>1, <2>2, <2>3 DEF Grown, Pending, Ended
  <2>6. ASSUME NEW i \in Irps, where'[i] = "lowerOk", NEW s \in range[i]
        PROVE  IF kind[i] = "read" THEN sysBuf[i][s] \in seen'[i][s] ELSE i \in seen'[i][s]
    <3>1. where[i] = "lowerOk" /\ Pending(i)' /\ s \in Sectors
      BY <2>2, <2>6 DEF Pending, Ended, CoreType
    <3> QED  BY <3>1, <2>6 DEF Replies, Grown
  <2> QED  BY <2>2, <2>3, <2>4, <2>5, <2>6 DEF Replies
<1>13. CASE Merge
  <2>1. /\ pc = "forwarded" /\ where[cur] = "syncOk" /\ bitmap # NULL /\ cur \in Irps
        /\ kind[cur] = "read" /\ UNCHANGED <<bitmap, range, kind, cur>>
        /\ pc' = "served" /\ where'[cur] = "worker"
        /\ \A s \in Sectors : sysBuf'[cur][s] = Merged(s)
        /\ \A j \in Irps : j # cur => where'[j] = where[j] /\ sysBuf'[j] = sysBuf[j]
    BY <1>13 DEF Merge, CoreType, Ownership, OneServed, Serving
  <2>2. Pending(cur)'
    BY <2>1 DEF Pending, Ended
  <2>3. ASSUME NEW s \in range[cur] PROVE sysBuf'[cur][s] \in seen'[cur][s]
    <3>1. s \in Sectors
      BY <2>1 DEF CoreType
    <3>2. seen[cur][s] \subseteq seen'[cur][s]
      BY <2>1, <2>2, <3>1 DEF Grown, Pending
    <3>3. Merged(s) \in seen[cur][s]
      BY <2>1 DEF Merged, Replies
    <3> QED  BY <2>1, <3>1, <3>2, <3>3
  <2>4. ASSUME NEW j \in Irps, where'[j] = "lowerOk", NEW s \in range[j]
        PROVE  IF kind[j] = "read" THEN sysBuf'[j][s] \in seen'[j][s] ELSE j \in seen'[j][s]
    <3>1. j # cur /\ where[j] = "lowerOk" /\ Pending(j)' /\ s \in Sectors
      BY <2>1, <2>4 DEF Pending, Ended, CoreType
    <3>2. seen[j][s] \subseteq seen'[j][s]
      BY <3>1 DEF Grown
    <3> QED  BY <2>1, <3>1, <3>2 DEF Replies
  <2> QED  BY <2>1, <2>3, <2>4 DEF Replies
<1>14. CASE MergeFails
  <2>1. /\ UNCHANGED <<disk, bitmap, kind, range>>
        /\ \A i \in Irps : where'[i] = "lowerOk" => where[i] = "lowerOk" /\ sysBuf'[i] = sysBuf[i]
        /\ pc' \notin {"served", "readSet", "forwarded"}
    BY <1>14 DEF MergeFails, CoreType
  <2> QED  BY <2>1, RepliesKept
<1>15. CASE WriteFile
  <2>1. /\ UNCHANGED <<disk, bitmap, kind, range>>
        /\ \A i \in Irps : where'[i] = "lowerOk" => where[i] = "lowerOk" /\ sysBuf'[i] = sysBuf[i]
        /\ pc' \notin {"served", "readSet", "forwarded"}
    BY <1>15 DEF WriteFile, Goto
  <2> QED  BY <2>1, RepliesKept
<1>16. CASE WriteFileFails
  <2>1. /\ UNCHANGED <<disk, bitmap, kind, range>>
        /\ \A i \in Irps : where'[i] = "lowerOk" => where[i] = "lowerOk" /\ sysBuf'[i] = sysBuf[i]
        /\ pc' \notin {"served", "readSet", "forwarded"}
    BY <1>16 DEF WriteFileFails, Goto
  <2> QED  BY <2>1, RepliesKept
<1>17. CASE MarkBitmap
  <2>1. cur \in Irps /\ where[cur] = "worker" /\ Pending(cur)
    BY <1>17 DEF MarkBitmap, Ownership, OneServed, Serving, Pending, Ended
  <2>2. /\ pc = "mark" /\ pc' = "served" /\ kind[cur] = "write"
        /\ bitmap' = bitmap \cup range[cur] /\ bitmap # NULL
        /\ UNCHANGED <<temp, range, kind, sysBuf, where, cur>>
    BY <1>17 DEF MarkBitmap, Marked, Goto, OneServed
  <2>3. bitmap' # NULL /\ \A s \in range[cur] : s \in Sectors /\ temp[s] = cur
    BY <2>1, <2>2, DriverAssumption DEF FileData, CoreType
  <2>4. \A s \in range[cur] : Visible'[s] = cur
    BY <2>2, <2>3 DEF Visible
  <2>5. \A s \in range[cur] : cur \in seen'[cur][s]
    BY <2>1, <2>2, <2>3, <2>4 DEF Grown, Pending
  <2>6. ASSUME NEW i \in Irps, where'[i] = "lowerOk", NEW s \in range[i]
        PROVE  IF kind[i] = "read" THEN sysBuf[i][s] \in seen'[i][s] ELSE i \in seen'[i][s]
    <3>1. where[i] = "lowerOk" /\ Pending(i)' /\ s \in Sectors
      BY <2>2, <2>6 DEF Pending, Ended, CoreType
    <3> QED  BY <3>1, <2>6 DEF Replies, Grown
  <2> QED  BY <2>2, <2>5, <2>6 DEF Replies
<1>18. CASE MarkBitmapFails
  <2>1. /\ UNCHANGED <<disk, bitmap, kind, range>>
        /\ \A i \in Irps : where'[i] = "lowerOk" => where[i] = "lowerOk" /\ sysBuf'[i] = sysBuf[i]
        /\ pc' \notin {"served", "readSet", "forwarded"}
    BY <1>18 DEF MarkBitmapFails, Goto, CoreType
  <2> QED  BY <2>1, RepliesKept
<1>19. CASE CompleteRequest
  <2>1. /\ UNCHANGED <<disk, bitmap, kind, range>>
        /\ \A i \in Irps : where'[i] = "lowerOk" => where[i] = "lowerOk" /\ sysBuf'[i] = sysBuf[i]
        /\ pc' \notin {"served", "readSet", "forwarded"}
    BY <1>19 DEF CompleteRequest, Ending, CoreType, Ownership, Serving, Held
  <2> QED  BY <2>1, RepliesKept
<1>20. ASSUME NEW i \in Irps, LowerRead(i) PROVE Replies'
  <2>1. /\ UNCHANGED <<disk, bitmap, range, kind, cur, pc, fileBuf>>
        /\ kind[i] = "read" /\ where[i] \in {"lower", "sync"}
        /\ \A j \in Irps : j # i => where'[j] = where[j] /\ sysBuf'[j] = sysBuf[j]
    BY <1>20 DEF LowerRead, CoreType
  <2>2. /\ where'[i] \in {"lowerOk", "lowerErr"} => where[i] = "lower"
        /\ where'[i] \in {"syncOk", "syncErr"} => where[i] = "sync"
        /\ where'[i] \in {"lowerOk", "lowerErr", "syncOk", "syncErr"}
        /\ where'[i] \in {"lowerOk", "syncOk"} => \A s \in range[i] : sysBuf'[i][s] = disk[s]
    BY <1>20 DEF LowerRead, CoreType
  <2>3. \A j \in Irps : Pending(j) => Pending(j)'
    BY <2>1, <2>2 DEF Pending, Ended
  <2>4. ASSUME NEW j \in Irps, where'[j] = "lowerOk", NEW s \in range[j]
        PROVE  IF kind[j] = "read" THEN sysBuf'[j][s] \in seen'[j][s] ELSE j \in seen'[j][s]
    <3>1. Pending(j)' /\ s \in Sectors
      BY <2>4 DEF Pending, Ended, CoreType
    <3>2. CASE j = i
      BY <2>1, <2>2, <2>4, <3>1, <3>2 DEF History, Grown
    <3>3. CASE j # i
      BY <2>1, <2>4, <3>1, <3>3 DEF Replies, Grown
    <3> QED  BY <3>2, <3>3
  <2>5. pc \in Serving => cur \in Irps /\ Pending(cur)' /\ range[cur] \subseteq Sectors
    BY <2>1, <2>3 DEF Ownership, Held, Pending, Ended, CoreType
  <2>6. pc \in {"served", "readSet"} => cur # i
    BY <2>1 DEF OneServed, Serving
  <2>7. ASSUME pc = "forwarded", bitmap # NULL, NEW s \in range[cur]
        PROVE  IF s \in bitmap THEN fileBuf[s] \in seen'[cur][s]
               ELSE /\ where'[cur] = "sync" => disk[s] \in seen'[cur][s]
                    /\ where'[cur] = "syncOk" => sysBuf'[cur][s] \in seen'[cur][s]
    <3>1. cur \in Irps /\ Pending(cur)' /\ s \in Sectors
      BY <2>5, <2>7 DEF Serving
    <3>2. seen[cur][s] \subseteq seen'[cur][s]
      BY <2>1, <3>1 DEF Grown
    <3>3. CASE cur = i
      BY <2>1, <2>2, <2>7, <3>2, <3>3 DEF Replies
    <3>4. CASE cur # i
      BY <2>1, <2>7, <3>1, <3>2, <3>4 DEF Replies
    <3> QED  BY <3>3, <3>4
  <2>8. pc = "served" => \A s \in range[cur] : IF kind[cur] = "read" THEN sysBuf'[cur][s] \in seen'[cur][s]
                                                                   ELSE cur \in seen'[cur][s]
    BY <2>1, <2>5, <2>6 DEF Replies, Grown, Serving
  <2> QED  BY <2>1, <2>4, <2>7, <2>8 DEF Replies
<1>21. ASSUME NEW i \in Irps, LowerWrite(i) PROVE Replies'
  <2>1. /\ UNCHANGED <<bitmap, range, kind, cur, pc, fileBuf, sysBuf>>
        /\ kind[i] = "write" /\ where[i] = "lower"
        /\ \A j \in Irps : j # i => where'[j] = where[j]
        /\ where'[i] \in {"lowerOk", "lowerErr"}
    BY <1>21 DEF LowerWrite, CoreType
  <2>2. where'[i] = "lowerOk" => \A s \in range[i] : s \in Sectors /\ disk'[s] = i /\ disk[s] # i
    <3>1. \A s \in range[i] : s \in Sectors /\ disk[s] # i
      BY <2>1 DEF CoreType, Writers, Ended
    <3>2. where'[i] = "lowerOk" => disk' = [s \in Sectors |-> IF s \in range[i] THEN i ELSE disk[s]]
      BY <1>21 DEF LowerWrite, CoreType
    <3> QED  BY <3>1, <3>2
  <2>3. \A j \in Irps : Pending(j) => Pending(j)'
    BY <2>1 DEF Pending, Ended
  <2>4. ASSUME NEW j \in Irps, where'[j] = "lowerOk", NEW s \in range[j]
        PROVE  IF kind[j] = "read" THEN sysBuf[j][s] \in seen'[j][s] ELSE j \in seen'[j][s]
    <3>1. Pending(j)' /\ s \in Sectors
      BY <2>4 DEF Pending, Ended, CoreType
    <3>2. CASE j = i
      BY <2>1, <2>2, <2>4, <3>1, <3>2 DEF Grown
    <3>3. CASE j # i
      BY <2>1, <2>4, <3>1, <3>3 DEF Replies, Grown
    <3> QED  BY <3>2, <3>3
  <2>5. pc \in Serving => cur \in Irps /\ cur # i /\ Pending(cur)' /\ range[cur] \subseteq Sectors
    BY <2>1, <2>3 DEF Ownership, Held, Pending, Ended, CoreType
  <2>6. pc = "forwarded" /\ bitmap # NULL => \A s \in range[cur] :
            IF s \in bitmap THEN fileBuf[s] \in seen'[cur][s]
            ELSE /\ where'[cur] = "sync" => disk'[s] \in seen'[cur][s]
                 /\ where'[cur] = "syncOk" => sysBuf[cur][s] \in seen'[cur][s]
    BY <2>1, <2>5 DEF Replies, Grown, Serving
  <2>7. pc = "served" => \A s \in range[cur] : IF kind[cur] = "read" THEN sysBuf[cur][s] \in seen'[cur][s]
                                                                   ELSE cur \in seen'[cur][s]
    BY <2>1, <2>5 DEF Replies, Grown, Serving
  <2> QED  BY <2>1, <2>4, <2>6, <2>7 DEF Replies
<1>22. ASSUME NEW i \in Irps, LowerComplete(i) PROVE Replies'
  <2>1. /\ UNCHANGED <<disk, bitmap, kind, range, pc, cur, fileBuf>>
        /\ where[i] \in {"lowerOk", "lowerErr"}
        /\ \A j \in Irps : j # i => where'[j] = where[j] /\ sysBuf'[j] = sysBuf[j]
        /\ where'[i] # "lowerOk"
    BY <1>22 DEF LowerComplete, CoreType, Ownership
  <2>2. pc \in {"served", "readSet", "forwarded"} => cur \in Irps /\ cur # i
    BY <2>1 DEF Ownership, Serving, Held
  <2> QED  BY <2>1, <2>2, RepliesKept
<1>23. CASE VolumeOnline
  <2>1. onlines = 0 /\ UNCHANGED <<range, kind, sysBuf, where, pc>>
    BY <1>23, DriverAssumption DEF VolumeOnline, CoreType
  <2>2. pc \notin Serving
    BY <2>1 DEF Booted, Ownership
  <2>3. ASSUME NEW i \in Irps, where[i] = "lowerOk", NEW s \in range[i]
        PROVE  IF kind[i] = "read" THEN sysBuf[i][s] \in seen'[i][s] ELSE i \in seen'[i][s]
    <3>1. Pending(i)' /\ s \in Sectors
      BY <2>1, <2>3 DEF Pending, Ended, CoreType
    <3> QED  BY <3>1, <2>3 DEF Replies, Grown
  <2> QED  BY <2>1, <2>2, <2>3 DEF Replies, Serving
<1>24. CASE VolumeOnlineFails
  <2>1. onlines = 0 /\ UNCHANGED <<range, kind, sysBuf, where, pc>>
    BY <1>24, DriverAssumption DEF VolumeOnlineFails, CoreType
  <2>2. pc \notin Serving
    BY <2>1 DEF Booted, Ownership
  <2>3. ASSUME NEW i \in Irps, where[i] = "lowerOk", NEW s \in range[i]
        PROVE  IF kind[i] = "read" THEN sysBuf[i][s] \in seen'[i][s] ELSE i \in seen'[i][s]
    <3>1. Pending(i)' /\ s \in Sectors
      BY <2>1, <2>3 DEF Pending, Ended, CoreType
    <3> QED  BY <3>1, <2>3 DEF Replies, Grown
  <2> QED  BY <2>1, <2>2, <2>3 DEF Replies, Serving
<1>25. CASE Restart
  BY <1>25 DEF Restart, LoseMemory, CoreType, Ownership, OneServed, Replies, Grown, Serving,
     Held, Pending, Ended
<1>26. CASE Reinitialize
  <2>1. UNCHANGED <<disk, bitmap, kind, range, pc, cur, fileBuf, where, sysBuf>>
    BY <1>26 DEF Reinitialize
  <2> QED  BY <2>1, RepliesKept
<1>27. CASE ReinitializeCrashes
  BY <1>27 DEF ReinitializeCrashes, LoseMemory, CoreType, Ownership, OneServed, Replies,
     Grown, Serving, Held, Pending, Ended
<1>28. CASE RemoveDevice
  <2>1. UNCHANGED <<disk, bitmap, kind, range, pc, cur, fileBuf, where, sysBuf>>
    BY <1>28 DEF RemoveDevice
  <2> QED  BY <2>1, RepliesKept
<1>29. CASE RemoveDeviceEnds
  <2>1. UNCHANGED <<disk, bitmap, kind, range, pc, cur, fileBuf, where, sysBuf>>
    BY <1>29 DEF RemoveDeviceEnds
  <2> QED  BY <2>1, RepliesKept
<1> QED
  BY <1>1, <1>2, <1>3, <1>4, <1>5, <1>6, <1>7, <1>8, <1>9, <1>10, <1>11, <1>12, <1>13,
     <1>14, <1>15, <1>16, <1>17, <1>18, <1>19, <1>20, <1>21, <1>22, <1>23, <1>24, <1>25,
     <1>26, <1>27, <1>28, <1>29 DEF Step, Dispatch, Worker, Lower, System

LEMMA InitVolume == Init => VolumeInv /\ Volume!Init
<1> SUFFICES ASSUME Init PROVE VolumeInv /\ Volume!Init
  OBVIOUS
<1>1. CoreType /\ Ownership /\ FileData /\ DiskProtected
  BY InitCore, InitSafe
<1>2. QueueOnce /\ OneServed /\ Booted /\ Redirected /\ Replies
  BY DEF Init, QueueOnce, OneServed, Booted, Redirected, Replies, Held, Serving
<1>3. Writers
  BY DriverAssumption DEF Init, Writers, Blank
<1>4. History
  BY DEF Init, History, Pending
<1>5. Visible = disk
  BY DEF Init, Visible
<1>6. Volume!Init
  BY <1>5 DEF Init, Volume!Init, Blank
<1> QED  BY <1>1, <1>2, <1>3, <1>4, <1>6 DEF VolumeInv

\* All parts of the invariant together.
LEMMA VolumeInvStep ==
    ASSUME "map" \notin Faults, MaxOnline <= 1, VolumeInv, [Next]_vars
    PROVE  VolumeInv'
<1>1. CoreType' /\ Ownership' /\ FileData' /\ DiskProtected'
  BY CoreTypeStep, OwnershipStep, FileStep, DiskStep DEF VolumeInv
<1>2. QueueOnce' /\ OneServed' /\ Writers' /\ Booted' /\ Redirected'
  BY QueueStep, ServedStep, WritersStep, BootedStep, RedirectedStep DEF VolumeInv
<1>3. History'
  BY <1>1, HistoryStep DEF VolumeInv
<1>4. Replies'
  <2>1. CASE UNCHANGED vars
    BY <2>1 DEF VolumeInv, Replies, vars, devVars, workVars, irpVars
  <2>2. CASE Next
    BY <1>1, <2>2, Grows, RepliesStep DEF Next, VolumeInv
  <2> QED  BY <2>1, <2>2
<1> QED  BY <1>1, <1>2, <1>3, <1>4 DEF VolumeInv

\* A step that nobody sees leaves the abstract volume, its history included,
\* as it is.
LEMMA Stutters ==
    ASSUME History, Observe, Silent
    PROVE  VolumeStep
<1>1. ASSUME NEW i \in Irps, NEW s \in Sectors PROVE seen'[i][s] = seen[i][s]
  <2>1. Pending(i)' <=> Pending(i)
    BY DEF Silent, PhaseOf, Pending, Ended
  <2>2. Visible'[s] = Visible[s] /\ disk'[s] = disk[s]
    BY DEF Silent
  <2>3. seen'[i][s] = IF Pending(i)' THEN seen[i][s] \cup {Visible'[s]} ELSE {}
    BY <2>2 DEF Observe, Pending
  <2>4. IF Pending(i) THEN Visible[s] \in seen[i][s] ELSE seen[i][s] = {}
    BY DEF History
  <2>5. CASE Pending(i)
    BY <2>1, <2>2, <2>3, <2>4, <2>5
  <2>6. CASE ~Pending(i)
    BY <2>1, <2>3, <2>4, <2>6
  <2> QED  BY <2>5, <2>6
<1>2. seen' = [i \in Irps |-> [s \in Sectors |-> seen'[i][s]]]
  BY DEF Observe
<1>3. seen = [i \in Irps |-> [s \in Sectors |-> seen[i][s]]]
  BY DEF History
<1>4. seen' = seen
  BY <1>1, <1>2, <1>3
<1>5. [i \in Irps |-> IF where[i] \in Ended \cup {"idle"} THEN where[i] ELSE "pending"]'
        = [i \in Irps |-> IF where[i] \in Ended \cup {"idle"} THEN where[i] ELSE "pending"]
  BY DEF Silent, PhaseOf, Pending
<1> QED  BY <1>4, <1>5 DEF VolumeStep, Volume!vars, Silent

\* The two histories are one.
LEMMA Observes ==
    ASSUME Observe
    PROVE  Volume!Observe
  BY DEF Observe, Volume!Observe, Ended


\* Every step of the driver is one of the volume, or none.
LEMMA MapsStep ==
    ASSUME "map" \notin Faults, MaxOnline <= 1, CoreType, Ownership, FileData,
       DiskProtected, QueueOnce, OneServed, Booted, History, Replies, Observe, Step
    PROVE  VolumeStep
<1> USE DEF devVars, reqVars, workVars, irpVars, boot
<1>1. ASSUME NEW i \in Irps, NEW k \in {"read", "write"}, NEW r \in Ranges, Submit(i, k, r) PROVE VolumeStep
  <2>1. /\ where[i] = "idle" /\ where' = [where EXCEPT ![i] = "caller"]
        /\ UNCHANGED <<disk, protect, through, sysBuf, temp, bitmap>>
    BY <1>1 DEF Submit
  <2>2. [j \in Irps |-> IF where[j] \in Ended \cup {"idle"} THEN where[j] ELSE "pending"]'
          = [[j \in Irps |-> IF where[j] \in Ended \cup {"idle"} THEN where[j] ELSE "pending"]
               EXCEPT ![i] = "pending"]
    BY <2>1 DEF Ended, CoreType
  <2>3. /\ \E h \in {"read", "write"} : kind' = [kind EXCEPT ![i] = h]
        /\ \E q \in SUBSET Sectors : range' = [range EXCEPT ![i] = q]
    BY <1>1, DriverAssumption DEF Submit
  <2>4. Visible' = Visible
    BY <2>1 DEF Visible
  <2>5. Volume!Submit(i)
    BY <2>1, <2>2, <2>3, <2>4 DEF Volume!Submit, Ended
  <2> QED  BY <2>5, Observes DEF VolumeStep, Volume!Next
<1>2. ASSUME NEW i \in Irps, CheckProtect(i) PROVE VolumeStep
  <2>1. where[i] = "caller"
    BY <1>2 DEF CheckProtect, Ownership
  <2>2. CASE protect
    <3>1. Silent
      BY <1>2, <2>2 DEF CheckProtect, Silent, Visible, PhaseOf, Pending, Ended, CoreType
    <3> QED  BY <3>1, Stutters
  <2>3. CASE ~protect
    <3>1. Volume!LetThrough(i)
      BY <1>2, <2>1, <2>3 DEF CheckProtect, Volume!LetThrough, Volume!Pending, Visible, Ended, CoreType
    <3> QED  BY <3>1, Observes DEF VolumeStep, Volume!Next
  <2> QED  BY <2>2, <2>3
<1>3. ASSUME NEW i \in Irps, InsertTail(i) PROVE VolumeStep
  <2>1. Silent
    BY <1>3 DEF InsertTail, Ownership, Silent, Visible, PhaseOf, Pending, Ended, CoreType
  <2> QED  BY <2>1, Stutters
<1>4. ASSUME NEW i \in Irps, SetReqEvent(i) PROVE VolumeStep
  <2>1. Silent
    BY <1>4 DEF SetReqEvent, Silent, Visible, PhaseOf, Pending, Ended, CoreType
  <2> QED  BY <2>1, Stutters
<1>5. CASE WaitReqEvent
  <2>1. Silent
    BY <1>5 DEF WaitReqEvent, Silent, Visible, PhaseOf, Pending, Ended, CoreType
  <2> QED  BY <2>1, Stutters
<1>6. CASE TestTermFlag
  <2>1. Silent
    BY <1>6 DEF TestTermFlag, Silent, Visible, PhaseOf, Pending, Ended, CoreType
  <2> QED  BY <2>1, Stutters
<1>7. CASE QueueIsEmpty
  <2>1. Silent
    BY <1>7 DEF QueueIsEmpty, Silent, Visible, PhaseOf, Pending, Ended, CoreType
  <2> QED  BY <2>1, Stutters
<1>8. CASE RemoveHead
  <2>1. Head(queue) \in Irps /\ where[Head(queue)] = "queue"
    BY <1>8 DEF RemoveHead, Drained, CoreType, QueueOnce
  <2>2. Silent
    BY <1>8, <2>1 DEF RemoveHead, Silent, Visible, PhaseOf, Pending, Ended, CoreType
  <2> QED  BY <2>2, Stutters
<1>9. CASE Serve
  <2>1. Silent
    BY <1>9 DEF Serve, SendDown, Goto, Ownership, OneServed, Serving, Silent, Visible, PhaseOf, Pending, Ended, CoreType
  <2> QED  BY <2>1, Stutters
<1>10. CASE ReadFileFails
  <2>1. Silent
    BY <1>10 DEF ReadFileFails, Goto, Silent, Visible, PhaseOf, Pending, Ended, CoreType
  <2> QED  BY <2>1, Stutters
<1>11. CASE ReadFileOfSet
  <2>1. cur \in Irps /\ kind[cur] = "read" /\ where[cur] \in Held
    BY <1>11 DEF ReadFileOfSet, Ownership, OneServed, Serving
  <2>2. Volume!PrepareReply(cur)
    BY <1>11, <2>1 DEF ReadFileOfSet, Volume!PrepareReply, Volume!Pending, Visible, Held, Ended, CoreType
  <2> QED  BY <2>1, <2>2, Observes DEF VolumeStep, Volume!Next
<1>12. CASE ReadFileOfBlend
  <2>1. Silent
    BY <1>12 DEF ReadFileOfBlend, Ownership, OneServed, Serving, Silent, Visible, PhaseOf, Pending, Ended, CoreType
  <2> QED  BY <2>1, Stutters
<1>13. CASE Merge
  <2>1. cur \in Irps /\ kind[cur] = "read" /\ where[cur] \in Held
    BY <1>13 DEF Merge, Ownership, OneServed, Serving
  <2>2. Volume!PrepareReply(cur)
    BY <1>13, <2>1 DEF Merge, Volume!PrepareReply, Volume!Pending, Visible, Held, Ended, CoreType
  <2> QED  BY <2>1, <2>2, Observes DEF VolumeStep, Volume!Next
<1>14. CASE MergeFails
  <2>1. Silent
    BY <1>14 DEF MergeFails, Ownership, OneServed, Serving, Held, Silent, Visible, PhaseOf, Pending, Ended, CoreType
  <2> QED  BY <2>1, Stutters
<1>15. CASE WriteFile
  <2>1. /\ cur \in Irps /\ kind[cur] = "write" /\ where[cur] \in Held /\ cur \notin through
    BY <1>15 DEF WriteFile, Ownership, OneServed, Serving
  <2>2. /\ UNCHANGED <<disk, bitmap, protect, where, kind, range, through, sysBuf>>
        /\ temp' = [s \in Sectors |-> IF s \in range[cur] THEN cur ELSE temp[s]]
    BY <1>15 DEF WriteFile
  <2>3. CASE bitmap = NULL
    <3>1. Silent
      BY <2>2, <2>3 DEF Silent, Visible, PhaseOf, Pending
    <3> QED  BY <3>1, Stutters
  <2>4. CASE bitmap # NULL
    <3> DEFINE S == range[cur] \cap bitmap
    <3>1. S \in SUBSET range[cur]
      OBVIOUS
    <3>2. Visible' = [s \in Sectors |-> IF s \in S THEN cur ELSE Visible[s]]
      BY <2>2, <2>4 DEF Visible
    <3>3. Volume!Overlay(cur)
      BY <2>1, <2>2, <3>1, <3>2 DEF Volume!Overlay, Volume!Pending, Held, Ended
    <3> QED  BY <2>1, <3>3, Observes DEF VolumeStep, Volume!Next
  <2> QED  BY <2>3, <2>4
<1>16. CASE WriteFileFails
  <2>1. /\ cur \in Irps /\ kind[cur] = "write" /\ where[cur] \in Held /\ cur \notin through
    BY <1>16 DEF WriteFileFails, Ownership, OneServed, Serving
  <2>2. UNCHANGED <<disk, bitmap, protect, where, kind, range, through, sysBuf>>
    BY <1>16 DEF WriteFileFails
  <2>3. CASE bitmap = NULL \/ UNCHANGED temp
    <3>1. Silent
      BY <2>2, <2>3 DEF Silent, Visible, PhaseOf, Pending
    <3> QED  BY <3>1, Stutters
  <2>4. ASSUME bitmap # NULL, NEW T \in SUBSET range[cur],
               temp' = [s \in Sectors |-> IF s \in T THEN cur ELSE temp[s]]
        PROVE  VolumeStep
    <3> DEFINE S == T \cap bitmap
    <3>1. S \in SUBSET range[cur]
      OBVIOUS
    <3>2. Visible' = [s \in Sectors |-> IF s \in S THEN cur ELSE Visible[s]]
      BY <2>2, <2>4 DEF Visible
    <3>3. Volume!Overlay(cur)
      BY <2>1, <2>2, <3>1, <3>2 DEF Volume!Overlay, Volume!Pending, Held, Ended
    <3> QED  BY <2>1, <3>3, Observes DEF VolumeStep, Volume!Next
  <2> QED  BY <1>16, <2>3, <2>4 DEF WriteFileFails
<1>17. CASE MarkBitmap
  <2>1. /\ cur \in Irps /\ kind[cur] = "write" /\ where[cur] \in Held /\ cur \notin through
        /\ range[cur] \in SUBSET Sectors
    BY <1>17 DEF MarkBitmap, Ownership, OneServed, Serving, CoreType
  <2>2. /\ UNCHANGED <<disk, temp, protect, where, kind, range, through, sysBuf>>
        /\ bitmap # NULL /\ bitmap \in SUBSET Sectors /\ bitmap' = bitmap \cup range[cur]
    BY <1>17 DEF MarkBitmap, Marked, CoreType
  <2>3. bitmap' # NULL
    BY <2>1, <2>2, DriverAssumption
  <2>4. \A s \in range[cur] : temp[s] = cur
    BY <1>17 DEF MarkBitmap, FileData
  <2>5. Visible' = [s \in Sectors |-> IF s \in range[cur] THEN cur ELSE Visible[s]]
    BY <2>2, <2>3, <2>4 DEF Visible
  <2>6. Volume!Overlay(cur)
    BY <2>1, <2>2, <2>5 DEF Volume!Overlay, Volume!Pending, Held, Ended
  <2> QED  BY <2>1, <2>6, Observes DEF VolumeStep, Volume!Next
<1>18. CASE MarkBitmapFails
  <2>1. Silent
    BY <1>18 DEF MarkBitmapFails, Silent, Visible, PhaseOf, Pending, Ended, CoreType
  <2> QED  BY <2>1, Stutters
<1>19. CASE CompleteRequest
  <2>1. PICK i \in Irps : i = cur /\ where[i] \in Held
    BY <1>19 DEF CompleteRequest, Ownership, Serving
  <2>2. /\ UNCHANGED <<disk, temp, bitmap, protect, kind, range, through>>
        /\ \A j \in Irps \ {i} : sysBuf'[j] = sysBuf[j]
        /\ where' = [where EXCEPT ![i] = Ending]
    BY <1>19, <2>1 DEF CompleteRequest, CoreType
  <2>3. CASE pc = "served"
    <3>1. \A s \in range[i] : IF kind[i] = "read" THEN sysBuf[i][s] \in seen[i][s]
                                                  ELSE i \in seen[i][s]
      BY <2>1, <2>3 DEF Replies
    <3>2. kind[i] \in {"read", "write"}
      BY DEF CoreType
    <3>3. Volume!Succeed(i)
      BY <2>1, <2>2, <2>3, <3>1, <3>2
         DEF Volume!Succeed, Volume!Pending, Ending, Visible, Held, Ended, CoreType
    <3> QED  BY <3>3, Observes DEF VolumeStep, Volume!Next
  <2>4. CASE pc = "failed"
    <3>1. Volume!Fail(i)
      BY <2>1, <2>2, <2>4 DEF Volume!Fail, Volume!Pending, Ending, Visible, Held, Ended, CoreType
    <3> QED  BY <3>1, Observes DEF VolumeStep, Volume!Next
  <2> QED  BY <1>19, <2>3, <2>4 DEF CompleteRequest
<1>20. ASSUME NEW i \in Irps, LowerRead(i) PROVE VolumeStep
  <2>1. /\ kind[i] = "read" /\ Pending(i)
        /\ UNCHANGED <<disk, temp, bitmap, protect, kind, range, through>>
        /\ \A j \in Irps \ {i} : sysBuf'[j] = sysBuf[j]
        /\ \A j \in Irps : PhaseOf(j)' = PhaseOf(j)
    BY <1>20 DEF LowerRead, Pending, PhaseOf, Ended, CoreType
  <2>2. Volume!PrepareReply(i)
    BY <2>1 DEF Volume!PrepareReply, Volume!Pending, Visible, Pending, PhaseOf, Ended
  <2> QED  BY <2>2, Observes DEF VolumeStep, Volume!Next
<1>21. ASSUME NEW i \in Irps, LowerWrite(i) PROVE VolumeStep
  <2>1. /\ kind[i] = "write" /\ Pending(i)
        /\ UNCHANGED <<temp, bitmap, protect, kind, range, through, sysBuf>>
        /\ \A j \in Irps : PhaseOf(j)' = PhaseOf(j)
    BY <1>21 DEF LowerWrite, Pending, PhaseOf, Ended, CoreType
  <2>2. PICK S \in SUBSET range[i] : disk' = [s \in Sectors |-> IF s \in S THEN i ELSE disk[s]]
    BY <1>21 DEF LowerWrite
  <2>3. CASE S = {}
    <3>1. disk' = disk
      BY <2>2, <2>3 DEF CoreType
    <3>2. Silent
      BY <2>1, <3>1 DEF Silent, Visible
    <3> QED  BY <3>2, Stutters
  <2>4. CASE S # {}
    <3>1. i \in through /\ S \subseteq Sectors
      BY <1>21, <2>2, <2>4 DEF LowerWrite, Ownership, CoreType
    <3>2. \A s \in Sectors : (Visible[s] \in Irps /\ Visible[s] \notin through)
                               <=> bitmap # NULL /\ s \in bitmap
      BY DriverAssumption DEF Visible, FileData, DiskProtected, CoreType
    <3>3. Visible' = [s \in Sectors |->
             IF s \in S /\ ~(Visible[s] \in Irps /\ Visible[s] \notin through) THEN i ELSE Visible[s]]
      BY <2>1, <2>2, <3>2 DEF Visible
    <3>4. Volume!Store(i)
      BY <2>1, <2>2, <3>1, <3>3
         DEF Volume!Store, Volume!Pending, Volume!Overlaid, Pending, PhaseOf, Ended
    <3> QED  BY <3>4, Observes DEF VolumeStep, Volume!Next
  <2> QED  BY <2>3, <2>4
<1>22. ASSUME NEW i \in Irps, LowerComplete(i) PROVE VolumeStep
  <2>1. /\ Pending(i)
        /\ UNCHANGED <<disk, temp, bitmap, protect, kind, range, through>>
        /\ \A j \in Irps \ {i} : sysBuf'[j] = sysBuf[j]
    BY <1>22 DEF LowerComplete, Pending, Ended, CoreType
  <2>2. CASE where[i] = "lowerOk"
    <3>1. \A s \in range[i] : IF kind[i] = "read" THEN sysBuf[i][s] \in seen[i][s]
                                                  ELSE i \in seen[i][s]
      BY <2>2 DEF Replies
    <3>2. kind[i] \in {"read", "write"} /\ where' = [where EXCEPT ![i] = "ok"]
      BY <1>22, <2>2 DEF LowerComplete, CoreType
    <3>3. Volume!Succeed(i)
      BY <2>1, <2>2, <3>1, <3>2
         DEF Volume!Succeed, Volume!Pending, Visible, Pending, Ended, CoreType
    <3> QED  BY <3>3, Observes DEF VolumeStep, Volume!Next
  <2>3. CASE where[i] = "lowerErr"
    <3>1. where' = [where EXCEPT ![i] = "error"]
      BY <1>22, <2>3 DEF LowerComplete
    <3>2. Volume!Fail(i)
      BY <2>1, <2>3, <3>1 DEF Volume!Fail, Volume!Pending, Visible, Pending, Ended, CoreType
    <3> QED  BY <3>2, Observes DEF VolumeStep, Volume!Next
  <2> QED  BY <1>22, <2>2, <2>3 DEF LowerComplete
<1>23. CASE VolumeOnline
  <2>1. onlines = 0 /\ UNCHANGED <<disk, protect, kind, range, through, sysBuf, where>>
    BY <1>23, DriverAssumption DEF VolumeOnline, CoreType
  <2>2. bitmap = NULL /\ (bitmap' = NULL \/ bitmap' = {})
    BY <1>23, <2>1 DEF VolumeOnline, FileData
  <2>3. Silent
    BY <2>1, <2>2 DEF Silent, Visible, PhaseOf, Pending
  <2> QED  BY <2>3, Stutters
<1>24. CASE VolumeOnlineFails
  <2>1. onlines = 0 /\ UNCHANGED <<disk, protect, kind, range, through, sysBuf, where>>
    BY <1>24, DriverAssumption DEF VolumeOnlineFails, CoreType
  <2>2. bitmap = NULL /\ (bitmap' = NULL \/ bitmap' = {})
    BY <1>24, <2>1 DEF VolumeOnlineFails, FileData
  <2>3. Silent
    BY <2>1, <2>2 DEF Silent, Visible, PhaseOf, Pending
  <2> QED  BY <2>3, Stutters
<1>25. CASE Restart
  <2>1. /\ UNCHANGED <<disk, kind, range, through>> /\ bitmap' = NULL /\ protect' = FALSE
        /\ where' = [i \in Irps |-> IF where[i] \in Ended \cup {"idle"} THEN where[i] ELSE "lost"]
    BY <1>25 DEF Restart, LoseMemory
  <2>2. Visible' = disk
    BY <2>1 DEF Visible, CoreType
  <2>3. Volume!Restart
    BY <2>1, <2>2 DEF Volume!Restart, Volume!Pending, Ended
  <2> QED  BY <2>3, Observes DEF VolumeStep, Volume!Next
<1>26. CASE Reinitialize
  <2>1. /\ UNCHANGED <<disk, bitmap, where, kind, range, through, sysBuf>>
        /\ bitmap # NULL => bitmap = {}
    BY <1>26 DEF Reinitialize, FileData
  <2>2. Visible' = Visible
    BY <2>1 DEF Visible
  <2>3. CASE protect' = TRUE
    <3>1. Volume!StartGuarding
      BY <2>1, <2>2, <2>3 DEF Volume!StartGuarding
    <3> QED  BY <3>1, Observes DEF VolumeStep, Volume!Next
  <2>4. CASE UNCHANGED protect
    <3>1. Silent
      BY <2>1, <2>2, <2>4 DEF Silent, PhaseOf, Pending
    <3> QED  BY <3>1, Stutters
  <2> QED  BY <1>26, <2>3, <2>4 DEF Reinitialize
<1>27. CASE ReinitializeCrashes
  <2>1. /\ UNCHANGED <<disk, kind, range, through>> /\ bitmap' = NULL /\ protect' = FALSE
        /\ where' = [i \in Irps |-> IF where[i] \in Ended \cup {"idle"} THEN where[i] ELSE "lost"]
    BY <1>27 DEF ReinitializeCrashes, LoseMemory
  <2>2. Visible' = disk
    BY <2>1 DEF Visible, CoreType
  <2>3. Volume!Restart
    BY <2>1, <2>2 DEF Volume!Restart, Volume!Pending, Ended
  <2> QED  BY <2>3, Observes DEF VolumeStep, Volume!Next
<1>28. CASE RemoveDevice
  <2>1. Silent
    BY <1>28 DEF RemoveDevice, Silent, Visible, PhaseOf, Pending, Ended, CoreType
  <2> QED  BY <2>1, Stutters
<1>29. CASE RemoveDeviceEnds
  <2>1. Silent
    BY <1>29 DEF RemoveDeviceEnds, Silent, Visible, PhaseOf, Pending, Ended, CoreType
  <2> QED  BY <2>1, Stutters
<1> QED
  BY <1>1, <1>2, <1>3, <1>4, <1>5, <1>6, <1>7, <1>8, <1>9, <1>10, <1>11, <1>12, <1>13,
     <1>14, <1>15, <1>16, <1>17, <1>18, <1>19, <1>20, <1>21, <1>22, <1>23, <1>24, <1>25,
     <1>26, <1>27, <1>28, <1>29 DEF Step, Dispatch, Worker, Lower, System
LEMMA VolumeInvHolds ==
    ASSUME "map" \notin Faults, MaxOnline <= 1
    PROVE  Spec => []VolumeInv
<1>1. Init => VolumeInv
  BY InitVolume
<1>2. VolumeInv /\ [Next]_vars => VolumeInv'
  BY VolumeInvStep
<1> QED  BY <1>1, <1>2, PTL DEF Spec

\* A read never succeeds with data older than the read: whatever the worker, the
\* dispatchers and the device below do meanwhile, each of its sectors showed the
\* value delivered at some moment since it was issued (DPReadWriteThread).
THEOREM ReadsSafe ==
    ASSUME "map" \notin Faults, MaxOnline <= 1
    PROVE  Spec => []ReadsAreCurrent
<1>1. VolumeInv => ReadsAreCurrent
  BY DEF VolumeInv, Replies, ReadsAreCurrent
<1> QED  BY <1>1, VolumeInvHolds, PTL

\* A read is left to the disk only when no completed write has put any of its
\* sectors into the file.
THEOREM ClearSafe ==
    ASSUME "map" \notin Faults, MaxOnline <= 1
    PROVE  Spec => []ClearMeansDisk
<1>1. VolumeInv => ClearMeansDisk
  <2> SUFFICES ASSUME VolumeInv, pc = "serve", TestBitmap(range[cur]) = "CLEAR",
                      NEW s \in range[cur], temp[s] \in Irps, where[temp[s]] = "ok"
               PROVE  FALSE
    BY DEF ClearMeansDisk
  <2>1. protect /\ cur \in Irps /\ s \in Sectors
    BY DEF VolumeInv, Ownership, Serving, CoreType
  <2>2. bitmap # NULL /\ s \notin bitmap
    BY DEF TestBitmap
  <2> QED  BY <2>1, <2>2 DEF VolumeInv, Redirected
<1> QED  BY <1>1, VolumeInvHolds, PTL

\* The filter driver implements the protected volume: for its users it is a
\* volume on which each sector is a regular register, and a restart brings back
\* the disk as it was when protection began.
THEOREM VolumeImplemented ==
    ASSUME "map" \notin Faults, MaxOnline <= 1
    PROVE  Spec => ImplementsVolume
<1>1. Init => Volume!Init
  BY InitVolume
<1>2. VolumeInv /\ [Next]_vars => [Volume!Next]_(Volume!vars)
  <2> SUFFICES ASSUME VolumeInv, [Next]_vars PROVE [Volume!Next]_(Volume!vars)
    OBVIOUS
  <2>1. CASE UNCHANGED vars
    BY <2>1 DEF Volume!vars, vars, devVars, irpVars, Visible
  <2>2. CASE Next
    BY <2>2, MapsStep DEF Next, VolumeInv, VolumeStep
  <2> QED  BY <2>1, <2>2
<1> QED  BY <1>1, <1>2, VolumeInvHolds, PTL DEF Spec, ImplementsVolume, Volume!Spec
=============================================================================
