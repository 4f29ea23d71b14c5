------------------------------ MODULE DPDriver ------------------------------
(***************************************************************************)
(* DP/DPMain.c: the filter driver that protects the volume D:.  Until the  *)
(* boot drivers are reinitialised requests go straight to the disk.  From  *)
(* then on DPDispatchReadWrite queues every read and write, and one worker *)
(* thread serves the queue: a write goes to the temporary file and is      *)
(* recorded in the bitmap, a read is answered from the disk, from the file *)
(* or from both, as the bitmap says.                                       *)
(*                                                                         *)
(* The data of a write is named by the IRP that carries it: a sector holds *)
(* the IRP that wrote it last, Orig (the disk as it was found) or Hole (a  *)
(* part of the sparse file nobody wrote).  A dispatcher thread is named by *)
(* the IRP it dispatches.  The bitmap is the set of marked sectors, which  *)
(* is what module DPBitmap shows DPBitmap.c to be.                         *)
(***************************************************************************)
EXTENDS Integers, Sequences, FiniteSets

CONSTANTS Irps,         \* read and write requests, each issued at most once
          Sectors,      \* the sectors of the volume
          Ranges,       \* the sets of sectors a request may cover
          Faults,       \* what may fail: see FaultKinds
          MaxRestarts,  \* bound: crashes or reboots per behaviour
          MaxOnline,    \* bound: IOCTL_VOLUME_ONLINE requests per boot
          MayRemove,    \* whether IRP_MN_REMOVE_DEVICE may arrive
          Orig, Hole, NULL

FaultKinds == {"pool",    \* an ExAllocatePoolWithTag returns NULL
               "file",    \* ZwCreateFile, ZwReadFile, ZwWriteFile...
               "map",     \* MmGetSystemAddressForMdlSafe returns NULL
               "lower",   \* the device below fails a request
               "online"}  \* a step of DPVolumeOnLineCompleteRoutine

ASSUME DriverAssumption ==
    /\ Ranges \subseteq SUBSET Sectors
    /\ Faults \subseteq FaultKinds
    /\ MaxRestarts \in Nat /\ MaxOnline \in Nat /\ MayRemove \in BOOLEAN
    /\ Orig \notin Irps /\ Hole \notin Irps /\ Orig # Hole
    /\ NULL \notin Irps /\ \A S \in SUBSET Sectors : NULL # S

VARIABLES
    disk,      \* the sectors of the protected volume
    temp,      \* the sectors of the temporary file on E:
    protect,   \* DevExt->Protect
    bitmap,    \* DevExt->Bitmap: NULL, or the marked sectors
    tempOpen,  \* DevExt->TempFile is an open handle
    target,    \* gProtectDevExt # NULL
    queue,     \* DevExt->ReqList
    event,     \* DevExt->ReqEvent, an auto-reset event
    term,      \* DevExt->ThreadTermFlag
    pc,        \* where the worker thread is
    cur,       \* the IRP it works on, or NULL
    fileBuf,   \* its copy of the temporary file
    disp,      \* where the dispatcher thread of each IRP is
    where,     \* who has each IRP, or how it ended
    kind,      \* IRP_MJ_READ or IRP_MJ_WRITE
    range,     \* the sectors each IRP covers
    sysBuf,    \* what a read has delivered so far
    reinit,    \* DPReinitializationRoutine has run
    removal,   \* how far IRP_MN_REMOVE_DEVICE is
    onlines,   \* IOCTL_VOLUME_ONLINE requests of this boot
    restarts   \* crashes and reboots so far

\* History: which requests found the volume unprotected, and what each
\* sector has shown since the request was issued.
VARIABLES through, seen

devVars  == <<protect, bitmap, tempOpen, target>>
reqVars  == <<queue, event, term>>
workVars == <<pc, cur, fileBuf>>
irpVars  == <<disp, where, kind, range, sysBuf, through>>
boot     == <<reinit, removal, onlines, restarts>>
vars     == <<disk, temp, devVars, reqVars, workVars, irpVars, boot, seen>>

Content == Irps \cup {Orig, Hole}
Blank   == [s \in Sectors |-> Hole]

\* What the volume shows to those who read it through the filter.
Visible == [s \in Sectors |-> IF bitmap # NULL /\ s \in bitmap THEN temp[s] ELSE disk[s]]

Ended == {"ok", "error", "lost"}

Init ==
    /\ disk = [s \in Sectors |-> Orig] /\ temp = Blank
    /\ protect = FALSE /\ bitmap = NULL /\ tempOpen = FALSE /\ target = FALSE
    /\ queue = <<>> /\ event = FALSE /\ term = FALSE
    /\ pc = "wait" /\ cur = NULL /\ fileBuf = Blank
    /\ disp = [i \in Irps |-> "none"]
    /\ where = [i \in Irps |-> "idle"]
    /\ kind = [i \in Irps |-> "read"]
    /\ range = [i \in Irps |-> {}]
    /\ sysBuf = [i \in Irps |-> Blank]
    /\ through = {}
    /\ seen = [i \in Irps |-> [s \in Sectors |-> {}]]
    /\ reinit = FALSE /\ removal = "no" /\ onlines = 0 /\ restarts = 0
-----------------------------------------------------------------------------
(* Dispatchers.                                                            *)

\* The file system issues a request.
Submit(i, k, r) ==
    /\ where[i] = "idle"
    /\ removal # "done"
    /\ where' = [where EXCEPT ![i] = "caller"]
    /\ disp' = [disp EXCEPT ![i] = "check"]
    /\ kind' = [kind EXCEPT ![i] = k]
    /\ range' = [range EXCEPT ![i] = r]
    /\ UNCHANGED <<disk, temp, devVars, reqVars, workVars, sysBuf, through, boot>>

\* Protect is read once, without a lock.  An unprotected request is on its
\* way down from here on.
CheckProtect(i) ==
    /\ disp[i] = "check"
    /\ \/ /\ protect
          /\ disp' = [disp EXCEPT ![i] = "insert"]
          /\ UNCHANGED <<where, through>>
       \/ /\ ~protect
          /\ disp' = [disp EXCEPT ![i] = "none"]
          /\ where' = [where EXCEPT ![i] = "lower"]
          /\ through' = through \cup {i}
    /\ UNCHANGED <<disk, temp, devVars, reqVars, workVars, kind, range, sysBuf, boot>>

InsertTail(i) ==
    /\ disp[i] = "insert"
    /\ disp' = [disp EXCEPT ![i] = "signal"]
    /\ where' = [where EXCEPT ![i] = "queue"]
    /\ queue' = Append(queue, i)
    /\ UNCHANGED <<disk, temp, devVars, event, term, workVars,
                   kind, range, sysBuf, through, boot>>

\* By now the worker may have finished the request already.
SetReqEvent(i) ==
    /\ disp[i] = "signal"
    /\ disp' = [disp EXCEPT ![i] = "none"]
    /\ event' = TRUE
    /\ UNCHANGED <<disk, temp, devVars, queue, term, workVars,
                   where, kind, range, sysBuf, through, boot>>
-----------------------------------------------------------------------------
(* The worker thread, DPReadWriteThread.                                   *)

Goto(label) == pc' = label /\ UNCHANGED <<cur, fileBuf>>

\* Slip: the worker goes back to wait with one request left in the list.
DrainedEarly == Len(queue) <= 1

\* The list ExInterlockedRemoveHeadList returns NULL for.
Drained == queue = <<>>

\* KeWaitForSingleObject consumes the signal.
WaitReqEvent ==
    /\ pc = "wait" /\ event
    /\ event' = FALSE
    /\ Goto("flag")
    /\ UNCHANGED <<disk, temp, devVars, queue, term, irpVars, boot>>

\* The flag is looked at after a wait only, never while the queue is drained.
TestTermFlag ==
    /\ pc = "flag"
    /\ Goto(IF term THEN "exited" ELSE "drain")
    /\ UNCHANGED <<disk, temp, devVars, reqVars, irpVars, boot>>

QueueIsEmpty ==
    /\ pc = "drain" /\ Drained
    /\ Goto("wait")
    /\ UNCHANGED <<disk, temp, devVars, reqVars, irpVars, boot>>

RemoveHead ==
    /\ pc = "drain" /\ ~Drained
    /\ cur' = Head(queue)
    /\ queue' = Tail(queue)
    /\ where' = [where EXCEPT ![Head(queue)] = "worker"]
    /\ pc' = "serve"
    /\ UNCHANGED <<disk, temp, devVars, event, term, fileBuf,
                   disp, kind, range, sysBuf, through, boot>>

\* Slip: one clear sector is enough to answer from the disk.
TestBitmapNoBlend(r) == IF bitmap = NULL THEN "UNKNOW"
                        ELSE IF r \subseteq bitmap THEN "SET" ELSE "CLEAR"

\* DPBitmapTest on the range of cur.
TestBitmap(r) == IF bitmap = NULL THEN "UNKNOW"
                 ELSE IF r \subseteq bitmap THEN "SET"
                 ELSE IF r \cap bitmap = {} THEN "CLEAR"
                 ELSE "BLEND"

\* DPSendToNextDriver: the device below finishes the request on its own.
SendDown ==
    /\ where' = [where EXCEPT ![cur] = "lower"]
    /\ cur' = NULL
    /\ pc' = "drain"
    /\ UNCHANGED <<fileBuf, disp, kind, range, sysBuf, through>>

\* Slip: the shortcut of clear reads is taken for writes too.
NothingToDoIfClear ==
    range[cur] = {} \/ (bitmap # NULL /\ range[cur] \cap bitmap = {})

\* A request without a length has nothing to redirect.
NothingToDo == range[cur] = {}

\* Slip: the bit is set, the data never reaches the file.
FirstWriteStepMark == "mark"

\* The file is written before the bitmap is marked.
FirstWriteStep == "write"

\* The choice between the paths of one request, made on what the bitmap is now.
Serve ==
    /\ pc = "serve"
    /\ \/ /\ NothingToDo
          /\ SendDown
       \/ /\ "map" \in Faults   \* its buffer has no system address
          /\ SendDown
       \/ /\ ~NothingToDo /\ kind[cur] = "read"
          /\ \/ /\ TestBitmap(range[cur]) = "CLEAR"
                /\ SendDown
             \/ /\ TestBitmap(range[cur]) = "SET"
                /\ Goto("readSet") /\ UNCHANGED irpVars
             \/ /\ TestBitmap(range[cur]) = "BLEND"
                /\ Goto("readBlend") /\ UNCHANGED irpVars
             \/ /\ TestBitmap(range[cur]) = "UNKNOW"
                /\ Goto("failed") /\ UNCHANGED irpVars
       \/ /\ ~NothingToDo /\ kind[cur] = "write"
          /\ Goto(FirstWriteStep) /\ UNCHANGED irpVars
    /\ UNCHANGED <<disk, temp, devVars, reqVars, boot>>

\* A buffer cannot be allocated, or ZwReadFile fails.
ReadFileFails ==
    /\ pc \in {"readSet", "readBlend"}
    /\ {"pool", "file"} \cap Faults # {} \/ ~tempOpen
    /\ Goto("failed")
    /\ UNCHANGED <<disk, temp, devVars, reqVars, irpVars, boot>>

ReadFileOfSet ==
    /\ pc = "readSet" /\ tempOpen
    /\ sysBuf' = [sysBuf EXCEPT ![cur] =
                     [s \in Sectors |-> IF s \in range[cur] THEN temp[s] ELSE Hole]]
    /\ Goto("served")
    /\ UNCHANGED <<disk, temp, devVars, reqVars, disp, where, kind, range, through, boot>>

\* Read the file, then pass the IRP down and wait for it (DPForwardIrpSync).
ReadFileOfBlend ==
    /\ pc = "readBlend" /\ tempOpen
    /\ fileBuf' = [s \in Sectors |-> IF s \in range[cur] THEN temp[s] ELSE Hole]
    /\ where' = [where EXCEPT ![cur] = "sync"]
    /\ pc' = "forwarded"
    /\ UNCHANGED <<disk, temp, devVars, reqVars, cur, disp, kind, range,
                   sysBuf, through, boot>>

\* Slip: the buffers of DPBitmapGet are swapped.
MergedSwapped(s) == IF s \in range[cur] \cap bitmap THEN sysBuf[cur][s] ELSE fileBuf[s]

\* DPBitmapGet copies the redirected sectors over those of the disk.
Merged(s) == IF s \in range[cur] \cap bitmap THEN fileBuf[s] ELSE sysBuf[cur][s]

Merge ==
    /\ pc = "forwarded" /\ where[cur] = "syncOk" /\ bitmap # NULL
    /\ sysBuf' = [sysBuf EXCEPT ![cur] = [s \in Sectors |-> Merged(s)]]
    /\ where' = [where EXCEPT ![cur] = "worker"]
    /\ pc' = "served" /\ fileBuf' = Blank
    /\ UNCHANGED <<disk, temp, devVars, reqVars, cur, disp, kind, range, through, boot>>

\* The device failed the request, or DPBitmapGet finds no bitmap.
MergeFails ==
    /\ pc = "forwarded"
    /\ where[cur] = "syncErr" \/ (where[cur] = "syncOk" /\ bitmap = NULL)
    /\ where' = [where EXCEPT ![cur] = "worker"]
    /\ pc' = "failed" /\ fileBuf' = Blank
    /\ UNCHANGED <<disk, temp, devVars, reqVars, cur, disp, kind, range,
                   sysBuf, through, boot>>

\* ZwWriteFile puts the data in the file before any bit says so.
WriteFile ==
    /\ pc = "write" /\ tempOpen
    /\ temp' = [s \in Sectors |-> IF s \in range[cur] THEN cur ELSE temp[s]]
    /\ Goto("mark")
    /\ UNCHANGED <<disk, devVars, reqVars, irpVars, boot>>

\* A failed ZwWriteFile may have written part of the range.
WriteFileFails ==
    /\ pc = "write"
    /\ \/ /\ "file" \in Faults /\ tempOpen
          /\ \E S \in SUBSET range[cur] :
                temp' = [s \in Sectors |-> IF s \in S THEN cur ELSE temp[s]]
       \/ ~tempOpen /\ UNCHANGED temp
    /\ Goto("failed")
    /\ UNCHANGED <<disk, devVars, reqVars, irpVars, boot>>

\* Slip: the bits set before are lost.
MarkedAnew(r) == r

\* DPBitmapSet.
Marked(r) == bitmap \cup r

MarkBitmap ==
    /\ pc = "mark" /\ bitmap # NULL
    /\ bitmap' = Marked(range[cur])
    /\ Goto("served")
    /\ UNCHANGED <<disk, temp, protect, tempOpen, target, reqVars, irpVars, boot>>

\* DPBitmapSet has no bitmap or no memory for a region: no bit is set, but
\* the file already holds the data.
MarkBitmapFails ==
    /\ pc = "mark" /\ (bitmap = NULL \/ "pool" \in Faults)
    /\ Goto("failed")
    /\ UNCHANGED <<disk, temp, devVars, reqVars, irpVars, boot>>

\* Slip: the request is completed as if it were still under way.
EndingPending == "pending"

\* The status of ERRCMPLT or of ERRERR.
Ending == IF pc = "served" THEN "ok" ELSE "error"

\* DPCompleteRequest; the loop takes the next request.
CompleteRequest ==
    /\ pc \in {"served", "failed"}
    /\ where' = [where EXCEPT ![cur] = Ending]
    /\ sysBuf' = [sysBuf EXCEPT ![cur] = Blank]
    /\ cur' = NULL /\ pc' = "drain"
    /\ UNCHANGED <<disk, temp, devVars, reqVars, fileBuf, disp, kind, range, through, boot>>

Worker == \/ WaitReqEvent \/ TestTermFlag \/ QueueIsEmpty \/ RemoveHead \/ Serve
          \/ ReadFileFails \/ ReadFileOfSet \/ ReadFileOfBlend \/ Merge \/ MergeFails
          \/ WriteFile \/ WriteFileFails \/ MarkBitmap \/ MarkBitmapFails
          \/ CompleteRequest
-----------------------------------------------------------------------------
(* The device below, seen from the filter: it serves what it holds in any  *)
(* order, at its own time.                                                 *)

LowerRead(i) ==
    /\ where[i] \in {"lower", "sync"} /\ kind[i] = "read"
    /\ \/ /\ sysBuf' = [sysBuf EXCEPT ![i] =
                [s \in Sectors |-> IF s \in range[i] THEN disk[s] ELSE Hole]]
          /\ where' = [where EXCEPT ![i] = IF where[i] = "sync" THEN "syncOk" ELSE "lowerOk"]
       \/ /\ "lower" \in Faults
          /\ where' = [where EXCEPT ![i] = IF where[i] = "sync" THEN "syncErr" ELSE "lowerErr"]
          /\ UNCHANGED sysBuf
    /\ UNCHANGED <<disk, temp, devVars, reqVars, workVars, disp, kind, range, through, boot>>

LowerWrite(i) ==
    /\ where[i] = "lower" /\ kind[i] = "write"
    /\ \/ /\ disk' = [s \in Sectors |-> IF s \in range[i] THEN i ELSE disk[s]]
          /\ where' = [where EXCEPT ![i] = "lowerOk"]
       \/ /\ "lower" \in Faults
          /\ \E S \in SUBSET range[i] :
                disk' = [s \in Sectors |-> IF s \in S THEN i ELSE disk[s]]
          /\ where' = [where EXCEPT ![i] = "lowerErr"]
    /\ UNCHANGED <<temp, devVars, reqVars, workVars, disp, kind, range, sysBuf, through, boot>>

LowerComplete(i) ==
    /\ where[i] \in {"lowerOk", "lowerErr"}
    /\ where' = [where EXCEPT ![i] = IF where[i] = "lowerOk" THEN "ok" ELSE "error"]
    /\ sysBuf' = [sysBuf EXCEPT ![i] = Blank]
    /\ UNCHANGED <<disk, temp, devVars, reqVars, workVars, disp, kind, range, through, boot>>

Lower == \E i \in Irps : LowerRead(i) \/ LowerWrite(i) \/ LowerComplete(i)
-----------------------------------------------------------------------------
(* Boot, plug and play, crashes.                                           *)

\* DPVolumeOnLineCompleteRoutine: a fresh bitmap replaces whatever was there.
VolumeOnline ==
    /\ onlines < MaxOnline
    /\ onlines' = onlines + 1
    /\ bitmap' = {} /\ target' = TRUE
    /\ UNCHANGED <<disk, temp, protect, tempOpen, reqVars, workVars, irpVars,
                   reinit, removal, restarts>>

\* On an error the bitmap is freed and the file closed, but the pointer to
\* the bitmap stays: what a later use of it finds in the freed memory is
\* anything.  (A failed DPBitmapInit leaves NULL.)
VolumeOnlineFails ==
    /\ onlines < MaxOnline /\ "online" \in Faults
    /\ onlines' = onlines + 1
    /\ \/ bitmap' = NULL
       \/ bitmap # NULL /\ bitmap' \in SUBSET Sectors
    /\ tempOpen' = FALSE
    /\ UNCHANGED <<disk, temp, protect, target, reqVars, workVars, irpVars,
                   reinit, removal, restarts>>

\* Everything in memory is lost; the disk and the temporary file stay.
LoseMemory ==
    /\ protect' = FALSE /\ bitmap' = NULL /\ tempOpen' = FALSE /\ target' = FALSE
    /\ queue' = <<>> /\ event' = FALSE /\ term' = FALSE
    /\ pc' = "wait" /\ cur' = NULL /\ fileBuf' = Blank
    /\ disp' = [i \in Irps |-> "none"]
    /\ where' = [i \in Irps |-> IF where[i] \in Ended \cup {"idle"} THEN where[i] ELSE "lost"]
    /\ sysBuf' = [i \in Irps |-> Blank]
    /\ reinit' = FALSE /\ removal' = "no" /\ onlines' = 0
    /\ restarts' = restarts + 1
    /\ UNCHANGED <<disk, temp, kind, range, through>>

Restart == restarts < MaxRestarts /\ LoseMemory

\* DPReinitializationRoutine opens the temporary file, emptied by
\* FILE_OVERWRITE_IF, and switches protection on last.
Reinitialize ==
    /\ ~reinit /\ target
    /\ reinit' = TRUE
    /\ \/ /\ temp' = Blank
          /\ tempOpen' = TRUE
          /\ protect' = TRUE
       \/ /\ "file" \in Faults
          /\ \/ temp' = temp /\ tempOpen' = tempOpen
             \/ temp' = Blank /\ tempOpen' = TRUE
          /\ UNCHANGED protect
    /\ UNCHANGED <<disk, bitmap, target, reqVars, workVars, irpVars,
                   removal, onlines, restarts>>

\* Without a protected volume the routine follows the NULL gProtectDevExt:
\* the machine stops and starts again.
ReinitializeCrashes ==
    /\ ~reinit /\ ~target
    /\ restarts < MaxRestarts
    /\ LoseMemory

\* IRP_MN_REMOVE_DEVICE up to the wait for the worker.
RemoveDevice ==
    /\ MayRemove /\ removal = "no"
    /\ removal' = "started"
    /\ term' = TRUE /\ event' = TRUE
    /\ UNCHANGED <<disk, temp, devVars, queue, workVars, irpVars,
                   reinit, onlines, restarts>>

\* The worker has ended: the bitmap is freed (its pointer stays, nobody is
\* left to follow it), the filter detached and deleted.
RemoveDeviceEnds ==
    /\ removal = "started" /\ pc = "exited"
    /\ removal' = "done"
    /\ UNCHANGED <<disk, temp, devVars, reqVars, workVars, irpVars,
                   reinit, onlines, restarts>>

System == \/ VolumeOnline \/ VolumeOnlineFails \/ Restart \/ Reinitialize
          \/ ReinitializeCrashes \/ RemoveDevice \/ RemoveDeviceEnds

\* The history: what each sector shows while a request is under way, and the
\* data of the writes the disk takes meanwhile, even below a marked sector.
Observe ==
    seen' = [i \in Irps |-> [s \in Sectors |->
                IF where'[i] \in Ended \cup {"idle"} THEN {}
                ELSE seen[i][s] \cup {Visible'[s]}
                     \cup (IF disk'[s] = disk[s] THEN {} ELSE {disk'[s]})]]

Dispatch(i) == CheckProtect(i) \/ InsertTail(i) \/ SetReqEvent(i)

Step == \/ \E i \in Irps, k \in {"read", "write"}, r \in Ranges : Submit(i, k, r)
        \/ \E i \in Irps : Dispatch(i)
        \/ Worker
        \/ Lower
        \/ System

Next == Step /\ Observe

Spec == Init /\ [][Next]_vars

\* Threads that can run do run, and the device below answers: the worker is
\* a system thread of real-time priority, a dispatcher runs on.
Fairness ==
    /\ WF_vars(Worker /\ Observe)
    /\ \A i \in Irps : WF_vars(Dispatch(i) /\ Observe)
    /\ \A i \in Irps : WF_vars((LowerRead(i) \/ LowerWrite(i)) /\ Observe)
    /\ \A i \in Irps : WF_vars(LowerComplete(i) /\ Observe)

FairSpec == Spec /\ Fairness
-----------------------------------------------------------------------------
Dispatching == {"none", "check", "insert", "signal"}
Owners      == {"idle", "caller", "queue", "worker", "lower", "lowerOk", "lowerErr",
                "sync", "syncOk", "syncErr"} \cup Ended
Labels      == {"wait", "flag", "drain", "serve", "readSet", "readBlend", "forwarded",
                "write", "mark", "served", "failed", "exited"}

\* Every variable has its type (the fields of DP_FILTER_DEV_EXTENSION and
\* the locals of DPReadWriteThread).
TypeOK ==
    /\ disk \in [Sectors -> Content] /\ temp \in [Sectors -> Content]
    /\ protect \in BOOLEAN /\ tempOpen \in BOOLEAN /\ target \in BOOLEAN
    /\ bitmap \in {NULL} \cup SUBSET Sectors
    /\ queue \in Seq(Irps) /\ event \in BOOLEAN /\ term \in BOOLEAN
    /\ pc \in Labels /\ cur \in Irps \cup {NULL}
    /\ fileBuf \in [Sectors -> Content]
    /\ disp \in [Irps -> Dispatching] /\ where \in [Irps -> Owners]
    /\ kind \in [Irps -> {"read", "write"}] /\ range \in [Irps -> SUBSET Sectors]
    /\ sysBuf \in [Irps -> [Sectors -> Content]]
    /\ through \subseteq Irps
    /\ seen \in [Irps -> [Sectors -> SUBSET Content]]
    /\ reinit \in BOOLEAN /\ removal \in {"no", "started", "done"}
    /\ onlines \in Nat /\ restarts \in Nat

\* Requests are never left in the queue with the worker asleep and nobody
\* about to wake it: the auto-reset ReqEvent of DPDispatchReadWrite and the
\* drain loop of DPReadWriteThread lose no wakeup, however insertions,
\* signals and waits interleave.
NoLostWakeup ==
    pc = "wait" /\ ~event /\ queue # <<>> => \E i \in Irps : disp[i] = "signal"

\* The disk only ever holds what it held at first and the data of writes
\* that found the volume unprotected, over any number of restarts: no write
\* that DPReadWriteThread serves reaches the disk (its comment "for a write we
\* write the buffer file directly, and never the data of the disk").
DiskProtected ==
    \A s \in Sectors : disk[s] = Orig \/ disk[s] \in through

\* A sector whose bit is set has been written to the file since the file was
\* emptied, by a request that went through the queue: the file is written
\* before the bit is set, so no read is answered from a hole.
BitmapHasData ==
    protect /\ bitmap # NULL =>
        \A s \in bitmap : temp[s] \in Irps /\ temp[s] \notin through

\* A read that is about to succeed delivers, for each sector, a value the
\* volume showed at some moment since the read was issued, from the disk,
\* the file or a mix of both taken at two different times.
ReadsAreCurrent ==
    \A i \in Irps :
        \/ where[i] = "lowerOk" /\ kind[i] = "read"
        \/ where[i] = "worker" /\ cur = i /\ pc = "served" /\ kind[i] = "read"
        => \A s \in range[i] : sysBuf[i][s] \in seen[i][s]

\* A read that the bitmap calls CLEAR, and that is therefore left to the disk,
\* covers no sector that a completed write has put into the file (the comment
\* on BITMAP_RANGE_CLEAR in DPReadWriteThread).
ClearMeansDisk ==
    pc = "serve" /\ kind[cur] = "read" /\ TestBitmap(range[cur]) = "CLEAR" =>
        \A s \in range[cur] : ~(temp[s] \in Irps /\ where[temp[s]] = "ok")

\* Every request ends, whatever the device below and the file do.
RequestsEnd == \A i \in Irps : where[i] = "caller" ~> where[i] \in Ended

\* The driver implements the protected volume: vol is what can be read
\* through the filter, base is the disk.
Volume == INSTANCE ProtectedVolume
    WITH vol <- Visible, base <- disk, guarded <- protect, reply <- sysBuf,
         phase <- [i \in Irps |->
                      IF where[i] \in Ended \cup {"idle"} THEN where[i] ELSE "pending"]

\* Through the filter the volume behaves as a disk that a restart puts back
\* to what it was when protection began (the purpose of DP/).
ImplementsVolume == Volume!Spec
=============================================================================
