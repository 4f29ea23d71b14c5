# Verification of the DriverTest drivers

TLA+ models, TLC runs and TLAPS proofs for the Windows kernel drivers of this
repository. `BK` below stands for
`src/Windows内核安全与驱动开发 随书代码/Windows内核安全与驱动开发 随书代码`.
`WRK` stands for `src/wrk-v1.2/wrk-v1.2/base/ntos`. Most sources are GBK text; line numbers are those of the files as they are.

## 1. The system

The repository is a collection of drivers, each a program of its own. There is
no code they share; what they have in common is the I/O manager, whose
conventions (IRPs, dispatch routines, device stacks, events, interlocked lists)
all of them live by.

| Component | Source | State | Operations |
|---|---|---|---|
| **DP**, a filter that protects the volume D: until the next boot | `BK/DP/DPMain.c`, `DPMain.h` | the queue `ReqList` with its lock and event, the worker thread and its flag, `Protect`, the temporary file, the bitmap, the global `gProtectDevExt` | read and write dispatch, the worker, boot reinitialisation, `IOCTL_VOLUME_ONLINE`, PnP, power |
| **DP bitmap**, which sectors live in the temporary file | `BK/DP/DPBitmap.c`, `.h` | regions of bits, allocated on demand | Init, Free, Set, Test, Get |
| **coworker2**, a queue of strings between programs | `BK/coworker2` | `g_cwk_str_list`, its lock, `g_cwk_event` | send, receive, open, close, load, unload |
| **coworker**, prints strings | `BK/coworker` | none | one control code |
| **ctrl2cap**, keyboard filters | `BK/ctrl2cap` | the attached devices, `gC2pKeyCount` | read and its completion, PnP, power, detach, unload |
| **comcap**, serial port capture | `BK/comcap` | arrays of filter and lower devices | dispatch, unload |
| **crypt_file**, transparent encryption of files | `BK/crypt_file` | the list of files and its lock; of the file system, the FCB's count of handles and the cache | create and close (before and after the file system), paging read and write, size queries, cache flush |
| **Callback**, process, module and registry callbacks | `BK/Callback` | none of their own | log |
| **MyDriver1**, the author's ports of DP and ctrl2cap | `src/MyDriver1` | as the originals | as the originals |
| **rundown protection**, of the kernel | `WRK/ex/rundown.c` | one word, or a word per processor, and the waiter's block | acquire, release, wait, completed, reinitialise |
| **executive resources**, of the kernel | `WRK/ex/resource.c` | `ERESOURCE`: counts, owner entries, an event and a semaphore | acquire exclusive and shared, release, convert |
| **the rest of the Windows Research Kernel** | `src/wrk-v1.2` | the kernel | vendored |

### How the parts interact

DP is attached above the volume device and below the file system. The file
system's threads call `DPDispatchReadWrite`. While `Protect` is FALSE the
request is passed down; once it is TRUE the request is marked pending, inserted
in `ReqList`, and `ReqEvent` is set. One thread, `DPReadWriteThread`, waits for
the event and drains the list. It writes to the temporary file on E: and calls
`DPBitmapSet`, or calls `DPBitmapTest` for a read and then completes the request
from the file, forwards it, or does both and merges with `DPBitmapGet`. The
bitmap is created by `DPVolumeOnLineCompleteRoutine` when the volume comes
online. `DPReinitializationRoutine` runs when all boot drivers have started: it
opens the file and sets `Protect`. `IRP_MN_REMOVE_DEVICE` sets `ThreadTermFlag`
and waits for the worker. These actors share the device extension; the queue
alone has a lock.

coworker2 runs entirely in the threads of the programs that open it: senders and
receivers share one list (behind a spin lock) and one auto-reset event. They also
share the dispatcher database of the kernel, which a send leaves locked
(`coworker_sys.c:150`).

ctrl2cap attaches a filter above every keyboard of Kbdclass. A read goes down
through the filter, is counted, stays with Kbdclass until a key is pressed, and
comes back through a completion routine, which takes it off the count. Three other
threads change the same filters: the one that loads the driver, the one that
unloads it, and the one that removes a keyboard. The I/O manager keeps the image
as long as the driver object is referenced, which each filter does, and the name,
and the call that loads or unloads.

crypt_file sees each request to the file system twice: `OnSfilterIrpPre` before
it and, when that says GO_ON, `OnSfilterIrpPost` after it. A create by notepad
first opens the file for itself, below the filter, to look for the header; after
the file system has opened it, `cfFileCryptAppendLk` flushes the cache and puts
the FCB on the list, unless someone else has the file open. A create by another
process is undone if the file is listed by then. While it is listed, paging reads
and writes are decrypted and encrypted. `IRP_MJ_CLOSE` flushes the cache and takes
the FCB off the list when nobody has the file open. What couples these handlers is
the list, the count of open handles in the FCB and the one cache of the file.
To flush and purge that cache, `cfFileCacheClear` takes two executive resources of
the FCB, which the file system's own threads take as well.

Of the kernel, which the repository carries as source, two parts are modelled that
the drivers rest on and that are hard to test: the executive resources, which
crypt_file takes, and rundown protection, which answers the question that ctrl2cap
and comcap answer with a counter and with a delay: when is nobody inside any more.

### What is hard in it

* **DP**: the event is set once per insertion and consumed once per drain; the
  `Protect` flag is read without a lock, so requests let through earlier run
  beside queued ones; a write changes the file and the bitmap in two steps; a
  BLEND read sees file and disk at two moments; each step can fail alone; the
  machine can stop between any two steps and only disk and file survive; the
  device can be removed with requests queued.
* **DP bitmap**: three index computations (region, byte, bit) over ranges that
  start and end anywhere, regions allocated one at a time.
* **coworker2**: the look into the list and the wait for the event are two steps;
  a signal that comes with a lock nobody gives back.
* **ctrl2cap, comcap**: requests in flight when the filter is detached, deleted
  and unloaded; a counter that is not interlocked; a removal that takes apart what
  an unload walks; a reference count one short; a delay in the place of a wait.
* **rundown protection**: one word is a count or a pointer to the waiter's stack; a
  release learns too late which; counts of processors that are right only in sum.
* **executive resources**: waiters are granted access under the lock and wake up
  after it, with acquisitions, releases and conversions in between.
* **crypt_file**: look into the list, open, count and append are steps in two
  callbacks, beside those of other opens and closes of the file; a lock kept on an
  early return; one cache that may hold encrypted or decrypted pages; a flush that
  takes two resources and backs off.

### What would make each part correct

* DP: the disk never changes while the volume is protected; what is read back is
  what was last written; no request is lost; a restart brings back the disk.
* DP bitmap: exactly the sectors that were set are set; Test and Get agree.
* coworker2: a receiver never sleeps on a string; each string arrives, once the
  sender's thread lets others be scheduled.
* ctrl2cap, comcap: no device or code is used after it is gone; the count is the
  number of reads in flight; unload ends.
* rundown protection: the wait ends, and only when every reference is back; the
  waiter's block is not touched after that.
* executive resources: readers or one writer; the counts are those of holders and
  waiters; everybody who waits is served.
* cache clearing: nobody else has the file meanwhile; what was taken is given back;
  the loop of tries ends.
* crypt_file: a file is in the list exactly while an encrypting process has it
  open; no lock is kept; ciphertext is never in the cache beside plain text.

`PROJECT.json` lists the components and, under `hazards`, each of these dangers
at its line with the properties that cover it.

## 2. Modules

| Module | Models | Role |
|---|---|---|
| `ProtectedVolume` | nothing in particular | abstract specification of DP |
| `DPDriver` | `DPMain.c` | detailed specification; states its properties and, with `Volume == INSTANCE ProtectedVolume WITH ...`, the refinement |
| `MCDPDriver` | | the ranges and the symmetry of the runs |
| `DPDriver_proofs` | | theorems about `DPDriver`, the refinement among them |
| `DPBitmap`, `MCDPBitmap` | `DPBitmap.c` | the arithmetic of the bitmap |
| `DPBitmap_proofs` | | theorems about `DPBitmap` |
| `DPPagingPath` | `DPMain.c:748-820` | the count of paging files and the pageable flag |
| `DPPagingPath_proofs` | | theorems about `DPPagingPath` |
| `Coworker2`, `MCCoworker2` | `coworker_sys.c` | the queue of strings |
| `Coworker2_proofs` | | theorems about `Coworker2` |
| `CryptFile`, `MCCryptFile` | `cf_list.c`, `cf_create.c`, `cf_sfilter.c` | opens and closes of one file |
| `CryptFile_proofs` | | theorems about `CryptFile` |
| `ReaderWriterLock` | nothing in particular | abstract specification of a resource |
| `ExecutiveResource` | `WRK/ex/resource.c` | what each call does to a resource: no variables, relations between a resource before and after |
| `Resource` | `WRK/ex/resource.c` | one resource and the threads that call it |
| `CryptCache` | `cf_file_irp.c:249-370` | `cfFileCacheClear`, composed of two resources of `ExecutiveResource` |
| `Resource_proofs` | | theorems about `Resource` and `CryptCache`, the refinements among them |
| `Ctrl2cap` | `ctrl2cap.c`, and of `WRK/io/iomgr` what holds and drops the driver object | keyboard filters |
| `Ctrl2cap_proofs` | | theorems about `Ctrl2cap` |
| `RundownProtection` | nothing in particular | abstract specification of rundown protection |
| `Rundown` | `WRK/ex/rundown.c` | both structures |
| `Rundown_proofs` | | theorems about `Rundown`, the refinement among them |

Definitions whose comment starts with "Slip:" are deliberate mistakes. They are
used by no specification; each is put in the place of the definition below it to
confirm that a property notices the mistake.

### DPDriver

*State.* The fields of `DP_FILTER_DEV_EXTENSION` that control behaviour
(`protect`, `bitmap`, `tempOpen`, `queue`, `event`, `term`), the global pointer
(`target`), the worker's position and locals (`pc`, `cur`, `fileBuf`), the two
persistent stores (`disk`, `temp`), and for each IRP who has it (`where`), what
it asks (`kind`, `range`) and what its buffer holds (`sysBuf`). `disp` is the
position of the thread that dispatches the IRP. `through` and `seen` are history
variables: no guard reads them.

*Data.* The content of a sector is the name of the request that wrote it, `Orig`
(the disk as it was found) or `Hole` (a part of the sparse file nobody wrote).
That is all the properties tell apart. The bitmap is the set of marked sectors;
that `DPBitmap.c` behaves like such a set is what `DPBitmap` is about.

| Actions | Code |
|---|---|
| `Submit` | the file system issues a request (environment) |
| `CheckProtect`, `InsertTail`, `SetReqEvent` | `DPDispatchReadWrite`: the unlocked read of `Protect`, the interlocked insertion, `KeSetEvent`, each a step another thread can come between |
| `WaitReqEvent`, `TestTermFlag`, `QueueIsEmpty`, `RemoveHead` | the two loops of `DPReadWriteThread` |
| `Serve` | the choice of the path: nothing to redirect, the four answers of `DPBitmapTest`, or a write |
| `ReadFileOfSet`, `ReadFileFails` | a read from the file alone |
| `ReadFileOfBlend`, `Merge`, `MergeFails` | read the file, forward and wait, merge |
| `WriteFile`, `WriteFileFails`, `MarkBitmap`, `MarkBitmapFails` | a write: the file, then the bitmap |
| `CompleteRequest` | `ERRCMPLT` and `ERRERR` |
| `LowerRead`, `LowerWrite`, `LowerComplete` | the device below (external) |
| `VolumeOnline`, `VolumeOnlineFails` | `DPVolumeOnLineCompleteRoutine` |
| `Reinitialize`, `ReinitializeCrashes` | `DPReinitializationRoutine` |
| `RemoveDevice`, `RemoveDeviceEnds` | `IRP_MN_REMOVE_DEVICE` before and after the wait for the worker |
| `Restart` | crash or reboot |

`Faults` says what may fail: allocations (`"pool"`), file operations (`"file"`),
the mapping of a buffer (`"map"`), the device below (`"lower"`), a step of the
online routine (`"online"`). A write that fails may have written any part of its
range. When the online routine fails, the bitmap is freed but the pointer stays:
the model then lets the bitmap hold anything.

### ProtectedVolume

The volume as file system and owner see it: `vol` (what can be read), `base`
(what a restart brings back), `guarded`, and requests that are idle, pending or
ended. Each sector is a regular register: a read answers, for every sector, with
a value the sector showed while the read was pending; a write ends when all of it
has been visible or lies under sectors that newer, redirected writes cover. Only
requests let through while the volume was not guarded touch `base`. A restart
sets `vol` back to `base`.

Under the refinement mapping `vol` is the disk seen through bitmap and file,
`base` is the disk, `guarded` is `Protect`, a request is pending from its issue
to its completion, and `reply` is its buffer. The abstract specification has no
queue, no worker, no event, no file.

### DPBitmap

`DPBitmapInit`, `DPBitmapFree`, `DPBitmapSet` and its failure half way are the
actions; `DPBitmapTest` and `DPBitmapGet` change nothing and are the operators
`TestResult` and `GetCopies`. A byte is the set of its 1-bits; the loops over
single bits and the `memset` of whole bytes are the sets `Leading`, `Trailing`
and `WholeBytes` of positions they touch. Numbers have no width: the driver asks for
regions of less than 2^32 bytes of the volume, so that the code's 32-bit products and
offsets inside a region do not wrap, and positions have 64 bits. Offsets and lengths stay in bytes, as
in the code, and are turned into region, byte and bit by the code's divisions
and remainders. `RegionNumber` is what the online routine asks for.

### DPPagingPath

A notification is the thread of the file it is about. `Wait`, `Test`,
`ForwardIrpSync`, `AdjustPagingPathCount`, `ClearPagable` or `RestorePagable`, and
`Signal` are the stretches of `DPDispatchPnp` between which another notification
can run. `event` never becomes FALSE: the code initialises a notification event
as signalled and nothing clears it. `Overlap` says whether the kernel may issue a
notification while another is under way, so its two values answer two questions:
is the bookkeeping right, and does the wait protect it. (The kernel in this
repository calls `PpPagePathAssign` at `mm/modwrite.c:969` before it takes
`MmPageFileCreationLock` at line 1100.)

### Coworker2

Each program is a thread with at most one handle. A send is `SendString`
(checks and allocation), `InsertTail` and `SetEvent`; a receive is `Receive`,
`RemoveHead` and `WaitEvent`, looping. Of a string only its length matters.
`event` is an auto-reset event that is signalled at first, as in `DriverEntry`;
`SetEvent` either leaves the signal or releases one blocked thread, and which one
is not determined. The ASSERTs at lines 109-110 and 153-154 (compiled out of a
free build) are not modelled.

*The dispatcher database.* Line 150 calls `KeSetEvent(&g_cwk_event, 0, TRUE)`. The
third argument says that a wait follows immediately; none does. `KeSetEvent`
(`ke/eventobj.c:397`, `426-431`) then returns with the IRQL raised and the
dispatcher database locked, and sets the thread's `WaitNext`. The thread completes
its request and leaves the driver so; only its next wait, for whatever object, takes
the lock over and gives it back (`ke/wait.c:1082-1086`). `holder` is that thread:
`SetEvent` makes it the sender, and `NextWait`, or `WaitEvent` of a sender that goes
on to receive, gives the database up. Meanwhile no other thread can signal or wait
(`MayLock`), and a receiver that was released is `"ready"` but not scheduled, as this
is done when the database is unlocked (`KiExitDispatcher`, `Scheduled`). Nothing
forces a `NextWait`. On several processors the database is a queued spin lock, and a
thread that sends twice without a wait spins for itself; on one processor it is only
the IRQL, which does not keep its holder from locking it again; `MayLock` allows
both. What the model leaves out: that a checked build stops the machine when a
thread returns to user mode with the IRQL raised (`ke/i386/trap.asm:1438`), that at
this IRQL a page fault stops it as well, and that on one processor a second send
overwrites the IRQL to go back to. Each of them takes behaviours away or keeps the
database locked for longer, and neither can break the safety properties.

### CryptFile

One file, and the file objects opened on it, each named by its opener: `Secure`
(notepad.exe) or `Normal`. A file object goes through its create (`own` to
`append`, `insert` or `cancel`), is open, is cleaned up and closed. The stretches
between two labels are those between two acquisitions of the list lock or two
calls of the file system.

* `OpenOwn`, `LookUpOwn`, `MustCrypt`, `NeedNotCrypt`, `PreFails`, `CloseOwn` and
  `ClearOwn` are `cfIrpCreatePre`; `Create` is the file system; `AppendClear`,
  `AppendFound`, `AppendRefused` and `AppendInsert` are `cfFileCryptAppendLk`;
  `PostNormal` and `Cancel` the rest of `OnSfilterIrpPost`; `ClosePre`,
  `CleanupComplete` and `Remove` are the close.
* `UncleanCount` is the number of file objects with an open handle, the driver's
  own among them.
* A page is only `"raw"` (as on the disk) or `"plain"` (decrypted); the cache is
  the set of the kinds in it. `Read` and `WriteDirty` give a page the form the
  list says, `Write` the form the opener was shown.
* `kept` is the early return of `cfFileCryptAppendLk` that leaves the lock held;
  every step that takes the lock then waits for ever.
* `miswritten` and `overlapped` are history variables; no guard reads them.
  `overlapped` becomes TRUE when anything is opened, cleaned up or closed while
  another create or close is in its handler.

`ListedExcludesNormal` holds under all interleavings. The view, the cache and the
end of the listing are right only while creates and closes do not overlap; how an
overlap breaks each of them is described under `hazards` (`cf_list.c:93`,
`cf_list.c:145`, `cf_create.c:272`). No comment of the code claims more, so these
are conditions of the properties and not findings.

### ExecutiveResource and Resource

A resource is a record. `Resource` has one, `res`, and `CryptCache` two; what a call
does to it is in `ExecutiveResource`, as a relation `Op(r, s, t)` of the record
before, the record after and the calling thread. The record has the fields of `ERESOURCE` that decide (`ActiveCount`,
`Exclusive`, `Owner`, the owner entries `Count`, the two counts of waiters), what
the waiters wait on (`Event`, `Semaphore`), and for each thread where it is in a
call (`call`, `Number`) and what it was given (`mode`, `depth`; no guard of the
resource reads these two but `Release` and `Convert`, whose callers must have what
they give back).

Each call works under the resource's spin lock and is one step:
`AcquireExclusive`, `AcquireShared` with its three variants, `WaitExclusive` and
`WaitShared` for a call that has to wait, `Release`, `Convert`. What is done after
the lock is dropped is a step of its own: `Signal`, and for a waiter
`ExclusiveGranted` and `SharedGranted`. `HandOver` is the decision of the last
release. Deadlock detection, priority boosts and the growth of the owner table do
not change who has the resource. A thread that holds shared access and asks for
exclusive access waits for itself; the model does not let it.

`ReaderWriterLock` is what a caller relies on: any number of readers or one writer.

### CryptCache

`cfFileCacheClear` takes what its caller does not own of `FCB->Resource` and
`FCB->PagingIoResource`, tries the second without waiting, backs off and tries
again. `UseMain`, `UsePaging` and `Leave` are the file system's own threads, and the
caller's before the call. `main` and `paging` are two records of `ExecutiveResource`,
so every wait and hand-over is that of the detailed model, and each of the two
implements `Resource` (`CacheImplements`). The branch that would wait
for `PagingIoResource` cannot be reached: `bAcquireResource` is set before it.
While the cache is cleared nobody else has either resource (`NobodyElse`), which is
what allows `CryptFile` to make of `cfFileCacheClear` one step.

### Ctrl2cap

*State.* `sys` is the thread that loads or unloads the driver; `targets` and `cursor`
are its loops. A filter is named by its keyboard: `filter` says how far it is made,
attached or taken down, `attached` is the link the keyboard has to it, `keyboard`
the progress of a removal. Of each read, `thread` is the position in
`c2pDispatchRead`, `irp` where the request is, `at` its keyboard, `through` that it
passed a filter. `gC2pKeyCount` is `count`, modulo 2^w, and an increment or
decrement is a load and a store (`reg`). `refs` counts the references of the driver
object, and the image goes with the last (`Gone`).

| Actions | Code |
|---|---|
| `Load`, `OpenKbdclass`, `OpenFails`, `CreateFilter`, `CreateFails`, `Attach`, `AttachFails`, `InitExtension`, `AttachedAll` | `IopLoadDriver`, `DriverEntry`, `c2pAttachDevices` |
| `BeginUnload`, `Detach`, `Delete`, `Poll`, `Dereference` | `IopUnloadDriver`, `c2pUnload`, `c2pDetach` |
| `RemoveForward`, `RemoveDetach`, `RemoveDelete` | `c2pPnP` with `IRP_MN_REMOVE_DEVICE` |
| `IssueRead`, `Reject`, `LoadToIncrement`, `Increment`, `Forward`, `ReturnFromDispatch` | `c2pDispatchRead` |
| `CompleteRead`, `LoadToDecrement`, `Decrement`, `ReturnFromCompletion` | Kbdclass completes a read, `c2pReadComplete` |

*One processor.* The code has no lock. It is right on one processor where a
completion (a DPC) runs to its end, a thread that dispatches a read is interrupted by
completions only, and the load, the unload and a removal run while neither does. The
model lets everything interleave, and the history variable `overlapped` records
that this order was not kept; no guard reads it. Each claim about the count and the
filters is made for as long as it is FALSE. What happens otherwise is part of the
model (`sys = "crashed"` when something is followed that is not there), it is only
not claimed to be safe.

*Limits.* No other filter is above or below these ones. A deleted device object
still says what the next one is (`ctrl2cap.c:259`). `c2pUnload` does not run beside
`DriverEntry`. When the image goes with a read or a filter left, the next step runs
freed code: there the model ends (`Lost`).

### Rundown

*State.* `RunRef` is the word, or a word per processor, each a count, a pointer to
the waiter's block or "completed". `held` is the references out. Of a thread: `pc`,
the word it works on (`cpu`), the references its call is about (`refs`) and the value
it read (`val`). Of the waiter: `wpc`, `idx`, `Value`, and its block, `WaitCount` and
`WakeEvent`. A step is one interlocked instruction together with what the thread
does alone after it.

A cache-aware call is the plain one on the word of the processor the caller is on
(`Words`), so a reference may be taken on one word and given back on another, and
a word may count below zero. `AcquireRead`, `AcquireSwap`, `ReleaseRead`,
`ReleaseSwap`, `ReleaseInBlock`, `ReleaseWakes` are the callers; `WaitFast`,
`WaitSwap` the plain wait; `WaitStart`, `WaitMark`, `WaitAdd` the cache-aware one;
`WaitWake`, `RundownCompleted`, `ReInitializeStart`, `ReInitialize` the end and the
reopening. `Kinds` selects the structures, and one run has both. `Quiet` keeps
callers away while the words of a cache-aware structure are reinitialised; callers
of the plain structure come at any time.

`RundownProtection` is the promise: references are taken while the object is open;
whoever runs it down goes on when none is left.

## 3. Runs

| Run | Config | What it shows |
|---|---|---|
| `bitmap` | `MCDPBitmap.cfg` | Set marks exactly its range and nothing past the volume; Test and Get tell the truth and agree; no region past the array is needed |
| `driver_faults` | `DPDriverFaults.cfg` | all safety properties and the refinement with every fault but `"map"`, a restart and a removal |
| `driver_live` | `DPDriverLive.cfg` | every request ends, with all faults and a restart |
| `paging_one` | `DPPagingPathOne.cfg` | the count is exact and the flag is the truth, one notification at a time |
| `coworker_one` | `Coworker2One.cfg` | one receiver is never left asleep on a string, and a string that is there is received if who has sent waits some day; accepted strings fit |
| `crypt_open` | `CryptFileOpen.cfg` | no other process has a listed file open, in any interleaving; view, cache and list agree while nothing overlaps |
| `crypt_append` | `CryptFileTwo.cfg` | **violated**: two encrypting opens of one file leave the list lock held |
| `crypt_cache` | `CryptCache.cfg` | the cache is cleared alone, what was taken is given back, and the loop of tries ends |
| `resource` | `Resource.cfg` | the counts agree with holders and waiters, readers and writers exclude each other, every waiter is served |
| `ctrl2cap` | `Ctrl2cap.cfg` | the count is exact, no filter or image is used after it is gone, unloading ends |
| `ctrl2cap_create` | `Ctrl2capCreate.cfg` | **violated**: when the second filter cannot be created the driver goes with the first one attached |
| `rundown` | `Rundown.cfg` | the wait ends, with no reference left and the block never touched later; both structures keep the promise |

### Properties

* `NoLostWakeup`: requests in the queue and the worker asleep without a signal
  imply that a dispatcher is about to signal.
* `DiskProtected`: every sector of the disk holds `Orig` or the data of a write
  that found the volume unprotected.
* `BitmapHasData`: while protected, a marked sector of the file holds data of a
  queued write, never a hole, never data of before the file was emptied.
* `ReadsAreCurrent`: a read about to succeed delivers values its sectors showed
  since it was issued.
* `ClearMeansDisk`: a read that is left to the disk covers no sector a completed
  write put into the file.
* `RequestsEnd`: every request that is issued ends.
* `ImplementsVolume`: every step of the driver is one of `ProtectedVolume` or a
  stutter.
* `SetIsExact`, `RegionsInBounds`, `TestIsExact`, `GetAgreesWithTest`: see `DPBitmap`.
* `FlagFollowsFiles`: with no notification under way, the flag says whether the
  volume has paging files.
* `WakeupOnItsWay`: a receiver asleep while the list is not empty implies that a sender
  is about to signal or a receiver on its way back to the list.
* `StringsArrive`: if no thread keeps the dispatcher database for ever
  (`SendersWait`), a receive under way while there is a string ends with one.
* `ListedExcludesNormal`: while the file is listed no other process has it open.
* `ViewIsForm`, `CacheIsForm`, `ListedIsUsed`: as long as nothing overlapped, who
  has the file open sees the form reads and writes are given; the cache holds only
  that form and nothing reached the disk in the other one; a listed file has an
  opener that will take it off the list.
* `LockReleased`: no call returns with the list lock held.
* `CountsAreTrue`: `ActiveCount` is the number of holders and of waiters granted
  access, the other two counts are the numbers of those who still wait.
* `WaitersServed`, `ImplementsLock`: see `Resource`.
* `NobodyElse`, `ReleasesWhatItTook`, `ClearEnds`: see `CryptCache`.
* `CountIsInFlight`: as long as nothing overlapped, `gC2pKeyCount` is the number of
  reads that went down and are not yet taken off.
* `CodeIsLoaded`: under the same condition, when the image is gone nobody is in it
  and nothing comes back to it.
* `StacksAreLive`: what is attached to a keyboard is a filter that exists; a filter
  that exists is attached, but during its creation and its end; nothing is
  followed that is not there unless something overlapped.
* `UnloadEnds`: `c2pUnload` ends although keyboards are read from for ever.
* `DriverOutlivesDevices`: the assertion of `IopDeleteDriver`.
* `NobodyLeft`, `BlockIsAlive`, `WaitEnds`, `ImplementsProtection`: see `Rundown`.

### Findings

1. `cf_list.c:100`: two encrypting opens can both find the file unlisted
   (`cf_create.c:272`) and both reach `cfFileCryptAppendLk`. The second to take the
   lock finds the file listed, returns without releasing the lock and leaks its
   node; every later request on any file then spins. The `ASSERT(FALSE)` at line 99
   says that this cannot happen. It takes two such opens, overlapping: with one
   encrypting opener, or without overlaps, the lock is always released, which is
   proved (`LoneReleases`, `SerialReleases`).
2. `ctrl2cap.c:149` means to drop the reference on Kbdclass's driver object and
   drops one on its own. When `IoCreateDevice` then fails for a second keyboard, the
   I/O manager's two dereferences bring the count to zero with a filter attached,
   and the image goes under it. When everything succeeds the count is one short
   until the end of the unload, whose last dereference is then of an object already
   deleted (`refs = -1`), and Kbdclass can never be unloaded. Without a creation that
   fails after another the object does outlive its devices, which is proved
   (`DriverKept`).

### Remarks: what the code does outside the conditions of the properties

These are known from the models by widening a constant or dropping a condition, and
are not runs.

* `DPMain.c:997` overwrites `DevExt->Bitmap`: a second `IOCTL_VOLUME_ONLINE` in one
  boot loses redirected data (`MaxOnline = 2` violates `ClearMeansDisk`).
  `DiskProtected` and `NoLostWakeup` remain even then, which is proved.
* `DPMain.c:711` with `266`: the worker exits on `ThreadTermFlag` before it drains
  the list, so requests queued at a removal stay pending (`MayRemove = TRUE`
  violates `RequestsEnd`), although `DPMain.c:1112` says that the event makes the
  queue process the request.
* `DPMain.c:306` treats a failed mapping as a request without a length, so such a
  write goes to the protected disk (`"map" \in Faults` violates `DiskProtected`).
* `DPMain.c:557` makes `PagingPathCountEvent` a notification event that is signalled
  from the start, so the wait at line 760 excludes nobody (`Overlap = TRUE` violates
  `FlagFollowsFiles`). The count is right even then, which is proved.
* `coworker_sys.c:150`: without `SendersWait` the conclusion of `StringsArrive` fails: a
  program sends and then computes, its thread has the dispatcher database, and the
  receiver it has just released, or one about to wait, stays where it is. The comment
  at lines 178-180 says of the receive that it returns as soon as there is a string
  ("但是一旦有就会返回"), and `ke/eventobj.c` of the argument that it says "whether the
  call to set event will be immediately followed by a call to one of the kernel Wait
  functions". That no receiver sleeps on a string without a wakeup on its way holds
  all the same, which is proved (`OneReceiverWakes`).
* `coworker_sys.c:181`: the event counts at most one signal, so two sends wake one
  of two receivers (two receivers violate `WakeupOnItsWay`).
* `rundown.c:1137`: the words of a cache-aware structure are reinitialised one after
  the other. If callers come in meanwhile (`Quiet = FALSE`), a reference taken on a
  word already open can be given back on one that is still "completed", and the
  release follows a pointer to nothing: `BlockIsAlive` fails. The plain structure has no
  such window, which is proved.
* `rundown.c:1153` says of `ExRundownCompletedCacheAware` "so we can wait again
  safely". A second wait on the cache-aware structure (`"aware" \in Again`) finds no
  count in any word and waits for ever.
* `cf_file_irp.c:291`: a caller that holds `PagingIoResource` alone spins for ever
  beside a thread that holds `Resource` and wants the other. The callers in this
  repository hold neither.
* `ctrl2cap.c:413`: on two processors the count can come out low, and the image goes
  under a read, or high, and unloading never ends (`overlapped`).

### Bounds, and why they are enough

* *Requests and sectors (DP)*: two requests and two sectors give every overlap
  (equal, contained, disjoint, partial) and every answer of the bitmap test; BLEND
  needs two sectors. A read beside a write let through and a write redirected
  before it needs three requests, which the run does not have: that case is covered
  by the theorems of `DPDriver_proofs`, which hold for any number of requests (and
  three requests were explored without a restart, and without faults or with those
  of the file and of the online routine). Empty ranges (requests without a length)
  are in `driver_faults`.
* *Restarts*: one, which is where `Orig`, file content of the boot before and
  history can first differ from the initial state. The proofs have no bound.
* *Online notifications*: one per boot (`MaxOnline`), which is the condition of
  `BitmapHasData`, `ReadsAreCurrent`, `ClearMeansDisk` and the refinement, in the run
  as in the proofs.
* *Bitmap*: sectors of 2 bytes, regions of 2 bytes of bits (16 sectors), a volume
  of 26 sectors: one full region, then a byte and two bits of the next. Range
  ends lie on, before and after every byte, region and volume boundary, and up
  to three ranges are set in a row (`MaxSets`). The proofs have every size of
  sectors, regions and volumes, every range and any number of sets.
* *Paging path*: four files in sequence (first, last and those between). The proofs
  have no bound.
* *Coworker2*: two senders and one receiver, at most two strings in the list when a
  send begins (`MaxList`), one reload (`MaxLoads`). Two senders are needed for a
  signal that finds the event set, and for one that finds the dispatcher database
  locked by the other.
* *CryptFile*: two encrypting openers (one listed and one arriving, or both
  arriving) and two others (one counted while another looks at the list). A file
  object is reused when it has been closed, so sequences of opens and closes have
  no bound. The proofs have none either.
* *Resource*: three threads: one that releases, and two waiters, of the same kind or
  not, to be granted and served in either order. Depth two (`MaxDepth`) has
  recursion. `"starve"` is left out of the run, as it may starve writers for ever by
  design; the proofs have every kind of call, any number of threads and any depth.
* *CryptCache*: two threads that clear and one of the file system, which can hold
  either resource and wait for the other; two acquisitions before a call
  (`MaxUses`): both resources, or one of them twice.
* *Ctrl2cap*: two keyboards, for one filter left when another step fails or is
  removed, and for lists that are walked; two reads, for one in flight while another
  is counted. Reads, removals and loads repeat without bound; a keyboard that was
  removed does not come back. The count wraps at 4 (`Wrap`), which two reads never
  reach, as 2^32 reads are never in flight. The proofs have any numbers.
* *Rundown*: three threads and two references, so that two threads can release on two
  words while a third comes in; two words; counts drift by up to two (`MaxCount`).

Symmetry under renaming of requests, sectors and openers is used in the safety
runs only. Deadlock is not checked where the system really stops: a machine without
new requests, with an idle worker, with a receiver waiting for a string nobody
sends, with a lock nobody releases, with a driver that stays loaded.

### Fairness

`driver_live` assumes weak fairness of the worker as a whole, of each
dispatcher's remaining steps and of the device below. The worker is a system
thread of `LOW_REALTIME_PRIORITY`; a dispatcher runs straight-line code without
waiting; a device below answers each request it holds, if only with an error.
Nothing is assumed of the system actions: the volume need not come online, no
protection need start, and restarts need not happen. Weak fairness is enough
since no step of a thread is disabled by others once enabled: the worker's wait
is the only blocking point and its event is consumed by the worker alone.

`coworker_one` assumes that a thread inside the driver runs on, and that one that
waits for the dispatcher database gets it if it is unlocked again and again (strong
fairness: it is a queued spin lock). Nobody need send, receive or close, and no
fairness makes a sender wait for anything after its send: that is the condition
`SendersWait`, written into `StringsArrive`, because nothing in the code provides it.

`resource` assumes that threads run on and that who has the resource gives it back
some day, whatever it acquires again before (strong fairness of the last release:
it is disabled again and again by recursion). The grants are strongly fair: one
waiter of several takes the signal, and the dispatcher serves the waiters of an
object in the order they came. Nobody need acquire anything.

`crypt_cache` assumes of both resources that the file system gives back what it
took and that waits end as they do there; the acquisitions before a call are bounded
by `MaxUses`, so that a try does not fail for ever against newcomers. Nothing in the
code excludes that: it waits 5 microseconds between tries (`liInterval`), which lets
the others run and no more, so `ClearEnds` is about an end of newcomers.

`ctrl2cap` assumes that the unloading thread and the threads in the driver run on,
and that a key is pressed, some day, on each keyboard somebody reads from: the
pending read of a keyboard ends only so, and `c2pUnload` polls until it does.

`rundown` assumes that threads and the waiter run on and that a reference that is
taken is given back.

## 4. Proofs

All theorems hold for every value of the constants that the assumptions of the
modules admit (`DriverAssumption`, `BitmapAssumption` and `NullAssumption`,
`PagingAssumption`, `CoworkerAssumption`, `CryptAssumption`, `ResourceAssumption`,
`FilterAssumption`, `RundownAssumption`): any set of requests, sectors and programs,
any finite sets of threads, references, keyboards, reads, paging files and openers,
any ranges and sizes, any number of restarts.

| Theorem | Statement | Condition |
|---|---|---|
| `TypeCorrect` (driver) | `Spec => []TypeOK` | |
| `WakeupSafe` | `Spec => []NoLostWakeup` | |
| `DiskSafe` | `Spec => []DiskProtected` | `"map" \notin Faults` |
| `MarkedHasData` | `Spec => []BitmapHasData` | `MaxOnline <= 1` |
| `ReadsSafe`, `ClearSafe` | `Spec => []ReadsAreCurrent`, `[]ClearMeansDisk` | both |
| `VolumeImplemented` | `Spec => ImplementsVolume` | both |
| `TypeCorrect` (bitmap) | `Spec => []TypeOK` | |
| `SetExact`, `InBounds` | `Spec => []SetIsExact`, `[]RegionsInBounds` | |
| `TestExact`, `GetAgrees` | `Spec => []TestIsExact`, `[]GetAgreesWithTest` | |
| `TypeCorrect` (paging path) | `Spec => []TypeOK` | |
| `CountExact` (paging path) | `Spec => [](Quiet => count = Cardinality(onPath))` | |
| `FlagIsTrue` | `Spec => []FlagFollowsFiles` | `~Overlap` |
| `TypeCorrect` (coworker2) | `Spec => []TypeOK` | |
| `OneReceiverWakes` | `Spec => []WakeupOnItsWay` | one receiver |
| `TypeCorrect` (crypt_file) | `Spec => []TypeOK` | |
| `NormalExcluded` | `Spec => []ListedExcludesNormal` | |
| `ViewSafe`, `CacheSafe`, `ListSafe` | `Spec => []ViewIsForm`, `[]CacheIsForm`, `[]ListedIsUsed` | |
| `LoneReleases` | `Spec => []LockReleased` | `Lone` |
| `SerialReleases` | `Spec => [](~overlapped => LockReleased)` | |
| `TypeCorrect` (resource) | `Spec => []TypeOK` | |
| `CountsCorrect` | `Spec => []CountsAreTrue` | |
| `ResourceImplements` | `Spec => ImplementsLock` | |
| `NobodyIsForgotten` | `Spec => []NobodyForgotten` | |
| `ClearsAlone` | `CacheSpec => []NobodyElse` | |
| `ReturnsWhatItTook` | `CacheSpec => ReleasesWhatItTook` | |
| `CacheImplements` | `CacheSpec => MainResource!Spec /\ PagingResource!Spec` | |
| `TypeCorrect` (ctrl2cap) | `Spec => []TypeOK` | |
| `CountExact`, `CodeStays`, `StacksLive` | `Spec => []CountIsInFlight`, `[]CodeIsLoaded`, `[]StacksAreLive` | |
| `DriverKept` | `Spec => []DriverOutlivesDevices` | `CreateIsSafe` |
| `TypesCorrect` (rundown) | `Spec => []TypeOK` | |
| `WaitIsComplete`, `BlockOutlivesUse` | `Spec => []NobodyLeft`, `[]BlockIsAlive` | `Polite` |
| `WakeupNotLost` | `Spec => []WaiterIsCalled` | `Polite` |
| `RundownImplements` | `Spec => ImplementsProtection` | `Polite` |

`Polite` is `"aware" \in Kinds => Quiet /\ "aware" \notin Again`: nobody calls while
the cache-aware structure is reinitialised, and it is not run down again after
`ExRundownCompletedCacheAware`. The plain structure needs neither, so for it these
theorems have no condition. `Lone` is that at most one opener encrypts, and
`CreateIsSafe` that no filter has to be made after one that cannot be (there is one
keyboard, or `IoCreateDevice` does not fail): each delimits a finding, as the runs
`crypt_append` and `ctrl2cap_create` break the same property just outside it. All
these conditions, those on the driver, one notification at a time and one receiver
are real limits: the remarks after the findings say what happens outside them.

Four of the theorems are the safety half of a liveness property, and hold without
any fairness: `WakeupSafe` of `RequestsEnd`, `OneReceiverWakes` of `StringsArrive`,
`NobodyIsForgotten` of `WaitersServed`, `WakeupNotLost` of `WaitEnds`. They say that whoever sleeps sleeps for a reason that
is still there; that the reason goes away some day is what fairness adds.

*The argument for the driver.* None of the properties is inductive alone. The
invariants are layered, each proved with those before it:

1. `CoreType`: the types of everything but the history `seen`, which no guard and
   no safety property but `ReadsAreCurrent` reads.
2. `Ownership`: who has a request, and what that says of its past. While the
   worker is at a label of `Serving`, `cur` is a request it holds; a request that
   went through the queue (`Held`) or waits in it is not in `through`; a write on
   its way to the disk was let through, unless it has no length or its buffer
   could not be mapped. So `LowerWrite` only puts data of `through` on the disk,
   which is `DiskProtected`. A sequence with duplicates would not disturb the
   argument: that a request is in the queue once is not needed.
3. `FileData`: every request whose data is in the file went through the queue; at
   the label `mark` the whole range of `cur` is in the file; every marked sector
   of a protected volume is in the file; an unprotected volume has an empty
   bitmap, and before the first online notification none. The last two tie the
   emptying of the file by reinitialisation to an empty bitmap, and they are where
   `MaxOnline <= 1` is used: a notification that fails later in the boot may
   leave a bitmap of freed memory.
4. `VolumeInv`, for what users see, adds eight parts. `QueueOnce` and `OneServed`:
   a request is in the queue once and the worker has one at a time, so a step of
   one says nothing about another. `Writers`: a request whose data is in the file or
   on the disk is one that has been there. `Booted` and `Redirected`: the file's
   data of completed writes is marked. `History`: what a request's sectors show now
   is in its history, and for a request that was let through what the disk holds is
   too, whatever is redirected on top of it later; this is what a `BLEND` read and a
   read beside older writes rest on. `Replies`: the values a request has fetched so
   far are in its history, at each label of the worker. The refinement then maps
   dispatch, queueing and most steps of the worker to a stutter (`Silent`), and
   each of the steps that change the disk, the file or the bitmap, or end a request,
   to its abstract counterpart (`MapsStep`).

`WakeupSafe` needs less: of `Ownership` only that an idle request has no
dispatcher. `NoLostWakeup` is then inductive, since the
worker reaches its wait only from `QueueIsEmpty` and an insertion leaves its
dispatcher at `signal`.

*The argument for the bitmap.* No induction is needed. `SectorAt` numbers bits by
region, byte and bit; `Place` and `Located` show that the code's divisions and
remainders are its inverse, so no two sectors share a bit (`PlaceIsUnique`). The
range's first byte boundary is `8 * ((a + 7) \div 8)` and its last is
`8 * ((a + n) \div 8) - 1`, if they are in it (`FirstBoundary`, `LastBoundary`), which
names the values the two loops stop at; `WholeBytesAre` counts the bytes between
through the regions, and `SetCellsAre` puts the three parts together. With that
`BitmapInv`, that a bit is 1 exactly when its sector was asked for, is inductive.
All of it rests on a handful of facts about `\div` and `%` by a positive number, proved
from the definition of the two.

*The argument for the paging path.* `CountInv`: the count is the number of
`Counted` files, those the devices below have agreed to, but for a file whose
notification has been answered and not been counted; since a notification's
direction is fixed by whether its file is on the volume, an interlocked step of
one adds or removes exactly that file, whoever else is under way. With nobody under
way the counted files are those on the volume, which is `CountExact`. `FlagInv`: what
the flag says at each position of the one notification; it needs `~Overlap`.

*The argument for coworker2.* `OneInv`: while the list is not empty, a receiver
that is about to wait finds the event signalled or a sender about to signal, and
one that sleeps has a sender about to signal. Who has the dispatcher database does
not matter to it: the lock only delays steps. The first part is what makes the
second survive the step from `wait` to `blocked`; with two receivers it fails,
as the one takes the event the other relied on. `TypeCorrect` needs that a program
about to insert has accepted a string, which is where the check of the terminator
counts.

*The argument for crypt_file.* `ListedExcludesNormal` is inductive with
`CoreType`, which says which kind of opener can be at which label. Another process
is counted before it looks at the list, and the count is read under the lock that
guards the list: the append that would break the property finds two file objects
counted (`TwoCounted`) and is refused. The other three share `SerialInv`, which
holds while nothing has overlapped: at most one opener is in a handler, what each
opener found on the list or decided is still so (`Agrees`), the cache is empty where
the list is about to change and nobody is left to fill it (`CacheAgrees`), and a
listed file has an opener that can still take it off (`InUse`). Lemma `Alone` is why
this survives: a step that moves one opener leaves every other one outside the
handlers. None of the four parts is inductive without the others: the list changes
only where the count says nobody else is there, which needs `Agrees`; the cache then
has to be empty, which needs the flush before it.

`LockReleased` needs two encrypting opens to fail. `LoneInv` says that the one
encrypting opener, when it did not find the file on the list, does not find it there
either when it appends it: only such an opener puts a file on the list, and what others
take off it does no harm here. With two, the one can append what the other looked for.

*The argument for resources.* Everything is said of one record `r`, and each lemma is
about a call `Op(r, s, t)`, so the same lemmas serve `Resource` and both resources of
`CryptCache`. `CountsAreTrue` is inductive with three more parts (`IInv`).
`Entries`: what a thread was given is what its owner entry says. `Ownership`: an
owner is a thread with exclusive access, or access was granted to a waiter not yet
named and exactly one signal is set or on its way. `Wakers`: one thread at a time is
about to release the semaphore, and only while the resource is shared. The release
is split into its outcomes (still held, shared among others, handed to sharers, to
one exclusive waiter, to nobody), each with the next state written out field by
field (the lemmas `...Fields`); each is then a step of `ReaderWriterLock` or none.
`Kept(r, s, t)` collects what each call keeps: `IInv`, the step of the lock, and that
what other threads have and wait for is as it was (`Beside`).

`Served` says of the counts alone that a resource nobody has has no waiters, and that
a shared waiter has a writer before it, inside or waiting. It is kept since who is
admitted is decided under the lock from the same counts that the release looks at;
`CountsAreTrue` carries it from the counts to the threads (`NobodyForgotten`).

*The argument for cache clearing.* `CacheInv` adds to `IInv` of both resources what a
thread in `cfFileCacheClear` has at each label (`InClear`): of each resource what its
caller brought and what the flags `tookMain` and `tookPaging` say that this turn took;
that it waits for `Resource` at most, and only if its caller had none of it; and from
the label on that follows a successful acquisition, that it has it alone. Calls of
other threads do not disturb this, by `Beside`. `NobodyElse` is then the exclusion of
the two resources, and `ReleasesWhatItTook` the depth at the label `release` and at
the end. Every action touches one resource by one call or leaves it, which is
`CacheImplements`.

*The argument for ctrl2cap.* `IInv` has two layers. `References` (what holds the
driver object) and `Filters` (what the loops are at) hold in every interleaving;
`Count`, `Targets`, `Inside` and `Outside` hold while nothing has overlapped: increments
and decrements are undivided, what a loop or a removal goes for is there, a read in
the driver is at a live filter. `CodeStays` then follows from the references: the
image goes when no filter is left.

`DriverKept` rests on `References`. The object is one reference short while filters
exist, so it goes early only where the load or the unload drops all of its own. That
is after a failure in `DriverEntry` or at the end of the unload, and `Backed` says
that no filter is there then: the unload has deleted each, and of several keyboards
the failing `IoCreateDevice` would have to be the second. `OnlyCreateAdds`
is why nothing else needs to be looked at: filters come from one place.

*The argument for rundown protection.* `Counts` says that the counts in the words,
what the waiter has added up (`Value`) and what its block still waits for
(`WaitCount`) are together the number of references held. As counts of single words
may be negative, the sum is carried along the words as a sequence of partial sums
(`Tally`), which a change of one word moves from there on (`SumMoves`). `Stages` ties
the waiter's position to which words are closed, `Waking` to who is the one to signal,
and `Calls` says that nobody gives back what he does not hold. The two conditions of
`Polite` enter in `Stages` only, and only for the cache-aware structure: the plain one
has one word, which is reopened by one store. `Called`, for `WakeupNotLost`: the
decrement that reaches zero is by a thread that goes on to signal, and the waiter goes
to sleep only with a count that is not zero, having added its own to what releases
subtracted meanwhile.

Each step of an invariant proof has one case per action; temporal reasoning is
only in the last step of each theorem.

**Only model-checked.** Liveness and everything about fairness, which the prover does
not handle: `RequestsEnd`, `StringsArrive`, `WaitersServed`, `ClearEnds`, `UnloadEnds`,
`WaitEnds`. The violations of the two findings are counterexamples of the runs; what
is proved about their properties is `LoneReleases`, `SerialReleases` and `DriverKept`.
Every other property of the runs is proved.

## 5. Plan

Done: `DPBitmap`, `DPDriver` with `ProtectedVolume`, `DPPagingPath`, `Coworker2`,
`CryptFile`, `Resource` with `ReaderWriterLock`, `CryptCache`, `Ctrl2cap`, and
`Rundown` with `RundownProtection`. Every safety property of the passing runs is
proved, and both refinements, and that `CryptCache` is made of two resources.

What could be proved next: for each remark below the findings that names a condition,
the strongest statement that still holds without it, as `CountExact` is for the paging
path: of `Ctrl2cap` how far the count can be off when two processors overlap, of
`CryptFile` which pages an overlap can put in the wrong form.

What could follow: `CryptSizes`, the offsets, sizes and positions that
`cf_modify_irp.c` shifts by the header, with creates that truncate a file while it is
listed; `MyDriverFilter`, where `src/MyDriver1` differs from DP (protection for each
device instead of one, 32-bit offsets).

## 6. Not modelled, and why

* **DP**: power IRPs and other IRPs are passed on without state. `DPAddDevice`
  either succeeds or undoes what it did. The boot sector is parsed once; its
  results are the constants `SectorSize` and `TotalSize`, its failure is the
  fault `"online"`. The freed device extension is read once after removal
  (`DPMain.c:743`): what is in freed memory is outside the model.
  `Information` of completed writes is not modelled. Every IRP with a length has
  an aligned range, as the I/O manager guarantees for a volume.
* **coworker, Callback**: no state.
* **crypt_file**: creates that truncate and the shift of offsets and sizes (the model
  keeps no sizes), and mapped views that make a purge fail. Exhausted memory
  (`cf_list.c:91`, `cf_create.c:351`) and the life of the FCB
  are outside the model. A write that cannot allocate its buffer fails and its pages
  stay dirty, which is a `LazyWrite` that does not happen.
* **ctrl2cap**: power IRPs and other requests are passed on without state; the
  translation of scan codes keeps none that a property would be about; filters of
  other drivers above or below.
* **comcap**: what keeps its requests from a deleted filter is a delay of five seconds
  (`comcap.c:131`). A model without time has nothing to say of it: any assumption
  that would make its unloading safe is what would have to be shown.
* **MyDriver1**: ports of DP and ctrl2cap. The bitmap of the disk filter cannot be
  initialised (`Implemention.c:64`), so it never protects anything; the keyboard
  filter is close to a copy.
* **wrk-v1.2**: third-party source, about 99% of the repository's lines. Modelled of it
  are executive resources and rundown protection, and of the I/O manager what
  `Ctrl2cap` needs; the other primitives the drivers use (events, interlocked lists,
  IRPs) are modelled from the use the drivers make of them.

## 7. Running

```
tlc -workers 2 -config DPDriverFaults.cfg MCDPDriver
tlapm DPDriver_proofs.tla
```

Each run takes less than three minutes, most of them seconds. Each module of proofs
takes a minute or two, but for `DPDriver_proofs`, `Resource_proofs` and
`Rundown_proofs`, which take about three.
