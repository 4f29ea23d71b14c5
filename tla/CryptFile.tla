----------------------------- MODULE CryptFile -----------------------------
(***************************************************************************)
(* crypt_file: one file on a FAT volume, opened by the encrypting process  *)
(* and by others.  While the file is in the list of crypting files, what   *)
(* passes between cache and disk is decrypted and encrypted, so the cache  *)
(* holds plain text; while it is not, the cache holds what the disk holds. *)
(*                                                                         *)
(* A file object is named by its opener.  A page is "raw" if it is as on   *)
(* the disk, "plain" if it is decrypted.                                   *)
(***************************************************************************)
EXTENDS Naturals, FiniteSets

CONSTANTS Secure,    \* openers that are notepad.exe
          Normal     \* openers of any other process

Openers == Secure \cup Normal

ASSUME CryptAssumption == IsFiniteSet(Openers) /\ Secure \cap Normal = {}

VARIABLES
    listed,      \* the FCB of the file is in s_cf_list
    kept,        \* s_cf_list_lock is held and nobody will release it
    pc,          \* where each file object is
    goOn,        \* cfIrpCreatePre returned SF_IRP_GO_ON
    view,        \* what the driver decided to show the opener
    file,        \* what cfIrpCreatePre can find: no data, a header, neither
    cache,       \* the kinds of pages in the cache
    dirty,       \* those that must still be written
    deleting,    \* FCB_STATE_DELETE_ON_CLOSE
    miswritten,  \* history: a page went to the disk in the wrong form
    overlapped   \* history: something was opened or closed during a create or close

driver == <<listed, kept>>
data == <<file, cache, dirty, miswritten>>
vars == <<driver, pc, goOn, view, data, deleting, overlapped>>

\* Handles are open: the real one, or the driver's own.
Counted == {t \in Openers : pc[t] \in
    {"own", "decide", "closeOwn", "post", "append", "insert", "cancel", "open"}}

\* FCB->UncleanCount.
UncleanCount == Cardinality(Counted)

\* File objects with a create or a close under way.
InHandler == {t \in Openers : pc[t] \notin {"none", "open", "cleaned"}}

\* OnSfilterDriverEntry.
Init ==
    /\ listed = FALSE /\ kept = FALSE
    /\ pc = [t \in Openers |-> "none"]
    /\ goOn = [t \in Openers |-> FALSE]
    /\ view = [t \in Openers |-> "raw"]
    /\ file \in {"empty", "other", "header"}
    /\ cache = {} /\ dirty = {} /\ deleting = FALSE
    /\ miswritten = FALSE /\ overlapped = FALSE

\* The form pages take on their way into the cache.
Form == IF listed THEN "plain" ELSE "raw"

\* Dirty pages go to the disk: encrypted if the file is listed.
WriteDirty == miswritten' = (miswritten \/ dirty \ {Form} # {})

\* Slip: pages are thrown away before they are written.
CacheClearPurges ==
    /\ ~kept
    /\ cache' = {}
    /\ UNCHANGED <<file, dirty, miswritten>>

\* cfFileCacheClear: flush and purge, under both resources of the FCB.
CacheClear ==
    /\ ~kept
    /\ WriteDirty /\ cache' = {} /\ dirty' = {}
    /\ UNCHANGED file

Goto(t, label) == pc' = [pc EXCEPT ![t] = label]
-----------------------------------------------------------------------------
\* cfIrpCreatePre opens the file for itself, below the filter.
OpenOwn(t) ==
    /\ pc[t] = "none" /\ t \in Secure /\ ~deleting
    /\ Goto(t, "own")
    /\ goOn' = [goOn EXCEPT ![t] = FALSE]
    /\ view' = [view EXCEPT ![t] = "raw"]
    /\ UNCHANGED <<driver, data, deleting>>

\* Is it crypting already?
LookUpOwn(t) ==
    /\ pc[t] = "own" /\ ~kept
    /\ IF listed THEN /\ Goto(t, "closeOwn")
                      /\ view' = [view EXCEPT ![t] = "plain"]
                 ELSE /\ Goto(t, "decide")
                      /\ UNCHANGED view
    /\ UNCHANGED <<driver, goOn, data, deleting>>

\* A header is written to an empty file that is opened for writing; whether
\* that succeeds is not looked at.
NeedsHeader ==
    /\ file = "empty"
    /\ file' \in {"empty", "header"}

HasHeader == file = "header" /\ UNCHANGED file

MustCrypt(t) ==
    /\ pc[t] = "decide"
    /\ NeedsHeader \/ HasHeader
    /\ Goto(t, "closeOwn")
    /\ goOn' = [goOn EXCEPT ![t] = TRUE]
    /\ view' = [view EXCEPT ![t] = "plain"]
    /\ UNCHANGED <<driver, cache, dirty, miswritten, deleting>>

\* Not encrypted: empty and opened for reading, no header, or the header
\* could not be read.
NeedNotCrypt(t) ==
    /\ pc[t] = "decide"
    /\ Goto(t, "closeOwn")
    /\ UNCHANGED <<driver, goOn, view, data, deleting>>

\* The size could not be queried: the request is completed with the error.
PreFails(t) ==
    /\ pc[t] = "decide"
    /\ Goto(t, "none")
    /\ UNCHANGED <<driver, goOn, view, data, deleting>>

CloseOwn(t) ==
    /\ pc[t] = "closeOwn"
    /\ Goto(t, IF goOn[t] THEN "clear" ELSE "create")
    /\ UNCHANGED <<driver, goOn, view, data, deleting>>

\* The header must not stay in the cache.
ClearOwn(t) ==
    /\ pc[t] = "clear" /\ CacheClear
    /\ Goto(t, "create")
    /\ UNCHANGED <<driver, goOn, view, deleting>>

\* OnSfilterIrpPre lets the create of another process go on.
CreateNormal(t) ==
    /\ pc[t] = "none" /\ t \in Normal
    /\ Goto(t, "create")
    /\ UNCHANGED <<driver, goOn, view, data, deleting>>

\* The file system opens the file, or fails and Post does nothing.
Create(t) ==
    /\ pc[t] = "create"
    /\ \/ /\ ~deleting
          /\ Goto(t, IF t \in Normal THEN "post" ELSE IF goOn[t] THEN "append" ELSE "open")
       \/ Goto(t, "none")
    /\ UNCHANGED <<driver, goOn, view, data, deleting>>

\* OnSfilterIrpPost: another process may not open a file that is crypting.
PostNormal(t) ==
    /\ pc[t] = "post" /\ ~kept
    /\ Goto(t, IF listed THEN "cancel" ELSE "open")
    /\ UNCHANGED <<driver, goOn, view, data, deleting>>

\* cfFileCryptAppendLk, before the lock is taken.
AppendClear(t) ==
    /\ pc[t] = "append" /\ CacheClear
    /\ Goto(t, "insert")
    /\ UNCHANGED <<driver, goOn, view, deleting>>

\* Slip: the count is not looked at.
RefusedNever == FALSE

\* Somebody else has the file open.
Refused == UncleanCount > 1

\* cfFileCryptAppendLk, under the lock, which stays held if the file is found.
AppendFound(t) ==
    /\ pc[t] = "insert" /\ ~kept
    /\ listed
    /\ kept' = TRUE
    /\ Goto(t, "open")
    /\ UNCHANGED <<listed, goOn, view, data, deleting>>

AppendRefused(t) ==
    /\ pc[t] = "insert" /\ ~kept
    /\ ~listed /\ Refused
    /\ Goto(t, "cancel")
    /\ UNCHANGED <<driver, goOn, view, data, deleting>>

AppendInsert(t) ==
    /\ pc[t] = "insert" /\ ~kept
    /\ ~listed /\ ~Refused
    /\ listed' = TRUE
    /\ Goto(t, "open")
    /\ UNCHANGED <<kept, goOn, view, data, deleting>>

\* IoCancelFileOpen, below the filter.
Cancel(t) ==
    /\ pc[t] = "cancel"
    /\ Goto(t, "none")
    /\ UNCHANGED <<driver, goOn, view, data, deleting>>
-----------------------------------------------------------------------------
\* A page is read from the disk into the cache.
Read(t) ==
    /\ pc[t] = "open" /\ ~kept
    /\ cache' = cache \cup {Form}
    /\ UNCHANGED <<driver, pc, goOn, view, file, dirty, miswritten, deleting>>

\* The opener writes to the cache.  One that sees the raw file may put
\* anything in the place of the header.
Write(t) ==
    /\ pc[t] = "open"
    /\ cache' = cache \cup {view[t]}
    /\ dirty' = dirty \cup {view[t]}
    /\ \/ file' = IF file = "empty" THEN "other" ELSE file
       \/ view[t] = "raw" /\ file' = "other"
    /\ UNCHANGED <<driver, pc, goOn, view, miswritten, deleting>>

\* The lazy writer: a paging write.
LazyWrite ==
    /\ dirty # {} /\ ~kept
    /\ WriteDirty /\ dirty' = {}
    /\ UNCHANGED <<driver, pc, goOn, view, file, cache, deleting>>

MarkDelete(t) ==
    /\ pc[t] = "open" /\ ~deleting
    /\ deleting' = TRUE
    /\ UNCHANGED <<driver, pc, goOn, view, data>>

\* The last handle of the file object is closed.
Cleanup(t) ==
    /\ pc[t] = "open"
    /\ Goto(t, "cleaned")
    /\ UNCHANGED <<driver, goOn, view, data, deleting>>

\* IRP_MJ_CLOSE, when nothing refers to the file object any more.
ClosePre(t) ==
    /\ pc[t] = "cleaned" /\ ~kept
    /\ Goto(t, IF listed THEN "closing" ELSE "none")
    /\ UNCHANGED <<driver, goOn, view, data, deleting>>

\* Slip: the file is taken off the list without a flush.
CloseClearNot == UNCHANGED data

\* The cache is cleared while the file is still listed.
CloseClear == CacheClear

\* cfCryptFileCleanupComplete, before the lock is taken.
CleanupComplete(t) ==
    /\ pc[t] = "closing" /\ ~kept
    /\ IF UncleanCount <= 1 \/ deleting
       THEN CloseClear /\ Goto(t, "remove")
       ELSE Goto(t, "none") /\ UNCHANGED data
    /\ UNCHANGED <<driver, goOn, view, deleting>>

\* Slip: the node goes with the first file object that is closed.
UnusedAlways == TRUE

\* Slip: an opener is expected to be still counted at its close.
UnusedButOne == UncleanCount = 1 \/ deleting

Unused == UncleanCount = 0 \/ deleting

\* cfCryptFileCleanupComplete, under the lock.
Remove(t) ==
    /\ pc[t] = "remove" /\ ~kept
    /\ listed' = (listed /\ ~Unused)
    /\ Goto(t, "none")
    /\ UNCHANGED <<kept, goOn, view, data, deleting>>

Step(t) ==
    \/ OpenOwn(t) \/ LookUpOwn(t) \/ MustCrypt(t) \/ NeedNotCrypt(t) \/ PreFails(t)
    \/ CloseOwn(t) \/ ClearOwn(t) \/ CreateNormal(t) \/ Create(t) \/ PostNormal(t)
    \/ AppendClear(t) \/ AppendFound(t) \/ AppendRefused(t) \/ AppendInsert(t) \/ Cancel(t)
    \/ Read(t) \/ Write(t) \/ MarkDelete(t)
    \/ Cleanup(t) \/ ClosePre(t) \/ CleanupComplete(t) \/ Remove(t)

\* Another create, cleanup or close comes while one is under way.
Overlap ==
    \E t, u \in Openers : t # u /\ t \in InHandler /\ pc'[u] # pc[u]

Next ==
    /\ LazyWrite \/ \E t \in Openers : Step(t)
    /\ overlapped' = (overlapped \/ Overlap)

Spec == Init /\ [][Next]_vars
-----------------------------------------------------------------------------
Labels == {"none", "own", "decide", "closeOwn", "clear", "create", "post", "append",
           "insert", "cancel", "open", "cleaned", "closing", "remove"}

\* Every variable has its type.
TypeOK ==
    /\ listed \in BOOLEAN /\ kept \in BOOLEAN /\ deleting \in BOOLEAN
    /\ miswritten \in BOOLEAN /\ overlapped \in BOOLEAN
    /\ pc \in [Openers -> Labels] /\ goOn \in [Openers -> BOOLEAN]
    /\ view \in [Openers -> {"raw", "plain"}]
    /\ file \in {"empty", "other", "header"}
    /\ cache \in SUBSET {"raw", "plain"} /\ dirty \in SUBSET cache

\* No process but the encrypting one has the file open while it is listed, in
\* whatever order the creates of both, their checks and their refusals come
\* (the count is read under the lock, and each opener is counted before it
\* looks at the list: cfFileCryptAppendLk and OnSfilterIrpPost).
ListedExcludesNormal == listed => \A n \in Normal : pc[n] # "open"

\* As long as nothing is opened or closed during a create or close: whoever has the
\* file open sees the form that reads and writes are given.
ViewIsForm ==
    ~overlapped /\ ~deleting => \A t \in Openers : pc[t] = "open" => view[t] = Form

\* ... what is in the cache has that form, and nothing went to the disk in the
\* other one ("flush first, then remove from the list, or the writes of the
\* flush are not encrypted": cfCryptFileCleanupComplete).
CacheIsForm ==
    ~overlapped /\ ~deleting =>
        /\ cache \subseteq {Form}
        /\ ~miswritten

\* ... and the file leaves the list with the last of those it was listed for.
ListedIsUsed ==
    ~overlapped => (listed => \E t \in Openers : view[t] = "plain" /\ pc[t] # "none")

\* The list lock is not kept when a call returns: a file that is already in the
\* list is never appended again (the ASSERT in cfFileCryptAppendLk).
LockReleased == ~kept
=============================================================================
