--------------------------- MODULE ReaderWriterLock ---------------------------
(***************************************************************************)
(* What an executive resource promises its callers: any number of readers, *)
(* or one writer.                                                          *)
(***************************************************************************)
CONSTANT Threads

VARIABLES readers, writers

lock == <<readers, writers>>

LockInit == readers = {} /\ writers = {}

Read(t) == /\ writers = {}
           /\ readers' = readers \cup {t}
           /\ UNCHANGED writers

Write(t) == /\ readers = {} /\ writers = {}
            /\ writers' = {t}
            /\ UNCHANGED readers

Leave(t) == readers' = readers \ {t} /\ writers' = writers \ {t}

Downgrade(t) == t \in writers /\ writers' = writers \ {t} /\ readers' = readers \cup {t}

LockNext == \E t \in Threads : Read(t) \/ Write(t) \/ Leave(t) \/ Downgrade(t)

LockSpec == LockInit /\ [][LockNext]_lock
===============================================================================
