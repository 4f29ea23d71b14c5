-------------------------- MODULE ProtectedVolume --------------------------
(***************************************************************************)
(* What the volume filter of DP/ promises to the file system above it and  *)
(* to the owner of the disk, without queue, worker, file or bitmap.        *)
(*                                                                         *)
(* vol is what the volume shows, base what a restart brings back.  While   *)
(* the volume is guarded, requests that arrive never change base.  Every   *)
(* request is answered from what its sectors showed while it was under     *)
(* way (a regular register per sector).                                    *)
(***************************************************************************)
EXTENDS Integers

CONSTANTS Irps, Sectors, Orig, Hole

VARIABLES vol, base, guarded,
          phase,     \* "idle", "pending", "ok", "error" or "lost"
          kind, range,
          through,   \* the request was let through to base
          reply,     \* what a read is about to answer
          seen       \* the values its sectors took since it was issued

vars == <<vol, base, guarded, phase, kind, range, through, reply, seen>>

Pending(i) == phase[i] = "pending"

\* The sector shows a write that base never got.
Overlaid(s) == vol[s] \in Irps /\ vol[s] \notin through

Init ==
    /\ base = [s \in Sectors |-> Orig] /\ vol = base
    /\ guarded = FALSE
    /\ phase = [i \in Irps |-> "idle"]
    /\ kind = [i \in Irps |-> "read"] /\ range = [i \in Irps |-> {}]
    /\ through = {}
    /\ reply = [i \in Irps |-> [s \in Sectors |-> Hole]]
    /\ seen = [i \in Irps |-> [s \in Sectors |-> {}]]

Submit(i) ==
    /\ phase[i] = "idle"
    /\ phase' = [phase EXCEPT ![i] = "pending"]
    /\ \E k \in {"read", "write"} : kind' = [kind EXCEPT ![i] = k]
    /\ \E r \in SUBSET Sectors : range' = [range EXCEPT ![i] = r]
    /\ UNCHANGED <<vol, base, guarded, through, reply>>

\* Only an unguarded volume lets a request through to base.
LetThrough(i) ==
    /\ Pending(i) /\ ~guarded
    /\ through' = through \cup {i}
    /\ UNCHANGED <<vol, base, guarded, phase, kind, range, reply>>

StartGuarding ==
    /\ guarded' = TRUE
    /\ UNCHANGED <<vol, base, phase, kind, range, through, reply>>

\* Part of a write becomes visible, on top of base.
Overlay(i) ==
    /\ Pending(i) /\ kind[i] = "write" /\ i \notin through
    /\ \E S \in SUBSET range[i] :
          vol' = [s \in Sectors |-> IF s \in S THEN i ELSE vol[s]]
    /\ UNCHANGED <<base, guarded, phase, kind, range, through, reply>>

\* Part of a write reaches base, below what is overlaid.
Store(i) ==
    /\ Pending(i) /\ kind[i] = "write" /\ i \in through
    /\ \E S \in SUBSET range[i] :
          /\ base' = [s \in Sectors |-> IF s \in S THEN i ELSE base[s]]
          /\ vol' = [s \in Sectors |-> IF s \in S /\ ~Overlaid(s) THEN i ELSE vol[s]]
    /\ UNCHANGED <<guarded, phase, kind, range, through, reply>>

PrepareReply(i) ==
    /\ Pending(i) /\ kind[i] = "read"
    /\ \A j \in Irps \ {i} : reply'[j] = reply[j]
    /\ UNCHANGED <<vol, base, guarded, phase, kind, range, through>>

\* A read answers with current values; a write ends when all of it has been
\* visible, or lies below sectors that were overlaid meanwhile.
Succeed(i) ==
    /\ Pending(i)
    /\ \A s \in range[i] :
          \/ kind[i] = "read" /\ reply[i][s] \in seen[i][s]
          \/ kind[i] = "write" /\ (i \in seen[i][s] \/ (i \in through /\ Overlaid(s)))
    /\ phase' = [phase EXCEPT ![i] = "ok"]
    /\ \A j \in Irps \ {i} : reply'[j] = reply[j]
    /\ UNCHANGED <<vol, base, guarded, kind, range, through>>

Fail(i) ==
    /\ Pending(i)
    /\ phase' = [phase EXCEPT ![i] = "error"]
    /\ \A j \in Irps \ {i} : reply'[j] = reply[j]
    /\ UNCHANGED <<vol, base, guarded, kind, range, through>>

\* A restart undoes everything but base.
Restart ==
    /\ vol' = base /\ guarded' = FALSE
    /\ phase' = [i \in Irps |-> IF Pending(i) THEN "lost" ELSE phase[i]]
    /\ UNCHANGED <<base, kind, range, through>>

Observe ==
    seen' = [i \in Irps |-> [s \in Sectors |->
                IF phase'[i] # "pending" THEN {}
                ELSE seen[i][s] \cup {vol'[s]}
                     \cup (IF base'[s] = base[s] THEN {} ELSE {base'[s]})]]

Next ==
    /\ \/ \E i \in Irps : \/ Submit(i) \/ LetThrough(i) \/ Overlay(i) \/ Store(i)
                          \/ PrepareReply(i) \/ Succeed(i) \/ Fail(i)
       \/ StartGuarding
       \/ Restart
    /\ Observe

Spec == Init /\ [][Next]_vars
=============================================================================
