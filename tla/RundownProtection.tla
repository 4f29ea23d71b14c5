-------------------------- MODULE RundownProtection --------------------------
(***************************************************************************)
(* What rundown protection promises, whatever the structure that provides  *)
(* it: references are taken only while the object is open, and the caller  *)
(* that runs it down goes on only when none is left.  The comments of      *)
(* ExfAcquireRundownProtection and ExfWaitForRundownProtectionRelease in   *)
(* wrk-v1.2/base/ntos/ex/rundown.c state it in words.                      *)
(***************************************************************************)
CONSTANT Refs           \* references the clients can take

VARIABLES held,         \* the references taken and not yet given back
          phase         \* "open", "closing": no more references, "done"

vars == <<held, phase>>

TypeOK == held \subseteq Refs /\ phase \in {"open", "closing", "done"}

Init == held = {} /\ phase = "open"

Acquire(R) == /\ phase = "open"
              /\ R \cap held = {}
              /\ held' = held \cup R
              /\ UNCHANGED phase

Release(R) == /\ R \subseteq held
              /\ held' = held \ R
              /\ UNCHANGED phase

\* Running down an object nobody uses is over at once.
Close == /\ phase = "open"
         /\ phase' \in {"closing"} \cup {p \in {"done"} : held = {}}
         /\ UNCHANGED held

Finish == /\ phase = "closing"
          /\ held = {}
          /\ phase' = "done"
          /\ UNCHANGED held

Reopen == /\ phase = "done"
          /\ phase' = "open"
          /\ UNCHANGED held

Next == \/ \E R \in SUBSET Refs : Acquire(R) \/ Release(R)
        \/ Close \/ Finish \/ Reopen

Spec == Init /\ [][Next]_vars
=============================================================================
