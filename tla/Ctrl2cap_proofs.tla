--------------------------- MODULE Ctrl2cap_proofs ---------------------------
(***************************************************************************)
(* Proofs about Ctrl2cap for any finite sets of keyboards and reads, any   *)
(* width of the count that holds them, and any failures.                   *)
(***************************************************************************)
EXTENDS Ctrl2cap, FiniteSetTheorems, TLAPS

-----------------------------------------------------------------------------
\* References of the driver object that are not those of its filters: its name's,
\* the loading or unloading thread's and the load's own, less the one line 149
\* drops.  After OpenFails there is one more.
Held == CASE sys \in {"open", "detach", "delete", "poll", "owes3"} -> 2
          [] sys \in {"create", "attach", "init", "loaded", "owes2"} -> 1
          [] sys = "owes1" -> 0
          [] OTHER -> -1

References ==
    sys # "crashed" => \/ refs = Held + Cardinality(Devices)
                       \/ sys \in {"owes2", "owes1", "absent"} /\ Devices = {} /\ refs = Held + 1

\* The state of a filter follows the thread that loads and unloads and the removal
\* of its keyboard.
Filters ==
    /\ sys \in {"attach", "init", "detach", "delete"} => cursor \in Keyboards
    /\ sys = "attach" => filter[cursor] = "made"
    /\ sys = "delete" => filter[cursor] = "loose" /\ keyboard[cursor] # "loose"
    /\ sys \in {"open", "poll", "owes3"} => Devices = {}
    /\ sys # "crashed" => \A k \in Keyboards :
        /\ k \in attached <=> filter[k] \in {"bound", "ready"}
        /\ filter[k] = "made" => sys = "attach" /\ cursor = k
        /\ filter[k] = "bound" => sys = "init" /\ cursor = k
        /\ filter[k] = "loose" => (sys = "delete" /\ cursor = k) \/ keyboard[k] = "loose"
        /\ keyboard[k] = "loose" => filter[k] = "loose"

\* It is on its way through the filter down to the keyboard.
Passed(r) == thread[r] \in {"entered", "counting", "forward"}

Requests ==
    \A r \in Reads : /\ Passed(r) => through[r] /\ irp[r] = "none" /\ at[r] \in Keyboards
                     /\ irp[r] \in {"complete", "uncounting", "leaving"} => through[r]
                     /\ irp[r] # "none" => at[r] \in Keyboards

\* The two steps of an increment, or of a decrement, are not divided.
Count ==
    ~overlapped =>
        /\ count = Cardinality(InFlight)
        /\ \A r \in Reads : thread[r] = "counting" \/ irp[r] = "uncounting" => reg[r] = count

\* What a thread goes for is there.
Targets ==
    /\ sys = "crashed" => overlapped
    /\ ~overlapped /\ sys = "detach" => cursor \in Devices
    /\ ~overlapped => \A k \in Keyboards : keyboard[k] = "going" => k \in attached

\* A read in the driver is at a filter.
Inside ==
    ~overlapped =>
        \A r \in Reads : /\ Passed(r) => at[r] \in attached /\ filter[at[r]] = "ready"
                         /\ through[r] /\ irp[r] = "below" /\ ~Unloading => at[r] \in attached

\* Without filters, no read is in the driver, except while it unloads.
Outside == ~overlapped /\ ~Unloading /\ Devices = {} => InCode = {}

IInv == TypeOK /\ References /\ Filters /\ Requests /\ Count /\ Targets /\ Inside /\ Outside

-----------------------------------------------------------------------------
\* A set of keyboards, or of reads, that one joins or leaves.
LEMMA Joins ==
    ASSUME NEW S, IsFiniteSet(S), NEW x, x \notin S
    PROVE  Cardinality(S \cup {x}) = Cardinality(S) + 1
BY FS_AddElement

LEMMA Leaves ==
    ASSUME NEW S, IsFiniteSet(S), NEW x \in S
    PROVE  Cardinality(S \ {x}) = Cardinality(S) - 1
BY FS_RemoveElement

\* The numbers of filters and of reads in flight.
LEMMA Numbers ==
    /\ IsFiniteSet(Devices) /\ Cardinality(Devices) \in Nat
    /\ Cardinality(Devices) = 0 <=> Devices = {}
    /\ IsFiniteSet(InFlight) /\ Cardinality(InFlight) \in Nat /\ Cardinality(InFlight) < Wrap
    /\ Cardinality(InFlight) = 0 <=> InFlight = {}
<1>1. Devices \subseteq Keyboards /\ InFlight \subseteq Reads
  BY DEF Devices, InFlight
<1>2. /\ IsFiniteSet(Devices) /\ IsFiniteSet(InFlight)
      /\ Cardinality(InFlight) <= Cardinality(Reads)
  BY <1>1, FilterAssumption, FS_Subset
<1>3. Cardinality(Devices) \in Nat /\ Cardinality(InFlight) \in Nat /\ Cardinality(Reads) \in Nat
  BY <1>2, FilterAssumption, FS_CardinalityType
<1>4. /\ Cardinality(Devices) = 0 <=> Devices = {}
      /\ Cardinality(InFlight) = 0 <=> InFlight = {}
  BY <1>2, FS_EmptySet
<1> QED  BY <1>2, <1>3, <1>4, FilterAssumption

LEMMA NumbersNext ==
    /\ IsFiniteSet(Devices') /\ Cardinality(Devices') \in Nat
    /\ IsFiniteSet(InFlight') /\ Cardinality(InFlight') \in Nat /\ Cardinality(InFlight') < Wrap
<1>1. Devices' \subseteq Keyboards /\ InFlight' \subseteq Reads
  BY DEF Devices, InFlight
<1>2. /\ IsFiniteSet(Devices') /\ IsFiniteSet(InFlight')
      /\ Cardinality(InFlight') <= Cardinality(Reads)
  BY <1>1, FilterAssumption, FS_Subset
<1>3. Cardinality(Devices') \in Nat /\ Cardinality(InFlight') \in Nat /\ Cardinality(Reads) \in Nat
  BY <1>2, FilterAssumption, FS_CardinalityType
<1> QED  BY <1>2, <1>3, FilterAssumption

\* Counting modulo 2^32.
LEMMA Modulo ==
    /\ 0 \in 0 .. Wrap - 1
    /\ \A i \in Int : i % Wrap \in 0 .. Wrap - 1
    /\ \A i \in 0 .. Wrap - 1 : i % Wrap = i
<1>1. Wrap \in Int /\ Wrap > 0
  BY FilterAssumption, FS_CardinalityType
<1>2. ASSUME NEW i \in Int
      PROVE  i % Wrap \in 0 .. Wrap - 1 /\ (i \in 0 .. Wrap - 1 => i % Wrap = i)
  BY <1>1
<1>3. 0 \in 0 .. Wrap - 1
  BY <1>1
<1> QED  BY <1>1, <1>2, <1>3

\* The references are counted right.
LEMMA ReferencesNext ==
    ASSUME TypeOK, References, Filters, ~Lost, Next
    PROVE  References'
<1>1. CASE Load
  <2>1. Devices' = Devices
    BY <1>1 DEF Devices, TypeOK, Filters, Lost, Load, stack, reads
  <2> QED  BY <1>1, <2>1, Numbers DEF References, Held, TypeOK, Filters, Lost, Gone, Load,
       stack, reads
<1>2. CASE OpenKbdclass
  <2>1. Devices' = Devices
    BY <1>2 DEF Devices, TypeOK, Filters, Lost, OpenKbdclass, stack, reads
  <2> QED  BY <1>2, <2>1, Numbers DEF References, Held, TypeOK, Filters, Lost, Gone,
       OpenKbdclass, stack, reads
<1>3. CASE OpenFails
  <2>1. Devices' = Devices
    BY <1>3 DEF Devices, TypeOK, Filters, Lost, OpenFails, stack, reads
  <2> QED  BY <1>3, <2>1, Numbers DEF References, Held, TypeOK, Filters, Lost, Gone, OpenFails,
       stack, reads
<1>4. CASE CreateFilter
  <2>1. PICK k \in targets : filter[k] = "none" /\ filter' = [filter EXCEPT ![k] = "made"] /\ refs' = refs + 1
    BY <1>4 DEF CreateFilter, IoCreateDevice
  <2>2. k \in Keyboards /\ k \notin Devices /\ Devices' = Devices \cup {k}
    BY <2>1 DEF TypeOK, Devices
  <2> QED  BY <1>4, <2>1, <2>2, Numbers, Joins DEF CreateFilter, References, Held, TypeOK
<1>5. CASE CreateFails
  <2>1. Devices' = Devices
    BY <1>5 DEF Devices, TypeOK, Filters, Lost, CreateFails, stack, reads
  <2> QED  BY <1>5, <2>1, Numbers DEF References, Held, TypeOK, Filters, Lost, Gone,
       CreateFails, stack, reads
<1>6. CASE Attach
  <2>1. Devices' = Devices
    BY <1>6 DEF Devices, TypeOK, Filters, Lost, Attach, IoAttachDevice, reads
  <2> QED  BY <1>6, <2>1, Numbers DEF References, Held, TypeOK, Filters, Lost, Gone, Attach,
       IoAttachDevice, reads
<1>7. CASE AttachFails
  <2>1. filter' = [filter EXCEPT ![cursor] = "none"] /\ refs' = refs - 1
    BY <1>7 DEF AttachFails, IoDeleteDevice
  <2>2. cursor \in Devices /\ Devices' = Devices \ {cursor}
    BY <1>7, <2>1 DEF AttachFails, Filters, TypeOK, Devices
  <2>3. Cardinality(Devices') = Cardinality(Devices) - 1 /\ Devices # {}
    BY <2>2, Numbers, Leaves
  <2> QED  BY <1>7, <2>1, <2>3, Numbers DEF AttachFails, References, Held, TypeOK
<1>8. CASE InitExtension
  <2>1. Devices' = Devices
    BY <1>8 DEF Devices, TypeOK, Filters, Lost, InitExtension, reads
  <2> QED  BY <1>8, <2>1, Numbers DEF References, Held, TypeOK, Filters, Lost, Gone,
       InitExtension, reads
<1>9. CASE AttachedAll
  <2>1. Devices' = Devices
    BY <1>9 DEF Devices, TypeOK, Filters, Lost, AttachedAll, stack, reads
  <2> QED  BY <1>9, <2>1, Numbers DEF References, Held, TypeOK, Filters, Lost, Gone,
       AttachedAll, stack, reads
<1>10. CASE BeginUnload
  <2>1. Devices' = Devices
    BY <1>10 DEF Devices, TypeOK, Filters, Lost, BeginUnload, WalkTo, stack, reads
  <2> QED  BY <1>10, <2>1, Numbers DEF References, Held, TypeOK, Filters, Lost, Gone,
       BeginUnload, WalkTo, stack, reads
<1>11. CASE Detach
  <2>1. Devices' = Devices
    BY <1>11 DEF Devices, TypeOK, Filters, Lost, Detach, IoDetachDevice, Crash, reads, stack
  <2> QED  BY <1>11, <2>1, Numbers DEF References, Held, TypeOK, Filters, Lost, Gone, Detach,
       IoDetachDevice, Crash, reads, stack
<1>12. CASE Delete
  <2>1. filter' = [filter EXCEPT ![cursor] = "none"] /\ refs' = refs - 1
    BY <1>12 DEF Delete, IoDeleteDevice
  <2>2. cursor \in Devices /\ Devices' = Devices \ {cursor}
    BY <1>12, <2>1 DEF Delete, Filters, TypeOK, Devices
  <2>3. Cardinality(Devices') = Cardinality(Devices) - 1 /\ Devices # {}
    BY <2>2, Numbers, Leaves
  <2> QED  BY <1>12, <2>1, <2>3, Numbers DEF Delete, WalkTo, References, Held, TypeOK
<1>13. CASE Poll
  <2>1. Devices' = Devices
    BY <1>13 DEF Devices, TypeOK, Filters, Lost, Poll, stack, reads
  <2> QED  BY <1>13, <2>1, Numbers DEF References, Held, TypeOK, Filters, Lost, Gone, Poll,
       stack, reads
<1>14. CASE Dereference
  <2>1. Devices' = Devices
    BY <1>14 DEF Devices, TypeOK, Filters, Lost, Dereference, stack, reads
  <2> QED  BY <1>14, <2>1, Numbers DEF References, Held, TypeOK, Filters, Lost, Gone,
       Dereference, stack, reads
<1>15. ASSUME NEW k \in Keyboards, RemoveForward(k) PROVE References'
  <2>1. Devices' = Devices
    BY <1>15 DEF Devices, TypeOK, Filters, Lost, RemoveForward, Crash, stack, reads
  <2> QED  BY <1>15, <2>1, Numbers DEF References, Held, TypeOK, Filters, Lost, Gone,
       RemoveForward, Crash, stack, reads
<1>16. ASSUME NEW k \in Keyboards, RemoveDetach(k) PROVE References'
  <2>1. Devices' = Devices
    BY <1>16 DEF Devices, TypeOK, Filters, Lost, RemoveDetach, IoDetachDevice, Crash, reads,
         stack
  <2> QED  BY <1>16, <2>1, Numbers DEF References, Held, TypeOK, Filters, Lost, Gone,
       RemoveDetach, IoDetachDevice, Crash, reads, stack
<1>17. ASSUME NEW k \in Keyboards, RemoveDelete(k) PROVE References'
  <2>1. filter' = [filter EXCEPT ![k] = "none"] /\ refs' = refs - 1 /\ sys' = sys
    BY <1>17 DEF RemoveDelete, IoDeleteDevice
  <2>2. k \in Devices /\ Devices' = Devices \ {k}
    BY <1>17, <2>1 DEF RemoveDelete, Lost, Filters, TypeOK, Devices
  <2>3. Cardinality(Devices') = Cardinality(Devices) - 1 /\ Devices # {}
    BY <2>2, Numbers, Leaves
  <2> QED  BY <2>1, <2>3, Numbers DEF Lost, References, Held, TypeOK
<1>18. ASSUME NEW r \in Reads, NEW k \in Keyboards, IssueRead(r, k) PROVE References'
  <2>1. Devices' = Devices
    BY <1>18 DEF Devices, TypeOK, Filters, Lost, IssueRead, GoTo, Becomes, stack
  <2> QED  BY <1>18, <2>1, Numbers DEF References, Held, TypeOK, Filters, Lost, Gone, IssueRead,
       GoTo, Becomes, stack
<1>19. ASSUME NEW r \in Reads, Reject(r) PROVE References'
  <2>1. Devices' = Devices
    BY <1>19 DEF Devices, TypeOK, Filters, Lost, Reject, Becomes, GoTo, Ended, stack
  <2> QED  BY <1>19, <2>1, Numbers DEF References, Held, TypeOK, Filters, Lost, Gone, Reject,
       Becomes, GoTo, Ended, stack
<1>20. ASSUME NEW r \in Reads, LoadToIncrement(r) PROVE References'
  <2>1. Devices' = Devices
    BY <1>20 DEF Devices, TypeOK, Filters, Lost, LoadToIncrement, GoTo, stack
  <2> QED  BY <1>20, <2>1, Numbers DEF References, Held, TypeOK, Filters, Lost, Gone,
       LoadToIncrement, GoTo, stack
<1>21. ASSUME NEW r \in Reads, Increment(r) PROVE References'
  <2>1. Devices' = Devices
    BY <1>21 DEF Devices, TypeOK, Filters, Lost, Increment, GoTo, stack
  <2> QED  BY <1>21, <2>1, Numbers DEF References, Held, TypeOK, Filters, Lost, Gone, Increment,
       GoTo, stack
<1>22. ASSUME NEW r \in Reads, Forward(r) PROVE References'
  <2>1. Devices' = Devices
    BY <1>22 DEF Devices, TypeOK, Filters, Lost, Forward, GoTo, Becomes, stack
  <2> QED  BY <1>22, <2>1, Numbers DEF References, Held, TypeOK, Filters, Lost, Gone, Forward,
       GoTo, Becomes, stack
<1>23. ASSUME NEW r \in Reads, ReturnFromDispatch(r) PROVE References'
  <2>1. Devices' = Devices
    BY <1>23 DEF Devices, TypeOK, Filters, Lost, ReturnFromDispatch, GoTo, stack
  <2> QED  BY <1>23, <2>1, Numbers DEF References, Held, TypeOK, Filters, Lost, Gone,
       ReturnFromDispatch, GoTo, stack
<1>24. ASSUME NEW r \in Reads, CompleteRead(r) PROVE References'
  <2>1. Devices' = Devices
    BY <1>24 DEF Devices, TypeOK, Filters, Lost, CompleteRead, Becomes, Ended, stack
  <2> QED  BY <1>24, <2>1, Numbers DEF References, Held, TypeOK, Filters, Lost, Gone,
       CompleteRead, Becomes, Ended, stack
<1>25. ASSUME NEW r \in Reads, LoadToDecrement(r) PROVE References'
  <2>1. Devices' = Devices
    BY <1>25 DEF Devices, TypeOK, Filters, Lost, LoadToDecrement, Becomes, stack
  <2> QED  BY <1>25, <2>1, Numbers DEF References, Held, TypeOK, Filters, Lost, Gone,
       LoadToDecrement, Becomes, stack
<1>26. ASSUME NEW r \in Reads, Decrement(r) PROVE References'
  <2>1. Devices' = Devices
    BY <1>26 DEF Devices, TypeOK, Filters, Lost, Decrement, Becomes, stack
  <2> QED  BY <1>26, <2>1, Numbers DEF References, Held, TypeOK, Filters, Lost, Gone, Decrement,
       Becomes, stack
<1>27. ASSUME NEW r \in Reads, ReturnFromCompletion(r) PROVE References'
  <2>1. Devices' = Devices
    BY <1>27 DEF Devices, TypeOK, Filters, Lost, ReturnFromCompletion, Becomes, Ended, stack
  <2> QED  BY <1>27, <2>1, Numbers DEF References, Held, TypeOK, Filters, Lost, Gone,
       ReturnFromCompletion, Becomes, Ended, stack
<1> QED  BY <1>1, <1>2, <1>3, <1>4, <1>5, <1>6, <1>7, <1>8, <1>9, <1>10, <1>11, <1>12,
     <1>13, <1>14, <1>15, <1>16, <1>17, <1>18, <1>19, <1>20, <1>21, <1>22, <1>23, <1>24,
     <1>25, <1>26, <1>27 DEF Next, DriverEntry, c2pUnload, c2pRemove, c2pDispatchRead,
     c2pReadComplete

\* Line 149 takes one reference too many, and no more.
LEMMA RefsNext ==
    ASSUME TypeOK, References', sys' # "crashed" \/ refs' = refs
    PROVE  refs' \in Nat \cup {-1}
BY NumbersNext DEF TypeOK, References, Held

\* Only one reference is dropped or taken when the machine stops.
LEMMA CrashKeeps ==
    ASSUME ~Lost, Next
    PROVE  sys' # "crashed" \/ refs' = refs
BY DEF Next, DriverEntry, c2pUnload, c2pRemove, c2pDispatchRead, c2pReadComplete, Lost, Crash,
       WalkTo, Load, OpenKbdclass, OpenFails, CreateFilter, CreateFails,
       Attach, AttachFails, InitExtension, AttachedAll, BeginUnload,
       Detach, Delete, Poll, Dereference, RemoveForward,
       RemoveDetach, RemoveDelete, IssueRead, Reject, LoadToIncrement,
       Increment, Forward, ReturnFromDispatch, CompleteRead, LoadToDecrement,
       Decrement, ReturnFromCompletion

\* Every step keeps the types.
LEMMA TypeNext ==
    ASSUME TypeOK, References', Filters, Requests, ~Lost, Next
    PROVE  TypeOK'
<1>1. CASE Load
  <2>1. refs' \in Nat \cup {-1}
    BY RefsNext, CrashKeeps
  <2>2. overlapped' \in BOOLEAN
    BY <1>1 DEF TypeOK, Load, stack, reads, WorkerStep, Overlap
  <2>3. count' \in 0 .. Wrap - 1 /\ reg' \in [Reads -> 0 .. Wrap - 1]
    BY <1>1, Modulo DEF TypeOK, Load, stack, reads, WorkerStep, Overlap
  <2> QED  BY <1>1, <2>1, <2>2, <2>3 DEF TypeOK, FilterStates, Filters, Devices, Load, stack,
       reads
<1>2. CASE OpenKbdclass
  BY <1>2, RefsNext, CrashKeeps, Modulo DEF OpenKbdclass, stack, reads, WorkerStep, Overlap,
       TypeOK, FilterStates, Filters, Requests
<1>3. CASE OpenFails
  BY <1>3, RefsNext, CrashKeeps, Modulo DEF OpenFails, stack, reads, WorkerStep, Overlap,
       TypeOK, FilterStates, Filters, Requests
<1>4. CASE CreateFilter
  BY <1>4, RefsNext, CrashKeeps, Modulo DEF CreateFilter, IoCreateDevice, reads, WorkerStep,
       Overlap, TypeOK, FilterStates, Filters, Requests
<1>5. CASE CreateFails
  BY <1>5, RefsNext, CrashKeeps, Modulo DEF CreateFails, stack, reads, WorkerStep, Overlap,
       TypeOK, FilterStates, Filters, Requests
<1>6. CASE Attach
  BY <1>6, RefsNext, CrashKeeps, Modulo DEF Attach, IoAttachDevice, reads, WorkerStep,
       Overlap, TypeOK, FilterStates, Filters, Requests
<1>7. CASE AttachFails
  BY <1>7, RefsNext, CrashKeeps, Modulo DEF AttachFails, IoDeleteDevice, reads, WorkerStep,
       Overlap, TypeOK, FilterStates, Filters, Requests
<1>8. CASE InitExtension
  BY <1>8, RefsNext, CrashKeeps, Modulo DEF InitExtension, reads, WorkerStep, Overlap,
       TypeOK, FilterStates, Filters, Requests
<1>9. CASE AttachedAll
  BY <1>9, RefsNext, CrashKeeps, Modulo DEF AttachedAll, stack, reads, WorkerStep, Overlap,
       TypeOK, FilterStates, Filters, Requests
<1>10. CASE BeginUnload
  <2>1. refs' \in Nat \cup {-1}
    BY RefsNext, CrashKeeps
  <2>2. overlapped' \in BOOLEAN
    BY <1>10 DEF TypeOK, BeginUnload, WalkTo, stack, reads, WorkerStep, Overlap
  <2>3. count' \in 0 .. Wrap - 1 /\ reg' \in [Reads -> 0 .. Wrap - 1]
    BY <1>10, Modulo DEF TypeOK, BeginUnload, WalkTo, stack, reads, WorkerStep, Overlap
  <2> QED  BY <1>10, <2>1, <2>2, <2>3 DEF TypeOK, FilterStates, Filters, Devices, BeginUnload,
       WalkTo, stack, reads
<1>11. CASE Detach
  BY <1>11, RefsNext, CrashKeeps, Modulo DEF Detach, IoDetachDevice, Crash, reads, stack,
       WorkerStep, Overlap, TypeOK, FilterStates, Filters, Requests
<1>12. CASE Delete
  <2>1. refs' \in Nat \cup {-1}
    BY RefsNext, CrashKeeps
  <2>2. overlapped' \in BOOLEAN
    BY <1>12 DEF TypeOK, Delete, IoDeleteDevice, WalkTo, reads, WorkerStep, Overlap
  <2>3. count' \in 0 .. Wrap - 1 /\ reg' \in [Reads -> 0 .. Wrap - 1]
    BY <1>12, Modulo DEF TypeOK, Delete, IoDeleteDevice, WalkTo, reads, WorkerStep, Overlap
  <2> QED  BY <1>12, <2>1, <2>2, <2>3 DEF TypeOK, FilterStates, Filters, Devices, Delete,
       IoDeleteDevice, WalkTo, reads
<1>13. CASE Poll
  BY <1>13, RefsNext, CrashKeeps, Modulo DEF Poll, stack, reads, WorkerStep, Overlap,
       TypeOK, FilterStates, Filters, Requests
<1>14. CASE Dereference
  BY <1>14, RefsNext, CrashKeeps, Modulo DEF Dereference, stack, reads, Overlap, TypeOK,
       FilterStates, Filters, Requests
<1>15. ASSUME NEW k \in Keyboards, RemoveForward(k) PROVE TypeOK'
  BY <1>15, RefsNext, CrashKeeps, Modulo DEF RemoveForward, Crash, stack, reads, RemoveStep,
       Overlap, TypeOK, FilterStates, Filters, Requests
<1>16. ASSUME NEW k \in Keyboards, RemoveDetach(k) PROVE TypeOK'
  BY <1>16, RefsNext, CrashKeeps, Modulo DEF RemoveDetach, IoDetachDevice, Crash, reads,
       stack, RemoveStep, Overlap, TypeOK, FilterStates, Filters, Requests
<1>17. ASSUME NEW k \in Keyboards, RemoveDelete(k) PROVE TypeOK'
  BY <1>17, RefsNext, CrashKeeps, Modulo DEF RemoveDelete, IoDeleteDevice, reads,
       RemoveStep, Overlap, TypeOK, FilterStates, Filters, Requests
<1>18. ASSUME NEW r \in Reads, NEW k \in Keyboards, IssueRead(r, k) PROVE TypeOK'
  <2>1. refs' \in Nat \cup {-1}
    BY RefsNext, CrashKeeps
  <2>2. overlapped' \in BOOLEAN
    BY <1>18 DEF TypeOK, IssueRead, GoTo, Becomes, stack, Overlap
  <2>3. count' \in 0 .. Wrap - 1 /\ reg' \in [Reads -> 0 .. Wrap - 1]
    BY <1>18, Modulo DEF TypeOK, IssueRead, GoTo, Becomes, stack, Overlap
  <2>4. thread' \in [Reads -> {"out", "entered", "counting", "forward", "back"}]
    BY <1>18 DEF TypeOK, IssueRead, GoTo, Becomes, stack
  <2>5. irp' \in [Reads -> {"none", "below", "complete", "uncounting", "leaving"}]
    BY <1>18 DEF TypeOK, IssueRead, GoTo, Becomes, stack
  <2>6. at' \in [Reads -> Keyboards \cup {NULL}] /\ through' \in [Reads -> BOOLEAN]
    BY <1>18 DEF TypeOK, IssueRead, GoTo, Becomes, stack
  <2> QED  BY <1>18, <2>1, <2>2, <2>3, <2>4, <2>5, <2>6 DEF TypeOK, IssueRead, stack
<1>19. ASSUME NEW r \in Reads, Reject(r) PROVE TypeOK'
  BY <1>19, RefsNext, CrashKeeps, Modulo DEF Reject, Becomes, GoTo, Ended, stack,
       ThreadStep, Overlap, TypeOK, FilterStates, Filters, Requests
<1>20. ASSUME NEW r \in Reads, LoadToIncrement(r) PROVE TypeOK'
  BY <1>20, RefsNext, CrashKeeps, Modulo DEF LoadToIncrement, GoTo, stack, ThreadStep,
       Overlap, TypeOK, FilterStates, Filters, Requests
<1>21. ASSUME NEW r \in Reads, Increment(r) PROVE TypeOK'
  <2>1. refs' \in Nat \cup {-1}
    BY RefsNext, CrashKeeps
  <2>2. overlapped' \in BOOLEAN
    BY <1>21 DEF TypeOK, Increment, GoTo, stack, ThreadStep, Overlap
  <2>3. count' \in 0 .. Wrap - 1 /\ reg' \in [Reads -> 0 .. Wrap - 1]
    <3>0. reg[r] \in 0 .. Wrap - 1
      BY DEF TypeOK
    <3>1. reg[r] + 1 \in Int /\ 0 \in 0 .. Wrap - 1
      BY <3>0, Modulo
    <3>2. count' \in 0 .. Wrap - 1
      BY <1>21, <3>1, Modulo DEF Increment
    <3> QED  BY <1>21, <3>1, <3>2 DEF Increment, TypeOK
  <2> QED  BY <1>21, <2>1, <2>2, <2>3 DEF TypeOK, FilterStates, Filters, Devices, Increment,
       GoTo, stack
<1>22. ASSUME NEW r \in Reads, Forward(r) PROVE TypeOK'
  BY <1>22, RefsNext, CrashKeeps, Modulo DEF Forward, GoTo, Becomes, stack, ThreadStep,
       Overlap, TypeOK, FilterStates, Filters, Requests
<1>23. ASSUME NEW r \in Reads, ReturnFromDispatch(r) PROVE TypeOK'
  BY <1>23, RefsNext, CrashKeeps, Modulo DEF ReturnFromDispatch, GoTo, stack, ThreadStep,
       Overlap, TypeOK, FilterStates, Filters, Requests
<1>24. ASSUME NEW r \in Reads, CompleteRead(r) PROVE TypeOK'
  <2>1. refs' \in Nat \cup {-1}
    BY RefsNext, CrashKeeps
  <2>2. overlapped' \in BOOLEAN
    BY <1>24 DEF TypeOK, CompleteRead, Becomes, Ended, stack, CompletionStep, Overlap
  <2>3. count' \in 0 .. Wrap - 1 /\ reg' \in [Reads -> 0 .. Wrap - 1]
    BY <1>24, Modulo DEF TypeOK, CompleteRead, Becomes, Ended, stack, CompletionStep, Overlap
  <2>4. thread' \in [Reads -> {"out", "entered", "counting", "forward", "back"}]
    BY <1>24 DEF TypeOK, CompleteRead, Becomes, Ended, stack
  <2>5. irp' \in [Reads -> {"none", "below", "complete", "uncounting", "leaving"}]
    BY <1>24 DEF TypeOK, CompleteRead, Becomes, Ended, stack
  <2>6. at' \in [Reads -> Keyboards \cup {NULL}] /\ through' \in [Reads -> BOOLEAN]
    BY <1>24 DEF TypeOK, CompleteRead, Becomes, Ended, stack
  <2> QED  BY <1>24, <2>1, <2>2, <2>3, <2>4, <2>5, <2>6 DEF TypeOK, CompleteRead, stack
<1>25. ASSUME NEW r \in Reads, LoadToDecrement(r) PROVE TypeOK'
  BY <1>25, RefsNext, CrashKeeps, Modulo DEF LoadToDecrement, Becomes, stack,
       CompletionStep, Overlap, TypeOK, FilterStates, Filters, Requests
<1>26. ASSUME NEW r \in Reads, Decrement(r) PROVE TypeOK'
  <2>1. refs' \in Nat \cup {-1}
    BY RefsNext, CrashKeeps
  <2>2. overlapped' \in BOOLEAN
    BY <1>26 DEF TypeOK, Decrement, Becomes, stack, CompletionStep, Overlap
  <2>3. count' \in 0 .. Wrap - 1 /\ reg' \in [Reads -> 0 .. Wrap - 1]
    <3>0. reg[r] \in 0 .. Wrap - 1
      BY DEF TypeOK
    <3>1. reg[r] - 1 \in Int /\ 0 \in 0 .. Wrap - 1
      BY <3>0, Modulo
    <3>2. count' \in 0 .. Wrap - 1
      BY <1>26, <3>1, Modulo DEF Decrement
    <3> QED  BY <1>26, <3>1, <3>2 DEF Decrement, TypeOK
  <2> QED  BY <1>26, <2>1, <2>2, <2>3 DEF TypeOK, FilterStates, Filters, Devices, Decrement,
       Becomes, stack
<1>27. ASSUME NEW r \in Reads, ReturnFromCompletion(r) PROVE TypeOK'
  BY <1>27, RefsNext, CrashKeeps, Modulo DEF ReturnFromCompletion, Becomes, Ended, stack,
       CompletionStep, Overlap, TypeOK, FilterStates, Filters, Requests
<1> QED  BY <1>1, <1>2, <1>3, <1>4, <1>5, <1>6, <1>7, <1>8, <1>9, <1>10, <1>11, <1>12,
     <1>13, <1>14, <1>15, <1>16, <1>17, <1>18, <1>19, <1>20, <1>21, <1>22, <1>23, <1>24,
     <1>25, <1>26, <1>27 DEF Next, DriverEntry, c2pUnload, c2pRemove, c2pDispatchRead,
     c2pReadComplete

\* The state of each filter follows the two threads that change it.
LEMMA FiltersNext ==
    ASSUME TypeOK, Filters, ~Lost, Next
    PROVE  Filters'
<1>1. CASE Load
  BY <1>1 DEF Load, stack, reads, TypeOK, Filters, FilterStates, Devices, Lost
<1>2. CASE OpenKbdclass
  BY <1>2 DEF OpenKbdclass, stack, reads, TypeOK, Filters, FilterStates, Devices, Lost
<1>3. CASE OpenFails
  BY <1>3 DEF OpenFails, stack, reads, TypeOK, Filters, FilterStates, Devices, Lost
<1>4. CASE CreateFilter
  BY <1>4 DEF CreateFilter, IoCreateDevice, reads, TypeOK, Filters, FilterStates, Devices,
       Lost
<1>5. CASE CreateFails
  BY <1>5 DEF CreateFails, stack, reads, TypeOK, Filters, FilterStates, Devices, Lost
<1>6. CASE Attach
  BY <1>6 DEF Attach, IoAttachDevice, reads, TypeOK, Filters, FilterStates, Devices, Lost
<1>7. CASE AttachFails
  BY <1>7 DEF AttachFails, IoDeleteDevice, reads, TypeOK, Filters, FilterStates, Devices,
       Lost
<1>8. CASE InitExtension
  BY <1>8 DEF InitExtension, reads, TypeOK, Filters, FilterStates, Devices, Lost
<1>9. CASE AttachedAll
  BY <1>9 DEF AttachedAll, stack, reads, TypeOK, Filters, FilterStates, Devices, Lost
<1>10. CASE BeginUnload
  BY <1>10 DEF BeginUnload, WalkTo, stack, reads, TypeOK, Filters, FilterStates, Devices,
       Lost
<1>11. CASE Detach
  BY <1>11 DEF Detach, IoDetachDevice, Crash, reads, stack, TypeOK, Filters, FilterStates,
       Devices, Lost
<1>12. CASE Delete
  BY <1>12 DEF Delete, IoDeleteDevice, WalkTo, reads, TypeOK, Filters, FilterStates,
       Devices, Lost
<1>13. CASE Poll
  BY <1>13 DEF Poll, stack, reads, TypeOK, Filters, FilterStates, Devices, Lost
<1>14. CASE Dereference
  BY <1>14 DEF Dereference, stack, reads, TypeOK, Filters, FilterStates, Devices, Lost
<1>15. ASSUME NEW k \in Keyboards, RemoveForward(k) PROVE Filters'
  BY <1>15 DEF RemoveForward, Crash, stack, reads, TypeOK, Filters, FilterStates, Devices,
       Lost
<1>16. ASSUME NEW k \in Keyboards, RemoveDetach(k) PROVE Filters'
  BY <1>16 DEF RemoveDetach, IoDetachDevice, Crash, reads, stack, TypeOK, Filters,
       FilterStates, Devices, Lost
<1>17. ASSUME NEW k \in Keyboards, RemoveDelete(k) PROVE Filters'
  BY <1>17 DEF RemoveDelete, IoDeleteDevice, reads, TypeOK, Filters, FilterStates, Devices,
       Lost
<1>18. ASSUME NEW r \in Reads, NEW k \in Keyboards, IssueRead(r, k) PROVE Filters'
  BY <1>18 DEF IssueRead, GoTo, Becomes, stack, TypeOK, Filters, FilterStates, Devices, Lost
<1>19. ASSUME NEW r \in Reads, Reject(r) PROVE Filters'
  BY <1>19 DEF Reject, Becomes, GoTo, Ended, stack, TypeOK, Filters, FilterStates, Devices,
       Lost
<1>20. ASSUME NEW r \in Reads, LoadToIncrement(r) PROVE Filters'
  BY <1>20 DEF LoadToIncrement, GoTo, stack, TypeOK, Filters, FilterStates, Devices, Lost
<1>21. ASSUME NEW r \in Reads, Increment(r) PROVE Filters'
  BY <1>21 DEF Increment, GoTo, stack, TypeOK, Filters, FilterStates, Devices, Lost
<1>22. ASSUME NEW r \in Reads, Forward(r) PROVE Filters'
  BY <1>22 DEF Forward, GoTo, Becomes, stack, TypeOK, Filters, FilterStates, Devices, Lost
<1>23. ASSUME NEW r \in Reads, ReturnFromDispatch(r) PROVE Filters'
  BY <1>23 DEF ReturnFromDispatch, GoTo, stack, TypeOK, Filters, FilterStates, Devices, Lost
<1>24. ASSUME NEW r \in Reads, CompleteRead(r) PROVE Filters'
  BY <1>24 DEF CompleteRead, Becomes, Ended, stack, TypeOK, Filters, FilterStates, Devices,
       Lost
<1>25. ASSUME NEW r \in Reads, LoadToDecrement(r) PROVE Filters'
  BY <1>25 DEF LoadToDecrement, Becomes, stack, TypeOK, Filters, FilterStates, Devices, Lost
<1>26. ASSUME NEW r \in Reads, Decrement(r) PROVE Filters'
  BY <1>26 DEF Decrement, Becomes, stack, TypeOK, Filters, FilterStates, Devices, Lost
<1>27. ASSUME NEW r \in Reads, ReturnFromCompletion(r) PROVE Filters'
  BY <1>27 DEF ReturnFromCompletion, Becomes, Ended, stack, TypeOK, Filters, FilterStates,
       Devices, Lost
<1> QED  BY <1>1, <1>2, <1>3, <1>4, <1>5, <1>6, <1>7, <1>8, <1>9, <1>10, <1>11, <1>12,
     <1>13, <1>14, <1>15, <1>16, <1>17, <1>18, <1>19, <1>20, <1>21, <1>22, <1>23, <1>24,
     <1>25, <1>26, <1>27 DEF Next, DriverEntry, c2pUnload, c2pRemove, c2pDispatchRead,
     c2pReadComplete

\* Where a read is, and which keyboard it is about.
LEMMA RequestsNext ==
    ASSUME TypeOK, Requests, ~Lost, Next
    PROVE  Requests'
<1>1. CASE Load
  BY <1>1 DEF Load, stack, reads, TypeOK, Requests, Passed
<1>2. CASE OpenKbdclass
  BY <1>2 DEF OpenKbdclass, stack, reads, TypeOK, Requests, Passed
<1>3. CASE OpenFails
  BY <1>3 DEF OpenFails, stack, reads, TypeOK, Requests, Passed
<1>4. CASE CreateFilter
  BY <1>4 DEF CreateFilter, IoCreateDevice, reads, TypeOK, Requests, Passed
<1>5. CASE CreateFails
  BY <1>5 DEF CreateFails, stack, reads, TypeOK, Requests, Passed
<1>6. CASE Attach
  BY <1>6 DEF Attach, IoAttachDevice, reads, TypeOK, Requests, Passed
<1>7. CASE AttachFails
  BY <1>7 DEF AttachFails, IoDeleteDevice, reads, TypeOK, Requests, Passed
<1>8. CASE InitExtension
  BY <1>8 DEF InitExtension, reads, TypeOK, Requests, Passed
<1>9. CASE AttachedAll
  BY <1>9 DEF AttachedAll, stack, reads, TypeOK, Requests, Passed
<1>10. CASE BeginUnload
  BY <1>10 DEF BeginUnload, WalkTo, stack, reads, TypeOK, Requests, Passed
<1>11. CASE Detach
  BY <1>11 DEF Detach, IoDetachDevice, Crash, reads, stack, TypeOK, Requests, Passed
<1>12. CASE Delete
  BY <1>12 DEF Delete, IoDeleteDevice, WalkTo, reads, TypeOK, Requests, Passed
<1>13. CASE Poll
  BY <1>13 DEF Poll, stack, reads, TypeOK, Requests, Passed
<1>14. CASE Dereference
  BY <1>14 DEF Dereference, stack, reads, TypeOK, Requests, Passed
<1>15. ASSUME NEW k \in Keyboards, RemoveForward(k) PROVE Requests'
  BY <1>15 DEF RemoveForward, Crash, stack, reads, TypeOK, Requests, Passed
<1>16. ASSUME NEW k \in Keyboards, RemoveDetach(k) PROVE Requests'
  BY <1>16 DEF RemoveDetach, IoDetachDevice, Crash, reads, stack, TypeOK, Requests, Passed
<1>17. ASSUME NEW k \in Keyboards, RemoveDelete(k) PROVE Requests'
  BY <1>17 DEF RemoveDelete, IoDeleteDevice, reads, TypeOK, Requests, Passed
<1>18. ASSUME NEW r \in Reads, NEW k \in Keyboards, IssueRead(r, k) PROVE Requests'
  <2>1. /\ thread[r] = "out" /\ irp[r] = "none"
        /\ at'[r] = k /\ through'[r] = (k \in attached)
        /\ \/ thread'[r] = "entered" /\ irp'[r] = "none" /\ through'[r]
           \/ thread'[r] = "out" /\ irp'[r] = "below" /\ ~through'[r]
    BY <1>18 DEF IssueRead, GoTo, Becomes, TypeOK
  <2>2. \A q \in Reads : q # r => /\ thread'[q] = thread[q] /\ irp'[q] = irp[q]
                                  /\ at'[q] = at[q] /\ through'[q] = through[q]
    BY <1>18 DEF IssueRead, GoTo, Becomes, TypeOK
  <2> QED  BY <2>1, <2>2 DEF Requests, Passed
<1>19. ASSUME NEW r \in Reads, Reject(r) PROVE Requests'
  BY <1>19 DEF Reject, Becomes, GoTo, Ended, stack, TypeOK, Requests, Passed
<1>20. ASSUME NEW r \in Reads, LoadToIncrement(r) PROVE Requests'
  BY <1>20 DEF LoadToIncrement, GoTo, stack, TypeOK, Requests, Passed
<1>21. ASSUME NEW r \in Reads, Increment(r) PROVE Requests'
  BY <1>21 DEF Increment, GoTo, stack, TypeOK, Requests, Passed
<1>22. ASSUME NEW r \in Reads, Forward(r) PROVE Requests'
  BY <1>22 DEF Forward, GoTo, Becomes, stack, TypeOK, Requests, Passed
<1>23. ASSUME NEW r \in Reads, ReturnFromDispatch(r) PROVE Requests'
  BY <1>23 DEF ReturnFromDispatch, GoTo, stack, TypeOK, Requests, Passed
<1>24. ASSUME NEW r \in Reads, CompleteRead(r) PROVE Requests'
  BY <1>24 DEF CompleteRead, Becomes, Ended, stack, TypeOK, Requests, Passed
<1>25. ASSUME NEW r \in Reads, LoadToDecrement(r) PROVE Requests'
  BY <1>25 DEF LoadToDecrement, Becomes, stack, TypeOK, Requests, Passed
<1>26. ASSUME NEW r \in Reads, Decrement(r) PROVE Requests'
  BY <1>26 DEF Decrement, Becomes, stack, TypeOK, Requests, Passed
<1>27. ASSUME NEW r \in Reads, ReturnFromCompletion(r) PROVE Requests'
  BY <1>27 DEF ReturnFromCompletion, Becomes, Ended, stack, TypeOK, Requests, Passed
<1> QED  BY <1>1, <1>2, <1>3, <1>4, <1>5, <1>6, <1>7, <1>8, <1>9, <1>10, <1>11, <1>12,
     <1>13, <1>14, <1>15, <1>16, <1>17, <1>18, <1>19, <1>20, <1>21, <1>22, <1>23, <1>24,
     <1>25, <1>26, <1>27 DEF Next, DriverEntry, c2pUnload, c2pRemove, c2pDispatchRead,
     c2pReadComplete

\* The count is exact as long as nothing overlaps.
LEMMA CountNext ==
    ASSUME TypeOK, Requests, Count, ~Lost, Next
    PROVE  Count'
<1>1. CASE Load
  <2> SUFFICES ASSUME ~overlapped' PROVE /\ count' = Cardinality(InFlight')
        /\ \A q \in Reads : (thread'[q] = "counting" \/ irp'[q] = "uncounting") => reg'[q] = count'
    BY DEF Count
  <2>1. InCode = {}
    BY <1>1 DEF Load, Lost
  <2>2. InFlight' = {}
    BY <1>1, <2>1 DEF Load, reads, InFlight, InCode, Dispatching, TypeOK
  <2>3. \A q \in Reads : ~(thread'[q] = "counting" \/ irp'[q] = "uncounting")
    BY <1>1, <2>1 DEF Load, reads, InCode, Dispatching, Requests
  <2> QED  BY <1>1, <2>2, <2>3, FS_EmptySet DEF Load
<1>2. CASE OpenKbdclass
  <2>1. InFlight' = InFlight
    BY <1>2 DEF TypeOK, Requests, Passed, InFlight, OpenKbdclass, stack, reads, WorkerStep,
         Overlap, Dispatching, Completing, Removing
  <2> QED  BY <1>2, <2>1 DEF Count, Requests, Passed, TypeOK, OpenKbdclass, stack, reads,
       WorkerStep, Overlap, Dispatching, Completing, Removing
<1>3. CASE OpenFails
  <2>1. InFlight' = InFlight
    BY <1>3 DEF TypeOK, Requests, Passed, InFlight, OpenFails, stack, reads, WorkerStep,
         Overlap, Dispatching, Completing, Removing
  <2> QED  BY <1>3, <2>1 DEF Count, Requests, Passed, TypeOK, OpenFails, stack, reads,
       WorkerStep, Overlap, Dispatching, Completing, Removing
<1>4. CASE CreateFilter
  <2>1. InFlight' = InFlight
    BY <1>4 DEF TypeOK, Requests, Passed, InFlight, CreateFilter, IoCreateDevice, reads,
         WorkerStep, Overlap, Dispatching, Completing, Removing
  <2> QED  BY <1>4, <2>1 DEF Count, Requests, Passed, TypeOK, CreateFilter, IoCreateDevice,
       reads, WorkerStep, Overlap, Dispatching, Completing, Removing
<1>5. CASE CreateFails
  <2>1. InFlight' = InFlight
    BY <1>5 DEF TypeOK, Requests, Passed, InFlight, CreateFails, stack, reads, WorkerStep,
         Overlap, Dispatching, Completing, Removing
  <2> QED  BY <1>5, <2>1 DEF Count, Requests, Passed, TypeOK, CreateFails, stack, reads,
       WorkerStep, Overlap, Dispatching, Completing, Removing
<1>6. CASE Attach
  <2>1. InFlight' = InFlight
    BY <1>6 DEF TypeOK, Requests, Passed, InFlight, Attach, IoAttachDevice, reads, WorkerStep,
         Overlap, Dispatching, Completing, Removing
  <2> QED  BY <1>6, <2>1 DEF Count, Requests, Passed, TypeOK, Attach, IoAttachDevice, reads,
       WorkerStep, Overlap, Dispatching, Completing, Removing
<1>7. CASE AttachFails
  <2>1. InFlight' = InFlight
    BY <1>7 DEF TypeOK, Requests, Passed, InFlight, AttachFails, IoDeleteDevice, reads,
         WorkerStep, Overlap, Dispatching, Completing, Removing
  <2> QED  BY <1>7, <2>1 DEF Count, Requests, Passed, TypeOK, AttachFails, IoDeleteDevice,
       reads, WorkerStep, Overlap, Dispatching, Completing, Removing
<1>8. CASE InitExtension
  <2>1. InFlight' = InFlight
    BY <1>8 DEF TypeOK, Requests, Passed, InFlight, InitExtension, reads, WorkerStep, Overlap,
         Dispatching, Completing, Removing
  <2> QED  BY <1>8, <2>1 DEF Count, Requests, Passed, TypeOK, InitExtension, reads, WorkerStep,
       Overlap, Dispatching, Completing, Removing
<1>9. CASE AttachedAll
  <2>1. InFlight' = InFlight
    BY <1>9 DEF TypeOK, Requests, Passed, InFlight, AttachedAll, stack, reads, WorkerStep,
         Overlap, Dispatching, Completing, Removing
  <2> QED  BY <1>9, <2>1 DEF Count, Requests, Passed, TypeOK, AttachedAll, stack, reads,
       WorkerStep, Overlap, Dispatching, Completing, Removing
<1>10. CASE BeginUnload
  <2>1. InFlight' = InFlight
    BY <1>10 DEF TypeOK, Requests, Passed, InFlight, BeginUnload, WalkTo, stack, reads,
         WorkerStep, Overlap, Dispatching, Completing, Removing
  <2> QED  BY <1>10, <2>1 DEF Count, Requests, Passed, TypeOK, BeginUnload, WalkTo, stack,
       reads, WorkerStep, Overlap, Dispatching, Completing, Removing
<1>11. CASE Detach
  <2>1. InFlight' = InFlight
    BY <1>11 DEF TypeOK, Requests, Passed, InFlight, Detach, IoDetachDevice, Crash, reads,
         stack, WorkerStep, Overlap, Dispatching, Completing, Removing
  <2> QED  BY <1>11, <2>1 DEF Count, Requests, Passed, TypeOK, Detach, IoDetachDevice, Crash,
       reads, stack, WorkerStep, Overlap, Dispatching, Completing, Removing
<1>12. CASE Delete
  <2>1. InFlight' = InFlight
    BY <1>12 DEF TypeOK, Requests, Passed, InFlight, Delete, IoDeleteDevice, WalkTo, reads,
         WorkerStep, Overlap, Dispatching, Completing, Removing
  <2> QED  BY <1>12, <2>1 DEF Count, Requests, Passed, TypeOK, Delete, IoDeleteDevice, WalkTo,
       reads, WorkerStep, Overlap, Dispatching, Completing, Removing
<1>13. CASE Poll
  <2>1. InFlight' = InFlight
    BY <1>13 DEF TypeOK, Requests, Passed, InFlight, Poll, stack, reads, WorkerStep, Overlap,
         Dispatching, Completing, Removing
  <2> QED  BY <1>13, <2>1 DEF Count, Requests, Passed, TypeOK, Poll, stack, reads, WorkerStep,
       Overlap, Dispatching, Completing, Removing
<1>14. CASE Dereference
  <2>1. InFlight' = InFlight
    BY <1>14 DEF TypeOK, Requests, Passed, InFlight, Dereference, stack, reads
  <2> QED  BY <1>14, <2>1 DEF Count, Requests, Passed, TypeOK, Dereference, stack, reads
<1>15. ASSUME NEW k \in Keyboards, RemoveForward(k) PROVE Count'
  <2>1. InFlight' = InFlight
    BY <1>15 DEF TypeOK, Requests, Passed, InFlight, RemoveForward, Crash, stack, reads,
         RemoveStep, Overlap, Dispatching, Completing, Removing, Loading, Unloading
  <2> QED  BY <1>15, <2>1 DEF Count, Requests, Passed, TypeOK, RemoveForward, Crash, stack,
       reads, RemoveStep, Overlap, Dispatching, Completing, Removing, Loading, Unloading
<1>16. ASSUME NEW k \in Keyboards, RemoveDetach(k) PROVE Count'
  <2>1. InFlight' = InFlight
    BY <1>16 DEF TypeOK, Requests, Passed, InFlight, RemoveDetach, IoDetachDevice, Crash, reads,
         stack, RemoveStep, Overlap, Dispatching, Completing, Removing, Loading, Unloading
  <2> QED  BY <1>16, <2>1 DEF Count, Requests, Passed, TypeOK, RemoveDetach, IoDetachDevice,
       Crash, reads, stack, RemoveStep, Overlap, Dispatching, Completing, Removing, Loading,
       Unloading
<1>17. ASSUME NEW k \in Keyboards, RemoveDelete(k) PROVE Count'
  <2>1. InFlight' = InFlight
    BY <1>17 DEF TypeOK, Requests, Passed, InFlight, RemoveDelete, IoDeleteDevice, reads,
         RemoveStep, Overlap, Dispatching, Completing, Removing, Loading, Unloading
  <2> QED  BY <1>17, <2>1 DEF Count, Requests, Passed, TypeOK, RemoveDelete, IoDeleteDevice,
       reads, RemoveStep, Overlap, Dispatching, Completing, Removing, Loading, Unloading
<1>18. ASSUME NEW r \in Reads, NEW k \in Keyboards, IssueRead(r, k) PROVE Count'
  <2>1. /\ thread[r] = "out" /\ irp[r] = "none"
        /\ at'[r] = k /\ through'[r] = (k \in attached)
        /\ \/ thread'[r] = "entered" /\ irp'[r] = "none" /\ through'[r]
           \/ thread'[r] = "out" /\ irp'[r] = "below" /\ ~through'[r]
    BY <1>18 DEF IssueRead, GoTo, Becomes, TypeOK
  <2>2. \A q \in Reads : q # r => /\ thread'[q] = thread[q] /\ irp'[q] = irp[q]
                                  /\ at'[q] = at[q] /\ through'[q] = through[q]
    BY <1>18 DEF IssueRead, GoTo, Becomes, TypeOK
  <2>3. InFlight' = InFlight
    BY <2>1, <2>2 DEF InFlight, Requests, Passed
  <2>4. count' = count /\ reg' = reg /\ (~overlapped' => ~overlapped)
    BY <1>18 DEF IssueRead, Overlap
  <2>5. \A q \in Reads : thread'[q] = "counting" \/ irp'[q] = "uncounting" =>
            thread[q] = "counting" \/ irp[q] = "uncounting"
    BY <2>1, <2>2
  <2> QED  BY <2>3, <2>4, <2>5 DEF Count
<1>19. ASSUME NEW r \in Reads, Reject(r) PROVE Count'
  <2>1. InFlight' = InFlight
    BY <1>19 DEF TypeOK, Requests, Passed, InFlight, Reject, Becomes, GoTo, Ended, stack,
         ThreadStep, Overlap, Dispatching, Completing
  <2> QED  BY <1>19, <2>1 DEF Count, Requests, Passed, TypeOK, Reject, Becomes, GoTo, Ended,
       stack, ThreadStep, Overlap, Dispatching, Completing
<1>20. ASSUME NEW r \in Reads, LoadToIncrement(r) PROVE Count'
  <2>1. InFlight' = InFlight
    BY <1>20 DEF TypeOK, Requests, Passed, InFlight, LoadToIncrement, GoTo, stack, ThreadStep,
         Overlap, Dispatching, Completing
  <2> QED  BY <1>20, <2>1 DEF Count, Requests, Passed, TypeOK, LoadToIncrement, GoTo, stack,
       ThreadStep, Overlap, Dispatching, Completing
<1>21. ASSUME NEW r \in Reads, Increment(r) PROVE Count'
  <2> SUFFICES ASSUME ~overlapped' PROVE /\ count' = Cardinality(InFlight')
        /\ \A q \in Reads : (thread'[q] = "counting" \/ irp'[q] = "uncounting") => reg'[q] = count'
    BY DEF Count
  <2>1. r \notin InFlight /\ InFlight' = InFlight \cup {r}
    BY <1>21 DEF TypeOK, Requests, Passed, InFlight, Increment, GoTo, stack, ThreadStep,
         Overlap, Dispatching, Completing
  <2>2. ~overlapped /\ reg[r] = count /\ count = Cardinality(InFlight)
    BY <1>21 DEF Count, Increment, GoTo, stack, ThreadStep, Overlap, Dispatching, Completing
  <2>3. Cardinality(InFlight') = count + 1
    BY <2>1, <2>2, Numbers, Joins
  <2>4. Cardinality(InFlight') \in 0 .. Wrap - 1
    BY NumbersNext, FilterAssumption
  <2>5. count' = (reg[r] + 1) % Wrap
    BY <1>21 DEF Increment
  <2>6. count' = Cardinality(InFlight')
    BY <2>2, <2>3, <2>4, <2>5, Modulo
  <2>7. \A q \in Reads : ~(thread'[q] = "counting" \/ irp'[q] = "uncounting")
    BY <1>21 DEF TypeOK, Requests, Passed, Increment, GoTo, stack, ThreadStep, Overlap,
         Dispatching, Completing
  <2> QED  BY <2>6, <2>7
<1>22. ASSUME NEW r \in Reads, Forward(r) PROVE Count'
  <2>1. InFlight' = InFlight
    BY <1>22 DEF TypeOK, Requests, Passed, InFlight, Forward, GoTo, Becomes, stack, ThreadStep,
         Overlap, Dispatching, Completing
  <2> QED  BY <1>22, <2>1 DEF Count, Requests, Passed, TypeOK, Forward, GoTo, Becomes, stack,
       ThreadStep, Overlap, Dispatching, Completing
<1>23. ASSUME NEW r \in Reads, ReturnFromDispatch(r) PROVE Count'
  <2>1. InFlight' = InFlight
    BY <1>23 DEF TypeOK, Requests, Passed, InFlight, ReturnFromDispatch, GoTo, stack,
         ThreadStep, Overlap, Dispatching, Completing
  <2> QED  BY <1>23, <2>1 DEF Count, Requests, Passed, TypeOK, ReturnFromDispatch, GoTo, stack,
       ThreadStep, Overlap, Dispatching, Completing
<1>24. ASSUME NEW r \in Reads, CompleteRead(r) PROVE Count'
  <2>1. InFlight' = InFlight
    BY <1>24 DEF TypeOK, Requests, Passed, InFlight, CompleteRead, Becomes, Ended, stack,
         CompletionStep, Overlap, Completing
  <2> QED  BY <1>24, <2>1 DEF Count, Requests, Passed, TypeOK, CompleteRead, Becomes, Ended,
       stack, CompletionStep, Overlap, Completing
<1>25. ASSUME NEW r \in Reads, LoadToDecrement(r) PROVE Count'
  <2>1. InFlight' = InFlight
    BY <1>25 DEF TypeOK, Requests, Passed, InFlight, LoadToDecrement, Becomes, stack,
         CompletionStep, Overlap, Completing
  <2> QED  BY <1>25, <2>1 DEF Count, Requests, Passed, TypeOK, LoadToDecrement, Becomes, stack,
       CompletionStep, Overlap, Completing
<1>26. ASSUME NEW r \in Reads, Decrement(r) PROVE Count'
  <2> SUFFICES ASSUME ~overlapped' PROVE /\ count' = Cardinality(InFlight')
        /\ \A q \in Reads : (thread'[q] = "counting" \/ irp'[q] = "uncounting") => reg'[q] = count'
    BY DEF Count
  <2>1. r \in InFlight /\ InFlight' = InFlight \ {r}
    BY <1>26 DEF TypeOK, Requests, Passed, InFlight, Decrement, Becomes, stack, CompletionStep,
         Overlap, Completing
  <2>2. ~overlapped /\ reg[r] = count /\ count = Cardinality(InFlight)
    BY <1>26 DEF Count, Decrement, Becomes, stack, CompletionStep, Overlap, Completing
  <2>3. Cardinality(InFlight') = count - 1
    BY <2>1, <2>2, Numbers, Leaves
  <2>4. Cardinality(InFlight') \in 0 .. Wrap - 1
    BY NumbersNext, FilterAssumption
  <2>5. count' = (reg[r] - 1) % Wrap
    BY <1>26 DEF Decrement
  <2>6. count' = Cardinality(InFlight')
    BY <2>2, <2>3, <2>4, <2>5, Modulo
  <2>7. \A q \in Reads : ~(thread'[q] = "counting" \/ irp'[q] = "uncounting")
    BY <1>26 DEF TypeOK, Requests, Passed, Decrement, Becomes, stack, CompletionStep, Overlap,
         Completing
  <2> QED  BY <2>6, <2>7
<1>27. ASSUME NEW r \in Reads, ReturnFromCompletion(r) PROVE Count'
  <2>1. InFlight' = InFlight
    BY <1>27 DEF TypeOK, Requests, Passed, InFlight, ReturnFromCompletion, Becomes, Ended,
         stack, CompletionStep, Overlap, Completing
  <2> QED  BY <1>27, <2>1 DEF Count, Requests, Passed, TypeOK, ReturnFromCompletion, Becomes,
       Ended, stack, CompletionStep, Overlap, Completing
<1> QED  BY <1>1, <1>2, <1>3, <1>4, <1>5, <1>6, <1>7, <1>8, <1>9, <1>10, <1>11, <1>12,
     <1>13, <1>14, <1>15, <1>16, <1>17, <1>18, <1>19, <1>20, <1>21, <1>22, <1>23, <1>24,
     <1>25, <1>26, <1>27 DEF Next, DriverEntry, c2pUnload, c2pRemove, c2pDispatchRead,
     c2pReadComplete

\* What a thread goes for stays there.
LEMMA TargetsNext ==
    ASSUME TypeOK, Filters, Requests, Targets, Inside, ~Lost, Next
    PROVE  Targets'
<1>1. CASE Load
  BY <1>1 DEF Load, stack, reads, WorkerStep, Overlap, Dispatching, Completing, Removing,
       Targets, Inside, TypeOK, FilterStates, Filters, Requests, Passed, Devices, Lost,
       Unloading
<1>2. CASE OpenKbdclass
  BY <1>2 DEF OpenKbdclass, stack, reads, WorkerStep, Overlap, Dispatching, Completing,
       Removing, Targets, Inside, TypeOK, FilterStates, Filters, Requests, Passed, Devices,
       Lost, Unloading
<1>3. CASE OpenFails
  BY <1>3 DEF OpenFails, stack, reads, WorkerStep, Overlap, Dispatching, Completing,
       Removing, Targets, Inside, TypeOK, FilterStates, Filters, Requests, Passed, Devices,
       Lost, Unloading
<1>4. CASE CreateFilter
  BY <1>4 DEF CreateFilter, IoCreateDevice, reads, WorkerStep, Overlap, Dispatching,
       Completing, Removing, Targets, Inside, TypeOK, FilterStates, Filters, Requests,
       Passed, Devices, Lost, Unloading
<1>5. CASE CreateFails
  BY <1>5 DEF CreateFails, stack, reads, WorkerStep, Overlap, Dispatching, Completing,
       Removing, Targets, Inside, TypeOK, FilterStates, Filters, Requests, Passed, Devices,
       Lost, Unloading
<1>6. CASE Attach
  BY <1>6 DEF Attach, IoAttachDevice, reads, WorkerStep, Overlap, Dispatching, Completing,
       Removing, Targets, Inside, TypeOK, FilterStates, Filters, Requests, Passed, Devices,
       Lost, Unloading
<1>7. CASE AttachFails
  BY <1>7 DEF AttachFails, IoDeleteDevice, reads, WorkerStep, Overlap, Dispatching,
       Completing, Removing, Targets, Inside, TypeOK, FilterStates, Filters, Requests,
       Passed, Devices, Lost, Unloading
<1>8. CASE InitExtension
  BY <1>8 DEF InitExtension, reads, WorkerStep, Overlap, Dispatching, Completing, Removing,
       Targets, Inside, TypeOK, FilterStates, Filters, Requests, Passed, Devices, Lost,
       Unloading
<1>9. CASE AttachedAll
  BY <1>9 DEF AttachedAll, stack, reads, WorkerStep, Overlap, Dispatching, Completing,
       Removing, Targets, Inside, TypeOK, FilterStates, Filters, Requests, Passed, Devices,
       Lost, Unloading
<1>10. CASE BeginUnload
  BY <1>10 DEF BeginUnload, WalkTo, stack, reads, WorkerStep, Overlap, Dispatching,
       Completing, Removing, Targets, Inside, TypeOK, FilterStates, Filters, Requests,
       Passed, Devices, Lost, Unloading
<1>11. CASE Detach
  <2>1. cursor \notin attached => overlapped'
    <3> SUFFICES ASSUME cursor \notin attached, ~overlapped' PROVE FALSE
      OBVIOUS
    <3>1. ~overlapped /\ Removing = {}
      BY <1>11 DEF Detach, WorkerStep, Overlap
    <3>2. cursor \in Keyboards /\ filter[cursor] \in {"made", "bound", "ready", "loose"}
      BY <1>11, <3>1 DEF Detach, Targets, Devices, TypeOK, FilterStates
    <3>3. keyboard[cursor] = "loose"
      BY <1>11, <3>2 DEF Detach, Filters
    <3> QED  BY <3>1, <3>2, <3>3 DEF Removing
  <2>2. ~overlapped' => \A k \in Keyboards : keyboard'[k] # "going"
    BY <1>11 DEF Detach, WorkerStep, Overlap, Removing
  <2> QED  BY <1>11, <2>1, <2>2 DEF Detach, Crash, Targets
<1>12. CASE Delete
  BY <1>12 DEF Delete, IoDeleteDevice, WalkTo, reads, WorkerStep, Overlap, Dispatching,
       Completing, Removing, Targets, Inside, TypeOK, FilterStates, Filters, Requests,
       Passed, Devices, Lost, Unloading
<1>13. CASE Poll
  BY <1>13 DEF Poll, stack, reads, WorkerStep, Overlap, Dispatching, Completing, Removing,
       Targets, Inside, TypeOK, FilterStates, Filters, Requests, Passed, Devices, Lost,
       Unloading
<1>14. CASE Dereference
  BY <1>14 DEF Dereference, stack, reads, Targets, Inside, TypeOK, FilterStates, Filters,
       Requests, Passed, Devices, Lost, Unloading
<1>15. ASSUME NEW k \in Keyboards, RemoveForward(k) PROVE Targets'
  <2>1. k \in attached /\ filter[k] \in {"bound", "ready"} /\ (filter[k] = "bound" => sys = "init")
    BY <1>15 DEF RemoveForward, Filters, Lost
  <2>2. filter[k] = "bound" => overlapped'
    BY <1>15, <2>1 DEF RemoveForward, RemoveStep, Overlap, Loading
  <2>3. ~overlapped' => ~overlapped /\ sys # "detach"
    BY <1>15 DEF RemoveForward, RemoveStep, Overlap, Unloading
  <2>4. \A j \in Keyboards : keyboard'[j] = IF j = k THEN "going" ELSE keyboard[j]
    BY <1>15 DEF RemoveForward, TypeOK
  <2>5. filter[k] = "ready" => sys' = sys /\ attached' = attached /\ sys # "crashed"
    BY <1>15 DEF RemoveForward, stack, Lost, Crash
  <2> QED  BY <2>1, <2>2, <2>3, <2>4, <2>5 DEF Targets
<1>16. ASSUME NEW k \in Keyboards, RemoveDetach(k) PROVE Targets'
  BY <1>16 DEF RemoveDetach, IoDetachDevice, Crash, reads, stack, RemoveStep, Overlap,
       Dispatching, Completing, Removing, Loading, Unloading, Targets, Inside, TypeOK,
       FilterStates, Filters, Requests, Passed, Devices, Lost
<1>17. ASSUME NEW k \in Keyboards, RemoveDelete(k) PROVE Targets'
  <2>1. ~overlapped' => sys # "detach" /\ \A j \in Keyboards : j # k => keyboard[j] # "going"
    BY <1>17 DEF RemoveDelete, RemoveStep, Overlap, Unloading, Removing
  <2>2. \A j \in Keyboards : keyboard'[j] = IF j = k THEN "gone" ELSE keyboard[j]
    BY <1>17 DEF RemoveDelete, TypeOK
  <2>3. sys' = sys /\ sys # "crashed"
    BY <1>17 DEF RemoveDelete, Lost
  <2> QED  BY <2>1, <2>2, <2>3 DEF Targets
<1>18. ASSUME NEW r \in Reads, NEW k \in Keyboards, IssueRead(r, k) PROVE Targets'
  BY <1>18 DEF IssueRead, GoTo, Becomes, stack, Overlap, Dispatching, Completing, Targets,
       Inside, TypeOK, FilterStates, Filters, Requests, Passed, Devices, Lost, Unloading
<1>19. ASSUME NEW r \in Reads, Reject(r) PROVE Targets'
  BY <1>19 DEF Reject, Becomes, GoTo, Ended, stack, ThreadStep, Overlap, Dispatching,
       Completing, Targets, Inside, TypeOK, FilterStates, Filters, Requests, Passed,
       Devices, Lost, Unloading
<1>20. ASSUME NEW r \in Reads, LoadToIncrement(r) PROVE Targets'
  BY <1>20 DEF LoadToIncrement, GoTo, stack, ThreadStep, Overlap, Dispatching, Completing,
       Targets, Inside, TypeOK, FilterStates, Filters, Requests, Passed, Devices, Lost,
       Unloading
<1>21. ASSUME NEW r \in Reads, Increment(r) PROVE Targets'
  BY <1>21 DEF Increment, GoTo, stack, ThreadStep, Overlap, Dispatching, Completing,
       Targets, Inside, TypeOK, FilterStates, Filters, Requests, Passed, Devices, Lost,
       Unloading
<1>22. ASSUME NEW r \in Reads, Forward(r) PROVE Targets'
  BY <1>22 DEF Forward, GoTo, Becomes, stack, ThreadStep, Overlap, Dispatching, Completing,
       Targets, Inside, TypeOK, FilterStates, Filters, Requests, Passed, Devices, Lost,
       Unloading
<1>23. ASSUME NEW r \in Reads, ReturnFromDispatch(r) PROVE Targets'
  BY <1>23 DEF ReturnFromDispatch, GoTo, stack, ThreadStep, Overlap, Dispatching,
       Completing, Targets, Inside, TypeOK, FilterStates, Filters, Requests, Passed,
       Devices, Lost, Unloading
<1>24. ASSUME NEW r \in Reads, CompleteRead(r) PROVE Targets'
  BY <1>24 DEF CompleteRead, Becomes, Ended, stack, CompletionStep, Overlap, Completing,
       Targets, Inside, TypeOK, FilterStates, Filters, Requests, Passed, Devices, Lost,
       Unloading
<1>25. ASSUME NEW r \in Reads, LoadToDecrement(r) PROVE Targets'
  BY <1>25 DEF LoadToDecrement, Becomes, stack, CompletionStep, Overlap, Completing,
       Targets, Inside, TypeOK, FilterStates, Filters, Requests, Passed, Devices, Lost,
       Unloading
<1>26. ASSUME NEW r \in Reads, Decrement(r) PROVE Targets'
  BY <1>26 DEF Decrement, Becomes, stack, CompletionStep, Overlap, Completing, Targets,
       Inside, TypeOK, FilterStates, Filters, Requests, Passed, Devices, Lost, Unloading
<1>27. ASSUME NEW r \in Reads, ReturnFromCompletion(r) PROVE Targets'
  BY <1>27 DEF ReturnFromCompletion, Becomes, Ended, stack, CompletionStep, Overlap,
       Completing, Targets, Inside, TypeOK, FilterStates, Filters, Requests, Passed,
       Devices, Lost, Unloading
<1> QED  BY <1>1, <1>2, <1>3, <1>4, <1>5, <1>6, <1>7, <1>8, <1>9, <1>10, <1>11, <1>12,
     <1>13, <1>14, <1>15, <1>16, <1>17, <1>18, <1>19, <1>20, <1>21, <1>22, <1>23, <1>24,
     <1>25, <1>26, <1>27 DEF Next, DriverEntry, c2pUnload, c2pRemove, c2pDispatchRead,
     c2pReadComplete

\* A filter stays while a read is in it.
LEMMA InsideNext ==
    ASSUME TypeOK, Filters, Requests, Count, Targets, Targets', Inside, Outside, ~Lost, Next
    PROVE  Inside'
<1>1. CASE Load
  BY <1>1 DEF Load, stack, reads, WorkerStep, Overlap, Dispatching, Completing, Removing,
       Targets, Inside, Outside, Count, InFlight, TypeOK, Filters, Requests, Passed,
       Devices, InCode, Lost, Gone, Unloading
<1>2. CASE OpenKbdclass
  BY <1>2 DEF OpenKbdclass, stack, reads, WorkerStep, Overlap, Dispatching, Completing,
       Removing, Targets, Inside, Outside, Count, InFlight, TypeOK, Filters, Requests,
       Passed, Devices, InCode, Lost, Gone, Unloading
<1>3. CASE OpenFails
  BY <1>3 DEF OpenFails, stack, reads, WorkerStep, Overlap, Dispatching, Completing,
       Removing, Targets, Inside, Outside, Count, InFlight, TypeOK, Filters, Requests,
       Passed, Devices, InCode, Lost, Gone, Unloading
<1>4. CASE CreateFilter
  BY <1>4 DEF CreateFilter, IoCreateDevice, reads, WorkerStep, Overlap, Dispatching,
       Completing, Removing, Targets, Inside, Outside, Count, InFlight, TypeOK, Filters,
       Requests, Passed, Devices, InCode, Lost, Gone, Unloading
<1>5. CASE CreateFails
  BY <1>5 DEF CreateFails, stack, reads, WorkerStep, Overlap, Dispatching, Completing,
       Removing, Targets, Inside, Outside, Count, InFlight, TypeOK, Filters, Requests,
       Passed, Devices, InCode, Lost, Gone, Unloading
<1>6. CASE Attach
  BY <1>6 DEF Attach, IoAttachDevice, reads, WorkerStep, Overlap, Dispatching, Completing,
       Removing, Targets, Inside, Outside, Count, InFlight, TypeOK, Filters, Requests,
       Passed, Devices, InCode, Lost, Gone, Unloading
<1>7. CASE AttachFails
  BY <1>7 DEF AttachFails, IoDeleteDevice, reads, WorkerStep, Overlap, Dispatching,
       Completing, Removing, Targets, Inside, Outside, Count, InFlight, TypeOK, Filters,
       Requests, Passed, Devices, InCode, Lost, Gone, Unloading
<1>8. CASE InitExtension
  BY <1>8 DEF InitExtension, reads, WorkerStep, Overlap, Dispatching, Completing, Removing,
       Targets, Inside, Outside, Count, InFlight, TypeOK, Filters, Requests, Passed,
       Devices, InCode, Lost, Gone, Unloading
<1>9. CASE AttachedAll
  BY <1>9 DEF AttachedAll, stack, reads, WorkerStep, Overlap, Dispatching, Completing,
       Removing, Targets, Inside, Outside, Count, InFlight, TypeOK, Filters, Requests,
       Passed, Devices, InCode, Lost, Gone, Unloading
<1>10. CASE BeginUnload
  BY <1>10 DEF BeginUnload, WalkTo, stack, reads, WorkerStep, Overlap, Dispatching,
       Completing, Removing, Targets, Inside, Outside, Count, InFlight, TypeOK, Filters,
       Requests, Passed, Devices, InCode, Lost, Gone, Unloading
<1>11. CASE Detach
  <2>1. ~overlapped' => ~overlapped /\ Dispatching = {} /\ cursor \in attached
    BY <1>11, TargetsNext DEF Detach, WorkerStep, Overlap, Crash, Targets
  <2>2. cursor \in attached => Unloading'
    BY <1>11 DEF Detach, Unloading
  <2>3. \A r \in Reads : Dispatching = {} => ~Passed(r)'
    BY <1>11 DEF Detach, reads, Dispatching, Passed
  <2> QED  BY <2>1, <2>2, <2>3 DEF Inside
<1>12. CASE Delete
  BY <1>12 DEF Delete, IoDeleteDevice, WalkTo, reads, WorkerStep, Overlap, Dispatching,
       Completing, Removing, Targets, Inside, Outside, Count, InFlight, TypeOK, Filters,
       Requests, Passed, Devices, InCode, Lost, Gone, Unloading
<1>13. CASE Poll
  BY <1>13, Numbers DEF Poll, stack, reads, Inside, Count, Passed, InFlight, WorkerStep, Overlap, Dispatching, Completing, TypeOK
<1>14. CASE Dereference
  BY <1>14 DEF Dereference, stack, reads, Targets, Inside, Outside, Count, InFlight, TypeOK,
       Filters, Requests, Passed, Devices, InCode, Lost, Gone, Unloading
<1>15. ASSUME NEW k \in Keyboards, RemoveForward(k) PROVE Inside'
  BY <1>15 DEF RemoveForward, Crash, stack, reads, RemoveStep, Overlap, Dispatching,
       Completing, Removing, Loading, Unloading, Targets, Inside, Outside, Count, InFlight,
       TypeOK, Filters, Requests, Passed, Devices, InCode, Lost, Gone
<1>16. ASSUME NEW k \in Keyboards, RemoveDetach(k) PROVE Inside'
  BY <1>16 DEF RemoveDetach, IoDetachDevice, Crash, reads, stack, RemoveStep, Overlap,
       Dispatching, Completing, Removing, Loading, Unloading, Targets, Inside, Outside,
       Count, InFlight, TypeOK, Filters, Requests, Passed, Devices, InCode, Lost, Gone
<1>17. ASSUME NEW k \in Keyboards, RemoveDelete(k) PROVE Inside'
  BY <1>17 DEF RemoveDelete, IoDeleteDevice, reads, RemoveStep, Overlap, Dispatching,
       Completing, Removing, Loading, Unloading, Targets, Inside, Outside, Count, InFlight,
       TypeOK, Filters, Requests, Passed, Devices, InCode, Lost, Gone
<1>18. ASSUME NEW r \in Reads, NEW k \in Keyboards, IssueRead(r, k) PROVE Inside'
  <2>1. \A q \in Reads : q # r => /\ thread'[q] = thread[q] /\ irp'[q] = irp[q]
                                  /\ at'[q] = at[q] /\ through'[q] = through[q]
    BY <1>18 DEF IssueRead, GoTo, Becomes, TypeOK
  <2>2. at'[r] = k /\ through'[r] = (k \in attached)
    BY <1>18 DEF IssueRead, TypeOK
  <2>3. k \notin attached => thread'[r] = "out"
    BY <1>18 DEF IssueRead, TypeOK
  <2>4. ~overlapped' => ~overlapped /\ (k \in attached => filter[k] = "ready")
    BY <1>18 DEF IssueRead, Overlap
  <2>5. sys' = sys /\ attached' = attached /\ filter' = filter
    BY <1>18 DEF IssueRead, stack
  <2>6. ASSUME ~overlapped', NEW q \in Reads
        PROVE  /\ Passed(q)' => at'[q] \in attached /\ filter[at'[q]] = "ready"
               /\ through'[q] /\ irp'[q] = "below" /\ ~Unloading => at'[q] \in attached
    <3>1. CASE q = r
      BY <2>2, <2>3, <2>4, <2>6, <3>1 DEF Passed
    <3>2. CASE q # r
      BY <2>1, <2>4, <2>6, <3>2 DEF Inside, Passed
    <3> QED  BY <3>1, <3>2
  <2> QED  BY <2>5, <2>6 DEF Inside, Unloading
<1>19. ASSUME NEW r \in Reads, Reject(r) PROVE Inside'
  BY <1>19 DEF Reject, Becomes, GoTo, Ended, stack, ThreadStep, Overlap, Dispatching,
       Completing, Targets, Inside, Outside, Count, InFlight, TypeOK, Filters, Requests,
       Passed, Devices, InCode, Lost, Gone, Unloading
<1>20. ASSUME NEW r \in Reads, LoadToIncrement(r) PROVE Inside'
  BY <1>20 DEF LoadToIncrement, GoTo, stack, ThreadStep, Overlap, Dispatching, Completing,
       Targets, Inside, Outside, Count, InFlight, TypeOK, Filters, Requests, Passed,
       Devices, InCode, Lost, Gone, Unloading
<1>21. ASSUME NEW r \in Reads, Increment(r) PROVE Inside'
  BY <1>21 DEF Increment, GoTo, stack, ThreadStep, Overlap, Dispatching, Completing,
       Targets, Inside, Outside, Count, InFlight, TypeOK, Filters, Requests, Passed,
       Devices, InCode, Lost, Gone, Unloading
<1>22. ASSUME NEW r \in Reads, Forward(r) PROVE Inside'
  BY <1>22 DEF Forward, GoTo, Becomes, stack, ThreadStep, Overlap, Dispatching, Completing,
       Targets, Inside, Outside, Count, InFlight, TypeOK, Filters, Requests, Passed,
       Devices, InCode, Lost, Gone, Unloading
<1>23. ASSUME NEW r \in Reads, ReturnFromDispatch(r) PROVE Inside'
  BY <1>23 DEF ReturnFromDispatch, GoTo, stack, ThreadStep, Overlap, Dispatching,
       Completing, Targets, Inside, Outside, Count, InFlight, TypeOK, Filters, Requests,
       Passed, Devices, InCode, Lost, Gone, Unloading
<1>24. ASSUME NEW r \in Reads, CompleteRead(r) PROVE Inside'
  BY <1>24 DEF CompleteRead, Becomes, Ended, stack, CompletionStep, Overlap, Completing,
       Targets, Inside, Outside, Count, InFlight, TypeOK, Filters, Requests, Passed,
       Devices, InCode, Lost, Gone, Unloading
<1>25. ASSUME NEW r \in Reads, LoadToDecrement(r) PROVE Inside'
  BY <1>25 DEF LoadToDecrement, Becomes, stack, CompletionStep, Overlap, Completing,
       Targets, Inside, Outside, Count, InFlight, TypeOK, Filters, Requests, Passed,
       Devices, InCode, Lost, Gone, Unloading
<1>26. ASSUME NEW r \in Reads, Decrement(r) PROVE Inside'
  BY <1>26 DEF Decrement, Becomes, stack, CompletionStep, Overlap, Completing, Targets,
       Inside, Outside, Count, InFlight, TypeOK, Filters, Requests, Passed, Devices, InCode,
       Lost, Gone, Unloading
<1>27. ASSUME NEW r \in Reads, ReturnFromCompletion(r) PROVE Inside'
  BY <1>27 DEF ReturnFromCompletion, Becomes, Ended, stack, CompletionStep, Overlap,
       Completing, Targets, Inside, Outside, Count, InFlight, TypeOK, Filters, Requests,
       Passed, Devices, InCode, Lost, Gone, Unloading
<1> QED  BY <1>1, <1>2, <1>3, <1>4, <1>5, <1>6, <1>7, <1>8, <1>9, <1>10, <1>11, <1>12,
     <1>13, <1>14, <1>15, <1>16, <1>17, <1>18, <1>19, <1>20, <1>21, <1>22, <1>23, <1>24,
     <1>25, <1>26, <1>27 DEF Next, DriverEntry, c2pUnload, c2pRemove, c2pDispatchRead,
     c2pReadComplete

\* A read that is in the driver while no thread and no completion is.
LEMMA Placed ==
    ASSUME TypeOK, Filters, Requests, Inside, ~overlapped, ~Unloading, ~Lost,
           Dispatching = {}, Completing = {}, NEW q \in InCode
    PROVE  /\ q \in Reads /\ through[q] /\ irp[q] = "below"
           /\ at[q] \in attached /\ at[q] \in Keyboards /\ filter[at[q]] \in {"bound", "ready"}
<1>1. q \in Reads /\ through[q] /\ irp[q] \in {"below", "complete", "uncounting", "leaving"}
  BY DEF InCode, TypeOK
<1>2. irp[q] = "below"
  BY <1>1 DEF Completing
<1>3. at[q] \in attached
  BY <1>1, <1>2 DEF Inside
<1> QED  BY <1>1, <1>2, <1>3 DEF Filters, Lost, TypeOK

\* The driver is left before the last filter goes, or the count waited for.
LEMMA OutsideNext ==
    ASSUME TypeOK, Filters, Requests, Count, Targets, Targets', Inside, Outside, ~Lost, Next
    PROVE  Outside'
<1>1. CASE Load
  BY <1>1 DEF Load, stack, reads, WorkerStep, Overlap, Dispatching, Completing, Removing,
       Inside, Outside, Count, InFlight, TypeOK, Filters, Requests, Passed, Devices, InCode,
       Lost, Gone, Unloading
<1>2. CASE OpenKbdclass
  BY <1>2 DEF OpenKbdclass, stack, reads, WorkerStep, Overlap, Dispatching, Completing,
       Removing, Inside, Outside, Count, InFlight, TypeOK, Filters, Requests, Passed,
       Devices, InCode, Lost, Gone, Unloading
<1>3. CASE OpenFails
  BY <1>3 DEF OpenFails, stack, reads, WorkerStep, Overlap, Dispatching, Completing,
       Removing, Inside, Outside, Count, InFlight, TypeOK, Filters, Requests, Passed,
       Devices, InCode, Lost, Gone, Unloading
<1>4. CASE CreateFilter
  BY <1>4 DEF CreateFilter, IoCreateDevice, reads, WorkerStep, Overlap, Dispatching,
       Completing, Removing, Inside, Outside, Count, InFlight, TypeOK, Filters, Requests,
       Passed, Devices, InCode, Lost, Gone, Unloading
<1>5. CASE CreateFails
  BY <1>5 DEF CreateFails, stack, reads, WorkerStep, Overlap, Dispatching, Completing,
       Removing, Inside, Outside, Count, InFlight, TypeOK, Filters, Requests, Passed,
       Devices, InCode, Lost, Gone, Unloading
<1>6. CASE Attach
  BY <1>6 DEF Attach, IoAttachDevice, reads, WorkerStep, Overlap, Dispatching, Completing,
       Removing, Inside, Outside, Count, InFlight, TypeOK, Filters, Requests, Passed,
       Devices, InCode, Lost, Gone, Unloading
<1>7. CASE AttachFails
  <2> SUFFICES ASSUME ~overlapped', ~Unloading', NEW q \in InCode' PROVE Devices' # {}
    BY DEF Outside
  <2>1. ~overlapped /\ Dispatching = {} /\ Completing = {} /\ ~Unloading
    BY <1>7 DEF AttachFails, WorkerStep, Overlap, Unloading
  <2>2. q \in InCode /\ ~overlapped /\ Dispatching = {} /\ Completing = {} /\ ~Unloading
    BY <1>7, <2>1 DEF AttachFails, reads, InCode, Dispatching
  <2>3. at[q] # cursor /\ filter' = [filter EXCEPT ![cursor] = "none"]
    BY <1>7, <2>2, Placed DEF AttachFails, IoDeleteDevice, Filters, Lost
  <2> QED  BY <2>2, <2>3, Placed DEF Devices, TypeOK
<1>8. CASE InitExtension
  BY <1>8 DEF InitExtension, reads, WorkerStep, Overlap, Dispatching, Completing, Removing,
       Inside, Outside, Count, InFlight, TypeOK, Filters, Requests, Passed, Devices, InCode,
       Lost, Gone, Unloading
<1>9. CASE AttachedAll
  BY <1>9 DEF AttachedAll, stack, reads, WorkerStep, Overlap, Dispatching, Completing,
       Removing, Inside, Outside, Count, InFlight, TypeOK, Filters, Requests, Passed,
       Devices, InCode, Lost, Gone, Unloading
<1>10. CASE BeginUnload
  BY <1>10 DEF BeginUnload, WalkTo, stack, reads, WorkerStep, Overlap, Dispatching,
       Completing, Removing, Inside, Outside, Count, InFlight, TypeOK, Filters, Requests,
       Passed, Devices, InCode, Lost, Gone, Unloading
<1>11. CASE Detach
  <2>1. ~overlapped' => Unloading'
    BY <1>11, TargetsNext DEF Detach, Crash, Targets, Unloading
  <2> QED  BY <2>1 DEF Outside
<1>12. CASE Delete
  BY <1>12 DEF Delete, IoDeleteDevice, WalkTo, reads, WorkerStep, Overlap, Dispatching,
       Completing, Removing, Inside, Outside, Count, InFlight, TypeOK, Filters, Requests,
       Passed, Devices, InCode, Lost, Gone, Unloading
<1>13. CASE Poll
  <2> SUFFICES ASSUME ~overlapped' PROVE InCode' = {}
    BY DEF Outside
  <2>1. ~overlapped /\ Dispatching = {} /\ Completing = {} /\ count = 0
    BY <1>13 DEF Poll, WorkerStep, Overlap
  <2>2. InFlight = {}
    BY <2>1, Numbers DEF Count
  <2>3. InCode = {}
    BY <2>1, <2>2 DEF InCode, InFlight, Completing, TypeOK
  <2> QED  BY <1>13, <2>3 DEF Poll, reads, InCode, Dispatching
<1>14. CASE Dereference
  <2>1. ~Unloading
    BY <1>14 DEF Dereference, Unloading
  <2>2. InCode' = InCode /\ Devices' = Devices /\ overlapped' = overlapped
    BY <1>14 DEF Dereference, stack, reads, InCode, Dispatching, Devices
  <2> QED  BY <2>1, <2>2 DEF Outside
<1>15. ASSUME NEW k \in Keyboards, RemoveForward(k) PROVE Outside'
  BY <1>15 DEF RemoveForward, Crash, stack, reads, RemoveStep, Overlap, Dispatching,
       Completing, Removing, Loading, Unloading, Inside, Outside, Count, InFlight, TypeOK,
       Filters, Requests, Passed, Devices, InCode, Lost, Gone
<1>16. ASSUME NEW k \in Keyboards, RemoveDetach(k) PROVE Outside'
  <2> SUFFICES ASSUME ~overlapped', ~Unloading', NEW q \in InCode' PROVE Devices' # {}
    BY DEF Outside
  <2>1. ~overlapped /\ Dispatching = {} /\ Completing = {} /\ ~Unloading
    BY <1>16 DEF RemoveDetach, RemoveStep, Overlap, Unloading
  <2>2. q \in InCode /\ ~overlapped /\ Dispatching = {} /\ Completing = {} /\ ~Unloading
    BY <1>16, <2>1 DEF RemoveDetach, reads, InCode, Dispatching
  <2>3. sys' # "crashed" => k \in attached /\ filter' = [filter EXCEPT ![k] = "loose"]
    BY <1>16 DEF RemoveDetach, IoDetachDevice, Crash
  <2>4. sys' # "crashed"
    BY TargetsNext DEF Targets
  <2> QED  BY <1>16, <2>3, <2>4 DEF Devices, TypeOK
<1>17. ASSUME NEW k \in Keyboards, RemoveDelete(k) PROVE Outside'
  <2> SUFFICES ASSUME ~overlapped', ~Unloading', NEW q \in InCode' PROVE Devices' # {}
    BY DEF Outside
  <2>1. ~overlapped /\ Dispatching = {} /\ Completing = {} /\ ~Unloading
    BY <1>17 DEF RemoveDelete, RemoveStep, Overlap, Unloading
  <2>2. q \in InCode /\ ~overlapped /\ Dispatching = {} /\ Completing = {} /\ ~Unloading
    BY <1>17, <2>1 DEF RemoveDelete, reads, InCode, Dispatching
  <2>3. at[q] # k /\ filter' = [filter EXCEPT ![k] = "none"]
    BY <1>17, <2>2, Placed DEF RemoveDelete, IoDeleteDevice, Filters, Lost
  <2> QED  BY <2>2, <2>3, Placed DEF Devices, TypeOK
<1>18. ASSUME NEW r \in Reads, NEW k \in Keyboards, IssueRead(r, k) PROVE Outside'
  BY <1>18 DEF IssueRead, GoTo, Becomes, stack, Overlap, Dispatching, Completing, Inside,
       Outside, Count, InFlight, TypeOK, Filters, Requests, Passed, Devices, InCode, Lost,
       Gone, Unloading
<1>19. ASSUME NEW r \in Reads, Reject(r) PROVE Outside'
  BY <1>19 DEF Reject, Becomes, GoTo, Ended, stack, ThreadStep, Overlap, Dispatching,
       Completing, Inside, Outside, Count, InFlight, TypeOK, Filters, Requests, Passed,
       Devices, InCode, Lost, Gone, Unloading
<1>20. ASSUME NEW r \in Reads, LoadToIncrement(r) PROVE Outside'
  BY <1>20 DEF LoadToIncrement, GoTo, stack, ThreadStep, Overlap, Dispatching, Completing,
       Inside, Outside, Count, InFlight, TypeOK, Filters, Requests, Passed, Devices, InCode,
       Lost, Gone, Unloading
<1>21. ASSUME NEW r \in Reads, Increment(r) PROVE Outside'
  BY <1>21 DEF Increment, GoTo, stack, ThreadStep, Overlap, Dispatching, Completing, Inside,
       Outside, Count, InFlight, TypeOK, Filters, Requests, Passed, Devices, InCode, Lost,
       Gone, Unloading
<1>22. ASSUME NEW r \in Reads, Forward(r) PROVE Outside'
  BY <1>22 DEF Forward, GoTo, Becomes, stack, ThreadStep, Overlap, Dispatching, Completing,
       Inside, Outside, Count, InFlight, TypeOK, Filters, Requests, Passed, Devices, InCode,
       Lost, Gone, Unloading
<1>23. ASSUME NEW r \in Reads, ReturnFromDispatch(r) PROVE Outside'
  BY <1>23 DEF ReturnFromDispatch, GoTo, stack, ThreadStep, Overlap, Dispatching,
       Completing, Inside, Outside, Count, InFlight, TypeOK, Filters, Requests, Passed,
       Devices, InCode, Lost, Gone, Unloading
<1>24. ASSUME NEW r \in Reads, CompleteRead(r) PROVE Outside'
  <2> SUFFICES ASSUME ~overlapped', ~Unloading', Devices' = {} PROVE InCode' = {}
    BY DEF Outside
  <2>1. ~overlapped /\ ~Unloading /\ Devices = {}
    BY <1>24 DEF CompleteRead, stack, CompletionStep, Overlap, Unloading, Devices
  <2>2. InCode = {}
    BY <2>1 DEF Outside
  <2>3. ~through[r]
    BY <1>24, <2>2 DEF CompleteRead, InCode
  <2>4. irp' = [irp EXCEPT ![r] = "none"] /\ through' = [through EXCEPT ![r] = FALSE] /\ thread' = thread
    BY <1>24, <2>3 DEF CompleteRead, Ended, Becomes
  <2> QED  BY <2>2, <2>4 DEF InCode, Dispatching, TypeOK
<1>25. ASSUME NEW r \in Reads, LoadToDecrement(r) PROVE Outside'
  BY <1>25 DEF LoadToDecrement, Becomes, stack, CompletionStep, Overlap, Completing, Inside,
       Outside, Count, InFlight, TypeOK, Filters, Requests, Passed, Devices, InCode, Lost,
       Gone, Unloading
<1>26. ASSUME NEW r \in Reads, Decrement(r) PROVE Outside'
  BY <1>26 DEF Decrement, Becomes, stack, CompletionStep, Overlap, Completing, Inside,
       Outside, Count, InFlight, TypeOK, Filters, Requests, Passed, Devices, InCode, Lost,
       Gone, Unloading
<1>27. ASSUME NEW r \in Reads, ReturnFromCompletion(r) PROVE Outside'
  BY <1>27 DEF ReturnFromCompletion, Becomes, Ended, stack, CompletionStep, Overlap,
       Completing, Inside, Outside, Count, InFlight, TypeOK, Filters, Requests, Passed,
       Devices, InCode, Lost, Gone, Unloading
<1> QED  BY <1>1, <1>2, <1>3, <1>4, <1>5, <1>6, <1>7, <1>8, <1>9, <1>10, <1>11, <1>12,
     <1>13, <1>14, <1>15, <1>16, <1>17, <1>18, <1>19, <1>20, <1>21, <1>22, <1>23, <1>24,
     <1>25, <1>26, <1>27 DEF Next, DriverEntry, c2pUnload, c2pRemove, c2pDispatchRead,
     c2pReadComplete

-----------------------------------------------------------------------------
LEMMA Inductive ==
    ASSUME IInv, [Next]_vars
    PROVE  IInv'
<1>1. CASE UNCHANGED vars
  <2>1. Devices' = Devices /\ InFlight' = InFlight /\ InCode' = InCode /\ Unloading' = Unloading
    BY <1>1 DEF vars, stack, reads, Devices, InFlight, InCode, Dispatching, Unloading
  <2>2. TypeOK' /\ References' /\ Filters'
    BY <1>1, <2>1 DEF vars, stack, reads, IInv, TypeOK, FilterStates, References, Held, Filters
  <2>3. Requests' /\ Count'
    BY <1>1, <2>1 DEF vars, stack, reads, IInv, Requests, Passed, Count
  <2>4. Targets' /\ Inside' /\ Outside'
    BY <1>1, <2>1 DEF vars, stack, reads, IInv, Targets, Inside, Passed, Outside
  <2> QED  BY <2>2, <2>3, <2>4 DEF IInv
<1>2. CASE Next
  <2>1. ~Lost
    BY <1>2 DEF Next
  <2>2. References' /\ Filters' /\ Requests' /\ Count' /\ Targets'
    BY <1>2, <2>1, ReferencesNext, FiltersNext, RequestsNext, CountNext, TargetsNext DEF IInv
  <2>3. TypeOK' /\ Inside' /\ Outside'
    BY <1>2, <2>1, <2>2, TypeNext, InsideNext, OutsideNext DEF IInv
  <2> QED  BY <2>2, <2>3 DEF IInv
<1> QED  BY <1>1, <1>2

LEMMA Initially ==
    ASSUME Init
    PROVE  IInv
<1>1. Devices = {} /\ InFlight = {} /\ InCode = {} /\ Cardinality({}) = 0
  BY FS_EmptySet DEF Init, Devices, InFlight, InCode, Dispatching
<1>2. TypeOK
  <2>1. 0 \in 0 .. Wrap - 1
    BY Modulo
  <2> QED  BY <2>1 DEF Init, TypeOK, FilterStates
<1>3. References /\ Filters /\ Requests
  BY <1>1 DEF Init, References, Held, Filters, Requests, Passed
<1>4. Count /\ Targets /\ Inside /\ Outside
  BY <1>1 DEF Init, Count, Targets, Inside, Passed, Outside
<1> QED  BY <1>2, <1>3, <1>4 DEF IInv

LEMMA Always == Spec => []IInv
<1>1. Init => IInv
  BY Initially
<1>2. IInv /\ [Next]_vars => IInv'
  BY Inductive
<1> QED  BY <1>1, <1>2, PTL DEF Spec

\* Every reachable state is well typed: the references of the driver object never
\* go below -1, and gC2pKeyCount stays within its width.
THEOREM TypeCorrect == Spec => []TypeOK
<1>1. IInv => TypeOK
  BY DEF IInv
<1> QED  BY <1>1, Always, PTL

\* As long as nothing overlaps, gC2pKeyCount is the number of reads in flight.
THEOREM CountExact == Spec => []CountIsInFlight
<1>1. IInv => CountIsInFlight
  BY DEF IInv, Count, CountIsInFlight
<1> QED  BY <1>1, Always, PTL

\* As long as nothing overlaps, the image of the driver is gone only when no
\* thread is in it and no completion will come back to it.
THEOREM CodeStays == Spec => []CodeIsLoaded
<1>1. ASSUME IInv, ~overlapped, Gone, Devices = {}
      PROVE  InCode = {}
  <2>1. sys # "crashed"
    BY <1>1 DEF IInv, Targets
  <2>2. ~Unloading
    BY <1>1, <2>1, FS_EmptySet DEF IInv, References, Held, Gone, Unloading, TypeOK
  <2> QED  BY <1>1, <2>2 DEF IInv, Outside
<1>2. IInv => CodeIsLoaded
  BY <1>1 DEF CodeIsLoaded
<1> QED  BY <1>2, Always, PTL

\* What is on top of a keyboard's stack is a filter that exists, and no request
\* follows a stack that a removal has taken apart unless something overlapped.
THEOREM StacksLive == Spec => []StacksAreLive
<1>1. IInv => StacksAreLive
  BY DEF IInv, Targets, Filters, StacksAreLive, Devices, TypeOK, FilterStates
<1> QED  BY <1>1, Always, PTL
-----------------------------------------------------------------------------
\* No second filter has to be made after one that failed.
CreateIsSafe == "create" \in Faults => \A j, k \in Keyboards : j = k

\* DriverEntry fails, and unloading ends, only without a filter.
Backed ==
    /\ DriverOutlivesDevices
    /\ sys \in {"owes3", "owes2", "owes1", "absent"} => Devices = {}
    /\ targets # {} /\ (\A j, k \in Keyboards : j = k) => Devices = {}

\* Filters are made in one place.
LEMMA OnlyCreateAdds ==
    ASSUME TypeOK, Filters, ~Lost, Next
    PROVE  CreateFilter \/ (Devices' \subseteq Devices /\ (Load \/ targets' \subseteq targets))
<1>1. CASE Load
  BY <1>1 DEF Load, stack, TypeOK, Filters, Devices, Lost
<1>2. CASE OpenKbdclass
  BY <1>2 DEF OpenKbdclass, stack, TypeOK, Filters, Devices, Lost
<1>3. CASE OpenFails
  BY <1>3 DEF OpenFails, stack, TypeOK, Filters, Devices, Lost
<1>4. CASE CreateFails
  BY <1>4 DEF CreateFails, stack, TypeOK, Filters, Devices, Lost
<1>5. CASE Attach
  BY <1>5 DEF Attach, IoAttachDevice, stack, TypeOK, Filters, Devices, Lost
<1>6. CASE AttachFails
  BY <1>6 DEF AttachFails, IoDeleteDevice, stack, TypeOK, Filters, Devices, Lost
<1>7. CASE InitExtension
  BY <1>7 DEF InitExtension, stack, TypeOK, Filters, Devices, Lost
<1>8. CASE AttachedAll
  BY <1>8 DEF AttachedAll, stack, TypeOK, Filters, Devices, Lost
<1>9. CASE BeginUnload
  BY <1>9 DEF BeginUnload, WalkTo, stack, TypeOK, Filters, Devices, Lost
<1>10. CASE Detach
  BY <1>10 DEF Detach, IoDetachDevice, Crash, stack, TypeOK, Filters, Devices, Lost
<1>11. CASE Delete
  BY <1>11 DEF Delete, IoDeleteDevice, WalkTo, stack, TypeOK, Filters, Devices, Lost
<1>12. CASE Poll
  BY <1>12 DEF Poll, stack, TypeOK, Filters, Devices, Lost
<1>13. CASE Dereference
  BY <1>13 DEF Dereference, stack, TypeOK, Filters, Devices, Lost
<1>14. ASSUME NEW k \in Keyboards, RemoveForward(k) PROVE Devices' \subseteq Devices /\ targets' = targets
  BY <1>14 DEF RemoveForward, Crash, stack, TypeOK, Filters, Devices, Lost
<1>15. ASSUME NEW k \in Keyboards, RemoveDetach(k) PROVE Devices' \subseteq Devices /\ targets' = targets
  BY <1>15 DEF RemoveDetach, IoDetachDevice, Crash, stack, TypeOK, Filters, Devices, Lost
<1>16. ASSUME NEW k \in Keyboards, RemoveDelete(k) PROVE Devices' \subseteq Devices /\ targets' = targets
  BY <1>16 DEF RemoveDelete, IoDeleteDevice, stack, TypeOK, Filters, Devices, Lost
<1>17. ASSUME NEW r \in Reads, NEW k \in Keyboards, IssueRead(r, k) PROVE Devices' = Devices /\ targets' = targets
  BY <1>17 DEF IssueRead, stack, Devices
<1>18. ASSUME NEW r \in Reads, c2pDispatchRead(r) \/ c2pReadComplete(r)
      PROVE  Devices' = Devices /\ targets' = targets
  BY <1>18 DEF c2pDispatchRead, c2pReadComplete, stack, Devices,
       Reject, LoadToIncrement, Increment, Forward, ReturnFromDispatch,
       CompleteRead, LoadToDecrement, Decrement, ReturnFromCompletion
<1>w. CASE DriverEntry \/ BeginUnload \/ c2pUnload
  BY <1>w, <1>1, <1>2, <1>3, <1>4, <1>5, <1>6, <1>7, <1>8, <1>9, <1>10, <1>11, <1>12, <1>13
     DEF DriverEntry, c2pUnload
<1> QED  BY <1>w, <1>14, <1>15, <1>16, <1>17, <1>18 DEF Next, c2pRemove

\* Where the thread that loads and unloads goes from one step to the next.
LEMMA Endings ==
    ASSUME TypeOK, ~Lost, Next, sys' \in {"owes3", "owes2", "owes1", "absent"}
    PROVE  sys' = sys \/ OpenFails \/ CreateFails \/ Poll \/ Dereference
BY DEF TypeOK, Next, Lost, DriverEntry, c2pUnload, c2pRemove, c2pDispatchRead, c2pReadComplete,
       Crash, WalkTo, Load, OpenKbdclass, OpenFails, CreateFilter, CreateFails,
       Attach, AttachFails, InitExtension, AttachedAll, BeginUnload,
       Detach, Delete, Poll, Dereference, RemoveForward,
       RemoveDetach, RemoveDelete, IssueRead, Reject, LoadToIncrement,
       Increment, Forward, ReturnFromDispatch, CompleteRead, LoadToDecrement,
       Decrement, ReturnFromCompletion

LEMMA BackedNext ==
    ASSUME CreateIsSafe, IInv, Backed, ~Lost, Next, TypeOK', References'
    PROVE  Backed'
<1>1. CreateFilter \/ (Devices' \subseteq Devices /\ (Load \/ targets' \subseteq targets))
  BY OnlyCreateAdds DEF IInv
<1>2. ASSUME sys' \in {"owes3", "owes2", "owes1", "absent"}
      PROVE  Devices' = {}
  <2>1. ~CreateFilter
    BY <1>2 DEF CreateFilter
  <2>2. sys' = sys \/ OpenFails \/ CreateFails \/ Poll \/ Dereference
    BY <1>2, Endings DEF IInv
  <2>3. CASE sys' = sys
    BY <1>1, <1>2, <2>1, <2>3 DEF Backed
  <2>4. CASE OpenFails \/ Poll
    BY <1>1, <2>1, <2>4 DEF OpenFails, Poll, IInv, Filters
  <2>5. CASE CreateFails
    <3>1. targets # {} /\ \A j, k \in Keyboards : j = k
      BY <2>5 DEF CreateFails, CreateIsSafe
    <3> QED  BY <1>1, <2>1, <3>1 DEF Backed
  <2>6. CASE Dereference
    BY <1>1, <2>1, <2>6 DEF Dereference, Backed
  <2> QED  BY <2>2, <2>3, <2>4, <2>5, <2>6
<1>3. ASSUME targets' # {}, \A j, k \in Keyboards : j = k
      PROVE  Devices' = {}
  <2>1. ~CreateFilter
    BY <1>3 DEF CreateFilter, IInv, TypeOK
  <2>2. CASE Load
    BY <1>1, <2>1, <2>2 DEF Load, Backed
  <2>3. CASE ~Load
    BY <1>1, <1>3, <2>1, <2>3 DEF Backed
  <2> QED  BY <2>2, <2>3
<1>4. ASSUME Gone'
      PROVE  Devices' = {}
  <2>1. CASE sys' = "crashed"
    <3>1. refs' = refs /\ ~CreateFilter
      BY <2>1, CrashKeeps DEF CreateFilter
    <3> QED  BY <1>1, <1>4, <3>1 DEF Gone, Backed, DriverOutlivesDevices
  <2>2. CASE sys' # "crashed" /\ sys' \notin {"owes3", "owes2", "owes1", "absent"}
    <3>1. Held' >= 1 /\ Held' \in Int
      BY <2>2 DEF TypeOK, Held
    <3>2. refs' = Held' + Cardinality(Devices')
      BY <2>2 DEF References
    <3> QED  BY <1>4, <3>1, <3>2, NumbersNext DEF Gone
  <2> QED  BY <1>2, <2>1, <2>2
<1> QED  BY <1>2, <1>3, <1>4 DEF Backed, DriverOutlivesDevices

\* When no filter has to be made after one that cannot be (there is one keyboard,
\* or IoCreateDevice does not fail), the assertion of IopDeleteDriver holds in every
\* interleaving: the driver object, one reference short since line 149, still
\* outlives its devices.  The run ctrl2cap_create shows that two keyboards and a
\* failure are enough to break it.
THEOREM DriverKept == CreateIsSafe => (Spec => []DriverOutlivesDevices)
<1>1. CASE CreateIsSafe
  <2>1. Init => Backed
    BY DEF Init, Backed, DriverOutlivesDevices, Devices
  <2>2. IInv /\ IInv' /\ Backed /\ [Next]_vars => Backed'
    <3>1. ASSUME IInv, IInv', Backed, Next PROVE Backed'
      BY <1>1, <3>1, BackedNext DEF IInv, Next
    <3>2. ASSUME Backed, UNCHANGED vars PROVE Backed'
      BY <3>2 DEF Backed, DriverOutlivesDevices, Devices, Gone, vars, stack
    <3> QED  BY <3>1, <3>2
  <2>3. Backed => DriverOutlivesDevices
    BY DEF Backed
  <2> QED  BY <2>1, <2>2, <2>3, Always, PTL DEF Spec
<1> QED  BY <1>1
=============================================================================
