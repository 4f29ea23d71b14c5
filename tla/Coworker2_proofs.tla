-------------------------- MODULE Coworker2_proofs --------------------------
(***************************************************************************)
(* With one receiver the string queue of coworker2 loses no wakeup, for    *)
(* any number of senders, strings and loads of the driver.                 *)
(***************************************************************************)
EXTENDS Coworker2, TLAPS

Signalling == \E p \in Programs : pc[p] = "signal"

\* A receiver that found the list empty and is about to wait will find the
\* event signalled, or a sender is about to signal; for one that sleeps only
\* the latter helps.
OneInv ==
    /\ list \in Seq(Int) /\ event \in BOOLEAN
    /\ pc \in [Programs -> Labels]
    /\ \A p \in Programs : pc[p] \in {"ready", "remove", "wait", "blocked"} => p \in Receivers
    /\ list # <<>> =>
          \A p \in Programs : /\ pc[p] = "wait" => event \/ Signalling
                              /\ pc[p] = "blocked" => Signalling

LEMMA OneInvInit == Init => OneInv
<1> SUFFICES ASSUME Init PROVE OneInv
  OBVIOUS
<1>1. event \in BOOLEAN
  BY DEF Init
<1>2. list = <<>> /\ list \in Seq(Int)
  BY DEF Init
<1>3. pc \in [Programs -> Labels] /\ \A p \in Programs : pc[p] = "closed"
  BY DEF Init, Labels
<1> QED
  BY <1>1, <1>2, <1>3 DEF OneInv

LEMMA OneInvStep ==
    ASSUME \A p, q \in Receivers : p = q, OneInv, [Next]_vars,
           node \in [Programs -> Int]
    PROVE  OneInv'
<1> USE DEF OneInv, Labels, Signalling
<1>1. CASE UNCHANGED vars
  BY <1>1 DEF vars
<1>2. CASE DriverEntry
  BY <1>2 DEF DriverEntry
<1>3. CASE cwkUnload
  BY <1>3 DEF cwkUnload
<1>4. ASSUME NEW p \in Programs, Create(p) PROVE OneInv'
  BY <1>4 DEF Create
<1>5. ASSUME NEW p \in Programs, Close(p) PROVE OneInv'
  BY <1>5 DEF Close
<1>6. ASSUME NEW p \in Programs, NEW l \in Lengths, SendString(p, l) PROVE OneInv'
  BY <1>6 DEF SendString
<1>7. ASSUME NEW p \in Programs, InsertTail(p) PROVE OneInv'
  BY <1>7 DEF InsertTail
<1>8. ASSUME NEW p \in Programs, SetEvent(p) PROVE OneInv'
  <2> USE <1>8
  <2>1. CASE Blocked = {}
    <3>1. pc' = [pc EXCEPT ![p] = "open"] /\ event' = TRUE /\ list' = list
      BY <2>1 DEF SetEvent, Kept
    <3>2. \A r \in Programs : pc[r] # "blocked"
      BY <2>1 DEF Blocked
    <3> QED
      BY <3>1, <3>2
  <2>2. CASE Blocked # {}
    <3>1. PICK q \in Blocked : pc' = [pc EXCEPT ![p] = "open", ![q] = "ready"]
      BY <2>2 DEF SetEvent
    <3>2. q \in Programs /\ pc[q] = "blocked"
      BY DEF Blocked
    <3>3. list' = list /\ event' = event
      BY <2>2 DEF SetEvent
    <3>4. \A r \in Programs : pc'[r] \notin {"wait", "blocked"}
      BY <3>1, <3>2
    <3>5. \A r \in Programs : pc'[r] \in {"ready", "remove"} => r \in Receivers
      BY <3>1, <3>2
    <3>6. pc' \in [Programs -> Labels]
      BY <3>1
    <3> QED
      BY <3>3, <3>4, <3>5, <3>6
  <2> QED
    BY <2>1, <2>2
<1>9. ASSUME NEW p \in Programs, Receive(p) PROVE OneInv'
  BY <1>9 DEF Receive
<1>10. ASSUME NEW p \in Programs, RemoveHead(p) PROVE OneInv'
  <2> USE <1>10
  <2>1. CASE list = <<>>
    BY <2>1 DEF RemoveHead
  <2>2. CASE list # <<>>
    <3>1. /\ pc[p] = "remove" /\ pc' = [pc EXCEPT ![p] = "open"]
          /\ list' = Tail(list) /\ event' = event
      BY <2>2 DEF RemoveHead
    <3>2. \A r \in Programs : pc'[r] \notin {"ready", "remove", "wait", "blocked"}
      BY <3>1
    <3>3. list' \in Seq(Int)
      BY <2>2, <3>1
    <3> QED
      BY <3>1, <3>2, <3>3
  <2> QED
    BY <2>1, <2>2
<1>11. ASSUME NEW p \in Programs, WaitEvent(p) PROVE OneInv'
  <2> USE <1>11
  <2>1. CASE event
    <3>1. /\ pc[p] = "wait" /\ pc' = [Scheduled EXCEPT ![p] = "remove"]
          /\ list' = list /\ event' \in BOOLEAN
      BY <2>1 DEF WaitEvent
    <3>2. \A r \in Programs : pc'[r] \notin {"ready", "wait", "blocked"}
      BY <3>1 DEF Scheduled
    <3>3. /\ pc' \in [Programs -> Labels]
          /\ \A r \in Programs : pc'[r] = "remove" => r \in Receivers
      BY <3>1 DEF Scheduled
    <3> QED
      BY <3>1, <3>2, <3>3
  <2>2. CASE ~event
    <3>1. /\ pc[p] = "wait" /\ pc' = [Scheduled EXCEPT ![p] = "blocked"]
          /\ list' = list /\ event' = event
      BY <2>2 DEF WaitEvent
    <3>2. list # <<>> => Signalling'
      BY <2>2, <3>1 DEF Scheduled
    <3>3. pc' \in [Programs -> Labels]
      BY <3>1 DEF Scheduled
    <3>4. \A r \in Programs : pc'[r] \notin {"ready", "wait"}
      BY <3>1 DEF Scheduled
    <3>5. \A r \in Programs : pc'[r] \in {"remove", "blocked"} => r \in Receivers
      BY <3>1 DEF Scheduled
    <3> HIDE <1>11 DEF Signalling
    <3> QED
      BY <3>1, <3>2, <3>3, <3>4, <3>5
  <2> QED
    BY <2>1, <2>2
<1>12. ASSUME NEW p \in Programs, NextWait(p) PROVE OneInv'
  <2>1. pc' = Scheduled /\ list' = list /\ event' = event
    BY <1>12 DEF NextWait
  <2>2. pc' \in [Programs -> Labels]
    BY <2>1 DEF Scheduled
  <2>3. \A r \in Programs :
           /\ pc'[r] = "remove" => pc[r] \in {"ready", "remove"}
           /\ pc'[r] # "ready"
           /\ \A l \in {"signal", "wait", "blocked"} : pc'[r] = l <=> pc[r] = l
    BY <2>1 DEF Scheduled
  <2> QED
    BY <2>1, <2>2, <2>3
<1> QED
  BY <1>1, <1>2, <1>3, <1>4, <1>5, <1>6, <1>7, <1>8, <1>9, <1>10, <1>11, <1>12
     DEF Next, Inside

\* The nodes hold lengths.
LEMMA NodeStep ==
    ASSUME node \in [Programs -> Int], [Next]_vars
    PROVE  node' \in [Programs -> Int]
  BY CoworkerAssumption DEF Next, Inside, vars, DriverEntry, cwkUnload, Create, Close,
     SendString, InsertTail, None, SetEvent, Receive, RemoveHead, WaitEvent, NextWait

\* With a single receiver, no receive sleeps on a list that is not empty unless
\* a sender is about to signal (the wait loop of CWK_DVC_RECV_STR).
THEOREM OneReceiverWakes ==
    ASSUME \A p, q \in Receivers : p = q
    PROVE  Spec => []WakeupOnItsWay
<1> DEFINE NodeOK == node \in [Programs -> Int]
<1>1. Init => NodeOK /\ OneInv
  BY OneInvInit DEF Init, None
<1>2. NodeOK /\ OneInv /\ [Next]_vars => (NodeOK /\ OneInv)'
  BY OneInvStep, NodeStep
<1>3. OneInv => WakeupOnItsWay
  BY DEF OneInv, Signalling, WakeupOnItsWay, Blocked
<1> HIDE DEF NodeOK
<1> QED
  BY <1>1, <1>2, <1>3, PTL DEF Spec
-----------------------------------------------------------------------------
\* A program about to insert has a string in its node.
TypeInv == TypeOK /\ \A p \in Programs : pc[p] = "insert" => node[p] \in Strings

\* What cwkDispatch accepts fits in a node with its terminator.
LEMMA Fits ==
    ASSUME NEW l \in Lengths, Accepts(l)
    PROVE  l[2] \in Strings
  BY CoworkerAssumption DEF Accepts, Strings

LEMMA ListIsTyped ==
    ASSUME NEW l \in Seq(Strings), NEW s \in Strings
    PROVE  /\ Append(l, s) \in Seq(Strings)
           /\ l # <<>> => Tail(l) \in Seq(Strings)
  OBVIOUS

\* No string in the list is longer than a node holds, whatever lengths the
\* programs pass (the checks of CWK_DVC_SEND_STR), for any programs and loads.
THEOREM TypeCorrect == Spec => []TypeOK
<1>1. Init => TypeInv
  <2> SUFFICES ASSUME Init PROVE TypeInv
    OBVIOUS
  <2>1. list \in Seq(Strings)
    BY DEF Init
  <2>2. loaded \in BOOLEAN /\ event \in BOOLEAN
    BY DEF Init
  <2>3. /\ loads \in 0 .. MaxLoads
        /\ pc \in [Programs -> Labels] /\ node \in [Programs -> Strings \cup {None}]
        /\ \A p \in Programs : pc[p] # "insert"
        /\ holder \in Programs \cup {NoOne}
    BY CoworkerAssumption DEF Init, Labels
  <2> QED
    BY <2>1, <2>2, <2>3 DEF TypeInv, TypeOK
<1>2. TypeInv /\ [Next]_vars => TypeInv'
  <2> SUFFICES ASSUME TypeInv, [Next]_vars PROVE TypeInv'
    OBVIOUS
  <2> USE CoworkerAssumption DEF TypeInv, TypeOK, Labels
  <2>1. CASE UNCHANGED vars
    BY <2>1 DEF vars
  <2>2. CASE DriverEntry
    BY <2>2 DEF DriverEntry
  <2>3. CASE cwkUnload
    <3>1. list' = <<>> /\ loaded' = FALSE /\ UNCHANGED <<loads, event, pc, node, holder>>
      BY <2>3 DEF cwkUnload
    <3>2. list' \in Seq(Strings)
      BY <3>1
    <3> QED
      BY <3>1, <3>2
  <2>4. ASSUME NEW p \in Programs, Create(p) \/ Close(p) \/ Receive(p) PROVE TypeInv'
    BY <2>4 DEF Create, Close, Receive
  <2>5. ASSUME NEW p \in Programs, NEW l \in Lengths, SendString(p, l) PROVE TypeInv'
    BY <2>5, Fits DEF SendString
  <2>6. ASSUME NEW p \in Programs, InsertTail(p) PROVE TypeInv'
    BY <2>6, ListIsTyped DEF InsertTail
  <2>7. ASSUME NEW p \in Programs, SetEvent(p) PROVE TypeInv'
    <3>1. event' \in BOOLEAN
      BY <2>7 DEF SetEvent, Kept
    <3>2. /\ pc' \in [Programs -> Labels] /\ UNCHANGED <<loaded, loads, list, node>>
          /\ holder' = p
          /\ \A q \in Programs : pc'[q] = "insert" => pc[q] = "insert"
      BY <2>7 DEF SetEvent, Blocked
    <3> QED
      BY <3>1, <3>2
  <2>8. ASSUME NEW p \in Programs, RemoveHead(p) PROVE TypeInv'
    BY <2>8, ListIsTyped DEF RemoveHead
  <2>9. ASSUME NEW p \in Programs, WaitEvent(p) \/ NextWait(p) PROVE TypeInv'
    <3>1. /\ event' \in BOOLEAN /\ holder' = NoOne
          /\ UNCHANGED <<loaded, loads, list, node>>
      BY <2>9 DEF WaitEvent, NextWait
    <3>2. /\ pc' \in [Programs -> Labels]
          /\ \A q \in Programs : pc'[q] = "insert" => pc[q] = "insert"
      BY <2>9 DEF WaitEvent, NextWait, Scheduled
    <3> QED
      BY <3>1, <3>2
  <2> QED
    BY <2>1, <2>2, <2>3, <2>4, <2>5, <2>6, <2>7, <2>8, <2>9 DEF Next, Inside
<1>3. TypeInv => TypeOK
  BY DEF TypeInv
<1> QED
  BY <1>1, <1>2, <1>3, PTL DEF Spec
=============================================================================
