--------------------------- MODULE BulkheadProofs ---------------------------
(***************************************************************************)
(* For any calls, slots and places: the counter of BulkheadPolicy is exact *)
(* and bounded, no slot is idle while a call waits, the queue holds the    *)
(* waiting calls and nothing else, and every step is one of FairSlots.     *)
(***************************************************************************)
EXTENDS Bulkhead, StructureTheorems

(* The inductive invariant.  SlotsAccounted is not inductive alone: that a *)
(* release may count its slot up again rests on the head of the queue      *)
(* being a call that still waits (QueueHoldsTheWaiting), and that it stays *)
(* within maxConcurrent on the type of the counter.                        *)
Inv ==
    /\ TypeOK
    /\ SlotsAccounted
    /\ NoIdleSlot
    /\ QueueHoldsTheWaiting
    /\ ReportedIffRejected

-----------------------------------------------------------------------------
(* Holders: which steps change who owns a slot, and by how much.           *)

(* There are finitely many calls, so as many holders.                      *)
LEMMA HoldersFinite == IsFiniteSet(Holders) /\ Cardinality(Holders) \in Nat
  BY ConstantsAssumption, FS_Subset, FS_CardinalityType DEF Holders

(* A call that takes a slot is one holder more.                            *)
LEMMA OneHolderMore ==
    ASSUME NEW c \in Calls, c \notin Holders, Holders' = Holders \cup {c}
    PROVE  Cardinality(Holders') = Cardinality(Holders) + 1
  BY HoldersFinite, FS_AddElement

(* A call that gives its slot up is one holder less.                       *)
LEMMA OneHolderLess ==
    ASSUME NEW c \in Holders, Holders' = Holders \ {c}
    PROVE  Cardinality(Holders') = Cardinality(Holders) - 1
  BY HoldersFinite, FS_RemoveElement

(* A slot that is handed over leaves their number as it is.                *)
LEMMA AsManyHolders ==
    ASSUME NEW c \in Holders, NEW d \in Calls, d \notin Holders,
           Holders' = (Holders \ {c}) \cup {d}
    PROVE  Cardinality(Holders') = Cardinality(Holders)
<1>1. /\ IsFiniteSet(Holders \ {c})
      /\ Cardinality(Holders \ {c}) = Cardinality(Holders) - 1
  BY HoldersFinite, FS_RemoveElement
<1>2. d \notin Holders \ {c}
  OBVIOUS
<1>3. Cardinality(Holders') = Cardinality(Holders \ {c}) + 1
  BY <1>1, <1>2, FS_AddElement
<1> QED
  BY <1>1, <1>3, HoldersFinite

-----------------------------------------------------------------------------
(* Steps.  The waiters of the queue are numbered by their places in it.    *)

(* A waiting call has a place in the queue, and leave() takes it out, with *)
(* its timer and its listener.                                             *)
LEMMA LeaveTakesOut ==
    ASSUME Inv, NEW c \in Calls, pc[c] = "waiting", Leave(c)
    PROVE  /\ queue' \in Seq(Calls)
           /\ Len(queue') = Len(queue) - 1
           /\ Distinct(queue')
           /\ \A d \in Calls : (\E i \in DOMAIN queue' : queue'[i] = d)
                                  <=> (d # c /\ pc[d] = "waiting")
           /\ listening' \in SUBSET Calls /\ timers' \in SUBSET Calls
           /\ \A d \in Calls : d \in listening' <=> d # c /\ pc[d] = "waiting"
           /\ \A d \in timers' : d # c /\ pc[d] = "waiting"
           /\ Len(queue') <= MaxQueue
           /\ queue # <<>>
<1>1. /\ queue \in Seq(Calls) /\ Distinct(queue)
      /\ DOMAIN queue = 1 .. Len(queue) /\ Len(queue) \in Nat /\ Len(queue) <= MaxQueue
  BY DEF Inv, TypeOK, QueueHoldsTheWaiting, Distinct
<1>2. PICK k \in 1 .. Len(queue) : queue[k] = c
  BY <1>1 DEF Inv, QueueHoldsTheWaiting
<1>3. queue' = RemoveFirst(queue, queue[k])
  BY <1>2 DEF Leave
<1>4. /\ queue' \in Seq(Calls)
      /\ Len(queue') = Len(queue) - 1
      /\ Distinct(queue')
      /\ ToSet(queue') = ToSet(queue) \ {c}
  <2> DEFINE r == RemoveFirst(queue, queue[k])
  <2>1. /\ r \in Seq(Calls) /\ Len(r) = Len(queue) - 1 /\ Distinct(r)
        /\ ToSet(r) = ToSet(queue) \ {queue[k]}
    BY <1>1, QueueWithout
  <2> HIDE DEF r
  <2>2. queue' = r
    BY <1>3 DEF r
  <2> QED
    BY <1>2, <2>1, <2>2 DEF Distinct, ToSet
<1>5. \A d \in Calls : (\E i \in DOMAIN queue' : queue'[i] = d)
                         <=> (d # c /\ pc[d] = "waiting")
  <2>1. \A d \in Calls : pc[d] = "waiting" <=> d \in ToSet(queue)
    BY DEF Inv, QueueHoldsTheWaiting, ToSet
  <2>2. \A d \in Calls : (\E i \in DOMAIN queue' : queue'[i] = d) <=> d \in ToSet(queue')
    BY DEF ToSet
  <2> QED
    BY <2>1, <2>2, <1>4
<1>6. /\ listening' \in SUBSET Calls /\ timers' \in SUBSET Calls
      /\ \A d \in Calls : d \in listening' <=> d # c /\ pc[d] = "waiting"
      /\ \A d \in timers' : d # c /\ pc[d] = "waiting"
  BY DEF Leave, Inv, TypeOK, QueueHoldsTheWaiting
<1>7. Len(queue') <= MaxQueue /\ queue # <<>>
  BY <1>1, <1>2, <1>4, ConstantsAssumption
<1> QED
  BY <1>4, <1>5, <1>6, <1>7

(* A new bulkhead satisfies the invariant.                                 *)
LEMMA InitInv == Init => Inv
<1> SUFFICES ASSUME Init PROVE Inv
  OBVIOUS
<1>1. Holders = {}
  BY DEF Init, Holders
<1>2. Cardinality(Holders) = 0
  BY <1>1, FS_EmptySet
<1>3. TypeOK
  BY DEF Init, TypeOK, Places
<1>4. SlotsAccounted
  BY <1>2, ConstantsAssumption DEF Init, SlotsAccounted
<1>5. NoIdleSlot /\ ReportedIffRejected
  BY DEF Init, NoIdleSlot, ReportedIffRejected
<1>6. QueueHoldsTheWaiting
  BY ConstantsAssumption DEF Init, QueueHoldsTheWaiting
<1> QED
  BY <1>3, <1>4, <1>5, <1>6 DEF Inv

(* A call that ends where it arrives: nothing but its own place changes.   *)
LEMMA TurnedAwayKeepsInv ==
    ASSUME Inv, NEW c \in Calls, ThrowAborted(c) \/ RejectFull(c)
    PROVE  Inv'
<1>1. TypeOK'
  BY DEF Inv, TypeOK, ThrowAborted, RejectFull, Places
<1>2. SlotsAccounted'
  <2>1. Holders' = Holders /\ running' = running
    BY DEF Inv, TypeOK, Holders, ThrowAborted, RejectFull
  <2> QED
    BY <2>1 DEF Inv, SlotsAccounted
<1>3. NoIdleSlot'
  BY DEF Inv, NoIdleSlot, ThrowAborted, RejectFull
<1>4. QueueHoldsTheWaiting'
  BY DEF Inv, TypeOK, QueueHoldsTheWaiting, ThrowAborted, RejectFull
<1>5. ReportedIffRejected'
  BY DEF Inv, TypeOK, ReportedIffRejected, ThrowAborted, RejectFull
<1> QED
  BY <1>1, <1>2, <1>3, <1>4, <1>5 DEF Inv

(* A call that finds a free slot finds an empty queue.                     *)
LEMMA TakeSlotKeepsInv ==
    ASSUME Inv, NEW c \in Calls, TakeSlot(c)
    PROVE  Inv'
<1>1. TypeOK'
  BY DEF Inv, TypeOK, TakeSlot, Places
<1>2. SlotsAccounted'
  <2>1. c \notin Holders /\ Holders' = Holders \cup {c}
    BY DEF Inv, TypeOK, Holders, TakeSlot
  <2>2. Cardinality(Holders') = Cardinality(Holders) + 1
    BY <2>1, OneHolderMore
  <2> QED
    BY <2>2, ConstantsAssumption DEF Inv, TypeOK, SlotsAccounted, TakeSlot
<1>3. NoIdleSlot'
  <2>1. queue = <<>>
    BY ConstantsAssumption DEF Inv, TypeOK, NoIdleSlot, TakeSlot
  <2> QED
    BY <2>1 DEF NoIdleSlot, TakeSlot
<1>4. QueueHoldsTheWaiting'
  BY DEF Inv, TypeOK, QueueHoldsTheWaiting, TakeSlot
<1>5. ReportedIffRejected'
  BY DEF Inv, TypeOK, ReportedIffRejected, TakeSlot
<1> QED
  BY <1>1, <1>2, <1>3, <1>4, <1>5 DEF Inv

(* A call waits only when every slot is owned, as one more in the queue.   *)
LEMMA JoinQueueKeepsInv ==
    ASSUME Inv, NEW c \in Calls, JoinQueue(c)
    PROVE  Inv'
<1>1. /\ queue \in Seq(Calls) /\ DOMAIN queue = 1 .. Len(queue) /\ Len(queue) \in Nat
      /\ queue' = Append(queue, c)
      /\ Len(queue') = Len(queue) + 1 /\ DOMAIN queue' = 1 .. Len(queue) + 1
      /\ \A i \in DOMAIN queue : queue'[i] = queue[i]
      /\ queue'[Len(queue) + 1] = c
  BY AppendProperties DEF Inv, TypeOK, JoinQueue
<1>2. TypeOK'
  BY AppendProperties DEF Inv, TypeOK, JoinQueue, Places
<1>3. Holders' = Holders
  BY DEF Inv, TypeOK, Holders, JoinQueue
<1>4. SlotsAccounted'
  BY <1>3 DEF Inv, SlotsAccounted, JoinQueue
<1>5. NoIdleSlot'
  BY ConstantsAssumption DEF Inv, TypeOK, SlotsAccounted, NoIdleSlot, JoinQueue
<1>6. QueueHoldsTheWaiting'
  <2>1. \A i \in DOMAIN queue : queue[i] # c
    BY DEF Inv, QueueHoldsTheWaiting, JoinQueue
  <2>2. Distinct(queue')
    BY <1>1, <2>1 DEF Inv, QueueHoldsTheWaiting, Distinct
  <2>3. \A d \in Calls : pc'[d] = "waiting" <=> d = c \/ pc[d] = "waiting"
    BY DEF Inv, TypeOK, JoinQueue
  <2>4. \A d \in Calls : pc'[d] = "waiting" <=> \E i \in DOMAIN queue' : queue'[i] = d
    BY <1>1, <2>3 DEF Inv, QueueHoldsTheWaiting
  <2>5. \A d \in Calls : d \in listening' <=> pc'[d] = "waiting"
    BY <2>3 DEF Inv, QueueHoldsTheWaiting, JoinQueue
  <2>6. \A d \in timers' : pc'[d] = "waiting"
    BY <2>3 DEF Inv, TypeOK, QueueHoldsTheWaiting, JoinQueue
  <2>7. Len(queue') <= MaxQueue
    BY <1>1, ConstantsAssumption DEF JoinQueue
  <2> QED
    BY <2>2, <2>4, <2>5, <2>6, <2>7 DEF QueueHoldsTheWaiting, Distinct
<1>7. ReportedIffRejected'
  BY DEF Inv, TypeOK, ReportedIffRejected, JoinQueue
<1> QED
  BY <1>2, <1>4, <1>5, <1>6, <1>7 DEF Inv

(* When a waiter leaves and nobody else stops or starts to wait, the queue *)
(* without it is again the queue of the waiting calls.                     *)
LEMMA LeavingKeepsQueue ==
    ASSUME Inv, NEW c \in Calls, pc[c] = "waiting", Leave(c),
           \A d \in Calls : pc'[d] = "waiting" <=> d # c /\ pc[d] = "waiting"
    PROVE  QueueHoldsTheWaiting'
<1>1. DOMAIN queue' = 1 .. Len(queue')
  BY LeaveTakesOut
<1>2. timers' \in SUBSET Calls
  BY LeaveTakesOut
<1> QED
  BY <1>1, <1>2, LeaveTakesOut DEF QueueHoldsTheWaiting, Distinct

(* An abort takes a waiter out of the queue; it disturbs nobody else.      *)
LEMMA AbortKeepsInv ==
    ASSUME Inv, NEW c \in Calls, Abort(c)
    PROVE  Inv'
<1>1. CASE c \notin listening
  <2>1. /\ UNCHANGED <<running, queue, pc, timers, listening, reported>>
        /\ aborted' \in SUBSET Calls
    BY <1>1 DEF Inv, TypeOK, Abort
  <2> QED
    BY <2>1 DEF Inv, TypeOK, SlotsAccounted, Holders, NoIdleSlot,
                QueueHoldsTheWaiting, ReportedIffRejected
<1>2. CASE c \in listening
  <2>1. /\ pc[c] = "waiting" /\ Leave(c) /\ pc' = [pc EXCEPT ![c] = "gone"]
        /\ running' = running /\ reported' = reported
        /\ aborted' = aborted \cup {c}
    BY <1>2 DEF Inv, QueueHoldsTheWaiting, Abort, SettleWait
  <2>2. TypeOK'
    BY <2>1, LeaveTakesOut DEF Inv, TypeOK, Places
  <2>3. Holders' = Holders
    BY <2>1 DEF Inv, TypeOK, Holders
  <2>4. SlotsAccounted'
    BY <2>1, <2>3 DEF Inv, SlotsAccounted
  <2>5. NoIdleSlot'
    BY <2>1, LeaveTakesOut DEF Inv, NoIdleSlot
  <2>6. QueueHoldsTheWaiting'
    <3>1. \A d \in Calls : pc'[d] = "waiting" <=> d # c /\ pc[d] = "waiting"
      BY <2>1 DEF Inv, TypeOK
    <3> QED
      BY <2>1, <3>1, LeavingKeepsQueue
  <2>7. ReportedIffRejected'
    BY <2>1 DEF Inv, TypeOK, ReportedIffRejected
  <2> QED
    BY <2>2, <2>4, <2>5, <2>6, <2>7 DEF Inv
<1> QED
  BY <1>1, <1>2

(* A queue timer fires only for a waiter, who is out and reported then.    *)
LEMMA QueueTimeoutKeepsInv ==
    ASSUME Inv, NEW c \in Calls, QueueTimeout(c)
    PROVE  Inv'
<1>1. /\ pc[c] = "waiting" /\ Leave(c) /\ pc' = [pc EXCEPT ![c] = "rejected"]
      /\ running' = running /\ aborted' = aborted
      /\ reported' = reported \cup {c}
  BY DEF Inv, QueueHoldsTheWaiting, QueueTimeout, SettleWait
<1>2. TypeOK'
  BY <1>1, LeaveTakesOut DEF Inv, TypeOK, Places
<1>3. Holders' = Holders
  BY <1>1 DEF Inv, TypeOK, Holders
<1>4. SlotsAccounted'
  BY <1>1, <1>3 DEF Inv, SlotsAccounted
<1>5. NoIdleSlot'
  BY <1>1, LeaveTakesOut DEF Inv, NoIdleSlot
<1>6. QueueHoldsTheWaiting'
  <2>1. \A d \in Calls : pc'[d] = "waiting" <=> d # c /\ pc[d] = "waiting"
    BY <1>1 DEF Inv, TypeOK
  <2> QED
    BY <1>1, <2>1, LeavingKeepsQueue
<1>7. ReportedIffRejected'
  BY <1>1 DEF Inv, TypeOK, ReportedIffRejected
<1> QED
  BY <1>2, <1>4, <1>5, <1>6, <1>7 DEF Inv

(* A granted call owned its slot before it runs.                           *)
LEMMA StartKeepsInv ==
    ASSUME Inv, NEW c \in Calls, Start(c)
    PROVE  Inv'
<1>1. TypeOK'
  BY DEF Inv, TypeOK, Start, Places
<1>2. Holders' = Holders
  BY DEF Inv, TypeOK, Holders, Start
<1>3. SlotsAccounted'
  BY <1>2 DEF Inv, SlotsAccounted, Start
<1>4. NoIdleSlot'
  BY DEF Inv, NoIdleSlot, Start
<1>5. QueueHoldsTheWaiting'
  BY DEF Inv, TypeOK, QueueHoldsTheWaiting, Start
<1>6. ReportedIffRejected'
  BY DEF Inv, TypeOK, ReportedIffRejected, Start
<1> QED
  BY <1>1, <1>3, <1>4, <1>5, <1>6 DEF Inv

(* What a release does when somebody waits.                                *)
LEMMA Handover ==
    ASSUME Inv, NEW c \in Calls, Release(c), queue # <<>>
    PROVE  LET head == Head(queue) IN
           /\ head \in Calls /\ pc[head] = "waiting" /\ head # c
           /\ Leave(head)
           /\ running' = running
           /\ pc' = [pc EXCEPT ![head] = "granted", ![c] = "settled"]
           /\ Holders' = (Holders \ {c}) \cup {head}
           /\ UNCHANGED <<aborted, reported>>
<1> DEFINE head == Head(queue)
<1>1. queue \in Seq(Calls) /\ 1 \in DOMAIN queue /\ head = queue[1]
  BY DEF Inv, TypeOK
<1>2. head \in Calls /\ pc[head] = "waiting"
  BY <1>1 DEF Inv, QueueHoldsTheWaiting
<1> HIDE DEF head
<1>3. head # c
  BY <1>2 DEF Release
<1>4. /\ Leave(head) /\ running' = (running - 1) + 1
      /\ pc' = [SettleWait(head, "granted") EXCEPT ![c] = "settled"]
      /\ UNCHANGED <<aborted, reported>>
  BY DEF Release, head
<1>5. running' = running
  BY <1>4 DEF Inv, TypeOK
<1>6. pc' = [pc EXCEPT ![head] = "granted", ![c] = "settled"]
  BY <1>2, <1>4 DEF SettleWait
<1>7. Holders' = (Holders \ {c}) \cup {head}
  BY <1>2, <1>3, <1>6 DEF Inv, TypeOK, Holders
<1> QED
  BY <1>2, <1>3, <1>4, <1>5, <1>6, <1>7 DEF head

(* A slot that comes free goes to the head of the queue, or is free.       *)
LEMMA ReleaseKeepsInv ==
    ASSUME Inv, NEW c \in Calls, Release(c)
    PROVE  Inv'
<1>0. pc[c] = "running" /\ c \in Holders
  BY DEF Release, Holders
<1>1. CASE queue = <<>>
  <2>1. /\ running' = running - 1 /\ pc' = [pc EXCEPT ![c] = "settled"]
        /\ UNCHANGED <<queue, timers, listening, aborted, reported>>
    BY <1>1 DEF Release
  <2>2. Holders' = Holders \ {c}
    BY <2>1 DEF Inv, TypeOK, Holders
  <2>3. Cardinality(Holders') = Cardinality(Holders) - 1
    BY <1>0, <2>2, OneHolderLess
  <2>4. SlotsAccounted'
    BY <2>1, <2>3, ConstantsAssumption DEF Inv, TypeOK, SlotsAccounted
  <2>5. TypeOK'
    <3>1. Cardinality(Holders') \in Nat
      BY <2>2, HoldersFinite, FS_RemoveElement, FS_CardinalityType
    <3> QED
      BY <2>1, <2>4, <3>1 DEF Inv, TypeOK, SlotsAccounted, Places
  <2>6. NoIdleSlot'
    BY <1>1, <2>1 DEF NoIdleSlot
  <2>7. QueueHoldsTheWaiting'
    BY <1>0, <2>1 DEF Inv, TypeOK, QueueHoldsTheWaiting
  <2>8. ReportedIffRejected'
    BY <1>0, <2>1 DEF Inv, TypeOK, ReportedIffRejected
  <2> QED
    BY <2>4, <2>5, <2>6, <2>7, <2>8 DEF Inv
<1>2. CASE queue # <<>>
  <2> DEFINE head == Head(queue)
  <2>1. /\ head \in Calls /\ pc[head] = "waiting" /\ head # c
        /\ Leave(head) /\ running' = running
        /\ pc' = [pc EXCEPT ![head] = "granted", ![c] = "settled"]
        /\ Holders' = (Holders \ {c}) \cup {head}
        /\ UNCHANGED <<aborted, reported>>
    BY <1>2, Handover
  <2> HIDE DEF head
  <2>2. head \notin Holders
    BY <2>1 DEF Holders
  <2>3. Cardinality(Holders') = Cardinality(Holders)
    BY <1>0, <2>1, <2>2, AsManyHolders
  <2>4. SlotsAccounted'
    BY <2>1, <2>3 DEF Inv, SlotsAccounted
  <2>5. TypeOK'
    BY <2>1, LeaveTakesOut DEF Inv, TypeOK, Places
  <2>6. NoIdleSlot'
    BY <1>2, <2>1 DEF Inv, NoIdleSlot
  <2>7. QueueHoldsTheWaiting'
    <3>1. \A d \in Calls : pc'[d] = "waiting" <=> d # head /\ pc[d] = "waiting"
      BY <1>0, <2>1 DEF Inv, TypeOK
    <3> QED
      BY <2>1, <3>1, LeavingKeepsQueue
  <2>8. ReportedIffRejected'
    BY <1>0, <2>1 DEF Inv, TypeOK, ReportedIffRejected
  <2> QED
    BY <2>4, <2>5, <2>6, <2>7, <2>8 DEF Inv
<1> QED
  BY <1>1, <1>2

(* Every step keeps the invariant.                                         *)
LEMMA NextKeepsInv == Inv /\ [Next]_vars => Inv'
<1> SUFFICES ASSUME Inv, [Next]_vars PROVE Inv'
  OBVIOUS
<1>1. CASE UNCHANGED vars
  BY <1>1 DEF vars, Inv, TypeOK, SlotsAccounted, Holders, NoIdleSlot,
              QueueHoldsTheWaiting, ReportedIffRejected
<1>2. CASE Next
  <2>1. PICK c \in Calls :
            \/ ThrowAborted(c) \/ TakeSlot(c) \/ RejectFull(c) \/ JoinQueue(c)
            \/ Abort(c) \/ QueueTimeout(c) \/ Start(c) \/ Release(c)
    BY <1>2 DEF Next
  <2> QED
    BY <2>1, TurnedAwayKeepsInv, TakeSlotKeepsInv, JoinQueueKeepsInv, AbortKeepsInv,
       QueueTimeoutKeepsInv, StartKeepsInv, ReleaseKeepsInv
<1> QED
  BY <1>1, <1>2

-----------------------------------------------------------------------------
(* The theorems.                                                           *)

(* The inductive invariant holds in every reachable state.                 *)
THEOREM InvHolds == Spec => []Inv
<1>1. Init => Inv
  BY InitInv
<1>2. Inv /\ [Next]_vars => Inv'
  BY NextKeepsInv
<1> QED
  BY <1>1, <1>2, PTL DEF Spec

(* BulkheadPolicy's fields keep their types.                               *)
THEOREM TypeCorrect == Spec => []TypeOK
<1>1. Inv => TypeOK
  BY DEF Inv
<1> QED
  BY InvHolds, <1>1, PTL

(* `active` is the number of calls that own a slot, at most maxConcurrent: *)
(* no interleaving of release, abort and queue timeout leaks a slot or     *)
(* hands one out twice.                                                    *)
THEOREM SlotsNeverLeak == Spec => []SlotsAccounted
<1>1. Inv => SlotsAccounted
  BY DEF Inv
<1> QED
  BY InvHolds, <1>1, PTL

(* No call waits while a slot is free, so none can be overtaken.           *)
THEOREM NoCallWaitsForNothing == Spec => []NoIdleSlot
<1>1. Inv => NoIdleSlot
  BY DEF Inv
<1> QED
  BY InvHolds, <1>1, PTL

(* The queue is the waiting calls, each once, and a call that stopped      *)
(* waiting has neither a timer nor an abort listener left.                 *)
THEOREM QueueIsTheWaiting == Spec => []QueueHoldsTheWaiting
<1>1. Inv => QueueHoldsTheWaiting
  BY DEF Inv
<1> QED
  BY InvHolds, <1>1, PTL

(* No call is both granted and reported as rejected.                       *)
THEOREM ReportsAreTrue == Spec => []ReportedIffRejected
<1>1. Inv => ReportedIffRejected
  BY DEF Inv
<1> QED
  BY InvHolds, <1>1, PTL

-----------------------------------------------------------------------------
(* The safety part of the refinement of FairSlots.                         *)

(* FairSlots has its own copies of the operators on sequences.             *)
LEMMA SameOperators ==
    ASSUME NEW q, NEW x
    PROVE  /\ Semaphore!ToSet(q) = ToSet(q)
           /\ Semaphore!RemoveFirst(q, x) = RemoveFirst(q, x)
           /\ Semaphore!Cardinality(q) = Cardinality(q)
<1>1. Semaphore!ToSet(q) = ToSet(q)
  BY DEF Semaphore!ToSet, ToSet
<1>2. Semaphore!RemoveFirst(q, x) = RemoveFirst(q, x)
  BY DEF Semaphore!RemoveFirst, RemoveFirst, Semaphore!RemoveAt, RemoveAt,
         Semaphore!SelectInSeq, SelectInSeq, Semaphore!Min, Min
<1>3. Semaphore!Cardinality(q) = Cardinality(q)
  BY DEF Semaphore!Cardinality, Cardinality
<1> QED
  BY <1>1, <1>2, <1>3

(* Every step is a step of FairSlots, or one that it does not see.         *)
LEMMA StepImplements ==
    ASSUME Inv, [Next]_vars
    PROVE  [Semaphore!Next]_(Semaphore!vars)
<1> USE DEF Semaphore!Next, Semaphore!vars
<1>1. CASE UNCHANGED vars
  BY <1>1 DEF vars, Holders
<1>2. ASSUME NEW c \in Calls, ThrowAborted(c) \/ RejectFull(c) \/ Start(c)
      PROVE  UNCHANGED Semaphore!vars
  BY <1>2 DEF Inv, TypeOK, Holders, ThrowAborted, RejectFull, Start
<1>3. ASSUME NEW c \in Calls, TakeSlot(c)
      PROVE  Semaphore!Enter(c)
  <2>1. queue = <<>>
    BY <1>3, ConstantsAssumption DEF Inv, TypeOK, NoIdleSlot, TakeSlot
  <2>2. Holders' = Holders \cup {c} /\ c \notin Holders
    BY <1>3 DEF Inv, TypeOK, Holders, TakeSlot
  <2>3. c \notin ToSet(queue)
    BY <2>1 DEF ToSet
  <2>4. Cardinality(Holders) < MaxConcurrent
    BY <1>3 DEF Inv, SlotsAccounted, TakeSlot
  <2> QED
    BY <1>3, <2>1, <2>2, <2>3, <2>4, SameOperators
       DEF Semaphore!Enter, Semaphore!Absent, TakeSlot
<1>4. ASSUME NEW c \in Calls, JoinQueue(c)
      PROVE  Semaphore!StandInLine(c)
  <2>1. Holders' = Holders /\ c \notin Holders
    BY <1>4 DEF Inv, TypeOK, Holders, JoinQueue
  <2>2. c \notin ToSet(queue)
    BY <1>4 DEF Inv, QueueHoldsTheWaiting, ToSet, JoinQueue
  <2>3. Cardinality(Holders) = MaxConcurrent
    BY <1>4, ConstantsAssumption DEF Inv, TypeOK, SlotsAccounted, JoinQueue
  <2> QED
    BY <1>4, <2>1, <2>2, <2>3, SameOperators
       DEF Semaphore!StandInLine, Semaphore!Absent, JoinQueue
<1>5. ASSUME NEW c \in Calls, pc[c] = "waiting", Leave(c), Holders' = Holders
      PROVE  Semaphore!GiveUp(c)
  <2>1. c \in ToSet(queue)
    BY <1>5 DEF Inv, QueueHoldsTheWaiting, ToSet
  <2> QED
    BY <1>5, <2>1, SameOperators DEF Semaphore!GiveUp, Leave
<1>6. ASSUME NEW c \in Calls, Abort(c)
      PROVE  Semaphore!GiveUp(c) \/ UNCHANGED Semaphore!vars
  <2>1. CASE c \in listening
    <3>1. pc[c] = "waiting" /\ Leave(c) /\ Holders' = Holders
      BY <1>6, <2>1 DEF Inv, TypeOK, QueueHoldsTheWaiting, Holders, Abort, SettleWait
    <3> QED
      BY <1>5, <3>1
  <2>2. CASE c \notin listening
    BY <1>6, <2>2 DEF Holders, Abort
  <2> QED
    BY <2>1, <2>2
<1>7. ASSUME NEW c \in Calls, QueueTimeout(c)
      PROVE  Semaphore!GiveUp(c)
  <2>1. pc[c] = "waiting" /\ Leave(c) /\ Holders' = Holders
    BY <1>7 DEF Inv, TypeOK, QueueHoldsTheWaiting, Holders, QueueTimeout, SettleWait
  <2> QED
    BY <1>5, <2>1
<1>8. ASSUME NEW c \in Calls, Release(c)
      PROVE  Semaphore!HandOver(c)
  <2>0. c \in Holders
    BY <1>8 DEF Release, Holders
  <2>1. CASE queue = <<>>
    <3>1. Holders' = Holders \ {c} /\ queue' = queue
      BY <1>8, <2>1 DEF Inv, TypeOK, Holders, Release
    <3> QED
      BY <2>0, <2>1, <3>1 DEF Semaphore!HandOver
  <2>2. CASE queue # <<>>
    <3>1. Holders' = (Holders \ {c}) \cup {Head(queue)} /\ Leave(Head(queue))
      BY <1>8, <2>2, Handover
    <3>2. queue' = Tail(queue)
      BY <2>2, <3>1, WithoutHead DEF Leave, Inv, TypeOK, QueueHoldsTheWaiting, Distinct
    <3> QED
      BY <2>0, <2>2, <3>1, <3>2 DEF Semaphore!HandOver
  <2> QED
    BY <2>1, <2>2
<1> QED
  BY <1>1, <1>2, <1>3, <1>4, <1>6, <1>7, <1>8 DEF Next

(* BulkheadPolicy does what a FIFO semaphore with a bounded line and       *)
(* direct handover does, and nothing else.  (That it also makes progress   *)
(* when FairSlots does is checked by TLC.)                                 *)
THEOREM BulkheadIsASemaphore ==
    Spec => Semaphore!Init /\ [][Semaphore!Next]_(Semaphore!vars)
<1>1. Init => Semaphore!Init
  BY DEF Init, Semaphore!Init, Holders
<1>2. Inv /\ [Next]_vars => [Semaphore!Next]_(Semaphore!vars)
  BY StepImplements
<1> QED
  BY <1>1, <1>2, InvHolds, PTL DEF Spec
=============================================================================
