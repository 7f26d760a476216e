------------------------------ MODULE Bulkhead ------------------------------
(***************************************************************************)
(* BulkheadPolicy (lib/policies/bulkhead.policy.ts): at most MaxConcurrent *)
(* calls run, at most MaxQueue wait in arrival order, the rest are         *)
(* rejected; a waiter leaves the queue when it is granted a slot, when its *)
(* signal aborts, or when its queue timer fires.                           *)
(*                                                                         *)
(* JavaScript runs one piece of code at a time, so an action is what runs  *)
(* between two turns of the event loop: the part of `run` up to an await,  *)
(* the rest of it after one, an abort listener, a timer callback.  A grant *)
(* only resolves a promise: the granted call goes on in a later microtask, *)
(* so "granted" is a state of its own and anything may happen in it.       *)
(*                                                                         *)
(* The bulkhead emits its event when no field is half-updated, so whatever *)
(* a listener does is a step of its own.                                   *)
(*                                                                         *)
(* A definition marked DEVIATION is not the code: it is a plausible bug,   *)
(* put in place of the definition after it to see which property notices.  *)
(***************************************************************************)
EXTENDS Integers, Sequences, SequencesExt, FiniteSets

CONSTANTS Calls,          \* the executions that reach this bulkhead
          MaxConcurrent,  \* options.maxConcurrent (Infinity: any number above the calls)
          MaxQueue,       \* options.maxQueue
          HasQueueTimeout \* whether options.queueTimeout is set

(* countOption accepts maxConcurrent from 1 up and maxQueue from 0 up.     *)
ASSUME ConstantsAssumption ==
    /\ IsFiniteSet(Calls)
    /\ MaxConcurrent \in Nat \ {0}
    /\ MaxQueue \in Nat
    /\ HasQueueTimeout \in BOOLEAN

VARIABLES running,   \* this.running, the counter `active` reads
          queue,     \* this.queue, the waiters in arrival order
          pc,        \* where each call is in `run`
          aborted,   \* the calls whose signal has aborted
          timers,    \* the waiters whose queue timer is armed
          listening, \* the waiters whose abort listener is registered
          reported   \* the calls a bulkhead-rejected event was emitted for

vars == <<running, queue, pc, aborted, timers, listening, reported>>

(* new: run() not called.  waiting: its promise is in the queue.  granted: *)
(* it owns a slot, `next` not called yet.  running: `next` is in progress. *)
(* settled, rejected, gone: `next` settled; BulkheadFullError; the abort   *)
(* reason was thrown instead of waiting (on).                              *)
Places == {"new", "waiting", "granted", "running", "settled", "rejected", "gone"}

(* The calls that own a slot, which the counter is meant to count.         *)
Holders == {c \in Calls : pc[c] \in {"granted", "running"}}

Init ==
    /\ running = 0
    /\ queue = <<>>
    /\ pc = [c \in Calls |-> "new"]
    /\ aborted = {} /\ timers = {} /\ listening = {} /\ reported = {}

-----------------------------------------------------------------------------
(* The closures of acquire().                                              *)

(* DEVIATION of Leave: the waiter stays in the queue.                      *)
LeaveInQueue(c) ==
    /\ queue' = queue
    /\ timers' = timers \ {c}
    /\ listening' = listening \ {c}

(* DEVIATION of Leave: the timer is not cleared.                           *)
LeaveTimer(c) ==
    /\ queue' = RemoveFirst(queue, c)
    /\ timers' = timers
    /\ listening' = listening \ {c}

(* leave(): out of the queue, timer cleared, listener removed.             *)
Leave(c) ==
    /\ queue' = RemoveFirst(queue, c)
    /\ timers' = timers \ {c}
    /\ listening' = listening \ {c}

(* A promise settles once: later resolve and reject calls do nothing.      *)
SettleWait(c, place) ==
    IF pc[c] = "waiting" THEN [pc EXCEPT ![c] = place] ELSE pc

-----------------------------------------------------------------------------
(* acquire(), in the order of its conditions.                              *)

(* The signal aborted before the call arrived.                             *)
ThrowAborted(c) ==
    /\ pc[c] = "new"
    /\ c \in aborted
    /\ pc' = [pc EXCEPT ![c] = "gone"]
    /\ UNCHANGED <<running, queue, aborted, timers, listening, reported>>

(* A slot is free.                                                         *)
TakeSlot(c) ==
    /\ pc[c] = "new"
    /\ c \notin aborted
    /\ running < MaxConcurrent
    /\ running' = running + 1
    /\ pc' = [pc EXCEPT ![c] = "granted"]
    /\ UNCHANGED <<queue, aborted, timers, listening, reported>>

(* No slot and no place in the queue.                                      *)
RejectFull(c) ==
    /\ pc[c] = "new"
    /\ c \notin aborted
    /\ running >= MaxConcurrent
    /\ Len(queue) >= MaxQueue
    /\ pc' = [pc EXCEPT ![c] = "rejected"]
    /\ reported' = reported \cup {c}
    /\ UNCHANGED <<running, queue, aborted, timers, listening>>

(* Wait: push the waiter, listen to the signal, arm the timer.             *)
JoinQueue(c) ==
    /\ pc[c] = "new"
    /\ c \notin aborted
    /\ running >= MaxConcurrent
    /\ Len(queue) < MaxQueue
    /\ queue' = Append(queue, c)
    /\ listening' = listening \cup {c}
    /\ timers' = IF HasQueueTimeout THEN timers \cup {c} ELSE timers
    /\ pc' = [pc EXCEPT ![c] = "waiting"]
    /\ UNCHANGED <<running, aborted, reported>>

-----------------------------------------------------------------------------
(* What happens to a call after that.                                      *)

(* The caller aborts, at any time; onAbort runs while it is registered.    *)
Abort(c) ==
    /\ c \notin aborted
    /\ pc[c] \in {"new", "waiting", "granted", "running"}
    /\ aborted' = aborted \cup {c}
    /\ IF c \in listening
         THEN Leave(c) /\ pc' = SettleWait(c, "gone")
         ELSE UNCHANGED <<queue, timers, listening, pc>>
    /\ UNCHANGED <<running, reported>>

(* The queue timer's callback: leave, report, reject.                      *)
QueueTimeout(c) ==
    /\ c \in timers
    /\ Leave(c)
    /\ reported' = reported \cup {c}
    /\ pc' = SettleWait(c, "rejected")
    /\ UNCHANGED <<running, aborted>>

(* The microtask after the await of acquire(): `next` is called, even if   *)
(* the signal aborted since the grant.                                     *)
Start(c) ==
    /\ pc[c] = "granted"
    /\ pc' = [pc EXCEPT ![c] = "running"]
    /\ UNCHANGED <<running, queue, aborted, timers, listening, reported>>

(* DEVIATION of Release: the slot is not handed to the queue.              *)
ReleaseNoHandover(c) ==
    /\ pc[c] = "running"
    /\ running' = running - 1
    /\ pc' = [pc EXCEPT ![c] = "settled"]
    /\ UNCHANGED <<queue, timers, listening, aborted, reported>>

(* DEVIATION of Release: the newest waiter is granted, not the oldest.     *)
ReleaseToNewest(c) ==
    /\ pc[c] = "running"
    /\ IF queue = <<>>
         THEN /\ running' = running - 1
              /\ pc' = [pc EXCEPT ![c] = "settled"]
              /\ UNCHANGED <<queue, timers, listening>>
         ELSE LET newest == Last(queue) IN
              /\ Leave(newest)
              /\ running' = (running - 1) + 1
              /\ pc' = [SettleWait(newest, "granted") EXCEPT ![c] = "settled"]
    /\ UNCHANGED <<aborted, reported>>

(* `next` settles, either way; finally releaseSlot(): the counter goes     *)
(* down and the head of the queue is granted, which counts it up again.    *)
Release(c) ==
    /\ pc[c] = "running"
    /\ IF queue = <<>>
         THEN /\ running' = running - 1
              /\ pc' = [pc EXCEPT ![c] = "settled"]
              /\ UNCHANGED <<queue, timers, listening>>
         ELSE LET head == Head(queue) IN
              /\ Leave(head)
              /\ running' = (running - 1) + 1
              /\ pc' = [SettleWait(head, "granted") EXCEPT ![c] = "settled"]
    /\ UNCHANGED <<aborted, reported>>

Next == \E c \in Calls :
    \/ ThrowAborted(c) \/ TakeSlot(c) \/ RejectFull(c) \/ JoinQueue(c)
    \/ Abort(c) \/ QueueTimeout(c) \/ Start(c) \/ Release(c)

(* Microtasks run, and the operation behind the bulkhead settles at some   *)
(* time.  Nothing makes a caller abort, and no fairness is asked of the    *)
(* queue timer: a waiter must get out of the queue without it.             *)
Fairness == \A c \in Calls : WF_vars(Start(c)) /\ WF_vars(Release(c))

Spec == Init /\ [][Next]_vars /\ Fairness

-----------------------------------------------------------------------------
(* Properties.                                                             *)

(* Every variable has its type.                                            *)
TypeOK ==
    /\ running \in Nat
    /\ queue \in Seq(Calls)
    /\ pc \in [Calls -> Places]
    /\ aborted \in SUBSET Calls /\ timers \in SUBSET Calls
    /\ listening \in SUBSET Calls /\ reported \in SUBSET Calls

(* The counter counts exactly the calls that own a slot and never exceeds  *)
(* maxConcurrent, whichever of release, abort and timer came first: no     *)
(* slot leaks with a waiter that left, none is given twice.                *)
SlotsAccounted ==
    /\ running = Cardinality(Holders)
    /\ running <= MaxConcurrent

(* Nobody waits while a slot is free, so a call that finds a free slot     *)
(* (TakeSlot) never overtakes the queue.                                   *)
NoIdleSlot == queue # <<>> => running = MaxConcurrent

(* The queue holds each waiting call once and nothing else, within its     *)
(* bound, and only waiting calls have a timer or an abort listener left:   *)
(* nothing can touch a call whose wait is over.                            *)
QueueHoldsTheWaiting ==
    /\ \A i, j \in DOMAIN queue : queue[i] = queue[j] => i = j
    /\ \A c \in Calls : pc[c] = "waiting" <=> \E i \in DOMAIN queue : queue[i] = c
    /\ \A c \in Calls : c \in listening <=> pc[c] = "waiting"
    /\ \A c \in timers : pc[c] = "waiting"
    /\ Len(queue) <= MaxQueue

(* A call is reported as rejected if and only if it is rejected: a grant   *)
(* and a queue timeout never both happen to one call.                      *)
ReportedIffRejected == \A c \in Calls : c \in reported <=> pc[c] = "rejected"

(* The bulkhead is a FIFO semaphore with a bounded line and handover.      *)
Semaphore == INSTANCE FairSlots WITH
    Slots <- MaxConcurrent, Places <- MaxQueue,
    holders <- Holders, line <- queue
ImplementsFairSlots == Semaphore!Spec

(* Every waiter leaves the queue, even without a queue timeout, because    *)
(* slots pass down the queue.                                              *)
NoStarvation == \A c \in Calls : pc[c] = "waiting" ~> pc[c] # "waiting"
=============================================================================
