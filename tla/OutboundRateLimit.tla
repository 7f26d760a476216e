------------------------- MODULE OutboundRateLimit --------------------------
(***************************************************************************)
(* OutboundRateLimitPolicy (lib/policies/outbound-rate-limit.policy.ts): a *)
(* token bucket that concurrent calls reserve tokens from, in advance when *)
(* it is empty, and give them back to when they abort before their time.   *)
(*                                                                         *)
(* Tokens are counted in fractions of 1/Interval, so that refilling adds   *)
(* Limit of them per tick and the arithmetic is exact: the code's floating *)
(* point agrees with it up to rounding.                                    *)
(*                                                                         *)
(* What runs between two awaits is one action.  The sleep of acquire() is  *)
(* a promise: whoever wakes it or aborts it only settles it, and acquire() *)
(* goes on in a later microtask, with anything in between.                 *)
(*                                                                         *)
(* A definition marked DEVIATION is not the code: it is a plausible bug,   *)
(* put in place of the definition after it to see which property notices.  *)
(***************************************************************************)
EXTENDS Integers, Sequences, SequencesExt, FiniteSets

CONSTANTS Calls,       \* the executions that reach this limiter
          Limit,       \* options.limit
          Interval,    \* options.interval, in ticks
          MaxWait,     \* options.maxWait, in ticks
          MaxLate,     \* how late a timer may fire, in ticks: the bound on lateness
          MaxTime      \* bound on the clock

(* What the constructor accepts: countOption from 1, a duration above 0.   *)
ASSUME ConstantsAssumption ==
    /\ IsFiniteSet(Calls)
    /\ Limit \in Nat \ {0}
    /\ Interval \in Nat \ {0}
    /\ MaxWait \in Nat
    /\ MaxLate \in Nat
    /\ MaxTime \in Nat

VARIABLES tokens,      \* this.tokens * Interval
          refilledAt,  \* this.refilledAt
          now,         \* Date.now()
          pc,          \* where each call is in `run`
          due,         \* from when on a call with a token may go
          went,        \* when acquire() let a served call go (history)
          aborted,     \* the calls whose signal has aborted
          line,        \* the sleeping calls in order of arrival (history)
          spilt        \* what the cap on refilling discarded (history)

vars == <<tokens, refilledAt, now, pc, due, went, aborted, line, spilt>>

(* new: run() not called.  sleeping: reserved, timer armed.  refunding:    *)
(* the sleep was rejected, its catch block has not run.  served: acquire   *)
(* is over and run() calls `next` in the following microtask, whatever the *)
(* signal says by then.  rejected: OutboundRateLimitError.  gone: the      *)
(* abort reason was thrown on.                                             *)
Places == {"new", "sleeping", "refunding", "served", "rejected", "gone"}

At(place) == {c \in Calls : pc[c] = place}

Init ==
    /\ tokens = Limit * Interval
    /\ refilledAt = 0
    /\ now = 0
    /\ pc = [c \in Calls |-> "new"]
    /\ due = [c \in Calls |-> 0]
    /\ went = [c \in Calls |-> 0]
    /\ aborted = {}
    /\ line = <<>>
    /\ spilt = 0

-----------------------------------------------------------------------------
(* refill() and what acquire() computes, as functions of the fields.       *)

Full == Limit * Interval

Uncapped == tokens + (now - refilledAt) * Limit

(* DEVIATION of Refilled: no cap.                                          *)
RefilledWithoutCap == Uncapped

Refilled == IF Uncapped > Full THEN Full ELSE Uncapped

(* refill(); sets all but `tokens`.                                        *)
Refill ==
    /\ refilledAt' = now
    /\ spilt' = spilt + (Uncapped - Refilled)

(* DEVIATION of WaitFor: rounded down.                                     *)
WaitForTooShort(t) == (Interval - t) \div Limit

(* Math.ceil(((1 - tokens) * interval) / limit)                            *)
WaitFor(t) == (Interval - t + Limit - 1) \div Limit

-----------------------------------------------------------------------------
(* acquire(), in the order of its conditions.                              *)

(* A token is there.  The signal is not looked at.                         *)
TakeToken(c) ==
    /\ pc[c] = "new"
    /\ Refilled >= Interval
    /\ Refill
    /\ tokens' = Refilled - Interval
    /\ pc' = [pc EXCEPT ![c] = "served"]
    /\ due' = [due EXCEPT ![c] = now]
    /\ went' = [went EXCEPT ![c] = now]
    /\ UNCHANGED <<now, aborted, line>>

(* The next token comes too late.                                          *)
RejectWait(c) ==
    /\ pc[c] = "new"
    /\ Refilled < Interval
    /\ WaitFor(Refilled) > MaxWait
    /\ Refill
    /\ tokens' = Refilled
    /\ pc' = [pc EXCEPT ![c] = "rejected"]
    /\ UNCHANGED <<now, due, went, aborted, line>>

(* DEVIATION of Reserve: the token is taken when the sleep is over.        *)
ReserveNothing(c) ==
    /\ pc[c] = "new"
    /\ Refilled < Interval
    /\ WaitFor(Refilled) <= MaxWait
    /\ Refill
    /\ tokens' = Refilled
    /\ IF c \in aborted
         THEN pc' = [pc EXCEPT ![c] = "refunding"] /\ UNCHANGED <<due, line>>
         ELSE /\ pc' = [pc EXCEPT ![c] = "sleeping"]
              /\ due' = [due EXCEPT ![c] = now + WaitFor(Refilled)]
              /\ line' = Append(line, c)
    /\ UNCHANGED <<now, went, aborted>>

(* Reserve a token and sleep; sleep() rejects at once on an aborted signal. *)
Reserve(c) ==
    /\ pc[c] = "new"
    /\ Refilled < Interval
    /\ WaitFor(Refilled) <= MaxWait
    /\ Refill
    /\ tokens' = Refilled - Interval
    /\ IF c \in aborted
         THEN pc' = [pc EXCEPT ![c] = "refunding"] /\ UNCHANGED <<due, line>>
         ELSE /\ pc' = [pc EXCEPT ![c] = "sleeping"]
              /\ due' = [due EXCEPT ![c] = now + WaitFor(Refilled)]
              /\ line' = Append(line, c)
    /\ UNCHANGED <<now, went, aborted>>

-----------------------------------------------------------------------------
(* What happens to a call after that.                                      *)

(* The sleep's timer fires: listener removed, promise resolved.            *)
WakeUp(c) ==
    /\ pc[c] = "sleeping"
    /\ now >= due[c]
    /\ pc' = [pc EXCEPT ![c] = "served"]
    /\ went' = [went EXCEPT ![c] = now]
    /\ line' = RemoveFirst(line, c)
    /\ UNCHANGED <<tokens, refilledAt, now, due, aborted, spilt>>

(* The signal aborts before the call arrives.                              *)
AbortEarly(c) ==
    /\ pc[c] = "new"
    /\ c \notin aborted
    /\ aborted' = aborted \cup {c}
    /\ UNCHANGED <<tokens, refilledAt, now, pc, due, went, line, spilt>>

(* The signal aborts during the sleep: timer cleared, promise rejected.    *)
AbortSleep(c) ==
    /\ pc[c] = "sleeping"
    /\ aborted' = aborted \cup {c}
    /\ pc' = [pc EXCEPT ![c] = "refunding"]
    /\ due' = [due EXCEPT ![c] = 0]
    /\ line' = RemoveFirst(line, c)
    /\ UNCHANGED <<tokens, refilledAt, now, went, spilt>>

(* DEVIATION of Refund: the reservation is not given back.                 *)
RefundNothing(c) ==
    /\ pc[c] = "refunding"
    /\ pc' = [pc EXCEPT ![c] = "gone"]
    /\ UNCHANGED <<tokens, refilledAt, now, due, went, aborted, line, spilt>>

(* The catch block around the sleep.                                       *)
Refund(c) ==
    /\ pc[c] = "refunding"
    /\ tokens' = tokens + Interval
    /\ pc' = [pc EXCEPT ![c] = "gone"]
    /\ UNCHANGED <<refilledAt, now, due, went, aborted, line, spilt>>

(* The `available` getter.                                                 *)
ReadAvailable ==
    /\ Refill
    /\ tokens' = Refilled
    /\ UNCHANGED <<now, pc, due, went, aborted, line>>

(* Time passes, but not beyond the latest that a sleeper's timer fires.    *)
Tick ==
    /\ now < MaxTime
    /\ \A c \in At("sleeping") : now < due[c] + MaxLate
    /\ now' = now + 1
    /\ UNCHANGED <<tokens, refilledAt, pc, due, went, aborted, line, spilt>>

Next ==
    \/ \E c \in Calls :
          \/ TakeToken(c) \/ RejectWait(c) \/ Reserve(c)
          \/ WakeUp(c) \/ AbortEarly(c) \/ AbortSleep(c) \/ Refund(c)
    \/ ReadAvailable
    \/ Tick

Spec == Init /\ [][Next]_vars

-----------------------------------------------------------------------------
(* Properties.                                                             *)

(* Every variable has its type (no run checks it, proofs rest on it).      *)
TypeOK ==
    /\ tokens \in Int
    /\ refilledAt \in 0 .. now
    /\ now \in Nat
    /\ pc \in [Calls -> Places]
    /\ due \in [Calls -> Nat]
    /\ went \in [Calls -> Nat]
    /\ aborted \in SUBSET Calls
    /\ line \in Seq(Calls)
    /\ spilt \in Nat

(* Every token there ever was is in the bucket, with a call, or discarded  *)
(* by the cap: reserving, waking, aborting and refunding in any order      *)
(* neither make nor lose one.                                              *)
TokensConserved ==
    tokens + Interval * Cardinality(At("served") \cup At("sleeping") \cup At("refunding")) + spilt
        = Full + Limit * refilledAt

(* The calls that hold a token and may go at some time of a period.        *)
DueWithin(from, to) ==
    {c \in At("served") \cup At("sleeping") : due[c] \in from .. to}

(* The quota: up to any moment, past or yet to come, the calls served and  *)
(* the sleepers due by then are at most the initial tokens and those       *)
(* refilled by then, although aborts free reservations out of order and    *)
(* timers are late.                                                        *)
QuotaKept ==
    \A t \in now .. now + MaxWait :
        Interval * Cardinality(DueWithin(0, t)) <= Limit * (Interval + t)

(* The calls that did go in a period.                                      *)
WentWithin(from, to) == {c \in At("served") : went[c] \in from .. to}

(* Until somebody aborts, the calls that really go in a period, whichever, *)
(* are at most `limit` (the largest burst) and what is refilled meanwhile, *)
(* in that period or as much before it as timers are late: sleepers whose  *)
(* timers all fire late may go at once, and with newcomers beside them.    *)
(* And sleepers are due in their order of arrival, a token's time (rounded *)
(* down) apart.                                                            *)
NobodyAborted == At("refunding") \cup At("gone") = {}
SmoothUnlessAborted ==
    NobodyAborted =>
        /\ \A from \in 0 .. now : \A to \in from .. now :
               Interval * Cardinality(WentWithin(from, to))
                   <= Limit * (Interval + (to - from) + MaxLate)
        /\ \A i, j \in DOMAIN line :
               i < j => due[line[j]] - due[line[i]] >= ((j - i) * Interval) \div Limit

(* "Callers that wait for a token are served in arrival order."  They are  *)
(* not once two of them abort: their tokens come back to the bucket, and   *)
(* the next caller, who reserves anew, can be due before a waiting one.    *)
ServedInOrder ==
    \A i, j \in DOMAIN line : i < j => due[line[i]] <= due[line[j]]
=============================================================================
