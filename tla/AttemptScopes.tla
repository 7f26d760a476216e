--------------------------- MODULE AttemptScopes ----------------------------
(***************************************************************************)
(* lib/context/attempt-scope.context.ts: the scope of an attempt, which    *)
(* AsyncLocalStorage hands to everything that is started in it, for good.  *)
(* Code therefore goes on running in the context of a scope that ended: a  *)
(* function that ignores its timeout, a pooled connection, a timer.        *)
(*                                                                         *)
(* Scopes are numbered as they open; 0 stands for no scope, in particular  *)
(* for the store of code outside of all.  A scope that was opened at all   *)
(* may still have code running in its context: every action may come from  *)
(* any of these contexts, at any time.  That also covers a function that   *)
(* returns without a promise, whose scope settles before others run: the   *)
(* states it leads to are those of a promise that settles at once.         *)
(*                                                                         *)
(* A definition marked DEVIATION is not the code: it is a plausible bug,   *)
(* put in place of the definition after it to see which property notices.  *)
(***************************************************************************)
EXTENDS Integers, Sequences, FiniteSets, FiniteSetsExt

CONSTANTS Signals,   \* abort signals: of callers, of executions, of timeouts
          MaxScopes  \* bound on the scopes opened

ASSUME ConstantsAssumption == MaxScopes \in Nat

VARIABLES scopes,    \* the StoredScopes, in the order in which they opened
          listening, \* the scopes whose abort listener is registered
          aborted    \* the signals that have aborted

vars == <<scopes, listening, aborted>>

(* A StoredScope, with the kind of opening (endsWhenSettled: "attempt") and *)
(* two facts for the properties: the store it was opened from, and which   *)
(* scopes had ended by then.                                               *)
Opened == 1 .. Len(scopes)
Contexts == 0 .. Len(scopes)
Ended == {s \in Opened : scopes[s].ended}
Attempts == {s \in Opened : scopes[s].kind = "attempt"}

Init ==
    /\ scopes = <<>>
    /\ listening = {}
    /\ aborted = {}

(* currentScope(): from the store up the parents to one that hasn't ended. *)
CurrentScope(store) ==
    LET walk[s \in Contexts] ==
            IF s \in Ended THEN walk[scopes[s].parent] ELSE s
    IN  walk[store]

(* DEVIATION of ParentOf: an attempt needs no parent either.               *)
NoParent(store) == 0

(* DEVIATION of ParentOf: the raw store.                                   *)
RawParent(store) == store

(* `parent` of an attempt that opens in the context of `store`.            *)
ParentOf(store) == CurrentScope(store)

Scope(kind, store, parent, signal, ended) ==
    [kind |-> kind, parent |-> parent, signal |-> signal, ended |-> ended,
     store |-> store, past |-> Ended]

(* ResilienceContext.run(): runInAttempt() without endsWhenSettled.        *)
Run(store, signal) ==
    /\ Len(scopes) < MaxScopes
    /\ scopes' = Append(scopes, Scope("run", store, 0, signal, FALSE))
    /\ UNCHANGED <<listening, aborted>>

(* DEVIATION of Attempt: the signal is not looked at before listening.     *)
AttemptUnchecked(store, signal) ==
    /\ Len(scopes) < MaxScopes
    /\ scopes' = Append(scopes, Scope("attempt", store, ParentOf(store), signal, FALSE))
    /\ listening' = listening \cup {Len(scopes) + 1}
    /\ UNCHANGED aborted

(* runInAttempt() of an attempt.  Its signal may have aborted: a retry     *)
(* without a timeout goes on from its backoff without looking.             *)
Attempt(store, signal) ==
    /\ Len(scopes) < MaxScopes
    /\ scopes' = Append(scopes, Scope("attempt", store, ParentOf(store), signal,
                                      signal \in aborted))
    /\ listening' = IF signal \in aborted THEN listening ELSE listening \cup {Len(scopes) + 1}
    /\ UNCHANGED aborted

(* end() of each of S; once more does no harm.                             *)
EndAll(S) ==
    /\ scopes' = [s \in Opened |-> IF s \in S THEN [scopes[s] EXCEPT !.ended = TRUE]
                                              ELSE scopes[s]]
    /\ listening' = listening \ S

(* The scope of run() does not end.                                        *)
EndsWhenSettled == Attempts

(* What `fn` returned settles, or `fn` threw or returned no promise; it    *)
(* makes no difference that the signal may have ended the scope before.    *)
Settle(s) ==
    /\ s \in EndsWhenSettled
    /\ EndAll({s})
    /\ UNCHANGED aborted

(* A signal aborts: its listeners run before abort() returns.  (Other      *)
(* listeners of the signal are left out: these come first, for they are    *)
(* added before the attempt's function is called.)                         *)
Abort(signal) ==
    /\ signal \notin aborted
    /\ aborted' = aborted \cup {signal}
    /\ EndAll({s \in listening : scopes[s].signal = signal})

Next ==
    \/ \E store \in Contexts, signal \in Signals : Run(store, signal) \/ Attempt(store, signal)
    \/ \E s \in Opened : Settle(s)
    \/ \E signal \in Signals : Abort(signal)

Spec == Init /\ [][Next]_vars

-----------------------------------------------------------------------------
(* Properties.                                                             *)

(* Every variable has its type; parents and stores are older scopes, and   *)
(* the scope of run() never ends (no run checks it, proofs rest on it).    *)
TypeOK ==
    /\ scopes \in Seq([kind : {"run", "attempt"}, parent : Nat, store : Nat,
                       signal : Signals, ended : BOOLEAN, past : SUBSET Nat])
    /\ \A s \in Opened :
           /\ scopes[s].parent < s /\ scopes[s].store < s
           /\ scopes[s].past \subseteq 1 .. s - 1
           /\ scopes[s].kind = "run" => ~scopes[s].ended /\ scopes[s].parent = 0
    /\ listening \subseteq Opened
    /\ aborted \subseteq Signals

(* The scopes around code with this store, however deep.                   *)
Around(store) ==
    LET up[s \in Contexts] == IF s = 0 THEN {} ELSE {s} \cup up[scopes[s].store]
    IN  up[store]

(* "Ending is final, so that is what the raw store would lead to anyway":  *)
(* although an attempt remembers only the scope that was current when it   *)
(* opened, code in any context finds the innermost scope around it that    *)
(* hasn't ended, in whatever order these end later.                        *)
CurrentIsInnermost ==
    \A store \in Contexts :
        CurrentScope(store) = Max({0} \cup (Around(store) \ Ended))

(* No code finds itself in an attempt whose signal has aborted, so what it *)
(* executes from then on does not inherit "that request's signal, aborted  *)
(* long ago"; only the signal of run() can be seen aborted.                *)
NoAbortedAttempt ==
    \A store \in Contexts :
        CurrentScope(store) \in Attempts => scopes[CurrentScope(store)].signal \notin aborted

(* What has ended is let go: an attempt has a listener on its signal, which *)
(* may live for the process, just as long as it hasn't ended, and no scope *)
(* holds one that had ended when it opened: a chain of attempts, each      *)
(* started from the context of the last after its end, keeps none alive.   *)
EndedAreLetGo ==
    /\ listening = Attempts \ Ended
    /\ \A s \in Opened : scopes[s].parent \notin scopes[s].past
=============================================================================
