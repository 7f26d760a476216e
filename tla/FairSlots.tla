----------------------------- MODULE FairSlots -----------------------------
(***************************************************************************)
(* What a bulkhead promises: a fixed number of slots, a line of bounded    *)
(* length in front of them, slots handed to the head of the line the       *)
(* moment they come free, and nobody overtaking the line.  It knows nothing *)
(* of counters, promises, timers or abort signals; Bulkhead implements it. *)
(***************************************************************************)
EXTENDS Integers, Sequences, SequencesExt, FiniteSets

CONSTANTS Calls,    \* whoever may want a slot
          Slots,    \* how many may hold one at the same time
          Places    \* how many may stand in line

VARIABLES holders,  \* the calls holding a slot
          line      \* the calls waiting for one, first come first

vars == <<holders, line>>

Init == holders = {} /\ line = <<>>

Absent(c) == c \notin holders /\ c \notin ToSet(line)

(* A free slot is taken only by a call that overtakes nobody.              *)
Enter(c) ==
    /\ Absent(c)
    /\ Cardinality(holders) < Slots
    /\ line = <<>>
    /\ holders' = holders \cup {c}
    /\ UNCHANGED line

(* Standing in line is only for when every slot is held.                   *)
StandInLine(c) ==
    /\ Absent(c)
    /\ Cardinality(holders) = Slots
    /\ Len(line) < Places
    /\ line' = Append(line, c)
    /\ UNCHANGED holders

(* A call in line loses patience, or its caller goes away.                 *)
GiveUp(c) ==
    /\ c \in ToSet(line)
    /\ line' = RemoveFirst(line, c)
    /\ UNCHANGED holders

(* A slot comes free and passes to the head of the line in the same step.  *)
HandOver(c) ==
    /\ c \in holders
    /\ IF line = <<>>
         THEN holders' = holders \ {c} /\ UNCHANGED line
         ELSE /\ holders' = (holders \ {c}) \cup {Head(line)}
              /\ line' = Tail(line)

Next == \E c \in Calls : Enter(c) \/ StandInLine(c) \/ GiveUp(c) \/ HandOver(c)

(* Every holder is done at some time.                                      *)
Fairness == \A c \in Calls : WF_vars(HandOver(c))

Spec == Init /\ [][Next]_vars /\ Fairness
=============================================================================
