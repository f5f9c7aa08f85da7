----------------------------- MODULE DecisionLog -----------------------------
(***************************************************************************)
(* What the keyed store promises its callers, with no files and no         *)
(* processes: a sequence of decisions that only grows, except that a       *)
(* restart may drop decisions nobody was told about, and in which no       *)
(* command is decided twice within DedupeHorizon decisions.                *)
(***************************************************************************)
EXTENDS Integers, Sequences

CONSTANT DedupeHorizon

VARIABLES decisions,      \* the decisions, in order: records with a field id
          confirmed       \* the decisions callers were told of

vars == <<decisions, confirmed>>

Init == decisions = <<>> /\ confirmed = {}

Retained == {decisions[i].id : i \in {j \in DOMAIN decisions : j > Len(decisions) - DedupeHorizon}}

\* One decision of a command that is not retained is added.
Decide ==
    /\ Len(decisions') = Len(decisions) + 1
    /\ SubSeq(decisions', 1, Len(decisions)) = decisions
    /\ decisions'[Len(decisions) + 1].id \notin Retained
    /\ UNCHANGED confirmed

\* Callers are told of decisions that were made, and are never told otherwise later.
Confirm ==
    /\ confirmed \subseteq confirmed'
    /\ \A d \in confirmed' \ confirmed : \E i \in DOMAIN decisions : decisions[i] = d
    /\ UNCHANGED decisions

\* Only an unconfirmed suffix can be forgotten.
Forget(n) ==
    /\ \A d \in confirmed : \E i \in 1..n : decisions[i] = d
    /\ decisions' = SubSeq(decisions, 1, n) /\ UNCHANGED confirmed

Next ==
    \/ Decide \/ Confirm
    \/ \E n \in 0..Len(decisions) : Forget(n)

Spec == Init /\ [][Next]_vars
=============================================================================
