---------------------------- MODULE ReplayWindow ----------------------------
(***************************************************************************)
(* What the replay guard promises the webhook receiver: an ID admitted     *)
(* less than GuardTTL ago is recognised, unless GuardSize IDs admitted     *)
(* after it are still being recognised.                                    *)
(***************************************************************************)
EXTENDS Integers, FiniteSets, Functions

CONSTANTS Ids, GuardSize, GuardTTL

VARIABLES
    ages,    \* function: recognised ID -> ticks since it was admitted
    answer   \* the last question and its answer: [id, seen]

Oldest(id) == id \in DOMAIN ages /\ \A other \in DOMAIN ages : ages[other] <= ages[id]

Init == ages = <<>> /\ answer = [id |-> CHOOSE id \in Ids : TRUE, seen |-> TRUE]

Recognise(id) ==
    /\ id \in DOMAIN ages
    /\ answer' = [id |-> id, seen |-> TRUE]
    /\ UNCHANGED ages

\* Room is made, when there is none, at the expense of an oldest ID.
Admit(id) ==
    /\ id \notin DOMAIN ages
    /\ answer' = [id |-> id, seen |-> FALSE]
    /\ \E kept \in SUBSET DOMAIN ages :
         /\ IF Cardinality(DOMAIN ages) < GuardSize
            THEN kept = DOMAIN ages
            ELSE \E old \in DOMAIN ages : Oldest(old) /\ kept = DOMAIN ages \ {old}
         /\ ages' = [i \in kept \cup {id} |-> IF i = id THEN 0 ELSE ages[i]]

Tick ==
    /\ ages' = [i \in {j \in DOMAIN ages : ages[j] < GuardTTL} |-> ages[i] + 1]
    /\ UNCHANGED answer

\* The process restarts.
Forget == ages' = <<>> /\ UNCHANGED answer

Next == Tick \/ Forget \/ \E id \in Ids : Recognise(id) \/ Admit(id)

Spec == Init /\ [][Next]_<<ages, answer>>
=============================================================================
