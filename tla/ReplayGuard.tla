---------------------------- MODULE ReplayGuard ----------------------------
(***************************************************************************)
(* ReplayGuard (internal/webhook/replay.go): a list of delivery IDs, the   *)
(* newest in front, bounded by size; entries older than the TTL are not    *)
(* removed but overlooked.  Its mutex makes Seen one atomic step.          *)
(***************************************************************************)
EXTENDS Integers, Sequences

CONSTANTS
    Ids,        \* the delivery IDs that occur
    GuardSize,  \* the list's capacity (10,000 in cmd/main.go)
    GuardTTL,   \* ticks an ID is remembered for (24 hours in cmd/main.go)
    AgeCap      \* ages are not told apart from here on

ASSUME GuardAssumption ==
    /\ Ids # {}
    /\ GuardSize \in Nat \ {0} /\ GuardTTL \in Nat /\ AgeCap \in Nat /\ GuardTTL < AgeCap

VARIABLES
    guard,      \* sequence of [key, age]
    answer      \* the last question and its answer: [id, seen]

guardVars == <<guard, answer>>

GuardInit ==
    /\ guard = <<>>
    /\ answer = [id |-> CHOOSE id \in Ids : TRUE, seen |-> TRUE]

Fresh(entry) == entry.age <= GuardTTL

\* container/list's Remove: the list without its entry at i.
Remove(list, i) == [j \in 1..(Len(list) - 1) |-> list[IF j < i THEN j ELSE j + 1]]

\* The list without the ID's entry, if it has one.
Without(id) ==
    IF \E i \in DOMAIN guard : guard[i].key = id
    THEN Remove(guard, CHOOSE i \in DOMAIN guard : guard[i].key = id)
    ELSE guard

\* Mutant: an expired entry still answers.
SeenForever(id) ==
    IF \E i \in DOMAIN guard : guard[i].key = id
    THEN /\ answer' = [id |-> id, seen |-> TRUE]
         /\ UNCHANGED guard
    ELSE /\ answer' = [id |-> id, seen |-> FALSE]
         /\ guard' = <<[key |-> id, age |-> 0]>> \o
                       (IF Len(guard) >= GuardSize THEN Remove(guard, Len(guard)) ELSE guard)

\* Mutant: nothing makes room at capacity.
SeenUnbounded(id) ==
    IF \E i \in DOMAIN guard : guard[i].key = id /\ Fresh(guard[i])
    THEN answer' = [id |-> id, seen |-> TRUE] /\ UNCHANGED guard
    ELSE /\ answer' = [id |-> id, seen |-> FALSE]
         /\ guard' = <<[key |-> id, age |-> 0]>> \o Without(id)

\* A live entry answers; else a stale one is dropped, the back makes room at
\* capacity, and the ID goes in front.
Seen(id) ==
    IF \E i \in DOMAIN guard : guard[i].key = id /\ Fresh(guard[i])
    THEN /\ answer' = [id |-> id, seen |-> TRUE]
         /\ UNCHANGED guard
    ELSE LET others == Without(id)
         IN  /\ answer' = [id |-> id, seen |-> FALSE]
             /\ guard' = <<[key |-> id, age |-> 0]>> \o
                           (IF Len(others) >= GuardSize THEN Remove(others, Len(others)) ELSE others)

Older(age) == IF age < AgeCap THEN age + 1 ELSE age

GuardTick ==
    /\ guard' = [i \in DOMAIN guard |-> [guard[i] EXCEPT !.age = Older(@)]]
    /\ UNCHANGED answer

\* A restart: the list lives in memory only.
GuardRestart == guard' = <<>> /\ UNCHANGED answer

-----------------------------------------------------------------------------
(* Properties.                                                             *)

\* The IDs the list still recognises, as the abstract window sees them.
Recognised ==
    [id \in {guard[i].key : i \in {j \in DOMAIN guard : Fresh(guard[j])}} |->
        guard[CHOOSE i \in DOMAIN guard : guard[i].key = id].age]

Window == INSTANCE ReplayWindow WITH ages <- Recognised

\* The list with its lazy expiry and its eviction from the back answers as the
\* window does: in particular a live ID is given up only when GuardSize live
\* ones are held, never because dead entries fill the list, and by whichever
\* goroutines and however often it is asked.
ImplementsWindow == Window!Spec
=============================================================================
