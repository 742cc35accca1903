--------------------------- MODULE FloorDecision ---------------------------
(***************************************************************************)
(* The arithmetic of one floor decision: Heuristic.Decide                  *)
(* (internal/scheduler/heuristic.go) and the folds and clamps the          *)
(* reconciler applies to its result.  A policy spec is a record with at    *)
(* least min, max and cooldown; "since" is how long ago the last recorded  *)
(* decrease was (a policy with none has since at least its cooldown, as    *)
(* subtracting Go's zero time saturates).                                  *)
(***************************************************************************)
EXTENDS Integers

Least(a, b) == IF a < b THEN a ELSE b
Greatest(a, b) == IF a > b THEN a ELSE b

Clamp(base, spec) == Least(Greatest(base, spec.min), spec.max)

\* Cooldown applies only to decreases: inside it the current floor is held.
Decide(spec, base, current, since) ==
    IF Clamp(base, spec) < current /\ since < spec.cooldown
    THEN current
    ELSE Clamp(base, spec)
=============================================================================
