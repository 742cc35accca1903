------------------------------ MODULE Workflow ------------------------------
(***************************************************************************)
(* What internal/predictor/workflow/parse.go makes of a workflow file.     *)
(* Pure operators from the syntax tree actionlint delivers (an external    *)
(* library, whose result is the input here) to the jobs the predictor and  *)
(* the activity sampler walk.                                              *)
(*                                                                         *)
(* A matrix is a record                                                    *)
(*   [expression, rows, exclude, include]                                  *)
(* where rows maps an axis name to [expression, values], and exclude and   *)
(* include are records [expression, entries] whose entries map some names  *)
(* to values.  Names are numbers, in the order the code sorts them in.     *)
(***************************************************************************)
EXTENDS Integers, Sequences, FiniteSets, SequencesExt, TLC

CONSTANT NoMatrix   \* a job without strategy.matrix

LOCAL SortedNames(rows) == SetToSortSeq(DOMAIN rows, <)

\* The cross product of the rows, the last name varying fastest.
Product(rows) ==
    LET Times(combos, name) ==
            FlattenSeq([i \in DOMAIN combos |->
                [j \in DOMAIN rows[name].values |-> (name :> rows[name].values[j]) @@ combos[i]]])
    IN  FoldLeft(Times, << <<>> >>, SortedNames(rows))

matchesCombination(combo, entry) ==
    \A name \in DOMAIN entry : name \in DOMAIN combo /\ combo[name] = entry[name]

applyExclude(combos, entries) ==
    SelectSeq(combos, LAMBDA c : \A i \in DOMAIN entries : ~matchesCombination(c, entries[i]))

\* Only the names that are axes have to agree.
combinationMatchesOnAxes(combo, entry, axes) ==
    \A name \in DOMAIN entry \cap axes : name \in DOMAIN combo /\ combo[name] = entry[name]

\* Mutant: an entry extends the first combination it matches only.
applyIncludeFirst(combos, axes, entries) ==
    LET With(acc, entry) ==
            LET hits == {i \in DOMAIN acc : combinationMatchesOnAxes(acc[i], entry, axes)}
            IN  IF hits = {} THEN Append(acc, entry)
                ELSE [i \in DOMAIN acc |->
                         IF i \in hits /\ \A k \in hits : i <= k THEN entry @@ acc[i] ELSE acc[i]]
    IN  FoldLeft(With, combos, entries)

\* One entry after the other extends every combination it matches, those
\* appended for earlier entries included, or else is appended itself.
applyInclude(combos, axes, entries) ==
    LET With(acc, entry) ==
            LET hits == {i \in DOMAIN acc : combinationMatchesOnAxes(acc[i], entry, axes)}
            IN  IF hits = {} THEN Append(acc, entry)
                ELSE [i \in DOMAIN acc |-> IF i \in hits THEN entry @@ acc[i] ELSE acc[i]]
    IN  FoldLeft(With, combos, entries)

\* An expression anywhere makes the whole matrix dynamic, with no combinations.
mapMatrix(m) ==
    IF m.expression \/ (\E name \in DOMAIN m.rows : m.rows[name].expression)
                    \/ m.exclude.expression \/ m.include.expression
    THEN [combos |-> <<>>, dynamic |-> TRUE]
    ELSE [combos |-> applyInclude(applyExclude(Product(m.rows), m.exclude.entries),
                                  DOMAIN m.rows, m.include.entries),
          dynamic |-> FALSE]

-----------------------------------------------------------------------------
(* A job's tree is a record [needs, uses, path, runsOn, labels, axis,      *)
(* group, matrix].  uses is "absent", "local", "remote" or "other" (a form *)
(* classifyUses does not know).  runsOn is "literal", "mixed" (some of the *)
(* labels are expressions), "axis" (the expression matrix.<axis> alone) or *)
(* "complex" (any other); group is a set of at most one pseudo-label.      *)

mapRunsOn(j) ==
    [labels |-> j.labels, group |-> j.group, dynamic |-> j.runsOn # "literal"]

\* runs-on: ${{ matrix.X }} takes its label from the first combination.
Resolvable(j, combos) == j.runsOn = "axis" /\ combos # <<>> /\ j.axis \in DOMAIN combos[1]

mapJob(j) ==
    LET runsOn == mapRunsOn(j)
        matrix == IF j.matrix = NoMatrix THEN [combos |-> <<>>, dynamic |-> FALSE]
                  ELSE mapMatrix(j.matrix)
        resolved == IF ~matrix.dynamic /\ Resolvable(j, matrix.combos)
                    THEN [runsOn EXCEPT !.labels = {matrix.combos[1][j.axis]},
                                        !.dynamic = FALSE]
                    ELSE runsOn
    IN  IF j.uses # "absent"
        THEN [needs |-> j.needs, uses |-> j.uses, path |-> j.path, labels |-> {}, group |-> {},
              runsOnDynamic |-> FALSE, combos |-> <<>>, matrixDynamic |-> FALSE]
        ELSE [needs |-> j.needs, uses |-> "absent", path |-> j.path,
              labels |-> resolved.labels, group |-> resolved.group,
              runsOnDynamic |-> resolved.dynamic \/ matrix.dynamic,
              combos |-> matrix.combos, matrixDynamic |-> matrix.dynamic]

\* A file is a record [documents, valid, jobs]: the YAML documents with content
\* in it, whether actionlint produced a tree, and the tree's jobs.
Parses(file) == file.documents <= 1 /\ file.valid
Parse(file) == [id \in DOMAIN file.jobs |-> mapJob(file.jobs[id])]
=============================================================================
