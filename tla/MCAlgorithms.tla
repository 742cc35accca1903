---------------------------- MODULE MCAlgorithms ----------------------------
(***************************************************************************)
(* The pure algorithms against reference definitions, over bounded inputs: *)
(* the schedule leg while a scaled-down week passes, the expansion of a    *)
(* job's matrix, and the walk over a run's needs graph while its jobs      *)
(* appear.  A behaviour is about the input of one of them.                 *)
(***************************************************************************)
EXTENDS ScheduleWeek, NeedsGraph

VARIABLE input  \* a matrix or a run; the schedule has variables of its own

-----------------------------------------------------------------------------
(* Schedules of at most two windows: three days of four minutes, and zones *)
(* that put the local clock on another day than UTC.                       *)

Days == <<"Sat", "Sun", "Mon">>
Offsets == [z \in {"UTC", "East", "West"} |->
               CASE z = "UTC" -> 0 [] z = "East" -> 3 [] z = "West" -> WeekMinutes - 3]

\* What admission lets through: from < to, any zone name, any set of day names.
AdmittedWindows ==
    {w \in [days: {{"Sat"}, {"Sun", "Mon"}, {"Day"}}, from: Clock, to: Clock,
             base: {1, 2}, tz: {"UTC", "East", "West", "Nowhere"}] :
        ToMinutes(w.from) < ToMinutes(w.to)}

TwoWindows == {<<w>> : w \in AdmittedWindows} \cup (AdmittedWindows \X AdmittedWindows)

-----------------------------------------------------------------------------
(* Matrices over two axes and one more name, with at most one exclude and  *)
(* two include entries.                                                    *)

Row(values) == [expression |-> FALSE, values |-> values]
Rows == UNION {[axes -> {Row(<<"x">>), Row(<<"x", "y">>)}] : axes \in {{1}, {1, 2}}}
Entries(names) == UNION {[some -> {"x", "y"}] : some \in SUBSET names \ {{}}}
UpTo(n, S) == UNION {[1..k -> S] : k \in 0..n}

Matrices ==
    [of: {"matrix"}, rows: Rows, exclude: UpTo(1, Entries({1, 2})),
     include: UpTo(2, Entries({1, 2, 3}))]

Listed(entries) == [expression |-> FALSE, entries |-> entries]

\* Reference: every choice of values no exclude entry covers, extended by the
\* include entries that contradict none of its axes, the later the stronger;
\* and the entries that fit none of them, each on its own.
Originals(m) ==
    {c \in [DOMAIN m.rows -> {"x", "y"}] :
        /\ \A axis \in DOMAIN c : \E i \in DOMAIN m.rows[axis].values :
               m.rows[axis].values[i] = c[axis]
        /\ \A i \in DOMAIN m.exclude :
               \E name \in DOMAIN m.exclude[i] :
                   name \notin DOMAIN c \/ c[name] # m.exclude[i][name]}

Fits(m, entry, c) == \A name \in DOMAIN entry \cap DOMAIN m.rows : c[name] = entry[name]

Extended(m, c) ==
    LET fitting == {i \in DOMAIN m.include : Fits(m, m.include[i], c)}
        names == DOMAIN c \cup UNION {DOMAIN m.include[i] : i \in fitting}
    IN  [name \in names |->
            LET setters == {i \in fitting : name \in DOMAIN m.include[i]}
            IN  IF setters = {} THEN c[name] ELSE m.include[Max(setters)][name]]

Loners(m) == {i \in DOMAIN m.include : \A c \in Originals(m) : ~Fits(m, m.include[i], c)}

\* No include entry fits one an earlier entry added.
LonersApart(m) ==
    \A i \in Loners(m), j \in DOMAIN m.include :
        i < j => ~combinationMatchesOnAxes(m.include[i], m.include[j], DOMAIN m.rows)

\* mapMatrix yields GitHub's combinations, each as often as GitHub runs it, for
\* matrices that have an axis and whose include entries do not build on each
\* other: exclude before include, partial entries, overriding, and appending.
MatrixIsGitHubs ==
    input.of = "matrix" /\ LonersApart(input) =>
    ToBag(mapMatrix([expression |-> FALSE, rows |-> input.rows,
                             exclude |-> Listed(input.exclude),
                             include |-> Listed(input.include)]).combos) =
        FoldSet(LAMBDA c, acc : (Extended(input, c) :> 1) (+) acc, EmptyBag, Originals(input)) (+)
        FoldSet(LAMBDA i, acc : (input.include[i] :> 1) (+) acc, EmptyBag, Loners(input))

-----------------------------------------------------------------------------
(* Runs of a workflow of two jobs, the second perhaps needing the first,   *)
(* that may call each other's file, their own, and one that calls back, so *)
(* that there are more calls in a row than MaxReusableDepth allows.        *)

Fanout == [expression |-> FALSE, rows |-> 1 :> Row(<<"x", "y">>),
           exclude |-> Listed(<<>>), include |-> Listed(<<>>)]

Plain == [needs |-> {}, uses |-> "absent", path |-> "", runsOn |-> "literal", labels |-> {"x"},
          axis |-> 0, group |-> {}, matrix |-> NoMatrix]
Call(path) == [Plain EXCEPT !.uses = "local", !.path = path]
Jobs == {Plain, [Plain EXCEPT !.group = {"group:g"}, !.labels = {}],
         [Plain EXCEPT !.runsOn = "axis", !.axis = 1, !.matrix = Fanout],
         [Plain EXCEPT !.runsOn = "complex"],
         [Plain EXCEPT !.uses = "remote"],
         Call("ci"), Call("lib"), Call("deep")}

File(jobs) == [documents |-> 1, valid |-> TRUE, jobs |-> jobs]
JobMaps == {[id \in {"a", "b"} |-> IF id = "a" THEN a ELSE [b EXCEPT !.needs = needs]] :
               a \in Jobs, b \in Jobs, needs \in {{}, {"a"}}}

Walks == [of: {"walk"}, ci: JobMaps, lib: JobMaps, parses: BOOLEAN, materialized: {{}}]

FilesOf(w) == [path \in {"ci", "lib", "deep"} |->
                  CASE path = "ci" -> File(w.ci)
                    [] path = "lib" -> [File(w.lib) EXCEPT !.valid = w.parses]
                    [] path = "deep" -> File([id \in {"a", "b"} |->
                                                 IF id = "a" THEN Plain ELSE Call("lib")])]

\* Reference: the chains of calls a run can make, each call from an imminent job
\* of the workflow the previous one called, no workflow called twice.
Chains(files, materialized) ==
    LET Calls(call) ==
            LET job == files[call[1]].jobs[call[2]]
            IN  /\ call[2] \notin materialized /\ job.needs \subseteq materialized
                /\ job.uses = "local" /\ files[job.path].valid
        Target(call) == files[call[1]].jobs[call[2]].path
    IN  {chain \in UpTo(MaxReusableDepth, (DOMAIN files) \X {"a", "b"}) :
            /\ \A i \in DOMAIN chain :
                   /\ Calls(chain[i])
                   /\ chain[i][1] = IF i = 1 THEN "ci" ELSE Target(chain[i - 1])
            /\ \A i, j \in DOMAIN chain : i # j => Target(chain[i]) # Target(chain[j])}

\* Reference: what the imminent jobs at the end of a chain run on, as often as
\* they fan out.
Leaves(files, materialized, chain) ==
    LET last == chain[Len(chain)]
        jobs == files[IF chain = <<>> THEN "ci" ELSE files[last[1]].jobs[last[2]].path].jobs
        leaves == {id \in DOMAIN jobs \ materialized :
                      /\ jobs[id].needs \subseteq materialized
                      /\ jobs[id].uses = "absent" /\ jobs[id].runsOn # "complex"}
    IN  FoldSet(LAMBDA id, acc : acc (+)
                    (IF jobs[id].matrix = NoMatrix THEN (jobs[id].labels \cup jobs[id].group) :> 1
                     ELSE {"x"} :> 2), EmptyBag, leaves)

\* The recursive walk predicts every job that is about to appear, through every
\* chain of reusable workflows and as often as it will run; cycles and the
\* depth limit end it, and siblings that call the same workflow both count.
WalkIsAllChains ==
    input.of = "walk" =>
    LET files == FilesOf(input)
    IN  RunContribution(files, "ci", input.materialized) =
            FoldSet(LAMBDA chain, acc : acc (+) Leaves(files, input.materialized, chain),
                    EmptyBag, Chains(files, input.materialized))

-----------------------------------------------------------------------------
NoInput == [of |-> "schedule"]

Init ==
    \/ WeekInit /\ input = NoInput
    \/ schedule = <<>> /\ now = 0 /\ (input \in Matrices \/ input \in Walks)

Tick ==
    /\ input = NoInput
    /\ MinutePasses
    /\ UNCHANGED input

\* A job appears in the run's listing.
Appears ==
    /\ input.of = "walk"
    /\ \E id \in {"a", "b"} \ input.materialized :
         /\ input.ci[id].needs \subseteq input.materialized
         /\ input' = [input EXCEPT !.materialized = @ \cup {id}]
    /\ UNCHANGED weekVars

Spec == Init /\ [][Tick \/ Appears]_<<input, weekVars>>
=============================================================================
