---------------------------- MODULE MCMeasure ----------------------------
(* Reports of a handful of different jobs, small enough for TLC.           *)
EXTENDS Measure

Metric(kind, i, w, from, to) ==
    [task |-> <<kind, i>>, attempt |-> 1, worker |-> w, backup |-> FALSE,
     start |-> from, end |-> to]

(* A job of five map tasks and a reduce task; to[i] is when map i ended. *)
Job(workers, from, to, start, end) ==
    [mapPhaseEnd |-> Highest(to), reducePhaseStart |-> start, end |-> end,
     nMap |-> 5, nReduce |-> 1,
     tasks |-> [i \in 1 .. 5 |-> Metric("map", i - 1, workers[i], from[i], to[i])]
               \o <<Metric("reduce", 0, workers[1], start, end)>>]

Alone == Job(<<1, 1, 1, 1, 1>>, <<0, 1, 2, 4, 7>>, <<1, 2, 4, 7, 9>>, 9, 12)
Even  == Job(<<1, 2, 1, 2, 1>>, <<0, 0, 2, 3, 4>>, <<2, 3, 4, 5, 5>>, 6, 8)
Slow  == Job(<<1, 2, 1, 1, 1>>, <<0, 0, 1, 2, 3>>, <<1, 9, 2, 3, 4>>, 10, 11)

RunResults == {[trace |-> Alone, hash |-> "good"], [trace |-> Even, hash |-> "good"],
               [trace |-> Slow, hash |-> "good"], [trace |-> Even, hash |-> "bad"]}

Outcome(completed, hash, wall, kills, atFail, recoveries) ==
    [completed |-> completed, hash |-> hash, wall |-> wall, kills |-> kills,
     committedAtFail |-> atFail, tasks |-> 3, recoveries |-> recoveries]

TrialOutcomes == {Outcome(TRUE, "good", 5, 0, 0, <<>>),
                  Outcome(TRUE, "good", 9, 2, 1, <<2, 4>>),
                  Outcome(TRUE, "bad", 7, 1, 2, <<3>>),
                  Outcome(FALSE, "bad", 20, 2, 1, <<>>)}

Counts == {<<1>>, <<2, 1>>, <<1, 4, 2>>, <<2, 2>>, <<0, 1>>}
Scenarios == {<<"clean">>, <<"clean", "kill">>}
=============================================================================
