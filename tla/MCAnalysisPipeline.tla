-------------------------- MODULE MCAnalysisPipeline --------------------------
EXTENDS AnalysisPipeline, TLC

CONSTANTS r1, r2

Asks(by, steps, force) == [by |-> by, steps |-> steps, force |-> force]

\* One slot for the server's jobs, one for the command line and backfills.
Job == Asks("job", Full, FALSE)
Two ==
    (r1 :> {Job})
 @@ (r2 :> {Asks("cli", {"eco"}, FALSE), Asks("cli", {"write"}, FALSE),
            Asks("eco", {"eco"}, FALSE), Asks("eco", {"eco"}, TRUE), Asks("phase", {"phase"}, FALSE)})
Single == (r1 :> {Job, Asks("phase", {"phase"}, FALSE)})

TrapsLast == "phase" :> 1 @@ "eco" :> 2 @@ "stockfish" :> 3 @@ "move_quality" :> 4 @@ "tactics" :> 5
               @@ "write" :> 6 @@ "traps" :> 7
OneOrder == {TrapsLast}
=============================================================================
