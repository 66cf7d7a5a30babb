----------------------------- MODULE MCHarvest -----------------------------
(* Instances of Harvest for TLC.                                           *)
EXTENDS Harvest

\* Every call of two tasks: both functions, with and without a timeout, and
\* harvest with and without cancel_finish.
AllCalls ==
  {c \in [api : {"harvest", "results"}, tasks : {Task},
          timed : BOOLEAN, finish : BOOLEAN] : c.finish => c.api = "harvest"}

\* The plain call: harvest(*aws).
HarvestCalls ==
  {[api |-> "harvest", tasks |-> Task, timed |-> FALSE, finish |-> FALSE]}

\* harvest(*aws, timeout=...).
TimedHarvestCalls == {[c EXCEPT !.timed = TRUE] : c \in HarvestCalls}

============================================================================
