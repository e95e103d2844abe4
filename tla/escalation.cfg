\* Two evaluations at a time, two ladders of two rungs, one append that raises.
SPECIFICATION Spec
CONSTANTS
  e1 = e1  e2 = e2
  Evals = {e1, e2}
  Rungs = 2
  MaxRuns = 2
  MaxLost = 1
SYMMETRY EvalSymmetry
INVARIANTS OneLadder PendingHasProposal NoRungSkipped
CHECK_DEADLOCK FALSE
