CONSTANTS
  Workers = {w1, w2, w3}
  Rounds = 3
  MaxAborts = 1
  Libs = 2
SPECIFICATION FairEvalSpec
INVARIANTS TypeOK RoundsInStep VerdictRight NeverUnreachable HandlesRespected DestroyedIdle UnloadedIdle RegionFreedOnce FrameOutlivesRunner
PROPERTY EvaluationEnds
