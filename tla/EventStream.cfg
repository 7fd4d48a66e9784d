SPECIFICATION StreamFairSpec
CONSTANTS Conns={c1,c2} CmdConns={k1} Readers={c1,c2} MaxCasts=2 Levels={1} HighWater=1
INVARIANT SentInOrder
PROPERTY IterationStable
PROPERTY PublisherReturns
PROPERTY StopEnds
CHECK_DEADLOCK FALSE
