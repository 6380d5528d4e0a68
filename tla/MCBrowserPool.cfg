\* Two operations of any kind: one at work or waiting, one past its deadline.
SPECIFICATION FairSpec
CONSTANTS
  Ops = {o1, o2}
  Nobody = Nobody
INVARIANT TypeOK
INVARIANT OneAtWork
INVARIANT RealResultWins
PROPERTY EveryCallReturns
\* Each operation is called once: the model stops when all have returned.
CHECK_DEADLOCK FALSE
