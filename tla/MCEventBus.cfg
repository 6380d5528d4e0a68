\* One dashboard, two publishers at once, three publishes and two resources: names arrive
\* before, while and after an event is handed over, and the dashboard may leave meanwhile.
\* Once it has left and the publishes are used up the bus may stop.
SPECIFICATION FairSpec
CONSTANTS
  Subscribers = {s1}
  Publishers = {p1, p2}
  Resources = {tasks, health}
  MaxPublish = 3
INVARIANT TypeOK
INVARIANT NoLostWakeup
INVARIANT NeverBlocks
PROPERTY SenderEnds
PROPERTY SignalsChange
CHECK_DEADLOCK FALSE
