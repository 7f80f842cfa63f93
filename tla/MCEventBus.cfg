SPECIFICATION FairSpec
CONSTANTS
  api = api
  monitor = monitor
  d1 = d1
  d2 = d2
  Process = {api, monitor}
  Api = api
  Client = {d1, d2}
  RingMax = 2
  RingCut = 1
  MaxEvents = 4
  MaxRestarts = 1
INVARIANTS
  BusInv
  DashboardInOrder
PROPERTY
  EventReachesDashboard
CHECK_DEADLOCK FALSE
