\* Two processes, three tasks, room for one task with each of two agents, a
\* shortlist of one, a request by hand beside the ticks.
SPECIFICATION FairSpec
CONSTANTS
  a1 = a1
  a2 = a2
  Tasks = {1, 2, 3}
  Agents = {a1, a2}
  NoAgent = NoAgent
  People = {u1}
  Scopes = {s1}
  Processes = {p1, p2}
  NoProcess = NoProcess
  Able <- OneAble
  Batch = 2
  Shortlist = 1
  Capacity <- EqualRooms
  Autonomous = TRUE
INVARIANTS RoutedOnce
PROPERTIES TicksKeepCapacity RoutableIsRouted DueIsProbed
