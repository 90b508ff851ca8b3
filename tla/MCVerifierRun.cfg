SPECIFICATION OneUnrulySpec
CONSTANTS
  q1 = q1
  q2 = q2
  Requests = {q1, q2}
  Leftovers <- OneLeftover
  MaxFaults = 1
INVARIANTS
  DirectoriesStayApart
  NothingIsLeft
  LimitHolds
PROPERTIES
  EveryRequestEnds
