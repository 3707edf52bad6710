SPECIFICATION Spec
CONSTANTS
  q1 = q1
  q2 = q2
  Requests = {q1, q2}
  MaxSessions = 3
  MaxClock = 2
  MaxOutages = 1
SYMMETRY MCSymmetry
INVARIANTS
  TypeOK
  EndedStaysEnded
  OneSessionPerUser
  NewestLoginWins
CHECK_DEADLOCK FALSE
