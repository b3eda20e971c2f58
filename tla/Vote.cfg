SPECIFICATION VoteSpec
CONSTANTS
  Voters = {u1, u2, u3}
  Requests = {q1, q2, q3, q4}
  Scores = {0, 1, 5}
  MaxScore = 5
  MaxVoteFaults = 1
  NoScore = NoScore
INVARIANTS
  VoteTypeOK
  VotesCounted
  RatingBetweenScores
CHECK_DEADLOCK FALSE
SYMMETRY Symmetry
