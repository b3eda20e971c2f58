SPECIFICATION VoteSpec
CONSTANTS
  Voters = {u1}
  Requests = {q1, q2}
  Scores = {1, 5}
  MaxScore = 5
  MaxVoteFaults = 0
  NoScore = NoScore
INVARIANT
  RatingWithinScale
CHECK_DEADLOCK FALSE
