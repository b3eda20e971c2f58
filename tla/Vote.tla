-------------------------------- MODULE Vote --------------------------------
(***************************************************************************)
(* Votes for one book, product/src/vote/vote.service.ts.  setVote reads    *)
(* the book's rating and number of votes, upserts the user's vote, and     *)
(* stores a rating computed from what it read at the beginning: requests   *)
(* of several users, or of one, interleave in between.  Ratings are        *)
(* fractions, in place of the floating-point numbers of the code; the      *)
(* denominator 0 stands for what a division by 0 yields: Infinity, or NaN  *)
(* when the numerator is 0 as well.                                        *)
(***************************************************************************)
EXTENDS Integers, FiniteSets

CONSTANTS
  Voters,            \* users who may vote
  Requests,          \* requests to POST /vote, each served once
  Scores,            \* SetVoteDto allows 0 to 5
  MaxScore,          \* 5
  MaxVoteFaults,     \* bound on rejected awaits
  NoScore            \* no vote of a user

ASSUME FiniteAssumption == IsFiniteSet(Voters) /\ IsFiniteSet(Requests)
ASSUME ScoresAssumption == MaxScore \in Nat /\ Scores \subseteq 0 .. MaxScore
ASSUME MaxVoteFaultsAssumption == MaxVoteFaults \in Nat
ASSUME NoScoreAssumption == NoScore \notin Scores

VARIABLES
  votes,             \* [Voters -> Scores \cup {NoScore}], the collection
  votesCount,        \* of the book
  rating,            \* of the book
  setters,           \* [Requests -> Setter], the setVote handlers
  voteFaults         \* faults so far, at most MaxVoteFaults

voteVars == <<votes, votesCount, rating, setters, voteFaults>>

Rating == [num : Nat, den : Nat]

(* A handler that has begun keeps the book as it read it. *)
Setter == [pc : {"voting", "replacing", "adding", "done", "uncounted"},
           user : Voters, score : Scores, votesCount : Nat, rating : Rating]

NoSetter == [pc |-> "idle"]

VoteTypeOK ==
  /\ votes \in [Voters -> Scores \cup {NoScore}]
  /\ votesCount \in Nat
  /\ rating \in Rating
  /\ setters \in [Requests -> Setter \cup {NoSetter}]
  /\ voteFaults \in 0 .. MaxVoteFaults

VoteInit ==
  /\ votes = [u \in Voters |-> NoScore]
  /\ votesCount = 0
  /\ rating = [num |-> 0, den |-> 1]
  /\ setters = [r \in Requests |-> NoSetter]
  /\ voteFaults = 0
-----------------------------------------------------------------------------
IsFinite(value) == value.den # 0

IsNaN(value) == value = [num |-> 0, den |-> 0]

(* Faulty ReplacedRating: the average is taken out twice. *)
ReplacedRatingTwice(setter) ==
  LET n == setter.votesCount
      read == setter.rating
  IN  IF IsFinite(read)
      THEN [num |-> (n - 2) * read.num + setter.score * read.den, den |-> n * read.den]
      ELSE [num |-> 0, den |-> 0]

(* (votesCount * rating - rating + score) / votesCount: the average is taken out, *)
(* not the score that was replaced.                                               *)
ReplacedRating(setter) ==
  LET n == setter.votesCount
      read == setter.rating
  IN  IF IsFinite(read)
      THEN [num |-> (n - 1) * read.num + setter.score * read.den, den |-> n * read.den]
      ELSE [num |-> 0, den |-> 0]

(* Faulty AddedRating: the old rating has the weight of the new number of votes. *)
AddedRatingNewCount(setter) ==
  LET n == setter.votesCount + 1
  IN  [num |-> n * setter.rating.num + setter.score * setter.rating.den,
       den |-> n * setter.rating.den]

(* (votesCount * rating + score) / (votesCount + 1) *)
AddedRating(setter) ==
  [num |-> setter.votesCount * setter.rating.num + setter.score * setter.rating.den,
   den |-> (setter.votesCount + 1) * setter.rating.den]
-----------------------------------------------------------------------------
(* setVote reads the book. *)
ReadBook(r, u, score) ==
  /\ setters[r].pc = "idle"
  /\ setters' = [setters EXCEPT ![r] = [pc |-> "voting", user |-> u, score |-> score,
                                        votesCount |-> votesCount, rating |-> rating]]
  /\ UNCHANGED <<votes, votesCount, rating, voteFaults>>

(* updateOne with upsert: atomic, and one vote per user by the unique index. *)
UpsertVote(r) ==
  LET setter == setters[r]
  IN  /\ setter.pc = "voting"
      /\ votes' = [votes EXCEPT ![setter.user] = setter.score]
      /\ setters' = [setters EXCEPT
                       ![r].pc = IF votes[setter.user] # NoScore THEN "replacing" ELSE "adding"]
      /\ UNCHANGED <<votesCount, rating, voteFaults>>

(* The rating of a vote that was replaced; mongoose refuses to store NaN. *)
ReplaceRating(r) ==
  /\ setters[r].pc = "replacing"
  /\ rating' = IF IsNaN(ReplacedRating(setters[r])) THEN rating ELSE ReplacedRating(setters[r])
  /\ setters' = [setters EXCEPT ![r].pc = "done"]
  /\ UNCHANGED <<votes, votesCount, voteFaults>>

(* Faulty AddRating: the number of votes is stored, not incremented. *)
AddRatingStoringCount(r) ==
  /\ setters[r].pc = "adding"
  /\ rating' = AddedRating(setters[r])
  /\ votesCount' = setters[r].votesCount + 1
  /\ setters' = [setters EXCEPT ![r].pc = "done"]
  /\ UNCHANGED <<votes, voteFaults>>

(* The rating and the $inc of a new vote, refused together when the rating is NaN. *)
AddRating(r) ==
  LET added == AddedRating(setters[r])
  IN  /\ setters[r].pc = "adding"
      /\ \/ /\ ~ IsNaN(added)
            /\ rating' = added
            /\ votesCount' = votesCount + 1
            /\ setters' = [setters EXCEPT ![r].pc = "done"]
         \/ /\ IsNaN(added)
            /\ setters' = [setters EXCEPT ![r].pc = "uncounted"]
            /\ UNCHANGED <<votesCount, rating>>
      /\ UNCHANGED <<votes, voteFaults>>

(* An await rejects, or the process dies: a new vote may stay uncounted. *)
SetVoteThrows(r) ==
  /\ voteFaults < MaxVoteFaults
  /\ setters[r].pc \in {"voting", "replacing", "adding"}
  /\ setters' = [setters EXCEPT ![r].pc = IF @ = "adding" THEN "uncounted" ELSE "done"]
  /\ voteFaults' = voteFaults + 1
  /\ UNCHANGED <<votes, votesCount, rating>>

VoteNext ==
  \E r \in Requests :
    \/ \E u \in Voters, score \in Scores : ReadBook(r, u, score)
    \/ UpsertVote(r) \/ ReplaceRating(r) \/ AddRating(r) \/ SetVoteThrows(r)

VoteSpec == VoteInit /\ [][VoteNext]_voteVars
-----------------------------------------------------------------------------
Voted == {u \in Voters : votes[u] # NoScore}

(* The requests whose new vote has still to be counted, or never will be. *)
Uncounted == {r \in Requests : setters[r].pc \in {"adding", "uncounted"}}

(* The book's votesCount is the number of users with a vote, but for the votes   *)
(* that a handler has still to count or failed to count: although handlers read  *)
(* the count long before they write, none is counted twice or forgotten.         *)
VotesCounted == votesCount + Cardinality(Uncounted) = Cardinality(Voted)

(* The scores that were sent so far. *)
Sent == {setters[r].score : r \in {q \in Requests : setters[q].pc # "idle"}}

Between(value, n, scores) ==
  n > 0 /\ IsFinite(value) =>
    /\ \E score \in scores : score * value.den <= value.num
    /\ \E score \in scores : value.num <= score * value.den

(* Every finite rating lies between the lowest and the highest score that was sent *)
(* once a vote was counted, whichever old ratings the handlers that raced had read. *)
RatingBetweenScores == Between(rating, votesCount, Sent)

(* A rating never exceeds the highest possible one: README.md:37 divides it by    *)
(* that to get the first parameter of the favourites, as book.service.ts:270 does. *)
RatingWithinScale == rating.num <= MaxScore * rating.den
-----------------------------------------------------------------------------
(* The invariant that makes VoteTypeOK and VotesCounted inductive. *)
(* Without a counted vote the rating is 0, or no number. *)
ZeroUnrated(n, value) == n = 0 /\ IsFinite(value) => value.num = 0

(* What a handler read was true when the count was lower. *)
ReadsAreOld ==
  /\ ZeroUnrated(votesCount, rating)
  /\ \A r \in Requests :
       setters[r].pc # "idle" =>
         /\ setters[r].votesCount <= votesCount
         /\ ZeroUnrated(setters[r].votesCount, setters[r].rating)

ReadsBetweenScores ==
  \A r \in Requests :
    setters[r].pc # "idle" => Between(setters[r].rating, setters[r].votesCount, Sent)

VoteInv == VoteTypeOK /\ VotesCounted /\ ReadsAreOld
=============================================================================
