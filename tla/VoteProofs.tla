----------------------------- MODULE VoteProofs -----------------------------
(***************************************************************************)
(* The number of votes of a book, for any number of users and of requests  *)
(* that race, any scores and any faults.                                   *)
(***************************************************************************)
EXTENDS Vote, FiniteSetTheorems, TLAPS

LEMMA ScoresAreNat == \A score \in Scores : score \in Nat
BY ScoresAssumption

LEMMA RatingFields ==
  ASSUME NEW value \in Rating
  PROVE  value.num \in Nat /\ value.den \in Nat
BY DEF Rating

LEMMA SetterFields ==
  ASSUME NEW setter \in Setter
  PROVE  /\ setter.user \in Voters
         /\ setter.score \in Scores
         /\ setter.score \in Nat
         /\ setter.votesCount \in Nat
         /\ setter.rating \in Rating
<1>1. setter.user \in Voters /\ setter.score \in Scores /\ setter.votesCount \in Nat
      /\ setter.rating \in Rating
  BY DEF Setter
<1> QED
  BY <1>1, ScoresAreNat

LEMMA ProductIsNat ==
  ASSUME NEW a \in Nat, NEW b \in Nat
  PROVE  a * b \in Nat /\ (a = 0 => a * b = 0)
OBVIOUS

LEMMA AddedRatingType ==
  ASSUME NEW setter \in Setter
  PROVE  AddedRating(setter) \in Rating
<1> DEFINE n == setter.votesCount
           num == setter.rating.num
           den == setter.rating.den
<1>1. n \in Nat /\ num \in Nat /\ den \in Nat /\ setter.score \in Nat /\ n + 1 \in Nat
  BY SetterFields, RatingFields
<1>2. n * num \in Nat /\ setter.score * den \in Nat /\ (n + 1) * den \in Nat
  BY <1>1, ProductIsNat
<1>3. n * num + setter.score * den \in Nat
  BY <1>2
<1> QED
  BY <1>2, <1>3 DEF AddedRating, Rating

LEMMA ReplacedRatingType ==
  ASSUME NEW setter \in Setter, ZeroUnrated(setter.votesCount, setter.rating)
  PROVE  /\ ReplacedRating(setter) \in Rating
         /\ setter.votesCount = 0 => ~ IsFinite(ReplacedRating(setter))
<1> DEFINE n == setter.votesCount
           num == setter.rating.num
           den == setter.rating.den
<1>1. n \in Nat /\ num \in Nat /\ den \in Nat /\ setter.score \in Nat
  BY SetterFields, RatingFields
<1>2. CASE ~ IsFinite(setter.rating)
  BY <1>2 DEF ReplacedRating, IsFinite, Rating
<1>3. CASE IsFinite(setter.rating)
  <2>1. ReplacedRating(setter)
          = [num |-> (n - 1) * num + setter.score * den, den |-> n * den]
    BY <1>3 DEF ReplacedRating
  <2>2. setter.score * den \in Nat /\ n * den \in Nat /\ (n = 0 => n * den = 0)
    BY <1>1, ProductIsNat
  <2>3. (n - 1) * num \in Nat
    <3>1. CASE n = 0
      <4>1. num = 0
        BY <1>3, <3>1 DEF ZeroUnrated
      <4> QED
        BY <4>1, <1>1
    <3>2. CASE n # 0
      <4>1. n - 1 \in Nat
        BY <3>2, <1>1
      <4> QED
        BY <4>1, <1>1, ProductIsNat
    <3> QED
      BY <3>1, <3>2
  <2>4. (n - 1) * num + setter.score * den \in Nat
    BY <2>2, <2>3
  <2> QED
    BY <2>1, <2>2, <2>4 DEF Rating, IsFinite
<1> QED
  BY <1>2, <1>3
-----------------------------------------------------------------------------
(* A handler moves on. *)
LEMMA SetterMoves ==
  ASSUME NEW setter \in Setter \cup {NoSetter}, setter.pc # "idle",
         NEW pc \in {"voting", "replacing", "adding", "done", "uncounted"}
  PROVE  /\ setter \in Setter
         /\ [setter EXCEPT !.pc = pc] \in Setter
         /\ [setter EXCEPT !.pc = pc].pc = pc
         /\ [setter EXCEPT !.pc = pc].votesCount = setter.votesCount
         /\ [setter EXCEPT !.pc = pc].rating = setter.rating
         /\ [setter EXCEPT !.pc = pc].score = setter.score
<1>1. setter \in Setter
  BY DEF NoSetter
<1> QED
  BY <1>1 DEF Setter

LEMMA VoteInitInv == VoteInit => VoteInv
<1> SUFFICES ASSUME VoteInit PROVE VoteInv
  OBVIOUS
<1>1. Voted = {} /\ Uncounted = {}
  BY DEF VoteInit, Voted, Uncounted, NoSetter
<1>2. VotesCounted
  <2>1. Cardinality({}) = 0
    BY FS_EmptySet
  <2> QED
    BY <1>1, <2>1 DEF VoteInit, VotesCounted
<1> QED
  BY <1>2, MaxVoteFaultsAssumption DEF VoteInit, VoteInv, VoteTypeOK, ReadsAreOld, ZeroUnrated, Rating, NoSetter, IsFinite

(* What a step that leaves the votes and the counts alone keeps. *)
LEMMA CountsKept ==
  ASSUME VotesCounted, UNCHANGED <<votes, votesCount>>, Uncounted' = Uncounted
  PROVE  VotesCounted'
BY DEF VotesCounted, Voted

LEMMA SetterStep ==
  ASSUME VoteInv, NEW r \in Requests, setters[r].pc # "idle",
         NEW pc \in {"voting", "replacing", "adding", "done", "uncounted"},
         setters' = [setters EXCEPT ![r].pc = pc]
  PROVE  /\ setters' \in [Requests -> Setter \cup {NoSetter}]
         /\ \A q \in Requests \ {r} : setters'[q] = setters[q]
         /\ setters'[r].pc = pc
         /\ setters'[r].votesCount = setters[r].votesCount
         /\ setters'[r].rating = setters[r].rating
         /\ setters'[r].score = setters[r].score
<1>1. setters \in [Requests -> Setter \cup {NoSetter}]
  BY DEF VoteInv, VoteTypeOK
<1>2. setters[r] \in Setter \cup {NoSetter}
  BY <1>1
<1>3. /\ [setters[r] EXCEPT !.pc = pc] \in Setter
      /\ [setters[r] EXCEPT !.pc = pc].pc = pc
      /\ [setters[r] EXCEPT !.pc = pc].votesCount = setters[r].votesCount
      /\ [setters[r] EXCEPT !.pc = pc].rating = setters[r].rating
      /\ [setters[r] EXCEPT !.pc = pc].score = setters[r].score
  BY <1>2, SetterMoves
<1>4. setters' = [setters EXCEPT ![r] = [setters[r] EXCEPT !.pc = pc]]
  OBVIOUS
<1> QED
  BY <1>1, <1>3, <1>4

(* A handler moves on; the count does not go down. *)
LEMMA ReadsStep ==
  ASSUME VoteInv, NEW r \in Requests, setters[r].pc # "idle",
         NEW pc \in {"voting", "replacing", "adding", "done", "uncounted"},
         setters' = [setters EXCEPT ![r].pc = pc],
         votesCount' \in Nat, votesCount' >= votesCount,
         ZeroUnrated(votesCount, rating)'
  PROVE  ReadsAreOld'
<1>1. ASSUME NEW q \in Requests, setters'[q].pc # "idle"
      PROVE  /\ setters'[q].votesCount <= votesCount'
             /\ ZeroUnrated(setters'[q].votesCount, setters'[q].rating)
  <2>1. setters[q].pc # "idle" /\ setters'[q].votesCount = setters[q].votesCount
        /\ setters'[q].rating = setters[q].rating
    BY <1>1, SetterStep
  <2>2. setters[q] \in Setter
    BY <2>1 DEF VoteInv, VoteTypeOK, NoSetter
  <2>3. setters[q].votesCount \in Nat /\ votesCount \in Nat
    BY <2>2, SetterFields DEF VoteInv, VoteTypeOK
  <2>4. /\ setters[q].votesCount <= votesCount
        /\ ZeroUnrated(setters[q].votesCount, setters[q].rating)
    BY <2>1 DEF VoteInv, ReadsAreOld
  <2> QED
    BY <2>1, <2>3, <2>4
<1> QED
  BY <1>1 DEF ReadsAreOld
-----------------------------------------------------------------------------
LEMMA ReadBookInv ==
  ASSUME VoteInv, NEW r \in Requests, NEW u \in Voters, NEW score \in Scores,
         ReadBook(r, u, score)
  PROVE  VoteInv'
<1> DEFINE begun == [pc |-> "voting", user |-> u, score |-> score,
                     votesCount |-> votesCount, rating |-> rating]
<1>1. votesCount \in Nat /\ rating \in Rating /\ setters \in [Requests -> Setter \cup {NoSetter}]
  BY DEF VoteInv, VoteTypeOK
<1>2. begun \in Setter
  BY <1>1 DEF Setter
<1>3. setters' = [setters EXCEPT ![r] = begun] /\ setters[r].pc = "idle"
      /\ UNCHANGED <<votes, votesCount, rating, voteFaults>>
  BY DEF ReadBook
<1>4. VoteTypeOK'
  BY <1>1, <1>2, <1>3 DEF VoteInv, VoteTypeOK
<1>5. Uncounted' = Uncounted
  BY <1>1, <1>3 DEF Uncounted
<1>6. ReadsAreOld'
  BY <1>1, <1>3 DEF VoteInv, ReadsAreOld
<1> QED
  BY <1>3, <1>4, <1>5, <1>6, CountsKept DEF VoteInv

LEMMA CountsAreFinite ==
  ASSUME VoteInv
  PROVE  /\ IsFiniteSet(Uncounted) /\ Cardinality(Uncounted) \in Nat
         /\ IsFiniteSet(Voted) /\ Cardinality(Voted) \in Nat
<1>1. Uncounted \in SUBSET Requests /\ Voted \in SUBSET Voters
  BY DEF Uncounted, Voted
<1>2. IsFiniteSet(Uncounted) /\ IsFiniteSet(Voted)
  BY <1>1, FiniteAssumption, FS_Subset
<1> QED
  BY <1>2, FS_CardinalityType

LEMMA UpsertVoteInv ==
  ASSUME VoteInv, NEW r \in Requests, UpsertVote(r)
  PROVE  VoteInv'
<1> DEFINE user == setters[r].user
           score == setters[r].score
           pc == IF votes[user] # NoScore THEN "replacing" ELSE "adding"
<1>1. /\ setters[r].pc = "voting"
      /\ votes' = [votes EXCEPT ![user] = score]
      /\ setters' = [setters EXCEPT ![r].pc = pc]
      /\ UNCHANGED <<votesCount, rating, voteFaults>>
  BY DEF UpsertVote
<1>2. setters[r] \in Setter /\ user \in Voters /\ score \in Scores
  <2>1. setters[r] \in Setter
    BY <1>1 DEF VoteInv, VoteTypeOK, NoSetter
  <2> QED
    BY <2>1, SetterFields
<1>3. votes \in [Voters -> Scores \cup {NoScore}] /\ votesCount \in Nat
  BY DEF VoteInv, VoteTypeOK
<1>4. VoteTypeOK'
  BY <1>1, <1>2, <1>3, SetterStep DEF VoteInv, VoteTypeOK
<1>5. ReadsAreOld'
  BY <1>1, <1>3, ReadsStep DEF VoteInv, ReadsAreOld, ZeroUnrated
<1>6. CASE votes[user] # NoScore
  <2>1. Voted' = Voted
    BY <1>1, <1>2, <1>3, <1>6, NoScoreAssumption DEF Voted
  <2>2. Uncounted' = Uncounted
    BY <1>1, <1>6, SetterStep DEF Uncounted
  <2> QED
    BY <1>1, <1>4, <1>5, <2>1, <2>2 DEF VoteInv, VotesCounted
<1>7. CASE votes[user] = NoScore
  <2>1. Voted' = Voted \cup {user} /\ user \notin Voted
    BY <1>1, <1>2, <1>3, <1>7, NoScoreAssumption DEF Voted
  <2>2. Uncounted' = Uncounted \cup {r} /\ r \notin Uncounted
    <3>1. /\ \A q \in Requests \ {r} : setters'[q] = setters[q]
          /\ setters'[r].pc = "adding"
      BY <1>1, <1>7, SetterStep
    <3> QED
      BY <1>1, <3>1 DEF Uncounted
  <2>3. Cardinality(Voted') = Cardinality(Voted) + 1
    BY <2>1, CountsAreFinite, FS_AddElement
  <2>4. Cardinality(Uncounted') = Cardinality(Uncounted) + 1
    BY <2>2, CountsAreFinite, FS_AddElement
  <2>5. VotesCounted'
    BY <1>1, <1>3, <2>3, <2>4, CountsAreFinite DEF VoteInv, VotesCounted
  <2> QED
    BY <1>4, <1>5, <2>5 DEF VoteInv
<1> QED
  BY <1>6, <1>7

LEMMA ReplaceRatingInv ==
  ASSUME VoteInv, NEW r \in Requests, ReplaceRating(r)
  PROVE  VoteInv'
<1> DEFINE replaced == ReplacedRating(setters[r])
<1>1. /\ setters[r].pc = "replacing"
      /\ rating' = IF IsNaN(replaced) THEN rating ELSE replaced
      /\ setters' = [setters EXCEPT ![r].pc = "done"]
      /\ UNCHANGED <<votes, votesCount, voteFaults>>
  BY DEF ReplaceRating
<1>2. setters[r] \in Setter /\ votesCount \in Nat /\ rating \in Rating
  BY <1>1 DEF VoteInv, VoteTypeOK, NoSetter
<1>3. /\ ZeroUnrated(setters[r].votesCount, setters[r].rating)
      /\ setters[r].votesCount <= votesCount
      /\ ZeroUnrated(votesCount, rating)
  BY <1>1 DEF VoteInv, ReadsAreOld
<1>4. replaced \in Rating /\ (setters[r].votesCount = 0 => ~ IsFinite(replaced))
  BY <1>2, <1>3, ReplacedRatingType
<1>5. VoteTypeOK'
  <2>1. rating' \in Rating
    BY <1>1, <1>2, <1>4
  <2> QED
    BY <1>1, <2>1, SetterStep DEF VoteInv, VoteTypeOK
<1>6. ZeroUnrated(votesCount, rating)'
  <2>1. votesCount = 0 => setters[r].votesCount = 0
    BY <1>2, <1>3, SetterFields
  <2> QED
    BY <1>1, <1>3, <1>4, <2>1 DEF ZeroUnrated
<1>7. ReadsAreOld'
  <2>1. votesCount' \in Nat /\ votesCount' >= votesCount
    BY <1>1, <1>2
  <2> QED
    BY <1>1, <1>6, <2>1, ReadsStep
<1>8. Uncounted' = Uncounted
  BY <1>1, SetterStep DEF Uncounted
<1> QED
  BY <1>1, <1>5, <1>7, <1>8, CountsKept DEF VoteInv

LEMMA AddRatingInv ==
  ASSUME VoteInv, NEW r \in Requests, AddRating(r)
  PROVE  VoteInv'
<1> DEFINE added == AddedRating(setters[r])
<1>1. setters[r].pc = "adding" /\ UNCHANGED <<votes, voteFaults>>
  BY DEF AddRating
<1>2. setters[r] \in Setter /\ votesCount \in Nat /\ rating \in Rating
  BY <1>1 DEF VoteInv, VoteTypeOK, NoSetter
<1>3. CASE /\ rating' = added
           /\ votesCount' = votesCount + 1
           /\ setters' = [setters EXCEPT ![r].pc = "done"]
  <2>1. votesCount' \in Nat /\ votesCount' >= votesCount /\ votesCount' # 0
    BY <1>2, <1>3
  <2>2. VoteTypeOK'
    <3>1. rating' \in Rating
      BY <1>2, <1>3, AddedRatingType
    <3> QED
      BY <1>1, <1>3, <2>1, <3>1, SetterStep DEF VoteInv, VoteTypeOK
  <2>3. ReadsAreOld'
    <3>1. ZeroUnrated(votesCount, rating)'
      BY <2>1 DEF ZeroUnrated
    <3> QED
      BY <1>1, <1>3, <2>1, <3>1, ReadsStep
  <2>4. Uncounted' = Uncounted \ {r} /\ r \in Uncounted
    <3>1. /\ \A q \in Requests \ {r} : setters'[q] = setters[q]
          /\ setters'[r].pc = "done"
      BY <1>1, <1>3, SetterStep
    <3> QED
      BY <1>1, <3>1 DEF Uncounted
  <2>5. Cardinality(Uncounted') = Cardinality(Uncounted) - 1
    BY <2>4, CountsAreFinite, FS_RemoveElement
  <2>6. Cardinality(Voted') = Cardinality(Voted)
    BY <1>1 DEF Voted
  <2>7. VotesCounted'
    BY <1>2, <1>3, <2>5, <2>6, CountsAreFinite DEF VoteInv, VotesCounted
  <2> QED
    BY <2>2, <2>3, <2>7 DEF VoteInv
<1>4. CASE /\ setters' = [setters EXCEPT ![r].pc = "uncounted"]
           /\ UNCHANGED <<votesCount, rating>>
  <2>1. VoteTypeOK'
    BY <1>1, <1>4, SetterStep DEF VoteInv, VoteTypeOK
  <2>2. ReadsAreOld'
    <3>1. votesCount' \in Nat /\ votesCount' >= votesCount
      BY <1>2, <1>4
    <3>2. ZeroUnrated(votesCount, rating)'
      BY <1>4 DEF VoteInv, ReadsAreOld, ZeroUnrated
    <3> QED
      BY <1>1, <1>4, <3>1, <3>2, ReadsStep
  <2>3. Uncounted' = Uncounted
    BY <1>1, <1>4, SetterStep DEF Uncounted
  <2> QED
    BY <1>1, <1>4, <2>1, <2>2, <2>3, CountsKept DEF VoteInv
<1> QED
  BY <1>3, <1>4 DEF AddRating

LEMMA SetVoteThrowsInv ==
  ASSUME VoteInv, NEW r \in Requests, SetVoteThrows(r)
  PROVE  VoteInv'
<1> DEFINE pc == IF setters[r].pc = "adding" THEN "uncounted" ELSE "done"
<1>1. /\ setters[r].pc \in {"voting", "replacing", "adding"}
      /\ setters' = [setters EXCEPT ![r].pc = pc]
      /\ UNCHANGED <<votes, votesCount, rating>>
  BY DEF SetVoteThrows
<1>2. VoteTypeOK'
  <2>1. voteFaults' \in 0 .. MaxVoteFaults
    BY MaxVoteFaultsAssumption DEF SetVoteThrows, VoteInv, VoteTypeOK
  <2>2. setters' \in [Requests -> Setter \cup {NoSetter}]
    BY <1>1, SetterStep
  <2> QED
    BY <1>1, <2>1, <2>2 DEF VoteInv, VoteTypeOK
<1>3. ReadsAreOld'
  <2>1. votesCount' \in Nat /\ votesCount' >= votesCount
    BY <1>1 DEF VoteInv, VoteTypeOK
  <2>2. ZeroUnrated(votesCount, rating)'
    BY <1>1 DEF VoteInv, ReadsAreOld, ZeroUnrated
  <2> QED
    BY <1>1, <2>1, <2>2, ReadsStep
<1>4. Uncounted' = Uncounted
  <2>1. /\ \A q \in Requests \ {r} : setters'[q] = setters[q]
        /\ setters'[r].pc = pc
    BY <1>1, SetterStep
  <2> QED
    BY <1>1, <2>1 DEF Uncounted
<1> QED
  BY <1>1, <1>2, <1>3, <1>4, CountsKept DEF VoteInv
-----------------------------------------------------------------------------
LEMMA VoteNextInv == VoteInv /\ [VoteNext]_voteVars => VoteInv'
<1> SUFFICES ASSUME VoteInv, [VoteNext]_voteVars
             PROVE  VoteInv'
  OBVIOUS
<1>1. CASE UNCHANGED voteVars
  BY <1>1 DEF voteVars, VoteInv, VoteTypeOK, VotesCounted, Voted, Uncounted, ReadsAreOld,
              ZeroUnrated
<1>2. CASE VoteNext
  BY <1>2, ReadBookInv, UpsertVoteInv, ReplaceRatingInv, AddRatingInv, SetVoteThrowsInv
     DEF VoteNext
<1> QED
  BY <1>1, <1>2

(* The inductive invariant: what handlers read was true of a lower count. *)
THEOREM VoteInvariant == VoteSpec => []VoteInv
<1> QED
  BY VoteInitInv, VoteNextInv, PTL DEF VoteSpec

(* Type correctness: no rating becomes negative, however stale the reads. *)
THEOREM VoteTypes == VoteSpec => []VoteTypeOK
<1>1. VoteInv => VoteTypeOK
  BY DEF VoteInv
<1> QED
  BY <1>1, VoteInvariant, PTL

(* setVote counts every vote once: votesCount and the uncounted votes together  *)
(* are the users who voted.                                                     *)
THEOREM VotesCountedTheorem == VoteSpec => []VotesCounted
<1>1. VoteInv => VotesCounted
  BY DEF VoteInv
<1> QED
  BY <1>1, VoteInvariant, PTL
-----------------------------------------------------------------------------
LEMMA ProductMonotone ==
  ASSUME NEW a \in Nat, NEW b \in Nat, NEW c \in Nat, a <= b
  PROVE  a * c <= b * c /\ c * a <= c * b
OBVIOUS

(* The weighted mean of k times a fraction and one score does not exceed a score *)
(* that exceeds both.                                                            *)
LEMMA MeanBelow ==
  ASSUME NEW k \in Nat, NEW num \in Nat, NEW den \in Nat, NEW score \in Nat, NEW top \in Nat,
         num <= top * den, score <= top
  PROVE  k * num + score * den <= top * ((k + 1) * den)
<1>1. top * den \in Nat /\ k * num \in Nat /\ score * den \in Nat
      /\ k * (top * den) \in Nat
  BY ProductIsNat
<1>2. k * num <= k * (top * den)
  BY <1>1, ProductMonotone
<1>3. score * den <= top * den
  BY ProductMonotone
<1>4. top * ((k + 1) * den) = k * (top * den) + top * den
  OBVIOUS
<1> QED
  BY <1>1, <1>2, <1>3, <1>4

LEMMA MeanAbove ==
  ASSUME NEW k \in Nat, NEW num \in Nat, NEW den \in Nat, NEW score \in Nat, NEW low \in Nat,
         low * den <= num, low <= score
  PROVE  low * ((k + 1) * den) <= k * num + score * den
<1>1. low * den \in Nat /\ k * num \in Nat /\ score * den \in Nat
      /\ k * (low * den) \in Nat
  BY ProductIsNat
<1>2. k * (low * den) <= k * num
  BY <1>1, ProductMonotone
<1>3. low * den <= score * den
  BY ProductMonotone
<1>4. low * ((k + 1) * den) = k * (low * den) + low * den
  OBVIOUS
<1> QED
  BY <1>1, <1>2, <1>3, <1>4

(* A mean of one new score and, with any weight, of a value between the scores. *)
LEMMA MeanBetween ==
  ASSUME NEW scores \in SUBSET Nat, NEW k \in Nat, NEW num \in Nat, NEW den \in Nat,
         NEW score \in scores,
         \/ k = 0
         \/ /\ \E low \in scores : low * den <= num
            /\ \E top \in scores : num <= top * den
  PROVE  /\ \E low \in scores : low * ((k + 1) * den) <= k * num + score * den
         /\ \E top \in scores : k * num + score * den <= top * ((k + 1) * den)
<1>0. score \in Nat
  OBVIOUS
<1>1. CASE k = 0
  <2>1. k * num + score * den = score * ((k + 1) * den)
    BY <1>0, <1>1
  <2>2. k * num + score * den \in Nat
    BY <1>0, <1>1, ProductIsNat
  <2> QED
    BY <2>1, <2>2
<1>2. CASE k # 0
  <2>1. PICK low \in scores : low * den <= num
    BY <1>2
  <2>2. PICK top \in scores : num <= top * den
    BY <1>2
  <2>3. low \in Nat /\ top \in Nat
    OBVIOUS
  <2>4. \E l \in scores : l * ((k + 1) * den) <= k * num + score * den
    <3>1. CASE low <= score
      <4>1. low * ((k + 1) * den) <= k * num + score * den
        BY <1>0, <2>1, <2>3, <3>1, MeanAbove
      <4> QED
        BY <4>1
    <3>2. CASE score <= low
      <4>1. score * den <= low * den
        BY <1>0, <2>3, <3>2, ProductMonotone
      <4>2. score * den <= num
        BY <1>0, <2>1, <2>3, <4>1, ProductIsNat
      <4>3. score * ((k + 1) * den) <= k * num + score * den
        BY <1>0, <4>2, MeanAbove
      <4> QED
        BY <4>3
    <3> QED
      BY <1>0, <2>3, <3>1, <3>2
  <2>5. \E t \in scores : k * num + score * den <= t * ((k + 1) * den)
    <3>1. CASE score <= top
      <4>1. k * num + score * den <= top * ((k + 1) * den)
        BY <1>0, <2>2, <2>3, <3>1, MeanBelow
      <4> QED
        BY <4>1
    <3>2. CASE top <= score
      <4>1. top * den <= score * den
        BY <1>0, <2>3, <3>2, ProductMonotone
      <4>2. num <= score * den
        BY <1>0, <2>2, <2>3, <4>1, ProductIsNat
      <4>3. k * num + score * den <= score * ((k + 1) * den)
        BY <1>0, <4>2, MeanBelow
      <4> QED
        BY <4>3
    <3> QED
      BY <1>0, <2>3, <3>1, <3>2
  <2> QED
    BY <2>4, <2>5
<1> QED
  BY <1>1, <1>2

LEMMA AddedBetween ==
  ASSUME NEW setter \in Setter, NEW scores \in SUBSET Nat, setter.score \in scores,
         Between(setter.rating, setter.votesCount, scores), NEW m
  PROVE  Between(AddedRating(setter), m, scores)
<1> DEFINE n == setter.votesCount
           num == setter.rating.num
           den == setter.rating.den
           score == setter.score
<1>1. n \in Nat /\ num \in Nat /\ den \in Nat /\ score \in scores
  BY SetterFields, RatingFields
<1> SUFFICES ASSUME IsFinite(AddedRating(setter))
             PROVE  /\ \E low \in scores : low * ((n + 1) * den) <= n * num + score * den
                    /\ \E top \in scores : n * num + score * den <= top * ((n + 1) * den)
  BY DEF Between, AddedRating
<1>2. IsFinite(setter.rating)
  <2>1. (n + 1) * den # 0
    BY DEF IsFinite, AddedRating
  <2> QED
    BY <1>1, <2>1 DEF IsFinite
<1>3. \/ n = 0
      \/ /\ \E low \in scores : low * den <= num
         /\ \E top \in scores : num <= top * den
  BY <1>1, <1>2 DEF Between
<1> HIDE DEF n, num, den, score
<1> QED
  BY <1>1, <1>3, MeanBetween

LEMMA ReplacedBetween ==
  ASSUME NEW setter \in Setter, NEW scores \in SUBSET Nat, setter.score \in scores,
         ZeroUnrated(setter.votesCount, setter.rating),
         Between(setter.rating, setter.votesCount, scores), NEW m
  PROVE  Between(ReplacedRating(setter), m, scores)
<1> DEFINE n == setter.votesCount
           num == setter.rating.num
           den == setter.rating.den
           score == setter.score
           k == n - 1
<1>1. n \in Nat /\ num \in Nat /\ den \in Nat /\ score \in scores
  BY SetterFields, RatingFields
<1> SUFFICES ASSUME IsFinite(ReplacedRating(setter))
             PROVE  Between(ReplacedRating(setter), m, scores)
  BY DEF Between
<1>2. n # 0 /\ IsFinite(setter.rating)
  BY ReplacedRatingType DEF ReplacedRating, IsFinite
<1>3. /\ \E low \in scores : low * den <= num
      /\ \E top \in scores : num <= top * den
  BY <1>1, <1>2 DEF Between
<1>4. k \in Nat /\ k + 1 = n
  BY <1>1, <1>2
<1>5. ReplacedRating(setter) = [num |-> k * num + score * den, den |-> n * den]
  BY <1>2 DEF ReplacedRating
<1>6. /\ \E low \in scores : low * (n * den) <= k * num + score * den
      /\ \E top \in scores : k * num + score * den <= top * (n * den)
  <2> HIDE DEF n, num, den, score, k
  <2> QED
    BY <1>1, <1>3, <1>4, MeanBetween
<1> QED
  BY <1>5, <1>6 DEF Between
-----------------------------------------------------------------------------
BetweenInv == VoteInv /\ RatingBetweenScores /\ ReadsBetweenScores

LEMMA SentAreNat ==
  ASSUME VoteInv
  PROVE  Sent \in SUBSET Nat
<1> SUFFICES ASSUME NEW r \in Requests, setters[r].pc # "idle"
             PROVE  setters[r].score \in Nat
  BY DEF Sent
<1>1. setters[r] \in Setter
  BY DEF VoteInv, VoteTypeOK, NoSetter
<1> QED
  BY <1>1, SetterFields

LEMMA BetweenGrows ==
  ASSUME NEW value, NEW n, NEW scores, NEW more, scores \subseteq more, Between(value, n, scores)
  PROVE  Between(value, n, more)
BY DEF Between

(* A handler that moves on sends nothing new, and what it read stays. *)
LEMMA SentKept ==
  ASSUME BetweenInv, NEW r \in Requests, setters[r].pc # "idle",
         NEW pc \in {"voting", "replacing", "adding", "done", "uncounted"},
         setters' = [setters EXCEPT ![r].pc = pc]
  PROVE  Sent' = Sent /\ ReadsBetweenScores'
<1>1. ASSUME NEW q \in Requests
      PROVE  /\ setters'[q].pc # "idle" <=> setters[q].pc # "idle"
             /\ setters'[q].pc # "idle" =>
                  /\ setters'[q].score = setters[q].score
                  /\ setters'[q].votesCount = setters[q].votesCount
                  /\ setters'[q].rating = setters[q].rating
  BY SetterStep DEF BetweenInv
<1>2. Sent' = Sent
  BY <1>1 DEF Sent
<1>3. ReadsBetweenScores'
  BY <1>1, <1>2 DEF BetweenInv, ReadsBetweenScores
<1> QED
  BY <1>2, <1>3

LEMMA BetweenNextInv == BetweenInv /\ [VoteNext]_voteVars => BetweenInv'
<1> SUFFICES ASSUME BetweenInv, [VoteNext]_voteVars
             PROVE  RatingBetweenScores' /\ ReadsBetweenScores'
  BY VoteNextInv DEF BetweenInv
<1>1. Sent \in SUBSET Nat
  BY SentAreNat DEF BetweenInv
<1>2. ASSUME NEW r \in Requests, NEW u \in Voters, NEW score \in Scores, ReadBook(r, u, score)
      PROVE  RatingBetweenScores' /\ ReadsBetweenScores'
  <2> DEFINE begun == [pc |-> "voting", user |-> u, score |-> score,
                       votesCount |-> votesCount, rating |-> rating]
  <2>1. /\ setters[r].pc = "idle"
        /\ setters' = [setters EXCEPT ![r] = begun]
        /\ UNCHANGED <<votesCount, rating>>
        /\ setters \in [Requests -> Setter \cup {NoSetter}]
    BY <1>2 DEF ReadBook, BetweenInv, VoteInv, VoteTypeOK
  <2>2. setters'[r].votesCount = votesCount /\ setters'[r].rating = rating
    BY <2>1
  <2>3. \A q \in Requests \ {r} : setters'[q] = setters[q]
    BY <2>1
  <2>4. Sent \subseteq Sent'
    BY <2>1, <2>3 DEF Sent
  <2>5. RatingBetweenScores'
    BY <2>1, <2>4, BetweenGrows DEF BetweenInv, RatingBetweenScores
  <2>6. ASSUME NEW q \in Requests, setters'[q].pc # "idle"
        PROVE  Between(setters'[q].rating, setters'[q].votesCount, Sent')
    <3>1. CASE q = r
      BY <2>1, <2>2, <2>5, <3>1 DEF RatingBetweenScores
    <3>2. CASE q # r
      <4>1. Between(setters[q].rating, setters[q].votesCount, Sent)
        BY <2>3, <2>6, <3>2 DEF BetweenInv, ReadsBetweenScores
      <4>2. Between(setters[q].rating, setters[q].votesCount, Sent')
        BY <2>4, <4>1, BetweenGrows
      <4> QED
        BY <2>3, <3>2, <4>2
    <3> QED
      BY <3>1, <3>2
  <2>7. ReadsBetweenScores'
    BY <2>6 DEF ReadsBetweenScores
  <2> QED
    BY <2>5, <2>7
<1>3. ASSUME NEW r \in Requests, UpsertVote(r) \/ SetVoteThrows(r)
      PROVE  RatingBetweenScores' /\ ReadsBetweenScores'
  <2>1. setters[r].pc # "idle" /\ UNCHANGED <<votesCount, rating>>
    BY <1>3 DEF UpsertVote, SetVoteThrows
  <2>2. PICK pc \in {"voting", "replacing", "adding", "done", "uncounted"} :
          setters' = [setters EXCEPT ![r].pc = pc]
    BY <1>3 DEF UpsertVote, SetVoteThrows
  <2>3. Sent' = Sent /\ ReadsBetweenScores'
    BY <2>1, <2>2, SentKept
  <2> QED
    BY <2>1, <2>3 DEF BetweenInv, RatingBetweenScores
<1>4. ASSUME NEW r \in Requests, ReplaceRating(r) \/ AddRating(r)
      PROVE  RatingBetweenScores' /\ ReadsBetweenScores'
  <2>1. setters[r].pc \in {"replacing", "adding"}
    BY <1>4 DEF ReplaceRating, AddRating
  <2>2. PICK pc \in {"voting", "replacing", "adding", "done", "uncounted"} :
          setters' = [setters EXCEPT ![r].pc = pc]
    BY <1>4 DEF ReplaceRating, AddRating
  <2>3. Sent' = Sent /\ ReadsBetweenScores'
    BY <2>1, <2>2, SentKept
  <2>4. setters[r] \in Setter /\ setters[r].score \in Sent
    BY <2>1 DEF BetweenInv, VoteInv, VoteTypeOK, NoSetter, Sent
  <2>5. /\ ZeroUnrated(setters[r].votesCount, setters[r].rating)
        /\ Between(setters[r].rating, setters[r].votesCount, Sent)
    BY <2>1 DEF BetweenInv, VoteInv, ReadsAreOld, ReadsBetweenScores
  <2>6. \A m : /\ Between(ReplacedRating(setters[r]), m, Sent)
               /\ Between(AddedRating(setters[r]), m, Sent)
    BY <1>1, <2>4, <2>5, ReplacedBetween, AddedBetween
  <2>7. \/ UNCHANGED <<votesCount, rating>>
        \/ rating' = ReplacedRating(setters[r])
        \/ rating' = AddedRating(setters[r])
    BY <1>4 DEF ReplaceRating, AddRating
  <2>8. RatingBetweenScores'
    <3>1. Between(rating', votesCount', Sent)
      BY <2>6, <2>7 DEF BetweenInv, RatingBetweenScores
    <3> QED
      BY <2>3, <3>1 DEF RatingBetweenScores
  <2> QED
    BY <2>3, <2>8
<1>5. CASE UNCHANGED voteVars
  BY <1>5 DEF BetweenInv, voteVars, RatingBetweenScores, ReadsBetweenScores, Sent, Between
<1> QED
  BY <1>2, <1>3, <1>4, <1>5 DEF VoteNext

(* However stale the rating a handler read, what it stores lies between the *)
(* scores that were sent, as long as it is a number.                        *)
THEOREM RatingTheorem == VoteSpec => []RatingBetweenScores
<1>1. VoteInit => BetweenInv
  <2> SUFFICES ASSUME VoteInit PROVE BetweenInv
    OBVIOUS
  <2>1. VoteInv
    BY VoteInitInv
  <2>2. RatingBetweenScores /\ ReadsBetweenScores
    BY DEF VoteInit, RatingBetweenScores, ReadsBetweenScores, Between, NoSetter
  <2> QED
    BY <2>1, <2>2 DEF BetweenInv
<1>2. BetweenInv => RatingBetweenScores
  BY DEF BetweenInv
<1> QED
  BY <1>1, <1>2, BetweenNextInv, PTL DEF VoteSpec
=============================================================================
