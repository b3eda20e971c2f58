---------------------------- MODULE LoginProofs ----------------------------
(***************************************************************************)
(* What createOtp's lock and verifyOtp's count of attempts guarantee for   *)
(* any number of calls, codes, faults and times, and what logging in,      *)
(* which verifies codes, guarantees for any number of racing logins,       *)
(* refreshes, faults and times to live.                                    *)
(***************************************************************************)
EXTENDS Login, FiniteSetTheorems, TLAPS

-----------------------------------------------------------------------------
(* One-time codes, the theorems of OtpSpec. *)

USE OtpTimesAssumption, MaxAttemptsAssumption, MaxOtpFaultsAssumption, NilAssumption

LEMMA OtpInitInv == OtpInit => OtpInv
BY DEF OtpInit, OtpInv, OtpTypeOK, LockHeld, HeldCodeIsNewest, StoredCodeWasCreated,
       Creator, Verifier, Holding, IsLive

(* One component of a creator or verifier changes. *)
LEMMA CreatorMoves ==
  ASSUME NEW creator \in Creator, NEW pc \in Holding \cup {"idle", "created", "rejected"},
         NEW value \in Code \cup {Nil}
  PROVE  /\ [creator EXCEPT !.pc = pc] \in Creator
         /\ [creator EXCEPT !.pc = pc].pc = pc
         /\ [creator EXCEPT !.pc = pc].value = creator.value
         /\ [creator EXCEPT !.pc = pc, !.value = value] \in Creator
         /\ [creator EXCEPT !.pc = pc, !.value = value].pc = pc
         /\ [creator EXCEPT !.pc = pc, !.value = value].value = value
BY DEF Creator

LEMMA VerifierMoves ==
  ASSUME NEW verifier \in Verifier,
         NEW pc \in Verifying \cup {"idle", "accepted", "wrong", "rejected"}
  PROVE  /\ [verifier EXCEPT !.pc = pc] \in Verifier
         /\ [verifier EXCEPT !.pc = pc].pc = pc
         /\ [verifier EXCEPT !.pc = pc].value = verifier.value
BY DEF Verifier

LEMMA OtpTypeStep == OtpInv /\ [OtpNext]_otpVars => OtpTypeOK'
<1> SUFFICES ASSUME OtpInv, [OtpNext]_otpVars
             PROVE  OtpTypeOK'
  OBVIOUS
<1> USE DEF OtpInv, OtpTypeOK
<1>1. CASE Tick
  BY <1>1 DEF Tick
<1>2. ASSUME NEW c \in Creators, AcquireLock(c)
      PROVE  OtpTypeOK'
  BY <1>2, CreatorMoves DEF AcquireLock, Holding
<1>3. ASSUME NEW c \in Creators, CheckPrevious(c)
      PROVE  OtpTypeOK'
  <2>1. CASE IsTooYoung
    <3>1. creators' = [creators EXCEPT ![c].pc = "rejected"]
      BY <1>3, <2>1 DEF CheckPrevious
    <3>2. [creators[c] EXCEPT !.pc = "rejected"] \in Creator
      BY DEF Creator
    <3>3. creators' \in [Creators -> Creator]
      BY <3>1, <3>2
    <3> QED
      BY <1>3, <2>1, <3>3 DEF CheckPrevious
  <2>2. CASE ~ IsTooYoung
    <3>1. PICK code \in Codes :
            creators' = [creators EXCEPT
                           ![c].pc = "counting",
                           ![c].value = [serial |-> created + 1, code |-> code, time |-> now]]
      BY <1>3, <2>2 DEF CheckPrevious
    <3>2. [serial |-> created + 1, code |-> code, time |-> now] \in Code
      BY DEF Code
    <3>3. creators' \in [Creators -> Creator]
      BY <3>1, <3>2 DEF Creator, Holding
    <3> QED
      BY <1>3, <2>2, <3>3 DEF CheckPrevious
  <2> QED
    BY <2>1, <2>2
<1>4. ASSUME NEW c \in Creators, ReplaceAttempts(c)
      PROVE  OtpTypeOK'
  <2>1. [count |-> 0, expires |-> now + Ttl + Slack] \in Counter
    BY DEF Counter
  <2> QED
    BY <1>4, <2>1, CreatorMoves DEF ReplaceAttempts, Holding
<1>5. ASSUME NEW c \in Creators, ReplaceOtp(c)
      PROVE  OtpTypeOK'
  <2>1. [value |-> creators[c].value, expires |-> now + Ttl] \in StoredOtp
    BY <1>5 DEF ReplaceOtp, HeldCodeIsNewest, StoredOtp
  <2> QED
    BY <1>5, <2>1, CreatorMoves DEF ReplaceOtp
<1>6. ASSUME NEW c \in Creators, CreateThrows(c)
      PROVE  OtpTypeOK'
  <2>1. [creators[c] EXCEPT !.pc = "rejected"] \in Creator
    BY DEF Creator
  <2> QED
    BY <1>6, <2>1 DEF CreateThrows
<1>7. ASSUME NEW v \in Verifiers, NEW code \in Codes, GetOtp(v, code)
      PROVE  OtpTypeOK'
  <2>1. (IF IsLive(otp) THEN otp.value ELSE Nil) \in Code \cup {Nil}
    BY DEF IsLive, StoredOtp
  <2> QED
    BY <1>7, <2>1 DEF GetOtp, Verifier, Verifying
<1>8. ASSUME NEW v \in Verifiers, GetAttempts(v)
      PROVE  OtpTypeOK'
  BY <1>8, VerifierMoves DEF GetAttempts, Verifying
<1>9. ASSUME NEW v \in Verifiers, IncrementAttempts(v)
      PROVE  OtpTypeOK'
  <2>1. Incremented \in Counter
    BY DEF Incremented, Counter, IsLive
  <2> QED
    BY <1>9, <2>1, VerifierMoves DEF IncrementAttempts, Verifying
<1>10. ASSUME NEW v \in Verifiers, DeleteKeys(v) \/ VerifyThrows(v)
       PROVE  OtpTypeOK'
  BY <1>10, VerifierMoves DEF DeleteKeys, VerifyThrows
<1>11. CASE OtpCrash
  <2>1. creators' \in [Creators -> Creator]
    BY <1>11 DEF OtpCrash, Creator
  <2>2. verifiers' \in [Verifiers -> Verifier]
    BY <1>11, VerifierMoves DEF OtpCrash
  <2> QED
    BY <1>11, <2>1, <2>2 DEF OtpCrash
<1>12. CASE UNCHANGED otpVars
  BY <1>12 DEF otpVars
<1> QED
  BY <1>1, <1>2, <1>3, <1>4, <1>5, <1>6, <1>7, <1>8, <1>9, <1>10, <1>11, <1>12
     DEF OtpNext, CreatorStep, VerifierStep

LEMMA LockStep == OtpInv /\ [OtpNext]_otpVars => LockHeld'
<1> SUFFICES ASSUME OtpInv, [OtpNext]_otpVars
             PROVE  LockHeld'
  OBVIOUS
<1> USE DEF OtpInv, OtpTypeOK, LockHeld
<1>1. ASSUME NEW c \in Creators, AcquireLock(c)
      PROVE  LockHeld'
  BY <1>1 DEF AcquireLock, Creator, Holding
<1>2. ASSUME NEW c \in Creators, CheckPrevious(c)
      PROVE  LockHeld'
  BY <1>2 DEF CheckPrevious, Creator, Holding
<1>3. ASSUME NEW c \in Creators, ReplaceAttempts(c) \/ ReplaceOtp(c) \/ CreateThrows(c)
      PROVE  LockHeld'
  BY <1>3 DEF ReplaceAttempts, ReplaceOtp, CreateThrows, Creator, Holding
<1>4. CASE OtpCrash
  BY <1>4 DEF OtpCrash, Creator, Holding
<1>5. CASE UNCHANGED <<creators, lock>>
  BY <1>5
<1> QED
  BY <1>1, <1>2, <1>3, <1>4, <1>5
     DEF OtpNext, otpVars, CreatorStep, VerifierStep, Tick, GetOtp, GetAttempts,
         IncrementAttempts, DeleteKeys, VerifyThrows

(* Only the creator that holds the lock stores a code. *)
LEMMA HeldCodeStep ==
  OtpInv /\ [OtpNext]_otpVars => HeldCodeIsNewest' /\ StoredCodeWasCreated'
<1> SUFFICES ASSUME OtpInv, [OtpNext]_otpVars
             PROVE  HeldCodeIsNewest' /\ StoredCodeWasCreated'
  OBVIOUS
<1> USE DEF OtpInv, OtpTypeOK
<1>0. otp # Nil => otp \in StoredOtp /\ otp.value \in Code /\ otp.expires \in Nat
                   /\ otp.value.serial \in Nat /\ otp.value.time \in Nat
  BY DEF StoredOtp, Code
<1>1. CASE Tick
  BY <1>0, <1>1 DEF Tick, HeldCodeIsNewest, StoredCodeWasCreated, IsLive
<1>2. ASSUME NEW c \in Creators, AcquireLock(c)
      PROVE  HeldCodeIsNewest' /\ StoredCodeWasCreated'
  BY <1>2 DEF AcquireLock, HeldCodeIsNewest, StoredCodeWasCreated, IsLive, Creator
<1>3. ASSUME NEW c \in Creators, CheckPrevious(c)
      PROVE  HeldCodeIsNewest' /\ StoredCodeWasCreated'
  <2>1. \A d \in Creators \ {c} : creators[d].pc \notin Holding /\ creators'[d] = creators[d]
    BY <1>3 DEF CheckPrevious, LockHeld, Holding
  <2>2. CASE IsTooYoung
    BY <1>3, <2>1, <2>2
       DEF CheckPrevious, HeldCodeIsNewest, StoredCodeWasCreated, IsLive, Creator, Holding
  <2>3. CASE ~ IsTooYoung
    <3>1. PICK code \in Codes :
            creators' = [creators EXCEPT
                           ![c].pc = "counting",
                           ![c].value = [serial |-> created + 1, code |-> code, time |-> now]]
      BY <1>3, <2>3 DEF CheckPrevious
    <3>2. [serial |-> created + 1, code |-> code, time |-> now] \in Code
      BY DEF Code
    <3>3. creators'[c].value = [serial |-> created + 1, code |-> code, time |-> now]
      BY <3>1 DEF Creator
    <3>4. otp' = otp /\ now' = now /\ created' = created + 1
      BY <1>3, <2>3 DEF CheckPrevious
    <3>5. IsLive(otp) => now > otp.value.time + Timeout
      BY <1>0, <2>3 DEF IsTooYoung, IsLive
    <3>6. StoredCodeWasCreated'
      BY <1>0, <3>4 DEF StoredCodeWasCreated
    <3>7. HeldCodeIsNewest'
      BY <1>0, <2>1, <3>2, <3>3, <3>4, <3>5
         DEF HeldCodeIsNewest, StoredCodeWasCreated, IsLive, Holding
    <3> QED
      BY <3>6, <3>7
  <2> QED
    BY <2>2, <2>3
<1>4. ASSUME NEW c \in Creators, ReplaceAttempts(c)
      PROVE  HeldCodeIsNewest' /\ StoredCodeWasCreated'
  BY <1>4 DEF ReplaceAttempts, HeldCodeIsNewest, StoredCodeWasCreated, IsLive, Creator
<1>5. ASSUME NEW c \in Creators, ReplaceOtp(c)
      PROVE  HeldCodeIsNewest' /\ StoredCodeWasCreated'
  <2>1. \A d \in Creators : creators'[d].pc \notin {"counting", "storing"}
    BY <1>5 DEF ReplaceOtp, LockHeld, Holding, Creator
  <2>2. otp'.value.serial = created /\ created' = created
    BY <1>5 DEF ReplaceOtp, HeldCodeIsNewest
  <2> QED
    BY <2>1, <2>2 DEF HeldCodeIsNewest, StoredCodeWasCreated
<1>6. ASSUME NEW c \in Creators, CreateThrows(c)
      PROVE  HeldCodeIsNewest' /\ StoredCodeWasCreated'
  BY <1>6 DEF CreateThrows, HeldCodeIsNewest, StoredCodeWasCreated, IsLive, Creator
<1>7. ASSUME NEW v \in Verifiers, DeleteKeys(v)
      PROVE  HeldCodeIsNewest' /\ StoredCodeWasCreated'
  BY <1>7 DEF DeleteKeys, HeldCodeIsNewest, StoredCodeWasCreated, IsLive
<1>8. CASE OtpCrash
  BY <1>8 DEF OtpCrash, HeldCodeIsNewest, StoredCodeWasCreated, IsLive, Creator, Holding
<1>9. CASE UNCHANGED <<now, otp, created, creators>>
  BY <1>9 DEF HeldCodeIsNewest, StoredCodeWasCreated, IsLive
<1> QED
  BY <1>1, <1>2, <1>3, <1>4, <1>5, <1>6, <1>7, <1>8, <1>9
     DEF OtpNext, otpVars, CreatorStep, VerifierStep, GetOtp, GetAttempts,
         IncrementAttempts, VerifyThrows

(* The lock is held by the one creator at work, whose code is the newest. *)
THEOREM OtpInvariant == OtpSpec => []OtpInv
<1>1. OtpInv /\ [OtpNext]_otpVars => OtpInv'
  BY OtpTypeStep, LockStep, HeldCodeStep DEF OtpInv
<1> QED
  BY <1>1, OtpInitInv, PTL DEF OtpSpec

(* Keys, handlers and lock of the one-time codes have their types. *)
THEOREM OtpTypes == OtpSpec => []OtpTypeOK
<1>1. OtpInv => OtpTypeOK
  BY DEF OtpInv
<1> QED
  BY <1>1, OtpInvariant, PTL

(* A live code is only replaced when it is older than the timeout: createOtp's check *)
(* of the previous code and its SETEX are one critical section.                      *)
THEOREM ThrottleTheorem == OtpSpec => CodesThrottled
<1> DEFINE Step == \A c \in Creators :
                     ReplaceOtp(c) /\ IsLive(otp) => otp'.value.time > otp.value.time + Timeout
<1>1. OtpInv => Step
  BY DEF OtpInv, HeldCodeIsNewest, ReplaceOtp
<1>2. OtpInv /\ [OtpNext]_otpVars => [Step]_otpVars
  BY <1>1
<1> QED
  BY <1>2, OtpInvariant, PTL DEF OtpSpec, CodesThrottled

(* The stored code is only ever replaced by one that was generated later. *)
THEOREM NewestTheorem == OtpSpec => NewestCodeStays
<1> DEFINE Step == otp # Nil /\ otp' # Nil => otp.value.serial <= otp'.value.serial
<1>1. OtpInv /\ [OtpNext]_otpVars => [Step]_otpVars
  <2> SUFFICES ASSUME OtpInv, [OtpNext]_otpVars, otp # Nil, otp' # Nil
               PROVE  otp.value.serial <= otp'.value.serial
    OBVIOUS
  <2>1. otp.value.serial \in Nat /\ created \in Nat
    BY DEF OtpInv, OtpTypeOK, StoredOtp, Code
  <2>2. ASSUME NEW c \in Creators, ReplaceOtp(c)
        PROVE  otp.value.serial <= otp'.value.serial
    BY <2>1, <2>2 DEF ReplaceOtp, OtpInv, HeldCodeIsNewest
  <2>3. ASSUME NEW v \in Verifiers, DeleteKeys(v)
        PROVE  FALSE
    BY <2>3 DEF DeleteKeys
  <2>4. CASE otp' = otp
    BY <2>1, <2>4
  <2> QED
    BY <2>2, <2>3, <2>4
       DEF OtpNext, otpVars, CreatorStep, VerifierStep, Tick, AcquireLock, CheckPrevious,
           ReplaceAttempts, CreateThrows, GetOtp, GetAttempts, IncrementAttempts, VerifyThrows,
           OtpCrash
<1> QED
  BY <1>1, OtpInvariant, PTL DEF OtpSpec, NewestCodeStays
-----------------------------------------------------------------------------
(* What verifyOtp, which takes no lock, knows about the code it has read: the code *)
(* is older than one that createOtp is about to store; once it was accepted, it is *)
(* older than the one that is stored.                                              *)
HasCode == Verifying \cup {"accepted", "wrong"}

WorksOnCode(c) == creators[c].pc \in {"counting", "storing"}

VerifiedCodes ==
  \A v \in Verifiers :
    /\ verifiers[v].pc \in HasCode => verifiers[v].value # Nil
    /\ verifiers[v].value # Nil =>
         /\ verifiers[v].value.serial <= created
         /\ \A c \in Creators : WorksOnCode(c) => verifiers[v].value.serial < created

AcceptedCodesAreOlder ==
  \A v \in Verifiers :
    verifiers[v].pc = "accepted" /\ otp # Nil => verifiers[v].value.serial < otp.value.serial

(* A step of the one-time codes, or one of their users that leaves them alone. *)
CodeStep == OtpNext \/ UNCHANGED <<now, otp, attempts, created, creators, verifiers>>

LEMMA StoredCode ==
  ASSUME OtpTypeOK, otp # Nil
  PROVE  /\ otp.value \in Code /\ otp.expires \in Nat
         /\ otp.value.serial \in Nat /\ otp.value # Nil
  BY DEF OtpTypeOK, StoredOtp, Code

LEMMA ReadCode ==
  ASSUME OtpTypeOK, NEW v \in Verifiers, verifiers[v].value # Nil
  PROVE  verifiers[v].value \in Code /\ verifiers[v].value.serial \in Nat
  BY DEF OtpTypeOK, Verifier, Code

(* A handler of verifyOtp begins with its read, then keeps the code that it has read; *)
(* the DEL is its only way to be accepted.                                            *)
LEMMA VerifierChanges ==
  ASSUME OtpTypeOK, CodeStep, NEW v \in Verifiers, verifiers'[v] # verifiers[v]
  PROVE  \/ /\ verifiers[v].pc = "idle"
            /\ verifiers'[v].pc = IF IsLive(otp) THEN "reading" ELSE "rejected"
            /\ verifiers'[v].value = IF IsLive(otp) THEN otp.value ELSE Nil
            /\ created' = created /\ creators' = creators /\ otp' = otp /\ attempts' = attempts
         \/ /\ verifiers[v].pc \in Verifying
            /\ verifiers'[v].value = verifiers[v].value
            /\ verifiers'[v].pc = "accepted" => DeleteKeys(v)
            /\ verifiers'[v].pc \in {"deleting", "wrong"} => IncrementAttempts(v)
<1> USE DEF OtpTypeOK
<1>1. ASSUME NEW v2 \in Verifiers, NEW code \in Codes, GetOtp(v2, code)
      PROVE  /\ v2 = v
             /\ verifiers[v].pc = "idle"
             /\ verifiers'[v].pc = IF IsLive(otp) THEN "reading" ELSE "rejected"
             /\ verifiers'[v].value = IF IsLive(otp) THEN otp.value ELSE Nil
             /\ created' = created /\ creators' = creators /\ otp' = otp /\ attempts' = attempts
  BY <1>1 DEF GetOtp
<1>2. ASSUME NEW v2 \in Verifiers, VerifierStep(v2) \/ VerifyThrows(v2)
      PROVE  /\ v2 = v
             /\ verifiers[v].pc \in Verifying
             /\ \E pc \in Verifying \cup {"accepted", "wrong", "rejected"} :
                  /\ verifiers'[v] = [verifiers[v] EXCEPT !.pc = pc]
                  /\ pc = "accepted" => DeleteKeys(v)
                  /\ pc \in {"deleting", "wrong"} => IncrementAttempts(v)
  <2>1. CASE GetAttempts(v2)
    BY <2>1 DEF GetAttempts, Verifying
  <2>2. CASE IncrementAttempts(v2)
    <3>1. PICK pc \in {"rejected", "deleting", "wrong"} :
            verifiers' = [verifiers EXCEPT ![v2].pc = pc]
      BY <2>2 DEF IncrementAttempts
    <3> QED
      BY <2>2, <3>1 DEF IncrementAttempts, Verifying
  <2>3. CASE DeleteKeys(v2)
    <3>1. v2 = v /\ verifiers[v].pc = "deleting"
      BY <2>3 DEF DeleteKeys
    <3>2. verifiers'[v] = [verifiers[v] EXCEPT !.pc = "accepted"]
      BY <2>3, <3>1 DEF DeleteKeys
    <3> QED
      BY <2>3, <3>1, <3>2 DEF Verifying
  <2>4. CASE VerifyThrows(v2)
    BY <2>4 DEF VerifyThrows
  <2> QED
    BY <1>2, <2>1, <2>2, <2>3, <2>4 DEF VerifierStep
<1>3. ASSUME NEW pc \in Verifying \cup {"accepted", "wrong", "rejected"},
             verifiers'[v] = [verifiers[v] EXCEPT !.pc = pc]
      PROVE  verifiers'[v].pc = pc /\ verifiers'[v].value = verifiers[v].value
  BY <1>3, VerifierMoves
<1>4. CASE \E v2 \in Verifiers : VerifierStep(v2) \/ VerifyThrows(v2)
  BY <1>2, <1>3, <1>4
<1>5. CASE OtpCrash
  <2>1. /\ verifiers[v].pc \in Verifying
        /\ verifiers'[v] = [verifiers[v] EXCEPT !.pc = "rejected"]
    BY <1>5 DEF OtpCrash
  <2> QED
    BY <1>3, <2>1
<1>6. CASE UNCHANGED verifiers
  BY <1>6
<1> QED
  BY <1>1, <1>4, <1>5, <1>6
     DEF CodeStep, OtpNext, CreatorStep, Tick, AcquireLock, CheckPrevious, ReplaceAttempts,
         ReplaceOtp, CreateThrows

(* Only createOtp's check of the previous code makes a new serial number. *)
LEMMA CreatedChanges ==
  ASSUME OtpTypeOK, CodeStep
  PROVE  \/ created' = created + 1 /\ UNCHANGED <<verifiers, otp, attempts>>
         \/ /\ created' = created
            /\ \A c \in Creators : WorksOnCode(c)' => WorksOnCode(c)
<1> USE DEF OtpTypeOK, WorksOnCode
<1>1. ASSUME NEW c \in Creators, CheckPrevious(c), created' # created
      PROVE  created' = created + 1 /\ UNCHANGED <<verifiers, otp, attempts>>
  BY <1>1 DEF CheckPrevious
<1>2. ASSUME NEW c \in Creators, NEW pc \in {"checking", "rejected", "storing", "created"},
             creators' = [creators EXCEPT ![c].pc = pc],
             pc = "storing" => creators[c].pc = "counting"
      PROVE  \A c2 \in Creators : WorksOnCode(c2)' => WorksOnCode(c2)
  <2>1. [creators[c] EXCEPT !.pc = pc].pc = pc
    BY DEF Creator
  <2> QED
    BY <1>2, <2>1
<1>3. ASSUME NEW c \in Creators,
             \/ AcquireLock(c) \/ ReplaceAttempts(c) \/ ReplaceOtp(c) \/ CreateThrows(c)
             \/ CheckPrevious(c) /\ created' = created
      PROVE  /\ created' = created
             /\ \E pc \in {"checking", "rejected", "storing", "created"} :
                  /\ creators' = [creators EXCEPT ![c].pc = pc]
                  /\ pc = "storing" => creators[c].pc = "counting"
  <2>1. CASE AcquireLock(c)
    BY <2>1 DEF AcquireLock
  <2>2. CASE ReplaceAttempts(c)
    BY <2>2 DEF ReplaceAttempts
  <2>3. CASE ReplaceOtp(c)
    BY <2>3 DEF ReplaceOtp
  <2>4. CASE CreateThrows(c)
    BY <2>4 DEF CreateThrows
  <2>5. CASE CheckPrevious(c) /\ created' = created
    <3>1. created' # created + 1
      BY <2>5
    <3> QED
      BY <2>5, <3>1 DEF CheckPrevious
  <2> QED
    BY <1>3, <2>1, <2>2, <2>3, <2>4, <2>5
<1>4. CASE OtpCrash
  <2>1. \A c \in Creators : [creators[c] EXCEPT !.pc = "rejected"].pc = "rejected"
    BY DEF Creator
  <2> QED
    BY <1>4, <2>1 DEF OtpCrash
<1>5. CASE created' = created /\ creators' = creators
  BY <1>5
<1> QED
  BY <1>1, <1>2, <1>3, <1>4, <1>5
     DEF CodeStep, OtpNext, CreatorStep, VerifierStep, Tick, GetOtp, GetAttempts,
         IncrementAttempts, DeleteKeys, VerifyThrows

LEMMA VerifiedCodesStep ==
  ASSUME OtpInv, VerifiedCodes, CodeStep
  PROVE  VerifiedCodes'
<1> USE DEF OtpInv
<1>0. created \in Nat
  BY DEF OtpTypeOK
<1> SUFFICES ASSUME NEW v \in Verifiers
             PROVE  /\ verifiers'[v].pc \in HasCode => verifiers'[v].value # Nil
                    /\ verifiers'[v].value # Nil =>
                         /\ verifiers'[v].value.serial <= created'
                         /\ \A c \in Creators :
                              WorksOnCode(c)' => verifiers'[v].value.serial < created'
  BY DEF VerifiedCodes
<1>1. CASE created' = created + 1 /\ UNCHANGED <<verifiers, otp, attempts>>
  BY <1>0, <1>1, ReadCode DEF VerifiedCodes
<1>2. CASE /\ created' = created
           /\ \A c \in Creators : WorksOnCode(c)' => WorksOnCode(c)
  <2>1. CASE verifiers'[v] = verifiers[v]
    BY <1>2, <2>1 DEF VerifiedCodes
  <2>2. CASE /\ verifiers'[v].pc = IF IsLive(otp) THEN "reading" ELSE "rejected"
             /\ verifiers'[v].value = IF IsLive(otp) THEN otp.value ELSE Nil
    <3>1. CASE IsLive(otp)
      BY <1>2, <2>2, <3>1, StoredCode
         DEF IsLive, StoredCodeWasCreated, HeldCodeIsNewest, WorksOnCode
    <3>2. CASE ~ IsLive(otp)
      BY <2>2, <3>2 DEF HasCode, Verifying
    <3> QED
      BY <3>1, <3>2
  <2>3. CASE verifiers[v].pc \in Verifying /\ verifiers'[v].value = verifiers[v].value
    BY <1>2, <2>3 DEF VerifiedCodes, HasCode
  <2> QED
    BY <2>1, <2>2, <2>3, VerifierChanges
<1> QED
  BY <1>1, <1>2, CreatedChanges

(* The stored code changes when a newer one takes its place, or is deleted. *)
LEMMA OtpChanges ==
  ASSUME OtpInv, CodeStep, otp' # otp
  PROVE  \/ otp' = Nil /\ attempts' = Nil
         \/ \E c \in Creators : /\ ReplaceOtp(c)
                                /\ WorksOnCode(c)
                                /\ otp'.value.serial = created
                                /\ otp'.expires = now + Ttl
<1>1. ASSUME NEW c \in Creators, ReplaceOtp(c)
      PROVE  WorksOnCode(c) /\ otp'.value.serial = created /\ otp'.expires = now + Ttl
  BY <1>1 DEF ReplaceOtp, OtpInv, HeldCodeIsNewest, WorksOnCode
<1>2. ASSUME NEW v \in Verifiers, DeleteKeys(v)
      PROVE  otp' = Nil /\ attempts' = Nil
  BY <1>2 DEF DeleteKeys
<1> QED
  BY <1>1, <1>2
     DEF CodeStep, OtpNext, CreatorStep, VerifierStep, Tick, AcquireLock, CheckPrevious,
         ReplaceAttempts, CreateThrows, GetOtp, GetAttempts, IncrementAttempts, VerifyThrows,
         OtpCrash

LEMMA AcceptedCodesStep ==
  ASSUME OtpInv, VerifiedCodes, AcceptedCodesAreOlder, CodeStep
  PROVE  AcceptedCodesAreOlder'
<1> SUFFICES ASSUME NEW v \in Verifiers, verifiers'[v].pc = "accepted", otp' # Nil
             PROVE  verifiers'[v].value.serial < otp'.value.serial
  BY DEF AcceptedCodesAreOlder
<1>1. verifiers'[v] = verifiers[v]
  <2>1. ~ DeleteKeys(v)
    BY DEF DeleteKeys
  <2> QED
    BY <2>1, VerifierChanges DEF OtpInv
<1>2. CASE otp' = otp
  BY <1>1, <1>2 DEF AcceptedCodesAreOlder
<1>3. ASSUME NEW c \in Creators, WorksOnCode(c), otp'.value.serial = created
      PROVE  verifiers'[v].value.serial < otp'.value.serial
  BY <1>1, <1>3 DEF VerifiedCodes, HasCode
<1> QED
  BY <1>2, <1>3, OtpChanges
-----------------------------------------------------------------------------
(* The attempts: createOtp sets their counter to live longer than the code that it  *)
(* stores next, and only a DEL takes the counter away.                              *)
Storing(c) == creators[c].pc = "storing"

CounterOutlivesCode ==
  /\ otp # Nil => otp.expires <= now + Ttl
  /\ attempts # Nil /\ attempts.expires # Nil =>
       /\ otp # Nil => otp.expires < attempts.expires
       /\ \A c \in Creators : Storing(c) => now + Ttl < attempts.expires

CounterDeletedByVerifier ==
  attempts = Nil /\ (otp # Nil \/ \E c \in Creators : Storing(c)) =>
    \E v \in Verifiers : verifiers[v].pc = "accepted"

(* A creator comes to its second SETEX with the first, and no time passes in between. *)
LEMMA StoringBegins ==
  ASSUME OtpTypeOK, CodeStep, NEW c \in Creators, Storing(c)'
  PROVE  ReplaceAttempts(c) \/ (Storing(c) /\ now' = now)
<1> USE DEF OtpTypeOK, Storing
<1>1. ASSUME NEW c2 \in Creators, ReplaceAttempts(c2)
      PROVE  ReplaceAttempts(c) \/ (Storing(c) /\ now' = now)
  BY <1>1 DEF ReplaceAttempts
<1>2. ASSUME NEW c2 \in Creators, AcquireLock(c2) \/ CheckPrevious(c2) \/ ReplaceOtp(c2)
                                  \/ CreateThrows(c2)
      PROVE  Storing(c) /\ now' = now
  <2>1. now' = now /\ \A c3 \in Creators \ {c2} : creators'[c3] = creators[c3]
    BY <1>2 DEF AcquireLock, CheckPrevious, ReplaceOtp, CreateThrows
  <2>2. ~ Storing(c2)'
    BY <1>2 DEF AcquireLock, CheckPrevious, ReplaceOtp, CreateThrows, Creator
  <2> QED
    BY <2>1, <2>2
<1>3. CASE OtpCrash
  <2>1. \A c2 \in Creators : [creators[c2] EXCEPT !.pc = "rejected"].pc = "rejected"
    BY DEF Creator
  <2> QED
    BY <1>3, <2>1 DEF OtpCrash
<1>4. CASE Tick
  BY <1>4 DEF Tick
<1>5. CASE creators' = creators /\ now' = now
  BY <1>5
<1> QED
  BY <1>1, <1>2, <1>3, <1>4, <1>5
     DEF CodeStep, OtpNext, CreatorStep, VerifierStep, GetOtp, GetAttempts, IncrementAttempts,
         DeleteKeys, VerifyThrows

(* The counter is set to 0, incremented or deleted. *)
LEMMA AttemptsChanges ==
  ASSUME OtpTypeOK, CodeStep, attempts' # attempts
  PROVE  \/ /\ attempts' = [count |-> 0, expires |-> now + Ttl + Slack]
            /\ \E c \in Creators : ReplaceAttempts(c)
         \/ /\ attempts' = Incremented
            /\ \E v \in Verifiers : IncrementAttempts(v)
         \/ /\ attempts' = Nil /\ otp' = Nil
            /\ \E v \in Verifiers : DeleteKeys(v)
<1>1. ASSUME NEW c \in Creators, ReplaceAttempts(c)
      PROVE  attempts' = [count |-> 0, expires |-> now + Ttl + Slack]
  BY <1>1 DEF ReplaceAttempts
<1>2. ASSUME NEW v \in Verifiers, IncrementAttempts(v)
      PROVE  attempts' = Incremented
  BY <1>2 DEF IncrementAttempts
<1>3. ASSUME NEW v \in Verifiers, DeleteKeys(v)
      PROVE  attempts' = Nil /\ otp' = Nil
  BY <1>3 DEF DeleteKeys
<1> QED
  BY <1>1, <1>2, <1>3
     DEF CodeStep, OtpNext, CreatorStep, VerifierStep, Tick, AcquireLock, CheckPrevious,
         ReplaceOtp, CreateThrows, GetOtp, GetAttempts, VerifyThrows, OtpCrash

LEMMA CounterTypes ==
  ASSUME OtpTypeOK
  PROVE  /\ attempts # Nil => attempts.count \in Nat /\ attempts.expires \in Nat \cup {Nil}
         /\ Incremented \in Counter /\ Incremented # Nil
         /\ Incremented.expires # Nil => /\ IsLive(attempts)
                                         /\ attempts.expires # Nil
                                         /\ Incremented.expires = attempts.expires
                                         /\ Incremented.count = attempts.count + 1
<1>1. Incremented \in Counter
  BY DEF OtpTypeOK, Incremented, Counter, IsLive
<1>2. Incremented # Nil
  BY <1>1
<1>3. ASSUME Incremented.expires # Nil
      PROVE  IsLive(attempts)
  BY <1>3 DEF Incremented
<1>4. ASSUME IsLive(attempts)
      PROVE  Incremented.expires = attempts.expires /\ Incremented.count = attempts.count + 1
  BY <1>4 DEF OtpTypeOK, Incremented, Counter, IsLive
<1>5. attempts # Nil => attempts.count \in Nat /\ attempts.expires \in Nat \cup {Nil}
  BY DEF OtpTypeOK, Counter
<1> QED
  BY <1>1, <1>2, <1>3, <1>4, <1>5

LEMMA CounterOutlivesStep ==
  ASSUME OtpInv, CounterOutlivesCode, CodeStep
  PROVE  CounterOutlivesCode'
<1>0. OtpTypeOK /\ now \in Nat /\ now' \in Nat /\ now <= now'
  <2>1. OtpTypeOK /\ now \in Nat
    BY DEF OtpInv, OtpTypeOK
  <2>2. now' = now \/ now' = now + 1
    BY DEF CodeStep, OtpNext, CreatorStep, VerifierStep, Tick, AcquireLock, CheckPrevious,
           ReplaceAttempts, ReplaceOtp, CreateThrows, GetOtp, GetAttempts, IncrementAttempts,
           DeleteKeys, VerifyThrows, OtpCrash
  <2> QED
    BY <2>1, <2>2
<1>1. /\ otp # Nil => otp.expires \in Nat /\ otp.expires <= now + Ttl
      /\ attempts # Nil => attempts.expires \in Nat \cup {Nil}
  BY <1>0, StoredCode, CounterTypes DEF CounterOutlivesCode
<1>2. ASSUME otp' # Nil
      PROVE  \/ otp' = otp
             \/ otp'.expires = now + Ttl /\ \E c \in Creators : ReplaceOtp(c)
  BY <1>2, OtpChanges
<1>3. otp' # Nil => otp'.expires <= now' + Ttl
  BY <1>0, <1>1, <1>2
<1>4. ASSUME NEW c \in Creators, ReplaceAttempts(c)
      PROVE  /\ otp' = otp /\ now' = now
             /\ attempts'.expires = now + Ttl + Slack
             /\ now + Ttl < attempts'.expires
  BY <1>0, <1>4 DEF ReplaceAttempts
<1>5. ASSUME NEW v \in Verifiers, IncrementAttempts(v), attempts'.expires # Nil
      PROVE  /\ otp' = otp
             /\ attempts # Nil
             /\ attempts.expires # Nil
             /\ attempts'.expires = attempts.expires
  BY <1>0, <1>5, CounterTypes DEF IncrementAttempts, IsLive
<1>6. ASSUME attempts' # Nil, attempts'.expires # Nil
      PROVE  \/ /\ attempts # Nil
                /\ attempts.expires # Nil
                /\ attempts'.expires = attempts.expires
             \/ \E c \in Creators : ReplaceAttempts(c)
  BY <1>0, <1>5, <1>6, AttemptsChanges
<1>7. ASSUME attempts' # Nil, attempts'.expires # Nil, otp' # Nil
      PROVE  otp'.expires < attempts'.expires
  <2>1. CASE \E c \in Creators : ReplaceAttempts(c)
    BY <1>0, <1>1, <1>4, <1>7, <2>1
  <2>2. CASE /\ attempts # Nil
             /\ attempts.expires # Nil
             /\ attempts'.expires = attempts.expires
    <3>1. ASSUME NEW c \in Creators, ReplaceOtp(c)
          PROVE  now + Ttl < attempts.expires
      BY <2>2, <3>1 DEF ReplaceOtp, Storing, CounterOutlivesCode
    <3> QED
      BY <1>2, <1>7, <2>2, <3>1 DEF CounterOutlivesCode
  <2> QED
    BY <1>6, <1>7, <2>1, <2>2
<1>8. ASSUME attempts' # Nil, attempts'.expires # Nil, NEW c \in Creators, Storing(c)'
      PROVE  now' + Ttl < attempts'.expires
  <2>1. CASE \E c2 \in Creators : ReplaceAttempts(c2)
    BY <1>4, <2>1
  <2>2. CASE /\ attempts # Nil
             /\ attempts.expires # Nil
             /\ attempts'.expires = attempts.expires
             /\ ~ ReplaceAttempts(c)
    BY <1>0, <1>8, <2>2, StoringBegins DEF CounterOutlivesCode
  <2> QED
    BY <1>6, <1>8, <2>1, <2>2
<1> QED
  BY <1>3, <1>7, <1>8 DEF CounterOutlivesCode

(* Who was accepted stays so. *)
LEMMA AcceptedStays ==
  ASSUME OtpTypeOK, CodeStep, NEW v \in Verifiers, verifiers[v].pc = "accepted"
  PROVE  verifiers'[v].pc = "accepted"
  BY VerifierChanges DEF Verifying

LEMMA CounterDeletedStep ==
  ASSUME OtpInv, CounterDeletedByVerifier, CodeStep
  PROVE  CounterDeletedByVerifier'
<1>0. OtpTypeOK
  BY DEF OtpInv
<1> SUFFICES ASSUME attempts' = Nil, otp' # Nil \/ \E c \in Creators : Storing(c)'
             PROVE  \E v \in Verifiers : verifiers'[v].pc = "accepted"
  BY DEF CounterDeletedByVerifier
<1>1. ASSUME NEW c \in Creators
      PROVE  ~ ReplaceAttempts(c)
  <2>1. [count |-> 0, expires |-> now + Ttl + Slack] \in Counter
    BY <1>0 DEF OtpTypeOK, Counter
  <2> QED
    BY <2>1 DEF ReplaceAttempts
<1>2. CASE attempts = Nil
  <2>1. otp # Nil \/ \E c \in Creators : Storing(c)
    <3>1. ASSUME NEW c \in Creators, ReplaceOtp(c)
          PROVE  Storing(c)
      BY <3>1 DEF ReplaceOtp, Storing
    <3> QED
      BY <1>0, <1>1, <3>1, OtpChanges, StoringBegins
  <2> QED
    BY <1>0, <1>2, <2>1, AcceptedStays DEF CounterDeletedByVerifier
<1>3. CASE attempts # Nil
  <2>1. PICK v \in Verifiers : DeleteKeys(v)
    BY <1>0, <1>1, <1>3, AttemptsChanges, CounterTypes
  <2>2. verifiers'[v].pc = "accepted"
    BY <1>0, <2>1, VerifierMoves DEF DeleteKeys, OtpTypeOK
  <2> QED
    BY <2>2
<1> QED
  BY <1>2, <1>3
-----------------------------------------------------------------------------
(* The comparisons: each one with the newest code was counted by an INCR of the      *)
(* counter that was set for it, and only made while the count was within the limit.  *)
Compared ==
  {v \in Verifiers : /\ verifiers[v].pc \in {"deleting", "wrong"}
                     /\ verifiers[v].value.serial = created}

ComparedCounted ==
  /\ IsFiniteSet(Compared)
  /\ attempts # Nil /\ attempts.expires # Nil =>
       /\ Cardinality(Compared) <= attempts.count
       /\ Cardinality(Compared) <= MaxAttempts

(* A step adds to the comparisons the one verifier that was just counted, at most. *)
LEMMA ComparedChanges ==
  ASSUME OtpInv, VerifiedCodes, CodeStep
  PROVE  \/ Compared' = {} /\ attempts' = attempts
         \/ Compared' \subseteq Compared
         \/ /\ Incremented.count <= MaxAttempts
            /\ \E v \in Verifiers : IncrementAttempts(v) /\ Compared' \subseteq Compared \cup {v}
<1>0. OtpTypeOK /\ created \in Nat
  BY DEF OtpInv, OtpTypeOK
<1>1. CASE created' = created + 1 /\ UNCHANGED <<verifiers, otp, attempts>>
  <2>1. ASSUME NEW v \in Verifiers, verifiers[v].pc \in {"deleting", "wrong"}
        PROVE  verifiers[v].value.serial # created + 1
    BY <1>0, <2>1, ReadCode DEF VerifiedCodes, HasCode, Verifying
  <2> QED
    BY <1>1, <2>1 DEF Compared
<1>2. CASE created' = created
  <2>1. ASSUME NEW v \in Verifiers, v \in Compared', v \notin Compared
        PROVE  IncrementAttempts(v)
    <3>1. verifiers'[v] # verifiers[v] /\ verifiers'[v].pc \in {"deleting", "wrong"}
      BY <1>2, <2>1 DEF Compared
    <3> QED
      BY <1>0, <3>1, VerifierChanges
  <2>2. ASSUME NEW v \in Verifiers, IncrementAttempts(v), v \in Compared', v \notin Compared
        PROVE  /\ Incremented.count <= MaxAttempts
               /\ Compared' \subseteq Compared \cup {v}
    <3>1. verifiers'[v].pc # "rejected"
      BY <2>2 DEF Compared
    <3>2. Incremented.count \in Nat
      BY <1>0, CounterTypes DEF Counter
    <3>3. ~ (Incremented.count > MaxAttempts)
      BY <1>0, <2>2, <3>1 DEF IncrementAttempts, OtpTypeOK, Verifier
    <3>4. \A v2 \in Verifiers \ {v} : verifiers'[v2] = verifiers[v2]
      BY <1>0, <2>2 DEF IncrementAttempts, OtpTypeOK
    <3>5. Compared' \subseteq Compared \cup {v}
      BY <1>2, <3>4 DEF Compared
    <3> QED
      BY <3>2, <3>3, <3>5
  <2>3. \A v \in Compared' : v \in Verifiers
    BY DEF Compared
  <2> QED
    BY <2>1, <2>2, <2>3
<1> QED
  BY <1>0, <1>1, <1>2, CreatedChanges

LEMMA ComparedCountedStep ==
  ASSUME OtpInv, VerifiedCodes, ComparedCounted, CodeStep
  PROVE  ComparedCounted'
<1>0. /\ OtpTypeOK
      /\ IsFiniteSet(Compared)
      /\ Cardinality(Compared) \in Nat
      /\ MaxAttempts \in Nat \ {0}
  BY FS_CardinalityType DEF OtpInv, ComparedCounted
<1>1. ASSUME NEW S, S \subseteq Compared
      PROVE  /\ IsFiniteSet(S)
             /\ Cardinality(S) \in Nat
             /\ Cardinality(S) <= Cardinality(Compared)
  BY <1>0, <1>1, FS_Subset, FS_CardinalityType
<1>2. ASSUME NEW S, NEW v, S \subseteq Compared \cup {v}
      PROVE  /\ IsFiniteSet(S)
             /\ Cardinality(S) \in Nat
             /\ Cardinality(S) <= Cardinality(Compared) + 1
  <2>1. /\ IsFiniteSet(Compared \cup {v})
        /\ Cardinality(Compared \cup {v}) <= Cardinality(Compared) + 1
        /\ Cardinality(Compared \cup {v}) \in Nat
    <3>1. /\ IsFiniteSet(Compared \cup {v})
          /\ \/ Cardinality(Compared \cup {v}) = Cardinality(Compared)
             \/ Cardinality(Compared \cup {v}) = Cardinality(Compared) + 1
      BY <1>0, FS_AddElement, Zenon
    <3> QED
      BY <1>0, <3>1
  <2>2. /\ IsFiniteSet(S)
        /\ Cardinality(S) <= Cardinality(Compared \cup {v})
        /\ Cardinality(S) \in Nat
    BY <1>2, <2>1, FS_Subset, FS_CardinalityType
  <2> QED
    BY <1>0, <2>1, <2>2
<1>3. CASE Compared' = {} /\ attempts' = attempts
  BY <1>0, <1>3, CounterTypes, FS_EmptySet DEF ComparedCounted
<1>4. ASSUME NEW v \in Verifiers, IncrementAttempts(v),
             \/ Compared' \subseteq Compared
             \/ /\ Incremented.count <= MaxAttempts
                /\ Compared' \subseteq Compared \cup {v}
      PROVE  ComparedCounted'
  <2>1. attempts' = Incremented
    BY <1>4 DEF IncrementAttempts
  <2>2. IsFiniteSet(Compared')
    BY <1>1, <1>2, <1>4
  <2>3. ASSUME attempts' # Nil, attempts'.expires # Nil
        PROVE  /\ Cardinality(Compared') <= attempts'.count
               /\ Cardinality(Compared') <= MaxAttempts
    <3>1. /\ attempts # Nil /\ attempts.expires # Nil
          /\ attempts.count \in Nat
          /\ attempts'.count = attempts.count + 1
      BY <1>0, <2>1, <2>3, CounterTypes DEF IsLive
    <3>2. /\ Cardinality(Compared) <= attempts.count
          /\ Cardinality(Compared) <= MaxAttempts
      BY <3>1 DEF ComparedCounted
    <3>3. CASE Compared' \subseteq Compared
      BY <1>0, <1>1, <3>1, <3>2, <3>3
    <3>4. CASE Incremented.count <= MaxAttempts /\ Compared' \subseteq Compared \cup {v}
      BY <1>0, <1>2, <2>1, <3>1, <3>2, <3>4
    <3> QED
      BY <1>4, <3>3, <3>4
  <2> QED
    BY <2>2, <2>3 DEF ComparedCounted
<1>5. CASE Compared' \subseteq Compared /\ ~ \E v \in Verifiers : IncrementAttempts(v)
  <2>1. IsFiniteSet(Compared') /\ Cardinality(Compared') \in Nat
        /\ Cardinality(Compared') <= Cardinality(Compared)
    BY <1>1, <1>5
  <2>2. CASE attempts' = attempts
    BY <1>0, <2>1, <2>2, CounterTypes DEF ComparedCounted
  <2>3. ASSUME NEW c \in Creators, ReplaceAttempts(c)
        PROVE  ComparedCounted'
    <3>1. WorksOnCode(c) /\ attempts' = [count |-> 0, expires |-> now + Ttl + Slack]
      BY <2>3 DEF ReplaceAttempts, WorksOnCode
    <3>2. created \in Nat /\ \A v \in Verifiers :
            verifiers[v].pc \in {"deleting", "wrong"} => verifiers[v].value.serial < created
                                                         /\ verifiers[v].value.serial \in Nat
      BY <1>0, <3>1, ReadCode DEF VerifiedCodes, HasCode, Verifying, OtpTypeOK
    <3>3. Compared = {}
      BY <3>2 DEF Compared
    <3>4. Compared' = {}
      BY <1>5, <3>3
    <3> QED
      BY <1>0, <3>1, <3>4, FS_EmptySet DEF ComparedCounted
  <2>4. CASE attempts' = Nil
    BY <2>1, <2>4 DEF ComparedCounted
  <2> QED
    BY <1>0, <1>5, <2>2, <2>3, <2>4, AttemptsChanges
<1> QED
  BY <1>3, <1>4, <1>5, ComparedChanges
-----------------------------------------------------------------------------
(* What holds of verifyOtp's handlers and their attempts, besides OtpInv. *)
VerificationInv ==
  /\ VerifiedCodes
  /\ AcceptedCodesAreOlder
  /\ CounterOutlivesCode
  /\ CounterDeletedByVerifier
  /\ ComparedCounted

LEMMA InitVerification == OtpInit => VerificationInv
<1> SUFFICES ASSUME OtpInit PROVE VerificationInv
  OBVIOUS
<1>1. VerifiedCodes /\ AcceptedCodesAreOlder
  BY DEF OtpInit, VerifiedCodes, AcceptedCodesAreOlder, HasCode, Verifying
<1>2. CounterOutlivesCode /\ CounterDeletedByVerifier
  BY DEF OtpInit, CounterOutlivesCode, CounterDeletedByVerifier, Storing
<1>3. Compared = {} /\ attempts = Nil
  BY DEF OtpInit, Compared
<1>4. ComparedCounted
  BY <1>3, FS_EmptySet DEF ComparedCounted
<1> QED
  BY <1>1, <1>2, <1>4 DEF VerificationInv

LEMMA VerificationStep ==
  ASSUME OtpInv, VerificationInv, CodeStep
  PROVE  VerificationInv'
  BY VerifiedCodesStep, AcceptedCodesStep, CounterOutlivesStep, CounterDeletedStep,
     ComparedCountedStep DEF VerificationInv

(* VerificationInv holds however createOtp's and verifyOtp's commands interleave. *)
THEOREM VerificationInvariant == OtpSpec => []VerificationInv
<1>1. OtpInv /\ VerificationInv /\ [OtpNext]_otpVars => VerificationInv'
  BY VerificationStep DEF CodeStep, otpVars
<1> QED
  BY <1>1, InitVerification, OtpInvariant, PTL DEF OtpSpec

(* A code is not compared with more guesses than OTP_MAX_ATTEMPTS, for any number of *)
(* verifyOtp handlers that all read the same number of attempts before the first INCR. *)
THEOREM AttemptsLimitedTheorem == OtpSpec => []AttemptsLimited
<1>1. VerificationInv => AttemptsLimited
  BY DEF VerificationInv, ComparedCounted, AttemptsLimited, IsLive, Compared
<1> QED
  BY <1>1, VerificationInvariant, PTL

(* A live code has its counter, unless the DEL of a handler that was accepted with an *)
(* older code came between createOtp's two SETEX: no expiry, fault or crash does it.   *)
THEOREM CountersLostTheorem == OtpSpec => []CountersLostToOlderCodes
<1>1. OtpInv /\ VerificationInv => CountersLostToOlderCodes
  <2> SUFFICES ASSUME OtpInv, VerificationInv, IsLive(otp), ~ IsLive(attempts)
               PROVE  \E v \in Verifiers : /\ verifiers[v].pc = "accepted"
                                           /\ verifiers[v].value.serial < otp.value.serial
    BY DEF CountersLostToOlderCodes
  <2>1. otp # Nil /\ otp.expires \in Nat /\ now < otp.expires /\ now \in Nat
    BY StoredCode DEF IsLive, OtpInv, OtpTypeOK
  <2>2. attempts = Nil
    BY <2>1, CounterTypes DEF IsLive, VerificationInv, CounterOutlivesCode, OtpInv
  <2> QED
    BY <2>1, <2>2 DEF VerificationInv, CounterDeletedByVerifier, AcceptedCodesAreOlder
<1> QED
  BY <1>1, OtpInvariant, VerificationInvariant, PTL

-----------------------------------------------------------------------------
(* Logging in, the theorems of LoginSpec. *)

USE TokenTimesAssumption, NilTokenAssumption

LEMMA LoginInitInv == LoginInit => LoginInv
<1> SUFFICES ASSUME LoginInit PROVE LoginInv
  OBVIOUS
<1>1. OtpInv
  BY OtpInitInv DEF LoginInit
<1> QED
  BY <1>1 DEF LoginInit, LoginInv, OtpInv, LoginTypeOK, OneUser, SigningLoginsHaveUsers,
          RefreshersAskedBefore, AccessIssuedBefore, AccessEnds, LoginHandler, Refresher

(* A login or a refresh leaves the one-time codes to Otp. *)
LEMMA OtpStepOfLogin == [LoginNext]_loginVars /\ ~ (\E v \in Verifiers : LoginThrows(v))
                          => [OtpNext]_otpVars
BY DEF LoginNext, loginVars, OtpNext, OtpStep, LoginTick, LoginCrash, FindUser, InsertUser,
       CreateToken, Logout, DeleteRefreshToken, DeactivateToken, FindToken, PopulateUser,
       SignAccessToken

LEMMA OtpInvOfLogin == LoginInv /\ [LoginNext]_loginVars => OtpInv'
<1> SUFFICES ASSUME LoginInv, [LoginNext]_loginVars
             PROVE  OtpInv'
  OBVIOUS
<1>1. ASSUME NEW v \in Verifiers, LoginThrows(v)
      PROVE  OtpInv'
  <2>1. OtpTypeOK'
    <3>1. otpFaults \in 0 .. MaxOtpFaults /\ otpFaults < MaxOtpFaults /\ otpFaults' = otpFaults + 1
      BY <1>1 DEF LoginThrows, LoginInv, OtpInv, OtpTypeOK
    <3>2. otpFaults' \in 0 .. MaxOtpFaults
      BY <3>1
    <3>3. UNCHANGED <<now, otp, attempts, lock, created, creators, verifiers>>
      BY <1>1 DEF LoginThrows
    <3> QED
      BY <3>2, <3>3 DEF LoginInv, OtpInv, OtpTypeOK
  <2>2. UNCHANGED <<now, otp, lock, created, creators>>
    BY <1>1 DEF LoginThrows
  <2> QED
    BY <2>1, <2>2 DEF LoginInv, OtpInv, LockHeld, HeldCodeIsNewest, StoredCodeWasCreated, IsLive
<1>2. CASE ~ (\E v \in Verifiers : LoginThrows(v))
  BY <1>2, OtpStepOfLogin, OtpTypeStep, LockStep, HeldCodeStep DEF LoginInv, OtpInv
<1> QED
  BY <1>1, <1>2

Access == AccessIssuedBefore /\ AccessEnds

(* Steps of Otp move nothing but the clock, and that only when nobody signs. *)
LEMMA OtpStepKeeps ==
  ASSUME LoginInv, UNCHANGED sessionVars, now' \in Nat, now <= now',
         now' = now \/ \A r \in Refreshers : refreshers[r].pc # "signing"
  PROVE  OneUser' /\ SigningLoginsHaveUsers' /\ RefreshersAskedBefore' /\ Access'
<1>1. now \in Nat /\ \A access \in accessTokens : access.asked \in Nat /\ access.expires \in Nat
  BY DEF LoginInv, LoginTypeOK, AccessToken, OtpTypeOK
<1> QED
  BY <1>1 DEF LoginInv, sessionVars, OneUser, SigningLoginsHaveUsers, RefreshersAskedBefore,
              Access, AccessIssuedBefore, AccessEnds

LEMMA LoginTypeStep == LoginInv /\ [LoginNext]_loginVars => LoginTypeOK'
<1> SUFFICES ASSUME LoginInv, [LoginNext]_loginVars
             PROVE  LoginTypeOK'
  OBVIOUS
<1>0. OtpTypeOK' /\ now \in Nat
  BY OtpInvOfLogin DEF OtpInv, LoginInv, OtpTypeOK
<1> USE <1>0 DEF LoginInv, LoginTypeOK
<1>1. ASSUME NEW v \in Verifiers, FindUser(v) \/ InsertUser(v) \/ LoginThrows(v)
      PROVE  LoginTypeOK'
  <2>1. users' \in SUBSET UserIds
    BY <1>1 DEF FindUser, InsertUser, LoginThrows
  <2>2. logins' \in [Verifiers -> LoginHandler]
    BY <1>1 DEF FindUser, InsertUser, LoginThrows, LoginHandler
  <2> QED
    BY <1>1, <2>1, <2>2 DEF FindUser, InsertUser, LoginThrows
<1>2. ASSUME NEW v \in Verifiers, CreateToken(v)
      PROVE  LoginTypeOK'
  <2>1. [user |-> logins[v].user, expiresIn |-> now + RefreshTtl, deletedAt |-> Nil] \in Token
    BY <1>2 DEF CreateToken, SigningLoginsHaveUsers, Token
  <2>2. [login |-> v, asked |-> now, expires |-> now + AccessTtl] \in AccessToken
    BY DEF AccessToken
  <2>3. logins' \in [Verifiers -> LoginHandler]
    BY <1>2 DEF CreateToken, LoginHandler
  <2> QED
    BY <1>2, <2>1, <2>2, <2>3 DEF CreateToken
<1>3. ASSUME NEW v \in Verifiers, DeactivateToken(v)
      PROVE  LoginTypeOK'
  <2>1. [tokens[v] EXCEPT !.deletedAt = now] \in Token
    BY <1>3 DEF DeactivateToken, IsActive, Token
  <2> QED
    BY <1>3, <2>1 DEF DeactivateToken
<1>4. ASSUME NEW r \in Refreshers,
             (\E v \in Verifiers : FindToken(r, v)) \/ PopulateUser(r)
      PROVE  LoginTypeOK'
  <2>1. refreshers' \in [Refreshers -> Refresher]
    BY <1>4 DEF FindToken, PopulateUser, Refresher
  <2> QED
    BY <1>4, <2>1 DEF FindToken, PopulateUser
<1>5. ASSUME NEW r \in Refreshers, SignAccessToken(r)
      PROVE  LoginTypeOK'
  <2>1. [login |-> refreshers[r].login, asked |-> refreshers[r].asked,
         expires |-> now + AccessTtl] \in AccessToken
    BY <1>5 DEF SignAccessToken, RefreshersAskedBefore, AccessToken
  <2>2. refreshers' \in [Refreshers -> Refresher]
    BY <1>5 DEF SignAccessToken, Refresher
  <2> QED
    BY <1>5, <2>1, <2>2 DEF SignAccessToken
<1>6. CASE LoginCrash
  <2>1. logins' \in [Verifiers -> LoginHandler]
    BY <1>6 DEF LoginCrash, LoginHandler
  <2>2. refreshers' \in [Refreshers -> Refresher]
    BY <1>6 DEF LoginCrash, Refresher
  <2> QED
    BY <1>6, <2>1, <2>2 DEF LoginCrash
<1>7. CASE UNCHANGED sessionVars
  BY <1>7 DEF sessionVars
<1> QED
  BY <1>1, <1>2, <1>3, <1>4, <1>5, <1>6, <1>7 DEF LoginNext, loginVars, LoginTick, Logout, DeleteRefreshToken

LEMMA SessionStep ==
  LoginInv /\ [LoginNext]_loginVars
    => OneUser' /\ SigningLoginsHaveUsers' /\ RefreshersAskedBefore' /\ Access'
<1> SUFFICES ASSUME LoginInv, [LoginNext]_loginVars
             PROVE  OneUser' /\ SigningLoginsHaveUsers' /\ RefreshersAskedBefore' /\ Access'
  OBVIOUS
<1> DEFINE Goal == OneUser' /\ SigningLoginsHaveUsers' /\ RefreshersAskedBefore' /\ Access'
<1>0. now \in Nat
  BY DEF LoginInv, OtpInv, OtpTypeOK
<1> USE DEF LoginInv, LoginTypeOK
<1>1. ASSUME NEW v \in Verifiers, FindUser(v) \/ InsertUser(v) \/ LoginThrows(v)
      PROVE  Goal
  <2>1. OneUser' /\ SigningLoginsHaveUsers'
    BY <1>1 DEF FindUser, InsertUser, LoginThrows, OneUser, SigningLoginsHaveUsers, LoginHandler
  <2>2. RefreshersAskedBefore' /\ Access'
    BY <1>1 DEF FindUser, InsertUser, LoginThrows, RefreshersAskedBefore, Access,
                AccessIssuedBefore, AccessEnds, otpVars
  <2> QED
    BY <2>1, <2>2
<1>2. ASSUME NEW v \in Verifiers, CreateToken(v)
      PROVE  Goal
  <2> DEFINE token == [user |-> logins[v].user, expiresIn |-> now + RefreshTtl, deletedAt |-> Nil]
             access == [login |-> v, asked |-> now, expires |-> now + AccessTtl]
  <2>1. /\ users' = users /\ refreshers' = refreshers /\ now' = now
        /\ tokens' = [tokens EXCEPT ![v] = token]
        /\ accessTokens' = accessTokens \cup {access}
        /\ logins' = [logins EXCEPT ![v].pc = "done"]
    BY <1>2 DEF CreateToken, otpVars
  <2>2. token \in Token /\ token # Nil /\ logins[v].user \in users
    BY <1>0, <1>2 DEF CreateToken, SigningLoginsHaveUsers, Token
  <2>3. OneUser' /\ SigningLoginsHaveUsers'
    BY <2>1, <2>2 DEF OneUser, SigningLoginsHaveUsers, LoginHandler
  <2>4. RefreshersAskedBefore'
    <3> HIDE DEF token
    <3>1. \A w \in Verifiers : tokens'[w] = IF w = v THEN token ELSE tokens[w]
      BY <2>1
    <3>2. token.expiresIn = now + RefreshTtl /\ token.deletedAt = Nil
      BY DEF token
    <3>3. now <= token.expiresIn
      BY <1>0, <3>2
    <3> QED
      BY <2>1, <2>2, <3>1, <3>2, <3>3 DEF RefreshersAskedBefore
  <2>5. Access'
    BY <1>0, <2>1, <2>2 DEF Access, AccessIssuedBefore, AccessEnds, AccessToken
  <2> QED
    BY <2>3, <2>4, <2>5
<1>3. ASSUME NEW v \in Verifiers, DeactivateToken(v)
      PROVE  Goal
  <2> DEFINE token == [tokens[v] EXCEPT !.deletedAt = now]
  <2>1. /\ UNCHANGED <<users, logins, refreshers, accessTokens, now>>
        /\ tokens' = [tokens EXCEPT ![v] = token]
        /\ tokens[v] \in Token /\ tokens[v].deletedAt = Nil
    BY <1>3 DEF DeactivateToken, IsActive, otpVars
  <2>2. /\ token \in Token /\ token # Nil
        /\ token.user = tokens[v].user
        /\ token.expiresIn = tokens[v].expiresIn
        /\ token.deletedAt = now
    BY <1>0, <2>1 DEF Token
  <2>3. OneUser' /\ SigningLoginsHaveUsers'
    BY <2>1, <2>2 DEF OneUser, SigningLoginsHaveUsers
  <2>4. RefreshersAskedBefore'
    BY <1>0, <2>1, <2>2 DEF RefreshersAskedBefore
  <2>5. Access'
    BY <1>0, <2>1, <2>2 DEF Access, AccessIssuedBefore, AccessEnds
  <2> QED
    BY <2>3, <2>4, <2>5
<1>4. ASSUME NEW r \in Refreshers,
             (\E v \in Verifiers : FindToken(r, v)) \/ PopulateUser(r)
      PROVE  Goal
  <2>1. OneUser' /\ SigningLoginsHaveUsers' /\ Access'
    BY <1>4 DEF FindToken, PopulateUser, OneUser, SigningLoginsHaveUsers, Access,
                AccessIssuedBefore, AccessEnds, otpVars
  <2>2. ASSUME NEW v \in Verifiers, FindToken(r, v)
        PROVE  RefreshersAskedBefore'
    <3>1. /\ UNCHANGED <<tokens, now>>
          /\ \A r2 \in Refreshers : r2 # r => refreshers'[r2] = refreshers[r2]
          /\ refreshers'[r].login = v
          /\ refreshers'[r].asked = now
          /\ refreshers'[r].pc \in {"populating", "done"}
          /\ refreshers'[r].pc = "populating" => tokens[v] # Nil /\ tokens[v].deletedAt = Nil
      BY <2>2 DEF FindToken, IsActive, otpVars
    <3>2. now \in 0 .. now
      BY <1>0
    <3> QED
      BY <3>1, <3>2 DEF RefreshersAskedBefore
  <2>3. ASSUME PopulateUser(r)
        PROVE  RefreshersAskedBefore'
    BY <1>0, <2>3 DEF PopulateUser, RefreshersAskedBefore, Refresher, otpVars
  <2> QED
    BY <1>4, <2>1, <2>2, <2>3
<1>5. ASSUME NEW r \in Refreshers, SignAccessToken(r)
      PROVE  Goal
  <2>1. OneUser' /\ SigningLoginsHaveUsers' /\ RefreshersAskedBefore'
    BY <1>5 DEF SignAccessToken, OneUser, SigningLoginsHaveUsers, RefreshersAskedBefore,
                Refresher, otpVars
  <2>2. Access'
    BY <1>0, <1>5 DEF SignAccessToken, Access, AccessIssuedBefore, AccessEnds,
                      RefreshersAskedBefore, Token, otpVars
  <2> QED
    BY <2>1, <2>2
<1>6. CASE LoginCrash
  BY <1>6 DEF LoginCrash, OtpCrash, OneUser, SigningLoginsHaveUsers, RefreshersAskedBefore,
              Access, AccessIssuedBefore, AccessEnds, LoginHandler, Refresher
<1>7. CASE LoginTick
  <2>1. now' \in Nat /\ now <= now'
    BY <1>0, <1>7 DEF LoginTick, Tick
  <2> QED
    BY <1>7, <2>1, OtpStepKeeps DEF LoginTick
<1>8. CASE UNCHANGED sessionVars /\ now' = now
  BY <1>0, <1>8, OtpStepKeeps
<1> QED
  BY <1>1, <1>2, <1>3, <1>4, <1>5, <1>6, <1>7, <1>8
     DEF LoginNext, loginVars, Logout, DeleteRefreshToken, otpVars, OtpStep, CreatorStep, VerifierStep, AcquireLock,
         CheckPrevious, ReplaceAttempts, ReplaceOtp, CreateThrows, GetOtp, GetAttempts,
         IncrementAttempts, DeleteKeys, VerifyThrows

(* LoginInv holds in every reachable state of the one-time codes and the logins. *)
THEOREM LoginInvariant == LoginSpec => []LoginInv
<1>1. LoginInv /\ [LoginNext]_loginVars => LoginInv'
  BY OtpInvOfLogin, LoginTypeStep, SessionStep DEF LoginInv, Access
<1> QED
  BY <1>1, LoginInitInv, PTL DEF LoginSpec

(* Racing first logins of one number end with one user, and tokens belong to it. *)
THEOREM OneUserTheorem == LoginSpec => []OneUser
<1>1. LoginInv => OneUser
  BY DEF LoginInv
<1> QED
  BY <1>1, LoginInvariant, PTL

(* No refresh that reads a login after its deletion gets an access token, and every access *)
(* token ends at most ACCESS_TOKEN_EXPIRES_IN after the expiry date of its login, also     *)
(* when time passes and the login is deleted between the two queries of a refresh.         *)
THEOREM AccessEndsTheorem == LoginSpec => []AccessEnds
<1>1. LoginInv => AccessEnds
  BY DEF LoginInv
<1> QED
  BY <1>1, LoginInvariant, PTL

(* Users, logins, refresh and access tokens have their types. *)
THEOREM LoginTypes == LoginSpec => []LoginTypeOK
<1>1. LoginInv => LoginTypeOK
  BY DEF LoginInv
<1> QED
  BY <1>1, LoginInvariant, PTL
-----------------------------------------------------------------------------
(* The handlers of verifyOtp keep their invariant inside verifyLogin: only the fault *)
(* of a login, counted with Otp's, is not one of its steps.                          *)
LEMMA VerificationOfLogin ==
  ASSUME LoginInv, VerificationInv, [LoginNext]_loginVars
  PROVE  VerificationInv'
<1>1. ASSUME NEW v \in Verifiers, LoginThrows(v)
      PROVE  CodeStep
  BY <1>1 DEF LoginThrows, CodeStep
<1>2. ASSUME ~ (\E v \in Verifiers : LoginThrows(v))
      PROVE  CodeStep
  BY <1>2, OtpStepOfLogin DEF CodeStep, otpVars
<1> QED
  BY <1>1, <1>2, VerificationStep DEF LoginInv

(* A code is used up with its first login: of racing verifyLogin handlers only those *)
(* that had read the code before its DEL can still be accepted with it.              *)
THEOREM CodesUsedUpTheorem == LoginSpec => CodesUsedUp
<1> DEFINE Step == \A v \in Verifiers, code \in Codes :
                     GetOtp(v, code) /\ verifiers'[v].pc = "reading" =>
                       \A w \in Verifiers : verifiers[w].pc = "accepted" =>
                         verifiers[w].value.serial # verifiers'[v].value.serial
<1>1. LoginInit => VerificationInv
  BY InitVerification DEF LoginInit
<1>2. LoginInv /\ VerificationInv /\ [LoginNext]_loginVars => VerificationInv'
  BY VerificationOfLogin
<1>3. LoginInv /\ VerificationInv => Step
  <2> SUFFICES ASSUME LoginInv, VerificationInv, NEW v \in Verifiers, NEW code \in Codes,
                      GetOtp(v, code), verifiers'[v].pc = "reading",
                      NEW w \in Verifiers, verifiers[w].pc = "accepted"
               PROVE  verifiers[w].value.serial # verifiers'[v].value.serial
    OBVIOUS
  <2>1. OtpTypeOK /\ verifiers \in [Verifiers -> Verifier]
    BY DEF LoginInv, OtpInv, OtpTypeOK
  <2>2. IsLive(otp) /\ verifiers'[v].value = otp.value
    BY <2>1 DEF GetOtp
  <2>3. otp # Nil /\ otp.value.serial \in Nat
    BY <2>1, <2>2, StoredCode DEF IsLive
  <2>4. verifiers[w].value.serial < otp.value.serial
    BY <2>3 DEF VerificationInv, AcceptedCodesAreOlder
  <2>5. verifiers[w].value.serial \in Nat
    BY <2>1, ReadCode DEF VerificationInv, VerifiedCodes, HasCode
  <2> QED
    BY <2>2, <2>3, <2>4, <2>5
<1>4. LoginInv /\ VerificationInv /\ [LoginNext]_loginVars => [Step]_loginVars
  BY <1>3
<1> QED
  BY <1>1, <1>2, <1>4, LoginInvariant, PTL DEF LoginSpec, CodesUsedUp
=============================================================================
