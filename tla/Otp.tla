-------------------------------- MODULE Otp --------------------------------
(***************************************************************************)
(* One-time codes, user/src/otp/otp.service.ts, for one key (a mobile      *)
(* number and an operation; the keys of different numbers do not meet).    *)
(* createOtp runs under an in-process lock, verifyOtp under none.  A step  *)
(* is a Redis command; Redis forgets a key when its time to live is over.  *)
(* Serial numbers tell one created code from the next; the code has none.  *)
(***************************************************************************)
EXTENDS Naturals, FiniteSets

CONSTANTS
  Codes,
  Creators,          \* calls of createOtp
  Verifiers,         \* calls of verifyOtp
  MaxAttempts,       \* OTP_MAX_ATTEMPTS, 5
  Timeout,           \* a new code needs an older one than this, 60 s
  Ttl,               \* OTP_DEFAULT_TTL, 600 s
  Slack,             \* how much longer the attempts live, 10 s
  MaxTime,           \* bound on the clock
  MaxOtpFaults,      \* bound on exceptions and crashes
  Nil                \* no value under a key

ASSUME OtpTimesAssumption ==
  /\ Timeout \in Nat /\ Ttl \in Nat /\ Slack \in Nat \ {0} /\ MaxTime \in Nat
  /\ Timeout < Ttl
ASSUME MaxAttemptsAssumption == MaxAttempts \in Nat \ {0}
ASSUME MaxOtpFaultsAssumption == MaxOtpFaults \in Nat

VARIABLES
  now,               \* the clock, in units of the times to live
  otp,               \* the value under otpKey, or Nil
  attempts,          \* the value under attemptsKey, or Nil
  lock,              \* the creator that holds the lock of otpKey, or Nil
  created,           \* number of codes generated
  creators,          \* [Creators -> Creator]
  verifiers,         \* [Verifiers -> Verifier]
  otpFaults          \* faults so far, at most MaxOtpFaults

otpVars == <<now, otp, attempts, lock, created, creators, verifiers, otpFaults>>

Code == [serial : Nat, code : Codes, time : Nat]

StoredOtp == [value : Code, expires : Nat]

(* A counter that INCR made has no time to live. *)
Counter == [count : Nat, expires : Nat \cup {Nil}]

Holding == {"checking", "counting", "storing"}

Verifying == {"reading", "incrementing", "deleting"}

Creator == [pc : Holding \cup {"idle", "created", "rejected"},
            value : Code \cup {Nil}]

Verifier == [pc : Verifying \cup {"idle", "accepted", "wrong", "rejected"},
             code : Codes \cup {Nil},
             value : Code \cup {Nil}]

ASSUME NilAssumption ==
  Nil \notin Creators \cup Nat \cup Code \cup StoredOtp \cup Counter

OtpTypeOK ==
  /\ now \in Nat
  /\ otp \in StoredOtp \cup {Nil}
  /\ attempts \in Counter \cup {Nil}
  /\ lock \in Creators \cup {Nil}
  /\ created \in Nat
  /\ creators \in [Creators -> Creator]
  /\ verifiers \in [Verifiers -> Verifier]
  /\ otpFaults \in 0 .. MaxOtpFaults

OtpInit ==
  /\ now = 0
  /\ otp = Nil
  /\ attempts = Nil
  /\ lock = Nil
  /\ created = 0
  /\ creators = [c \in Creators |-> [pc |-> "idle", value |-> Nil]]
  /\ verifiers = [v \in Verifiers |-> [pc |-> "idle", code |-> Nil, value |-> Nil]]
  /\ otpFaults = 0

IsLive(entry) == entry # Nil /\ (entry.expires = Nil \/ entry.expires > now)

(* Time passes; the two SETEX of one createOtp are less than Slack apart. *)
Tick ==
  /\ now < MaxTime
  /\ \A c \in Creators : creators[c].pc # "storing"
  /\ now' = now + 1
  /\ UNCHANGED <<otp, attempts, lock, created, creators, verifiers, otpFaults>>
-----------------------------------------------------------------------------
(* Faulty AcquireLock: createOtp without its lock. *)
AcquireNoLock(c) ==
  /\ creators[c].pc = "idle"
  /\ creators' = [creators EXCEPT ![c].pc = "checking"]
  /\ UNCHANGED <<now, otp, attempts, lock, created, verifiers, otpFaults>>

(* createOtp: lock.acquire(otpKey). *)
AcquireLock(c) ==
  /\ creators[c].pc = "idle"
  /\ lock = Nil
  /\ lock' = c
  /\ creators' = [creators EXCEPT ![c].pc = "checking"]
  /\ UNCHANGED <<now, otp, attempts, created, verifiers, otpFaults>>

(* Faulty IsTooYoung: off by one. *)
IsTooYoungStrict == IsLive(otp) /\ otp.value.time + Timeout > now

IsTooYoung == IsLive(otp) /\ otp.value.time + Timeout >= now

(* Faulty CheckPrevious: an old code is stored again with its own key's value. *)
CheckPreviousReuse(c) ==
  /\ creators[c].pc = "checking"
  /\ creators' = [creators EXCEPT ![c].pc = "counting", ![c].value = otp]
  /\ created' = created + 1
  /\ UNCHANGED <<now, otp, attempts, lock, verifiers, otpFaults>>

(* A previous code that is too young: the call is rejected and the lock released. *)
CheckPrevious(c) ==
  /\ creators[c].pc = "checking"
  /\ \/ /\ IsTooYoung
        /\ creators' = [creators EXCEPT ![c].pc = "rejected"]
        /\ lock' = Nil
        /\ UNCHANGED created
     \/ /\ ~ IsTooYoung
        /\ \E code \in Codes :
             creators' = [creators EXCEPT
                            ![c].pc = "counting",
                            ![c].value = [serial |-> created + 1, code |-> code, time |-> now]]
        /\ created' = created + 1
        /\ UNCHANGED lock
  /\ UNCHANGED <<now, otp, attempts, verifiers, otpFaults>>

(* SETEX attemptsKey, then SETEX otpKey. *)
ReplaceAttempts(c) ==
  /\ creators[c].pc = "counting"
  /\ attempts' = [count |-> 0, expires |-> now + Ttl + Slack]
  /\ creators' = [creators EXCEPT ![c].pc = "storing"]
  /\ UNCHANGED <<now, otp, lock, created, verifiers, otpFaults>>

ReplaceOtp(c) ==
  /\ creators[c].pc = "storing"
  /\ otp' = [value |-> creators[c].value, expires |-> now + Ttl]
  /\ creators' = [creators EXCEPT ![c].pc = "created"]
  /\ lock' = Nil
  /\ UNCHANGED <<now, attempts, created, verifiers, otpFaults>>

(* Faulty CreateThrows: the lock is kept. *)
CreateThrowsKeepingLock(c) ==
  /\ otpFaults < MaxOtpFaults
  /\ creators[c].pc \in Holding
  /\ creators' = [creators EXCEPT ![c].pc = "rejected"]
  /\ otpFaults' = otpFaults + 1
  /\ UNCHANGED <<now, otp, attempts, lock, created, verifiers>>

(* A Redis command rejects, before or after its effect: async-lock lets go. *)
CreateThrows(c) ==
  /\ otpFaults < MaxOtpFaults
  /\ creators[c].pc \in Holding
  /\ creators' = [creators EXCEPT ![c].pc = "rejected"]
  /\ lock' = Nil
  /\ otpFaults' = otpFaults + 1
  /\ UNCHANGED <<now, otp, attempts, created, verifiers>>
-----------------------------------------------------------------------------
(* verifyOtp reads the stored code: no code, no success. *)
GetOtp(v, code) ==
  /\ verifiers[v].pc = "idle"
  /\ verifiers' = [verifiers EXCEPT
                     ![v] = [pc |-> IF IsLive(otp) THEN "reading" ELSE "rejected",
                             code |-> code,
                             value |-> IF IsLive(otp) THEN otp.value ELSE Nil]]
  /\ UNCHANGED <<now, otp, attempts, lock, created, creators, otpFaults>>

(* It reads the attempts: none, or too many, is no success. *)
GetAttempts(v) ==
  /\ verifiers[v].pc = "reading"
  /\ verifiers' = [verifiers EXCEPT
                     ![v].pc = IF IsLive(attempts) /\ attempts.count < MaxAttempts
                               THEN "incrementing" ELSE "rejected"]
  /\ UNCHANGED <<now, otp, attempts, lock, created, creators, otpFaults>>

(* INCR makes a counter without time to live when there is none. *)
Incremented ==
  IF IsLive(attempts) THEN [attempts EXCEPT !.count = @ + 1] ELSE [count |-> 1, expires |-> Nil]

Matches(v) == verifiers[v].value.code = verifiers[v].code

(* Faulty IncrementAttempts: the incremented value is not checked. *)
IncrementUnchecked(v) ==
  /\ verifiers[v].pc = "incrementing"
  /\ attempts' = Incremented
  /\ verifiers' = [verifiers EXCEPT ![v].pc = IF Matches(v) THEN "deleting" ELSE "wrong"]
  /\ UNCHANGED <<now, otp, lock, created, creators, otpFaults>>

(* The attempts are counted and checked again, the code is compared. *)
IncrementAttempts(v) ==
  /\ verifiers[v].pc = "incrementing"
  /\ attempts' = Incremented
  /\ verifiers' = [verifiers EXCEPT
                     ![v].pc = IF Incremented.count > MaxAttempts THEN "rejected"
                               ELSE IF Matches(v) THEN "deleting" ELSE "wrong"]
  /\ UNCHANGED <<now, otp, lock, created, creators, otpFaults>>

(* Faulty DeleteKeys: the code stays. *)
DeleteOnlyAttempts(v) ==
  /\ verifiers[v].pc = "deleting"
  /\ attempts' = Nil
  /\ verifiers' = [verifiers EXCEPT ![v].pc = "accepted"]
  /\ UNCHANGED <<now, otp, lock, created, creators, otpFaults>>

(* DEL otpKey attemptsKey, whatever they hold by now. *)
DeleteKeys(v) ==
  /\ verifiers[v].pc = "deleting"
  /\ otp' = Nil
  /\ attempts' = Nil
  /\ verifiers' = [verifiers EXCEPT ![v].pc = "accepted"]
  /\ UNCHANGED <<now, lock, created, creators, otpFaults>>

VerifyThrows(v) ==
  /\ otpFaults < MaxOtpFaults
  /\ verifiers[v].pc \in Verifying
  /\ verifiers' = [verifiers EXCEPT ![v].pc = "rejected"]
  /\ otpFaults' = otpFaults + 1
  /\ UNCHANGED <<now, otp, attempts, lock, created, creators>>

(* The process dies and is restarted, with a new lock; Redis keeps its keys. *)
OtpCrash ==
  /\ otpFaults < MaxOtpFaults
  /\ creators' = [c \in Creators |->
                    IF creators[c].pc \in Holding
                    THEN [creators[c] EXCEPT !.pc = "rejected"] ELSE creators[c]]
  /\ verifiers' = [v \in Verifiers |->
                     IF verifiers[v].pc \in Verifying
                     THEN [verifiers[v] EXCEPT !.pc = "rejected"] ELSE verifiers[v]]
  /\ lock' = Nil
  /\ otpFaults' = otpFaults + 1
  /\ UNCHANGED <<now, otp, attempts, created>>
-----------------------------------------------------------------------------
CreatorStep(c) == CheckPrevious(c) \/ ReplaceAttempts(c) \/ ReplaceOtp(c)

VerifierStep(v) == GetAttempts(v) \/ IncrementAttempts(v) \/ DeleteKeys(v)

OtpNext ==
  \/ Tick
  \/ \E c \in Creators : AcquireLock(c) \/ CreatorStep(c) \/ CreateThrows(c)
  \/ \E v \in Verifiers : \/ \E code \in Codes : GetOtp(v, code)
                          \/ VerifierStep(v) \/ VerifyThrows(v)
  \/ OtpCrash

OtpSpec == OtpInit /\ [][OtpNext]_otpVars

(* async-lock serves its queue; the node process runs every handler whose await *)
(* is answered.                                                                 *)
OtpFairness ==
  /\ \A c \in Creators : WF_otpVars(AcquireLock(c)) /\ WF_otpVars(CreatorStep(c))
  /\ \A v \in Verifiers : WF_otpVars(VerifierStep(v))

FairOtpSpec == OtpSpec /\ OtpFairness
-----------------------------------------------------------------------------
(* A code replaces a live one only when it is more than Timeout younger, however  *)
(* many createOtp calls for the number run at once, throw or die.                 *)
CodesThrottled ==
  [][\A c \in Creators :
       ReplaceOtp(c) /\ IsLive(otp) => otp'.value.time > otp.value.time + Timeout]_otpVars

(* The codes of one number are stored in the order in which they were generated:   *)
(* an older code never comes back over a newer one.                                *)
NewestCodeStays ==
  [][otp # Nil /\ otp' # Nil => otp.value.serial <= otp'.value.serial]_otpVars

(* As long as the counter that createOtp set lives, no more codes are compared with *)
(* the one it was set for than OTP_MAX_ATTEMPTS: many handlers may pass the first   *)
(* check of the attempts at once, the second one counts them.                       *)
AttemptsLimited ==
  IsLive(attempts) /\ attempts.expires # Nil =>
    Cardinality({v \in Verifiers : /\ verifiers[v].pc \in {"deleting", "wrong"}
                                   /\ verifiers[v].value.serial = created}) <= MaxAttempts

(* Every createOtp ends, also when an earlier call throws while it has the lock. *)
CreatesEnd ==
  \A c \in Creators : <>(creators[c].pc \in {"created", "rejected"})

(* createOtp replaces the attempts and then the code, but verifyOtp does not take   *)
(* the lock, and its DEL (otp.service.ts:109) may come between the two: a live code  *)
(* can lose its counter, and then nobody can use it.  That DEL, of a handler that    *)
(* was accepted with an older code, is the only way to lose it: not expiry, faults,  *)
(* crashes, nor any other order of the calls.                                        *)
CountersLostToOlderCodes ==
  IsLive(otp) /\ ~ IsLive(attempts) =>
    \E v \in Verifiers : /\ verifiers[v].pc = "accepted"
                         /\ verifiers[v].value.serial < otp.value.serial
-----------------------------------------------------------------------------
(* The invariant that makes CodesThrottled and NewestCodeStays inductive: a creator *)
(* works inside the lock, and its new code stays newer and late enough.             *)
LockHeld == \A c \in Creators : creators[c].pc \in Holding <=> lock = c

HeldCodeIsNewest ==
  \A c \in Creators :
    creators[c].pc \in {"counting", "storing"} =>
      /\ creators[c].value \in Code
      /\ creators[c].value.serial = created
      /\ otp # Nil => otp.value.serial < created
      /\ IsLive(otp) => creators[c].value.time > otp.value.time + Timeout

StoredCodeWasCreated == otp # Nil => otp.value.serial <= created

OtpInv == OtpTypeOK /\ LockHeld /\ HeldCodeIsNewest /\ StoredCodeWasCreated
=============================================================================
