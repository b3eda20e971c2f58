------------------------------- MODULE Login -------------------------------
(***************************************************************************)
(* Logging in with a one-time code, and what a login is good for: login    *)
(* and verifyLogin of user/src/user/user.service.ts on top of Otp, and the *)
(* refresh tokens of user/src/token/token.service.ts.  A verifier of Otp   *)
(* that is accepted goes on to find or insert its user and to create its   *)
(* token.  Access tokens are signed and kept by nobody: every service      *)
(* accepts one until it expires.                                           *)
(***************************************************************************)
EXTENDS Otp

CONSTANTS
  UserIds,           \* ids the users collection hands out
  Refreshers,        \* calls of refreshAccessToken
  RefreshTtl,        \* REFRESH_TOKEN_EXPIRES_IN, 86400 s
  AccessTtl          \* ACCESS_TOKEN_EXPIRES_IN, 600 s

ASSUME TokenTimesAssumption == RefreshTtl \in Nat /\ AccessTtl \in Nat

VARIABLES
  users,             \* the documents with this mobile number
  logins,            \* [Verifiers -> LoginHandler], verifyLogin after verifyOtp
  tokens,            \* [Verifiers -> Token \cup {Nil}], the token of each login
  refreshers,        \* [Refreshers -> Refresher], the handlers of refreshAccessToken
  accessTokens       \* the access tokens that were issued

sessionVars == <<users, logins, tokens, refreshers, accessTokens>>

loginVars == <<otpVars, sessionVars>>

LoginHandler == [pc : {"idle", "inserting", "signing", "done", "failed"},
                 user : UserIds \cup {Nil}]

(* deletedAt is Nil as long as isActive is true. *)
Token == [user : UserIds, expiresIn : Nat, deletedAt : Nat \cup {Nil}]

ASSUME NilTokenAssumption == Nil \notin Token

(* asked remembers when the handler's findOne read its token. *)
Refresher == [pc : {"idle", "populating", "signing", "done"}, login : Verifiers \cup {Nil},
              asked : Nat \cup {Nil}]

(* asked remembers when the login was last read as active, or begun, for this token. *)
AccessToken == [login : Verifiers, asked : Nat, expires : Nat]

LoginTypeOK ==
  /\ OtpTypeOK
  /\ users \in SUBSET UserIds
  /\ logins \in [Verifiers -> LoginHandler]
  /\ tokens \in [Verifiers -> Token \cup {Nil}]
  /\ refreshers \in [Refreshers -> Refresher]
  /\ accessTokens \in SUBSET AccessToken

(* onModuleInit inserts the super admin when there is no user at all: the number may be his. *)
LoginInit ==
  /\ OtpInit
  /\ users \in {{}} \cup {{u} : u \in UserIds}
  /\ logins = [v \in Verifiers |-> [pc |-> "idle", user |-> Nil]]
  /\ tokens = [v \in Verifiers |-> Nil]
  /\ refreshers = [r \in Refreshers |-> [pc |-> "idle", login |-> Nil, asked |-> Nil]]
  /\ accessTokens = {}

(* Time passes; from the check of a token's expiry date to the date in the signature *)
(* there is no wait.                                                                 *)
LoginTick ==
  /\ Tick
  /\ \A r \in Refreshers : refreshers[r].pc # "signing"
  /\ UNCHANGED sessionVars
-----------------------------------------------------------------------------
(* Faulty FindUser: the id of the user that was found is not taken over. *)
FindUserForgetId(v) ==
  /\ verifiers[v].pc = "accepted"
  /\ logins[v].pc = "idle"
  /\ logins' = [logins EXCEPT ![v].pc = IF users = {} THEN "inserting" ELSE "signing"]
  /\ UNCHANGED <<otpVars, users, tokens, refreshers, accessTokens>>

(* verifyLogin after its code was accepted: the user with this mobile number. *)
FindUser(v) ==
  /\ verifiers[v].pc = "accepted"
  /\ logins[v].pc = "idle"
  /\ \/ \E u \in users : logins' = [logins EXCEPT ![v] = [pc |-> "signing", user |-> u]]
     \/ users = {} /\ logins' = [logins EXCEPT ![v].pc = "inserting"]
  /\ UNCHANGED <<otpVars, users, tokens, refreshers, accessTokens>>

(* Faulty InsertUser: no unique index on the mobile number. *)
InsertAnyUser(v) ==
  /\ logins[v].pc = "inserting"
  /\ \E u \in UserIds \ users :
       /\ users' = users \cup {u}
       /\ logins' = [logins EXCEPT ![v] = [pc |-> "signing", user |-> u]]
  /\ UNCHANGED <<otpVars, tokens, refreshers, accessTokens>>

(* userModel.create: the unique index refuses a second one, and the login fails. *)
InsertUser(v) ==
  /\ logins[v].pc = "inserting"
  /\ \/ /\ users = {}
        /\ \E u \in UserIds : /\ users' = {u}
                              /\ logins' = [logins EXCEPT ![v] = [pc |-> "signing", user |-> u]]
     \/ /\ users # {}
        /\ logins' = [logins EXCEPT ![v].pc = "failed"]
        /\ UNCHANGED users
  /\ UNCHANGED <<otpVars, tokens, refreshers, accessTokens>>

(* tokenService.login: the access token is signed, the refresh token is stored. *)
CreateToken(v) ==
  /\ logins[v].pc = "signing"
  /\ accessTokens' = accessTokens \cup {[login |-> v, asked |-> now, expires |-> now + AccessTtl]}
  /\ tokens' = [tokens EXCEPT ![v] = [user |-> logins[v].user,
                                      expiresIn |-> now + RefreshTtl,
                                      deletedAt |-> Nil]]
  /\ logins' = [logins EXCEPT ![v].pc = "done"]
  /\ UNCHANGED <<otpVars, users, refreshers>>

IsActive(v) == tokens[v] # Nil /\ tokens[v].deletedAt = Nil

(* A soft delete of an active token. *)
DeactivateToken(v) ==
  /\ IsActive(v)
  /\ tokens' = [tokens EXCEPT ![v].deletedAt = now]
  /\ UNCHANGED <<otpVars, users, logins, refreshers, accessTokens>>

(* UserAuthGuard: the request brings an access token, of any login of the user, that *)
(* has not expired; whether its login goes on is not asked.                           *)
Authenticated == \E access \in accessTokens : now < access.expires

(* logout finds the token by the key in the refresh token it is given. *)
Logout(v) == Authenticated /\ DeactivateToken(v)

(* deleteRefreshToken finds it by its id, from any login of the user. *)
DeleteRefreshToken(v) == Authenticated /\ DeactivateToken(v)

(* refreshAccessToken: the findOne by key, among the active tokens. *)
FindToken(r, v) ==
  /\ refreshers[r].pc = "idle"
  /\ refreshers' = [refreshers EXCEPT
                      ![r] = [pc |-> IF IsActive(v) THEN "populating" ELSE "done",
                              login |-> v, asked |-> now]]
  /\ UNCHANGED <<otpVars, users, logins, tokens, accessTokens>>

(* Faulty PopulateUser: the expiry date is not looked at. *)
PopulateAnyUser(r) ==
  /\ refreshers[r].pc = "populating"
  /\ refreshers' = [refreshers EXCEPT ![r].pc = "signing"]
  /\ UNCHANGED <<otpVars, users, logins, tokens, accessTokens>>

(* The second query, for the user of the token, has answered: of the token, which may *)
(* be deleted by now, only the expiry date that was read with it is looked at.        *)
PopulateUser(r) ==
  /\ refreshers[r].pc = "populating"
  /\ refreshers' = [refreshers EXCEPT
                      ![r].pc = IF tokens[refreshers[r].login].expiresIn >= now
                                THEN "signing" ELSE "done"]
  /\ UNCHANGED <<otpVars, users, logins, tokens, accessTokens>>

SignAccessToken(r) ==
  /\ refreshers[r].pc = "signing"
  /\ accessTokens' = accessTokens \cup {[login |-> refreshers[r].login,
                                          asked |-> refreshers[r].asked,
                                          expires |-> now + AccessTtl]}
  /\ refreshers' = [refreshers EXCEPT ![r].pc = "done"]
  /\ UNCHANGED <<otpVars, users, logins, tokens>>
-----------------------------------------------------------------------------
(* An await of verifyLogin rejects after its code was used up. *)
LoginThrows(v) ==
  /\ otpFaults < MaxOtpFaults
  /\ logins[v].pc \in {"inserting", "signing"}
  /\ logins' = [logins EXCEPT ![v].pc = "failed"]
  /\ otpFaults' = otpFaults + 1
  /\ UNCHANGED <<now, otp, attempts, lock, created, creators, verifiers>>
  /\ UNCHANGED <<users, tokens, refreshers, accessTokens>>

(* The process dies: logins and refreshes in flight are gone. *)
LoginCrash ==
  /\ OtpCrash
  /\ logins' = [v \in Verifiers |->
                  IF \/ logins[v].pc \in {"inserting", "signing"}
                     \/ logins[v].pc = "idle" /\ verifiers[v].pc = "accepted"
                  THEN [logins[v] EXCEPT !.pc = "failed"] ELSE logins[v]]
  /\ refreshers' = [r \in Refreshers |->
                      IF refreshers[r].pc \in {"populating", "signing"}
                      THEN [refreshers[r] EXCEPT !.pc = "done"] ELSE refreshers[r]]
  /\ UNCHANGED <<users, tokens, accessTokens>>

OtpStep ==
  \/ \E c \in Creators : AcquireLock(c) \/ CreatorStep(c) \/ CreateThrows(c)
  \/ \E v \in Verifiers : \/ \E code \in Codes : GetOtp(v, code)
                          \/ VerifierStep(v) \/ VerifyThrows(v)

LoginNext ==
  \/ LoginTick
  \/ OtpStep /\ UNCHANGED sessionVars
  \/ \E v \in Verifiers : FindUser(v) \/ InsertUser(v) \/ CreateToken(v)
                          \/ LoginThrows(v) \/ Logout(v) \/ DeleteRefreshToken(v)
  \/ \E r \in Refreshers : \/ \E v \in Verifiers : FindToken(r, v)
                           \/ PopulateUser(r) \/ SignAccessToken(r)
  \/ LoginCrash

LoginSpec == LoginInit /\ [][LoginNext]_loginVars
-----------------------------------------------------------------------------
(* Two logins of a new number that race through verifyLogin, both having found no *)
(* user, end with one user, and every token belongs to it.                        *)
OneUser ==
  /\ \A u1, u2 \in users : u1 = u2
  /\ \A v \in Verifiers : tokens[v] # Nil => tokens[v].user \in users

(* A login ends with logout, deleteRefreshToken or its expiry date.  No refresh that  *)
(* reads the login after its deletion gets an access token; one that had read it      *)
(* before may, however late its second query answers.  And no access token, of these  *)
(* or any other, outlives the expiry date by more than ACCESS_TOKEN_EXPIRES_IN: the   *)
(* services that only decode access tokens can be kept waiting no longer.             *)
AccessEnds ==
  \A access \in accessTokens :
    LET token == tokens[access.login]
    IN  /\ token # Nil
        /\ access.expires <= token.expiresIn + AccessTtl
        /\ token.deletedAt # Nil => access.asked <= token.deletedAt

(* A login that begins after its code was used up gets no token with that code:   *)
(* whoever is accepted with a code had read it before the first one deleted it.   *)
CodesUsedUp ==
  [][\A v \in Verifiers, code \in Codes :
       GetOtp(v, code) /\ verifiers'[v].pc = "reading" =>
         \A w \in Verifiers : verifiers[w].pc = "accepted" =>
           verifiers[w].value.serial # verifiers'[v].value.serial]_loginVars
-----------------------------------------------------------------------------
(* The invariant that makes OneUser and AccessEnds inductive. *)
SigningLoginsHaveUsers == \A v \in Verifiers : logins[v].pc = "signing" => logins[v].user \in users

(* A refresh in flight had read its login before this was deleted; only the one that *)
(* is about to sign knows that the expiry date is not over.                           *)
RefreshersAskedBefore ==
  \A r \in Refreshers :
    refreshers[r].pc \in {"populating", "signing"} =>
      LET token == tokens[refreshers[r].login]
      IN  /\ refreshers[r].login \in Verifiers
          /\ token # Nil
          /\ refreshers[r].asked \in 0 .. now
          /\ refreshers[r].pc = "signing" => now <= token.expiresIn
          /\ token.deletedAt # Nil => refreshers[r].asked <= token.deletedAt

AccessIssuedBefore ==
  \A access \in accessTokens : access.asked <= now /\ access.expires <= now + AccessTtl

LoginInv ==
  /\ OtpInv
  /\ LoginTypeOK
  /\ OneUser
  /\ SigningLoginsHaveUsers
  /\ RefreshersAskedBefore
  /\ AccessIssuedBefore
  /\ AccessEnds
=============================================================================
