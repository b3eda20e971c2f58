---------------------------- MODULE RolesProofs ----------------------------
(***************************************************************************)
(* The super admin is the first, and roles end with their tokens, for any  *)
(* number of instances, users, logins, refreshes, changes and faults.      *)
(***************************************************************************)
EXTENDS Roles, SequenceTheorems, TLAPS

USE SuperAdminAssumption, RoleBoundsAssumption

LEMMA RolesInitInv == RolesInit => RolesInv
<1> SUFFICES ASSUME RolesInit PROVE RolesInv
  OBVIOUS
<1>1. RolesTypeOK
  <2>1. users \in Seq(User)
    BY EmptySeq DEF RolesInit
  <2>2. [pc |-> "idle"] \in Handler
    BY DEF Handler
  <2>3. handlers \in [Handlers -> Handler]
    BY <2>2 DEF RolesInit
  <2>4. instances \in [Instances -> InstanceStates]
    BY DEF RolesInit, InstanceStates
  <2>5. now \in Nat /\ changes \in 0 .. MaxChanges /\ startFaults \in 0 .. MaxStartFaults
    BY DEF RolesInit
  <2>6. indexed \in BOOLEAN /\ accessTokens \in SUBSET AccessToken /\ lostRoles \in SUBSET LostRole
    BY DEF RolesInit
  <2> QED
    BY <2>1, <2>3, <2>4, <2>5, <2>6 DEF RolesTypeOK
<1>2. users = << >> /\ DOMAIN users = {}
  BY DEF RolesInit
<1>3. SuperAdminFirst /\ TokensHaveUsers /\ SignedRolesWereHeld /\ ServingIsLater
  BY <1>2 DEF RolesInit, SuperAdminFirst, TokensHaveUsers, SignedRolesWereHeld, ServingIsLater
<1> QED
  BY <1>1, <1>3 DEF RolesInv

(* What Insert does to the collection. *)
LEMMA InsertedUser ==
  ASSUME users \in Seq(User), NEW mobile \in Mobiles, NEW role \in UserRoles, Insert(mobile, role)
  PROVE  /\ users' \in Seq(User)
         /\ users' # << >>
         /\ DOMAIN users \subseteq DOMAIN users'
         /\ Len(users) + 1 \in DOMAIN users'
         /\ \A u \in DOMAIN users : users'[u] = users[u]
         /\ \A u \in DOMAIN users' :
              u \in DOMAIN users \/ (users'[u].mobile = mobile /\ users'[u].role = role)
         /\ users'[Len(users) + 1].mobile = mobile /\ users'[Len(users) + 1].role = role
<1> DEFINE document == [mobile |-> mobile, role |-> role, named |-> FALSE]
<1>1. document \in User
  BY DEF User
<1>2. users' = Append(users, document)
  BY DEF Insert
<1>3. /\ users' \in Seq(User)
      /\ Len(users') = Len(users) + 1
      /\ \A u \in 1 .. Len(users) : users'[u] = users[u]
      /\ users'[Len(users) + 1] = document
      /\ users' # << >>
  BY <1>1, <1>2, AppendProperties
<1>4. DOMAIN users = 1 .. Len(users) /\ DOMAIN users' = 1 .. Len(users') /\ Len(users) \in Nat
  BY <1>3, LenProperties
<1> HIDE DEF document
<1>5. \A u \in DOMAIN users' : u \in DOMAIN users \/ u = Len(users) + 1
  BY <1>3, <1>4
<1>6. document.mobile = mobile /\ document.role = role
  BY DEF document
<1>7. Len(users) + 1 \in DOMAIN users' /\ DOMAIN users \subseteq DOMAIN users'
  BY <1>3, <1>4
<1> QED
  BY <1>3, <1>4, <1>5, <1>6, <1>7

(* What replacing a document does to the collection. *)
LEMMA ReplacedUser ==
  ASSUME users \in Seq(User), NEW u \in DOMAIN users, NEW document \in User,
         users' = [users EXCEPT ![u] = document]
  PROVE  /\ users' \in Seq(User)
         /\ users' # << >>
         /\ DOMAIN users' = DOMAIN users
         /\ users'[u] = document
         /\ \A v \in DOMAIN users : v # u => users'[v] = users[v]
<1>1. u \in 1 .. Len(users) /\ DOMAIN users = 1 .. Len(users)
  BY LenProperties
<1>2. /\ users' \in Seq(User)
      /\ Len(users') = Len(users)
      /\ \A v \in 1 .. Len(users) : users'[v] = IF v = u THEN document ELSE users[v]
  BY <1>1, ExceptSeq
<1>3. DOMAIN users' = 1 .. Len(users') /\ Len(users) \in Nat
  BY <1>2, LenProperties
<1>4. users' # << >>
  BY <1>1, <1>2, <1>3, EmptySeq
<1> QED
  BY <1>1, <1>2, <1>3, <1>4

(* What a document is made of. *)
LEMMA UserFields ==
  ASSUME users \in Seq(User), NEW u \in DOMAIN users
  PROVE  users[u] \in User /\ u \in Nat
BY LenProperties

(* The collection only grows, a number stays, and a role that is lost is recorded. *)
Growth ==
  /\ users' \in Seq(User)
  /\ DOMAIN users \subseteq DOMAIN users'
  /\ users # << >> => users' # << >>
  /\ \A u \in DOMAIN users :
       /\ users'[u].mobile = users[u].mobile
       /\ \/ users'[u].role = users[u].role
          \/ /\ users[u].role # SUPER_ADMIN /\ users'[u].role # SUPER_ADMIN
             /\ [user |-> u, role |-> users[u].role, at |-> now] \in lostRoles'
             /\ now' = now
  /\ \A u \in DOMAIN users' :
       \/ u \in DOMAIN users
       \/ users'[u].mobile = SuperAdminMobile <=> users'[u].role = SUPER_ADMIN

LEMMA UsersGrow == RolesInv /\ [RolesNext]_rolesVars => Growth
<1> SUFFICES ASSUME RolesInv, [RolesNext]_rolesVars
             PROVE  Growth
  OBVIOUS
<1> USE DEF RolesInv, RolesTypeOK
<1>1. ASSUME NEW mobile \in Mobiles, NEW role \in UserRoles, Insert(mobile, role),
             mobile = SuperAdminMobile <=> role = SUPER_ADMIN
      PROVE  Growth
  BY <1>1, InsertedUser DEF Growth
<1>2. ASSUME NEW i \in Instances, CreateSuperAdmin(i)
      PROVE  Growth
  BY <1>1, <1>2 DEF CreateSuperAdmin, UserRoles, Growth
<1>3. ASSUME NEW h \in Handlers, InsertUser(h)
      PROVE  Growth
  <2>1. handlers[h].mobile \in Mobiles /\ handlers[h].mobile # SuperAdminMobile
    BY <1>3 DEF InsertUser, ServingIsLater, Handler
  <2> QED
    BY <1>1, <1>3, <2>1 DEF InsertUser, UserRoles, USER, SUPER_ADMIN, Growth
<1>4. ASSUME NEW access \in accessTokens, UpdateProfile(access)
      PROVE  Growth
  <2> DEFINE document == [users[access.user] EXCEPT !.named = TRUE]
  <2>1. access.user \in DOMAIN users /\ users[access.user] \in User
    BY UserFields DEF TokensHaveUsers
  <2>2. document \in User /\ document.role = users[access.user].role
                         /\ document.mobile = users[access.user].mobile
    BY <2>1 DEF User
  <2>3. users' = [users EXCEPT ![access.user] = document]
    BY <1>4 DEF UpdateProfile
  <2> HIDE DEF document
  <2> QED
    BY <2>1, <2>2, <2>3, ReplacedUser DEF Growth
<1>5. ASSUME NEW u \in DOMAIN users, NEW role \in {USER, ADMIN}, ChangeRole(u, role)
      PROVE  Growth
  <2> DEFINE document == [users[u] EXCEPT !.role = role]
  <2>1. users[u] \in User
    BY UserFields
  <2>2. document \in User /\ document.role = role /\ document.mobile = users[u].mobile
    BY <2>1 DEF User, UserRoles
  <2>3. users' = [users EXCEPT ![u] = document]
    BY <1>5 DEF ChangeRole
  <2>4. /\ [user |-> u, role |-> users[u].role, at |-> now] \in lostRoles'
        /\ users[u].role # SUPER_ADMIN
        /\ now' = now
    BY <1>5 DEF ChangeRole
  <2>5. role # SUPER_ADMIN
    BY DEF USER, ADMIN, SUPER_ADMIN
  <2> HIDE DEF document
  <2> QED
    BY <2>2, <2>3, <2>4, <2>5, ReplacedUser DEF Growth
<1>6. CASE UNCHANGED users
  BY <1>6 DEF Growth
<1> QED
  BY <1>2, <1>3, <1>4, <1>5, <1>6 DEF RolesNext, rolesVars, Tick, BuildIndex, StartStep,
     StartInstance, CountUsers, ConnectConsumer, InstanceDies, FindUser, FindToken, SignAccessToken

LEMMA RolesTypeStep == RolesInv /\ [RolesNext]_rolesVars => RolesTypeOK'
<1> SUFFICES ASSUME RolesInv, [RolesNext]_rolesVars
             PROVE  RolesTypeOK'
  OBVIOUS
<1>0. users' \in Seq(User)
  BY UsersGrow DEF Growth
<1> DEFINE Rest == /\ now \in Nat
                   /\ indexed \in BOOLEAN
                   /\ instances \in [Instances -> InstanceStates]
                   /\ handlers \in [Handlers -> Handler]
                   /\ accessTokens \in SUBSET AccessToken
                   /\ lostRoles \in SUBSET LostRole
                   /\ changes \in 0 .. MaxChanges
                   /\ startFaults \in 0 .. MaxStartFaults
<1>r. Rest
  BY DEF RolesInv, RolesTypeOK
<1>d. [pc |-> "done"] \in Handler
  BY DEF Handler
<1>s. ASSUME NEW i \in Instances, NEW u \in Nat, NEW role \in UserRoles
      PROVE  Signing(i, u, role) \in Handler
  BY DEF Signing, Handler
<1>u. ASSUME NEW u \in DOMAIN users
      PROVE  u \in Nat /\ users[u].role \in UserRoles
  BY UserFields DEF User, RolesInv, RolesTypeOK
<1>1. ASSUME Tick \/ BuildIndex
      PROVE  Rest'
  <2>1. CASE Tick
    BY <2>1, <1>r DEF Tick
  <2>2. CASE BuildIndex
    <3>1. indexed' \in BOOLEAN
      BY <2>2 DEF BuildIndex
    <3> QED
      BY <2>2, <3>1, <1>r DEF BuildIndex
  <2> QED
    BY <1>1, <2>1, <2>2
<1>2. ASSUME NEW i \in Instances, StartStep(i)
      PROVE  Rest'
  <2>1. instances' \in [Instances -> InstanceStates]
    BY <1>2, <1>r DEF StartStep, StartInstance, CountUsers, CreateSuperAdmin, ConnectConsumer, Move,
                      InstanceStates
  <2> QED
    BY <1>2, <1>r, <2>1 DEF StartStep, StartInstance, CountUsers, CreateSuperAdmin, ConnectConsumer,
                            Move
<1>3. ASSUME NEW i \in Instances, InstanceDies(i)
      PROVE  Rest'
  <2>1. handlers' \in [Handlers -> Handler]
    BY <1>3, <1>r, <1>d DEF InstanceDies
  <2>2. instances' \in [Instances -> InstanceStates]
    BY <1>3, <1>r DEF InstanceDies, InstanceStates
  <2> QED
    BY <1>3, <1>r, <2>1, <2>2 DEF InstanceDies
<1>4. ASSUME NEW h \in Handlers, NEW i \in Instances, NEW mobile \in Mobiles, FindUser(h, i, mobile)
      PROVE  Rest'
  <2>1. [pc |-> "inserting", at |-> i, mobile |-> mobile] \in Handler
    BY DEF Handler
  <2> QED
    BY <1>4, <1>r, <1>s, <1>u, <2>1 DEF FindUser, Continue, WithMobile
<1>5. ASSUME NEW h \in Handlers, NEW i \in Instances, NEW u \in DOMAIN users, FindToken(h, i, u)
      PROVE  Rest'
  BY <1>5, <1>r, <1>s, <1>u DEF FindToken, Continue
<1>6. ASSUME NEW h \in Handlers, InsertUser(h)
      PROVE  Rest'
  <2>1. handlers[h].at \in Instances
    BY <1>6, <1>r DEF InsertUser, Handler
  <2>2. Len(users) + 1 \in Nat /\ USER \in UserRoles
    BY LenProperties DEF RolesInv, RolesTypeOK, UserRoles
  <2> QED
    BY <1>6, <1>r, <1>d, <1>s, <2>1, <2>2 DEF InsertUser, Continue
<1>7. ASSUME NEW h \in Handlers, SignAccessToken(h)
      PROVE  Rest'
  <2>1. handlers[h].user \in Nat /\ handlers[h].role \in UserRoles
    BY <1>7, <1>r DEF SignAccessToken, Handler
  <2>2. [user |-> handlers[h].user, role |-> handlers[h].role, expires |-> now + AccessTtl] \in AccessToken
    BY <1>r, <2>1 DEF AccessToken
  <2> QED
    BY <1>7, <1>r, <1>d, <2>2 DEF SignAccessToken, Continue
<1>8. ASSUME NEW access \in accessTokens, UpdateProfile(access)
      PROVE  Rest'
  BY <1>8, <1>r DEF UpdateProfile
<1>9. ASSUME NEW u \in DOMAIN users, NEW role \in {USER, ADMIN}, ChangeRole(u, role)
      PROVE  Rest'
  <2>1. [user |-> u, role |-> users[u].role, at |-> now] \in LostRole
    BY <1>r, <1>u DEF LostRole
  <2> QED
    BY <1>9, <1>r, <2>1 DEF ChangeRole
<1>10. ASSUME UNCHANGED rolesVars
       PROVE  Rest'
  BY <1>10, <1>r DEF rolesVars
<1>11. Rest'
  BY <1>1, <1>2, <1>3, <1>4, <1>5, <1>6, <1>7, <1>8, <1>9, <1>10 DEF RolesNext
<1> QED
  BY <1>0, <1>11 DEF RolesTypeOK

LEMMA SuperAdminStep == RolesInv /\ [RolesNext]_rolesVars => SuperAdminFirst' /\ ServingIsLater'
<1> SUFFICES ASSUME RolesInv, [RolesNext]_rolesVars
             PROVE  SuperAdminFirst' /\ ServingIsLater'
  OBVIOUS
<1>0. Growth
  BY UsersGrow
<1> USE DEF RolesInv, RolesTypeOK
<1>1. \A u \in DOMAIN users' : users'[u].mobile = SuperAdminMobile <=> users'[u].role = SUPER_ADMIN
  BY <1>0 DEF Growth, SuperAdminFirst
<1>2. users # << >> => \E u \in DOMAIN users : users[u].mobile = SuperAdminMobile
  BY DEF SuperAdminFirst, WithMobile
<1>3. ASSUME NEW h \in Handlers, handlers[h].pc = "inserting"
      PROVE  users # << >> /\ handlers[h].mobile # SuperAdminMobile
  BY <1>3 DEF ServingIsLater
<1>4. users' # << >> => \E u \in DOMAIN users' : users'[u].mobile = SuperAdminMobile
  <2>1. CASE users # << >>
    BY <2>1, <1>0, <1>2 DEF Growth
  <2>2. ASSUME NEW i \in Instances, CreateSuperAdmin(i), users' # users
        PROVE  \E u \in DOMAIN users' : users'[u].mobile = SuperAdminMobile
    BY <2>2, InsertedUser DEF CreateSuperAdmin, UserRoles
  <2>3. CASE users = << >> /\ users' # users
    <3>1. DOMAIN users = {}
      BY <2>3
    <3>2. \A access \in accessTokens : FALSE
      BY <3>1 DEF TokensHaveUsers
    <3>3. ~ \E h \in Handlers : InsertUser(h)
      BY <1>3, <2>3 DEF InsertUser
    <3> QED
      BY <2>2, <2>3, <3>1, <3>2, <3>3 DEF RolesNext, rolesVars, Tick, BuildIndex, StartStep,
         StartInstance, CountUsers, ConnectConsumer, InstanceDies, FindUser, FindToken, SignAccessToken
  <2> QED
    BY <2>1, <2>3
<1>5. SuperAdminFirst'
  BY <1>1, <1>4 DEF SuperAdminFirst, WithMobile
<1>6. ASSUME NEW i \in Instances, instances'[i] \in {"connecting", "up"}
      PROVE  users' # << >>
  <2>1. CASE instances[i] \in {"connecting", "up"}
    BY <2>1, <1>0 DEF ServingIsLater, Growth
  <2>2. ASSUME NEW j \in Instances, CreateSuperAdmin(j), instances[i] \notin {"connecting", "up"}
        PROVE  users' # << >>
    BY <1>6, <2>2, InsertedUser DEF CreateSuperAdmin, Move, UserRoles, InstanceStates
  <2>3. ASSUME NEW j \in Instances, CountUsers(j), instances[i] \notin {"connecting", "up"}
        PROVE  users' # << >>
    BY <1>6, <2>3 DEF CountUsers, Move, InstanceStates
  <2>4. ASSUME NEW j \in Instances, ConnectConsumer(j)
        PROVE  instances[i] \in {"connecting", "up"}
    BY <1>6, <2>4 DEF ConnectConsumer, Move
  <2>5. ASSUME NEW j \in Instances, StartInstance(j) \/ InstanceDies(j)
        PROVE  instances[i] \in {"connecting", "up"}
    BY <1>6, <2>5 DEF StartInstance, InstanceDies, Move
  <2> QED
    BY <1>6, <2>1, <2>2, <2>3, <2>4, <2>5 DEF RolesNext, rolesVars, Tick, BuildIndex, StartStep,
       FindUser, FindToken, InsertUser, SignAccessToken, Continue, UpdateProfile, ChangeRole
<1>7. ASSUME NEW h \in Handlers, handlers'[h].pc = "inserting"
      PROVE  users' # << >> /\ handlers'[h].mobile # SuperAdminMobile
  <2>1. CASE handlers'[h] = handlers[h]
    BY <2>1, <1>0, <1>3, <1>7 DEF Growth
  <2>2. ASSUME NEW i \in Instances, NEW mobile \in Mobiles, FindUser(h, i, mobile)
        PROVE  users' # << >> /\ handlers'[h].mobile # SuperAdminMobile
    <3>1. users # << >> /\ users' = users
      BY <2>2 DEF FindUser, ServingIsLater
    <3>2. handlers'[h] = [pc |-> "inserting", at |-> i, mobile |-> mobile] /\ WithMobile(mobile) = {}
      BY <1>7, <2>2 DEF FindUser, Continue, Signing
    <3> QED
      BY <1>2, <3>1, <3>2 DEF WithMobile
  <2>3. ASSUME NEW i \in Instances, InstanceDies(i)
        PROVE  handlers'[h] = handlers[h]
    BY <1>7, <2>3 DEF InstanceDies
  <2>4. ASSUME NEW g \in Handlers,
               \/ InsertUser(g) \/ SignAccessToken(g)
               \/ \E i \in Instances : \E u \in DOMAIN users : FindToken(g, i, u)
        PROVE  handlers'[h] = handlers[h]
    BY <1>7, <2>4 DEF InsertUser, SignAccessToken, FindToken, Continue, Signing
  <2>5. ASSUME NEW g \in Handlers, NEW i \in Instances, NEW mobile \in Mobiles,
               FindUser(g, i, mobile), g # h
        PROVE  handlers'[h] = handlers[h]
    BY <2>5 DEF FindUser, Continue
  <2> QED
    BY <2>1, <2>2, <2>3, <2>4, <2>5 DEF RolesNext, rolesVars, Tick, BuildIndex, StartStep,
       StartInstance, CountUsers, CreateSuperAdmin, ConnectConsumer, Move, UpdateProfile, ChangeRole
<1>8. ServingIsLater'
  BY <1>6, <1>7 DEF ServingIsLater
<1> QED
  BY <1>5, <1>8

(* Nothing is forgotten, and the clock does not run while a role is being signed. *)
LEMMA HistoryGrows ==
  RolesInv /\ [RolesNext]_rolesVars =>
    /\ lostRoles \subseteq lostRoles'
    /\ now \in Nat /\ now' \in Nat /\ now <= now'
    /\ now' = now \/ \A h \in Handlers : handlers[h].pc # "signing" /\ handlers' = handlers
<1> SUFFICES ASSUME RolesInv, [RolesNext]_rolesVars
             PROVE  /\ lostRoles \subseteq lostRoles'
                    /\ now \in Nat /\ now' \in Nat /\ now <= now'
                    /\ now' = now \/ \A h \in Handlers :
                                      handlers[h].pc # "signing" /\ handlers' = handlers
  OBVIOUS
<1>0. now \in Nat /\ now' \in Nat
  BY RolesTypeStep DEF RolesInv, RolesTypeOK
<1>1. CASE Tick
  BY <1>0, <1>1 DEF Tick
<1>2. ASSUME NEW u \in DOMAIN users, NEW role \in {USER, ADMIN}, ChangeRole(u, role)
      PROVE  lostRoles \subseteq lostRoles' /\ now' = now
  BY <1>2 DEF ChangeRole
<1>3. CASE UNCHANGED <<lostRoles, now>>
  BY <1>0, <1>3
<1>4. \/ Tick \/ UNCHANGED <<lostRoles, now>>
      \/ \E u \in DOMAIN users, role \in {USER, ADMIN} : ChangeRole(u, role)
  <2>1. ASSUME NEW i \in Instances, StartStep(i) \/ InstanceDies(i)
        PROVE  UNCHANGED <<lostRoles, now>>
    BY <2>1 DEF StartStep, StartInstance, CountUsers, CreateSuperAdmin, ConnectConsumer, Move, InstanceDies
  <2>2. ASSUME NEW h \in Handlers,
               \/ InsertUser(h) \/ SignAccessToken(h)
               \/ \E i \in Instances : \/ \E mobile \in Mobiles : FindUser(h, i, mobile)
                                      \/ \E u \in DOMAIN users : FindToken(h, i, u)
        PROVE  UNCHANGED <<lostRoles, now>>
    BY <2>2 DEF InsertUser, SignAccessToken, FindUser, FindToken, Continue
  <2>3. CASE BuildIndex \/ \E access \in accessTokens : UpdateProfile(access)
    BY <2>3 DEF BuildIndex, UpdateProfile
  <2> QED
    BY <2>1, <2>2, <2>3 DEF RolesNext, rolesVars
<1> QED
  BY <1>0, <1>1, <1>2, <1>3, <1>4

(* The role that a handler or a token has of a user was the user's at that time. *)
HeldNow(u, role) ==
  /\ u \in DOMAIN users
  /\ \/ users[u].role = role
     \/ [user |-> u, role |-> role, at |-> now] \in lostRoles

LEMMA HeldNowStays ==
  ASSUME RolesInv, [RolesNext]_rolesVars, now' = now, NEW u, NEW role, HeldNow(u, role)
  PROVE  HeldNow(u, role)'
BY UsersGrow, HistoryGrows DEF HeldNow, Growth

LEMMA SigningStep ==
  ASSUME RolesInv, [RolesNext]_rolesVars, NEW h \in Handlers, handlers'[h].pc = "signing"
  PROVE  HeldNow(handlers[h].user, handlers[h].role)'
<1> DEFINE Goal == HeldNow(handlers[h].user, handlers[h].role)'
<1> USE DEF RolesInv, RolesTypeOK
<1>1. CASE handlers'[h] = handlers[h]
  <2>1. HeldNow(handlers[h].user, handlers[h].role) /\ now' = now
    BY <1>1, HistoryGrows DEF HeldNow, TokensHaveUsers, SignedRolesWereHeld
  <2> QED
    BY <1>1, <2>1, HeldNowStays
<1>2. ASSUME NEW i \in Instances, NEW mobile \in Mobiles, FindUser(h, i, mobile)
      PROVE  Goal
  BY <1>2 DEF FindUser, Continue, Signing, HeldNow, WithMobile
<1>3. ASSUME NEW i \in Instances, NEW u \in DOMAIN users, FindToken(h, i, u)
      PROVE  Goal
  BY <1>3 DEF FindToken, Continue, Signing, HeldNow
<1>4. ASSUME InsertUser(h)
      PROVE  Goal
  <2>1. handlers[h].mobile \in Mobiles /\ USER \in UserRoles
    BY <1>4 DEF InsertUser, Handler, UserRoles
  <2>2. Insert(handlers[h].mobile, USER) /\ handlers'[h] = Signing(handlers[h].at, Len(users) + 1, USER)
    BY <1>4 DEF InsertUser, Continue
  <2>3. handlers'[h].user = Len(users) + 1 /\ handlers'[h].role = USER
    BY <2>2 DEF Signing
  <2>4. Len(users) + 1 \in DOMAIN users' /\ users'[Len(users) + 1].role = USER
    BY <2>1, <2>2, InsertedUser
  <2> QED
    BY <2>3, <2>4 DEF HeldNow
<1>5. ASSUME NEW i \in Instances, InstanceDies(i)
      PROVE  handlers'[h] = handlers[h]
  BY <1>5 DEF InstanceDies
<1>6. ASSUME SignAccessToken(h)
      PROVE  FALSE
  BY <1>6 DEF SignAccessToken, Continue
<1>7. ASSUME NEW g \in Handlers, g # h,
             \/ InsertUser(g) \/ SignAccessToken(g)
             \/ \E i \in Instances : \/ \E mobile \in Mobiles : FindUser(g, i, mobile)
                                    \/ \E u \in DOMAIN users : FindToken(g, i, u)
      PROVE  handlers'[h] = handlers[h]
  BY <1>7 DEF InsertUser, SignAccessToken, FindUser, FindToken, Continue
<1> QED
  BY <1>1, <1>2, <1>3, <1>4, <1>5, <1>6, <1>7 DEF RolesNext, rolesVars, Tick, BuildIndex, StartStep,
     StartInstance, CountUsers, CreateSuperAdmin, ConnectConsumer, Move, UpdateProfile, ChangeRole

(* A token was issued with a role that its user has, or has lost not long before. *)
TokenHeld(access) ==
  /\ access.user \in DOMAIN users
  /\ \/ users[access.user].role = access.role /\ access.expires <= now + AccessTtl
     \/ \E lost \in lostRoles : /\ lost.user = access.user
                                /\ lost.role = access.role
                                /\ access.expires <= lost.at + AccessTtl

LEMMA TokenStep ==
  ASSUME RolesInv, [RolesNext]_rolesVars, NEW access \in accessTokens'
  PROVE  TokenHeld(access)'
<1> USE DEF RolesInv, RolesTypeOK
<1>0. access.expires \in Nat /\ now \in Nat /\ now' \in Nat /\ now <= now' /\ lostRoles \subseteq lostRoles'
  BY RolesTypeStep, HistoryGrows DEF AccessToken
<1>1. CASE access \in accessTokens
  <2>1. TokenHeld(access)
    BY <1>1 DEF TokenHeld, TokensHaveUsers, SignedRolesWereHeld
  <2>2. access.user \in DOMAIN users'
    BY <2>1, UsersGrow DEF TokenHeld, Growth
  <2>3. CASE users[access.user].role = access.role /\ access.expires <= now + AccessTtl
    <3>1. CASE users'[access.user].role = access.role
      BY <1>0, <2>2, <2>3, <3>1 DEF TokenHeld
    <3>2. CASE users'[access.user].role # access.role
      <4> DEFINE lost == [user |-> access.user, role |-> access.role, at |-> now]
      <4>1. lost \in lostRoles'
        BY <2>1, <2>3, <3>2, UsersGrow DEF TokenHeld, Growth
      <4>2. lost.user = access.user /\ lost.role = access.role /\ lost.at = now
        OBVIOUS
      <4> HIDE DEF lost
      <4> QED
        BY <2>2, <2>3, <4>1, <4>2 DEF TokenHeld
    <3> QED
      BY <3>1, <3>2
  <2>4. CASE \E lost \in lostRoles : /\ lost.user = access.user
                                    /\ lost.role = access.role
                                    /\ access.expires <= lost.at + AccessTtl
    BY <1>0, <2>2, <2>4 DEF TokenHeld
  <2> QED
    BY <2>1, <2>3, <2>4 DEF TokenHeld
<1>2. CASE access \notin accessTokens
  <2>1. PICK h \in Handlers : SignAccessToken(h)
    BY <1>2 DEF RolesNext, rolesVars, Tick, BuildIndex, StartStep, StartInstance, CountUsers,
       CreateSuperAdmin, ConnectConsumer, Move, InstanceDies, FindUser, FindToken, InsertUser,
       UpdateProfile, ChangeRole
  <2> DEFINE user == handlers[h].user
             role == handlers[h].role
             lost == [user |-> user, role |-> role, at |-> now]
  <2>2. UNCHANGED <<users, now, lostRoles>>
    BY <2>1 DEF SignAccessToken, Continue
  <2>3. access.user = user /\ access.role = role /\ access.expires = now + AccessTtl
    BY <1>2, <2>1 DEF SignAccessToken
  <2>4. user \in DOMAIN users /\ (users[user].role = role \/ lost \in lostRoles)
    BY <2>1 DEF SignAccessToken, TokensHaveUsers, SignedRolesWereHeld
  <2>5. lost.user = user /\ lost.role = role /\ lost.at = now
    OBVIOUS
  <2>6. now + AccessTtl <= now + AccessTtl
    BY <1>0
  <2> HIDE DEF user, role, lost
  <2> QED
    BY <2>2, <2>3, <2>4, <2>5, <2>6 DEF TokenHeld
<1> QED
  BY <1>1, <1>2

LEMMA RolesStep == RolesInv /\ [RolesNext]_rolesVars => RolesInv'
<1> SUFFICES ASSUME RolesInv, [RolesNext]_rolesVars
             PROVE  RolesInv'
  OBVIOUS
<1>1. TokensHaveUsers' /\ SignedRolesWereHeld'
  BY SigningStep, TokenStep DEF HeldNow, TokenHeld, TokensHaveUsers, SignedRolesWereHeld
<1> QED
  BY <1>1, RolesTypeStep, SuperAdminStep DEF RolesInv

LEMMA RolesInvariant == RolesSpec => []RolesInv
<1>1. RolesInit => RolesInv
  BY RolesInitInv
<1>2. RolesInv /\ [RolesNext]_rolesVars => RolesInv'
  BY RolesStep
<1> QED
  BY <1>1, <1>2, PTL DEF RolesSpec

(* The types of the user service's accounts, handlers and tokens. *)
THEOREM RolesTypeCorrect == RolesSpec => []RolesTypeOK
<1>1. RolesInv => RolesTypeOK
  BY DEF RolesInv
<1> QED
  BY <1>1, RolesInvariant, PTL

(* onModuleInit, in any number of instances that start, die and start again, makes *)
(* the super admin's account the first, and nobody else gets his number.           *)
THEOREM SuperAdminIsFirst == RolesSpec => []SuperAdminFirst
<1>1. RolesInv => SuperAdminFirst
  BY DEF RolesInv
<1> QED
  BY <1>1, RolesInvariant, PTL

(* The guards admit nobody for longer than ACCESS_TOKEN_EXPIRES_IN after the role *)
(* was taken away, whichever logins and refreshes were running.                   *)
THEOREM AdminsStayCurrent == RolesSpec => []AdminsAreCurrent
<1>1. RolesInv => AdminsAreCurrent
  <2> SUFFICES ASSUME RolesInv, NEW access \in accessTokens, NEW methodRole \in UserRoles,
                      AuthzGuard(access, methodRole)
               PROVE  \/ users[access.user].role >= methodRole
                      \/ \E lost \in lostRoles : /\ lost.user = access.user
                                                 /\ lost.role >= methodRole
                                                 /\ now < lost.at + AccessTtl
    BY DEF AdminsAreCurrent
  <2>1. now < access.expires /\ access.role >= methodRole
    BY DEF AuthzGuard, UserAuthGuard
  <2>2. now \in Nat /\ access.expires \in Nat /\ \A lost \in lostRoles : lost.at \in Nat
    BY DEF RolesInv, RolesTypeOK, AccessToken, LostRole
  <2> QED
    BY <2>1, <2>2 DEF RolesInv, SignedRolesWereHeld
<1> QED
  BY <1>1, RolesInvariant, PTL
=============================================================================
