------------------------------- MODULE Roles -------------------------------
(***************************************************************************)
(* Who is an admin, and who is taken for one.  Instances of the user       *)
(* service start on one database, and the first creates the super admin    *)
(* (onModuleInit, user/src/user/user.service.ts); logins and refreshes put *)
(* the role that they read into a signed access token (token.service.ts);  *)
(* the guards of all three services trust the token and ask nobody.  One-  *)
(* time codes and the life of refresh tokens are the subject of Login.     *)
(***************************************************************************)
EXTENDS Naturals, Sequences

CONSTANTS
  Instances,         \* processes of the user service
  Mobiles,
  SuperAdminMobile,  \* SUPER_ADMIN_MOBILE
  Handlers,          \* calls of verifyLogin and of refreshAccessToken
  AccessTtl,         \* ACCESS_TOKEN_EXPIRES_IN, 600 s
  MaxTime,           \* bound on the clock
  MaxChanges,        \* bound on roles changed by hand
  MaxStartFaults     \* bound on exceptions and crashes

ASSUME SuperAdminAssumption == SuperAdminMobile \in Mobiles
ASSUME RoleBoundsAssumption ==
  AccessTtl \in Nat /\ MaxTime \in Nat /\ MaxChanges \in Nat /\ MaxStartFaults \in Nat

VARIABLES
  now,               \* the clock
  users,             \* the collection, in the order of its _ids; none is ever deleted
  indexed,           \* has the unique index on mobile been built?
  instances,         \* [Instances -> InstanceStates]
  handlers,          \* [Handlers -> Handler]
  accessTokens,      \* the access tokens that were issued
  lostRoles,         \* history: which user lost which role when
  changes,           \* roles changed by hand so far
  startFaults        \* faults so far, at most MaxStartFaults

rolesVars ==
  <<now, users, indexed, instances, handlers, accessTokens, lostRoles, changes, startFaults>>

USER == 1
ADMIN == 2
SUPER_ADMIN == 3

UserRoles == {USER, ADMIN, SUPER_ADMIN}

User == [mobile : Mobiles, role : UserRoles, named : BOOLEAN]

InstanceStates == {"down", "counting", "creating", "connecting", "up"}

Handler ==
  [pc : {"idle", "done"}] \cup
  [pc : {"inserting"}, at : Instances, mobile : Mobiles] \cup
  [pc : {"signing"}, at : Instances, user : Nat, role : UserRoles]

AccessToken == [user : Nat, role : UserRoles, expires : Nat]

LostRole == [user : Nat, role : UserRoles, at : Nat]

RolesTypeOK ==
  /\ now \in Nat
  /\ users \in Seq(User)
  /\ indexed \in BOOLEAN
  /\ instances \in [Instances -> InstanceStates]
  /\ handlers \in [Handlers -> Handler]
  /\ accessTokens \in SUBSET AccessToken
  /\ lostRoles \in SUBSET LostRole
  /\ changes \in 0 .. MaxChanges
  /\ startFaults \in 0 .. MaxStartFaults

RolesInit ==
  /\ now = 0
  /\ users = << >>
  /\ indexed = FALSE
  /\ instances = [i \in Instances |-> "down"]
  /\ handlers = [h \in Handlers |-> [pc |-> "idle"]]
  /\ accessTokens = {}
  /\ lostRoles = {}
  /\ changes = 0
  /\ startFaults = 0

WithMobile(mobile) == {u \in DOMAIN users : users[u].mobile = mobile}

(* Time passes; between the reading of a role and the signature there is no wait. *)
Tick ==
  /\ now < MaxTime
  /\ \A h \in Handlers : handlers[h].pc # "signing"
  /\ now' = now + 1
  /\ UNCHANGED <<users, indexed, instances, handlers, accessTokens, lostRoles>>
  /\ UNCHANGED <<changes, startFaults>>
-----------------------------------------------------------------------------
Move(i, to) ==
  /\ instances' = [instances EXCEPT ![i] = to]
  /\ UNCHANGED <<now, handlers, accessTokens, lostRoles, changes, startFaults>>

(* The container is started, at first or again (restart: unless-stopped). *)
StartInstance(i) ==
  /\ instances[i] = "down"
  /\ Move(i, "counting")
  /\ UNCHANGED <<users, indexed>>

(* mongoose builds the unique index in the background, and cannot any more when two *)
(* documents have one mobile number.                                                *)
BuildIndex ==
  /\ \E i \in Instances : instances[i] # "down"
  /\ \A u, v \in DOMAIN users : users[u].mobile = users[v].mobile => u = v
  /\ indexed' = TRUE
  /\ UNCHANGED <<now, users, instances, handlers, accessTokens, lostRoles>>
  /\ UNCHANGED <<changes, startFaults>>

(* Faulty CountUsers: the condition is the wrong way round. *)
CountUsersInverted(i) ==
  /\ instances[i] = "counting"
  /\ Move(i, IF users = << >> THEN "connecting" ELSE "creating")
  /\ UNCHANGED <<users, indexed>>

(* onModuleInit counts the users. *)
CountUsers(i) ==
  /\ instances[i] = "counting"
  /\ Move(i, IF users = << >> THEN "creating" ELSE "connecting")
  /\ UNCHANGED <<users, indexed>>

(* A document is inserted unless the unique index refuses it. *)
Insertable(mobile) == indexed => WithMobile(mobile) = {}

Insert(mobile, role) ==
  /\ Insertable(mobile)
  /\ users' = Append(users, [mobile |-> mobile, role |-> role, named |-> FALSE])

(* Faulty CreateSuperAdmin: the duplicate is tried again and again. *)
CreateSuperAdminAgain(i) ==
  /\ instances[i] = "creating"
  /\ \/ /\ Insert(SuperAdminMobile, SUPER_ADMIN)
        /\ Move(i, "connecting")
     \/ /\ ~ Insertable(SuperAdminMobile)
        /\ Move(i, "creating")
        /\ UNCHANGED users
  /\ UNCHANGED indexed

(* userModel.create of the super admin; when the index refuses it, the exception *)
(* leaves bootstrap and the process dies.                                        *)
CreateSuperAdmin(i) ==
  /\ instances[i] = "creating"
  /\ \/ /\ Insert(SuperAdminMobile, SUPER_ADMIN)
        /\ Move(i, "connecting")
     \/ /\ ~ Insertable(SuperAdminMobile)
        /\ Move(i, "down")
        /\ UNCHANGED users
  /\ UNCHANGED indexed

(* The consumer is connected, and app.listen serves requests. *)
ConnectConsumer(i) ==
  /\ instances[i] = "connecting"
  /\ Move(i, "up")
  /\ UNCHANGED <<users, indexed>>

(* The process dies, or an await of onModuleInit rejects: its handlers are gone. *)
InstanceDies(i) ==
  /\ startFaults < MaxStartFaults
  /\ instances[i] # "down"
  /\ instances' = [instances EXCEPT ![i] = "down"]
  /\ handlers' = [h \in Handlers |->
                    IF handlers[h].pc \in {"inserting", "signing"} /\ handlers[h].at = i
                    THEN [pc |-> "done"] ELSE handlers[h]]
  /\ startFaults' = startFaults + 1
  /\ UNCHANGED <<now, users, indexed, accessTokens, lostRoles, changes>>
-----------------------------------------------------------------------------
Continue(h, handler) ==
  /\ handlers' = [handlers EXCEPT ![h] = handler]
  /\ UNCHANGED <<now, indexed, instances, lostRoles, changes, startFaults>>

(* A handler of instance i that knows the user and the role of the token it signs. *)
Signing(i, u, role) == [pc |-> "signing", at |-> i, user |-> u, role |-> role]

(* verifyLogin, its code accepted, looks for the user with the mobile number. *)
FindUser(h, i, mobile) ==
  /\ handlers[h].pc = "idle"
  /\ instances[i] = "up"
  /\ \/ \E u \in WithMobile(mobile) : Continue(h, Signing(i, u, users[u].role))
     \/ /\ WithMobile(mobile) = {}
        /\ Continue(h, [pc |-> "inserting", at |-> i, mobile |-> mobile])
  /\ UNCHANGED <<users, accessTokens>>

(* Faulty InsertUser: the document has no role. *)
InsertUserWithoutRole(h) ==
  /\ handlers[h].pc = "inserting"
  /\ \/ /\ Insert(handlers[h].mobile, 0)
        /\ Continue(h, Signing(handlers[h].at, Len(users) + 1, 0))
     \/ /\ ~ Insertable(handlers[h].mobile)
        /\ Continue(h, [pc |-> "done"])
        /\ UNCHANGED users
  /\ UNCHANGED accessTokens

(* It inserts a new user, or fails when the index refuses it. *)
InsertUser(h) ==
  /\ handlers[h].pc = "inserting"
  /\ \/ /\ Insert(handlers[h].mobile, USER)
        /\ Continue(h, Signing(handlers[h].at, Len(users) + 1, USER))
     \/ /\ ~ Insertable(handlers[h].mobile)
        /\ Continue(h, [pc |-> "done"])
        /\ UNCHANGED users
  /\ UNCHANGED accessTokens

(* Faulty FindToken: the role is that of an access token signed before. *)
FindTokenKeepRole(h, i, u) ==
  /\ handlers[h].pc = "idle"
  /\ instances[i] = "up"
  /\ \E access \in accessTokens :
       access.user = u /\ Continue(h, Signing(i, u, access.role))
  /\ UNCHANGED <<users, accessTokens>>

(* refreshAccessToken reads the role of its token's user, one who has logged in. *)
FindToken(h, i, u) ==
  /\ handlers[h].pc = "idle"
  /\ instances[i] = "up"
  /\ \E access \in accessTokens : access.user = u
  /\ Continue(h, Signing(i, u, users[u].role))
  /\ UNCHANGED <<users, accessTokens>>

(* jwtService.signAsync. *)
SignAccessToken(h) ==
  /\ handlers[h].pc = "signing"
  /\ accessTokens' = accessTokens \cup
       {[user |-> handlers[h].user, role |-> handlers[h].role, expires |-> now + AccessTtl]}
  /\ Continue(h, [pc |-> "done"])
  /\ UNCHANGED users

(* UserAuthGuard of every service: the signature and the expiry date. *)
UserAuthGuard(access) == access \in accessTokens /\ now < access.expires

(* AuthzGuard of every service, and @RequireRole of the method. *)
AuthzGuard(access, methodRole) == UserAuthGuard(access) /\ access.role >= methodRole

(* updateProfile: $set of the nickname and of nothing else. *)
UpdateProfile(access) ==
  /\ UserAuthGuard(access)
  /\ \E i \in Instances : instances[i] = "up"
  /\ users' = [users EXCEPT ![access.user].named = TRUE]
  /\ UNCHANGED <<now, indexed, instances, handlers, accessTokens, lostRoles>>
  /\ UNCHANGED <<changes, startFaults>>

(* Somebody makes a user an admin in the database, or an admin a user. *)
ChangeRole(u, role) ==
  /\ changes < MaxChanges
  /\ users[u].role \notin {role, SUPER_ADMIN}
  /\ users' = [users EXCEPT ![u].role = role]
  /\ lostRoles' = lostRoles \cup {[user |-> u, role |-> users[u].role, at |-> now]}
  /\ changes' = changes + 1
  /\ UNCHANGED <<now, indexed, instances, handlers, accessTokens, startFaults>>
-----------------------------------------------------------------------------
StartStep(i) ==
  StartInstance(i) \/ CountUsers(i) \/ CreateSuperAdmin(i) \/ ConnectConsumer(i)

RolesNext ==
  \/ Tick
  \/ BuildIndex
  \/ \E i \in Instances : StartStep(i) \/ InstanceDies(i)
  \/ \E h \in Handlers :
       \/ \E i \in Instances : \/ \E mobile \in Mobiles : FindUser(h, i, mobile)
                               \/ \E u \in DOMAIN users : FindToken(h, i, u)
       \/ InsertUser(h) \/ SignAccessToken(h)
  \/ \E access \in accessTokens : UpdateProfile(access)
  \/ \E u \in DOMAIN users, role \in {USER, ADMIN} : ChangeRole(u, role)

RolesSpec == RolesInit /\ [][RolesNext]_rolesVars

(* The restart policy starts a process that died, and a process runs. *)
RolesFairness == \A i \in Instances : WF_rolesVars(StartStep(i))

FairRolesSpec == RolesSpec /\ RolesFairness
-----------------------------------------------------------------------------
(* The first account is the super admin's, and his number is never an ordinary     *)
(* user's: whoever logs in first, whichever instance is first to serve, and however *)
(* often instances die while they start.                                            *)
SuperAdminFirst ==
  /\ users # << >> => \E u \in WithMobile(SuperAdminMobile) : users[u].role = SUPER_ADMIN
  /\ \A u \in DOMAIN users : users[u].mobile = SuperAdminMobile <=> users[u].role = SUPER_ADMIN

(* A method with @RequireRole admits only those whose role allows it now, or did     *)
(* less than ACCESS_TOKEN_EXPIRES_IN ago: a role that was taken away in the database *)
(* lives on in tokens, also in one signed after the change by a login or a refresh   *)
(* that had read the role before it, but no refresh makes it live longer.            *)
AdminsAreCurrent ==
  \A access \in accessTokens, methodRole \in UserRoles :
    AuthzGuard(access, methodRole) =>
      \/ users[access.user].role >= methodRole
      \/ \E lost \in lostRoles : /\ lost.user = access.user
                                 /\ lost.role >= methodRole
                                 /\ now < lost.at + AccessTtl

(* Instances that start at once on an empty database all come up in the end, also *)
(* the one whose super admin the unique index refuses.                            *)
InstancesComeUp == \A i \in Instances : <>[](instances[i] = "up")
-----------------------------------------------------------------------------
(* The invariant that makes the first two inductive. *)

(* A handler that inserts serves, and a user served is not the first. *)
ServingIsLater ==
  /\ \A i \in Instances : instances[i] \in {"connecting", "up"} => users # << >>
  /\ \A h \in Handlers : handlers[h].pc = "inserting" =>
       users # << >> /\ handlers[h].mobile # SuperAdminMobile

TokensHaveUsers ==
  /\ \A access \in accessTokens : access.user \in DOMAIN users
  /\ \A h \in Handlers : handlers[h].pc = "signing" => handlers[h].user \in DOMAIN users

(* A role that is read, or signed, is its user's, or was when it was read. *)
SignedRolesWereHeld ==
  /\ \A h \in Handlers : handlers[h].pc = "signing" =>
       \/ users[handlers[h].user].role = handlers[h].role
       \/ [user |-> handlers[h].user, role |-> handlers[h].role, at |-> now] \in lostRoles
  /\ \A access \in accessTokens :
       \/ users[access.user].role = access.role /\ access.expires <= now + AccessTtl
       \/ \E lost \in lostRoles : /\ lost.user = access.user
                                  /\ lost.role = access.role
                                  /\ access.expires <= lost.at + AccessTtl

RolesInv ==
  /\ RolesTypeOK
  /\ ServingIsLater
  /\ SuperAdminFirst
  /\ TokensHaveUsers
  /\ SignedRolesWereHeld
=============================================================================
