------------------------------ MODULE Accounts ------------------------------
(***************************************************************************)
(* Accounts, roles and logins of the minigame server.                      *)
(*                                                                         *)
(* Every TCP connection is served on an IO thread, and several threads run *)
(* handlers at the same time.  A handler blocks in                         *)
(* SyncRedisWrapper::RedisCommand, which holds one lock for the length of  *)
(* one command; between two commands of a handler the other threads run.   *)
(* So the atomic steps of this module are the Redis commands, each with    *)
(* the local computation that follows it.                                  *)
(*                                                                         *)
(* A process is the peer address of a connection (RoleinfoManager keys its *)
(* map by that address) or Main, the thread that runs main() before the    *)
(* port is bound.  Redis survives a crash of the server, roles_ does not.  *)
(***************************************************************************)
EXTENDS Naturals

CONSTANTS
    Names,          \* account names, up to the first NUL: they are used as c_str()
    EmptyName,      \* the empty string, a protobuf string field's default
    SeedName,       \* "hello", the account prepareAndCheck writes
    BootName,       \* "2", the account main() registers
    ClientNames,    \* the names that clients put into requests
    Passwords,
    ClientPasswords,    \* those that clients put into requests
    CStr,           \* c_str(): what a password is up to its first NUL
    SeedPassword,   \* "world"
    BootPassword,   \* "2"
    SeedId,         \* player_id of the seeded role (31)
    Addrs,          \* peer addresses
    Main,           \* the main thread
    Nil,            \* a key that does not exist, a null shared_ptr, no response
    MaxRequests,    \* bound: requests that the clients send
    MaxCrashes,     \* bound: crashes of the server process
    MaxErrors       \* bound: commands that Redis answers with an error reply

\* A RoleInfo message: the fields of its BasicInfo. (Its progress field is
\* written but never read.)
Role == [id : Nat, returning : BOOLEAN, username : Names]

ASSUME NamesAssumption ==
    /\ {EmptyName, SeedName, BootName} \cup ClientNames \subseteq Names
    /\ EmptyName # SeedName /\ EmptyName # BootName /\ SeedName # BootName
    /\ {SeedPassword, BootPassword} \cup ClientPasswords \subseteq Passwords
    /\ CStr \in [Passwords -> Passwords]
    /\ \A w \in Passwords : CStr[CStr[w]] = CStr[w]
    /\ SeedId \in Nat

ASSUME ProcessAssumption == Main \notin Addrs

ASSUME BoundsAssumption ==
    /\ MaxRequests \in Nat
    /\ MaxCrashes \in Nat
    /\ MaxErrors \in Nat

VARIABLES
    \* Redis
    passwords,      \* __password_<name>
    dbRoles,        \* __role_<name>
    gid,            \* gid
    \* the server process
    roles_,         \* RoleinfoManager::roles_
    pc,             \* the next Redis command of each process
    req,            \* the request in hand
    held,           \* the RoleInfo on the handler's stack
    rsp,            \* the last response written to each connection
    \* what the environment has done so far
    requests, crashes, errors,
    \* history, read by the properties and the next value of history only
    registered,     \* what each REGISTER answered with SUCCEED has granted
    verified,       \* names for which some LOGIN passed the password check
    raced,          \* names that two registrations were creating at once
    cut             \* names whose registration stopped after its password

redisVars == <<passwords, dbRoles, gid>>
budgetVars == <<requests, crashes, errors>>
historyVars == <<registered, verified, raced, cut>>
vars == <<redisVars, roles_, pc, req, held, rsp, budgetVars, historyVars>>

Procs == Addrs \cup {Main}

\* RoleInfo's default instance: an unknown address and an erased role have it.
EmptyRole == [id |-> 0, returning |-> FALSE, username |-> EmptyName]

(***************************************************************************)
(* Some definitions below have variants named Faulty...: plausible mistakes *)
(* in the code they model, each of which breaks a property of this module. *)
(* No action uses them.                                                    *)
(***************************************************************************)

\* What a registration grants: the account with the password in the request.
Grant == [name : Names, password : Passwords, id : Nat]

Ops == {"LOGIN", "REGISTER", "ERASE_ROLE"}

Requests == [op : Ops, name : Names, password : Passwords]

ErrorCodes == {"SUCCEED", "UNKOWN_EORROR", "ACCOUNT_ALREADY_EXIST",
               "LOGIN_PASSWORD_WRONG", "LOGIN_NOT_REGISTERED"}

Responses == [op : Ops, name : Names, error : ErrorCodes, returning : BOOLEAN]

\* Nil is none of the values in whose place it stands.
ASSUME NilAssumption ==
    /\ Nil \notin Passwords
    /\ Nil \notin Role
    /\ Nil \notin Responses
    /\ Nil \notin [password : Passwords, id : Nat]

\* main() ahead of its registration; "down" while there is no server process.
BootLabels == {"down", "boot_set_password", "boot_set_role", "boot_get_role"}

\* A registration that has passed its existence check and is not over yet.
CreatingLabels == {"register_set_password", "register_incr", "register_set_role"}

Labels == BootLabels \cup CreatingLabels \cup
          {"idle", "register_get", "inject_get_role", "inject_add_role",
           "login_get_password", "login_get_role", "login_set_role",
           "erase_set_role"}

\* The port is bound once main() has come to its end.
Up == pc[Main] = "idle"

Creating(p, n) == pc[p] \in CreatingLabels /\ req[p].name = n

Goto(p, label) == pc' = [pc EXCEPT ![p] = label]

\* The service returns and the handler writes its response.
Respond(p, error, returning) ==
    /\ Goto(p, "idle")
    /\ rsp' = [rsp EXCEPT ![p] = [op |-> req[p].op, name |-> req[p].name,
                                  error |-> error, returning |-> returning]]
    /\ held' = [held EXCEPT ![p] = Nil]

\* The two ways in which RedisCommand returns: with the answer to the command,
\* or with an error reply (out of memory, read only, loading...), which leaves
\* the store as it was.
Answered == UNCHANGED errors

ErrorReply ==
    /\ errors < MaxErrors
    /\ errors' = errors + 1

-----------------------------------------------------------------------------
(***************************************************************************)
(* main() up to server.bind                                                *)
(***************************************************************************)

FaultyNoSeeding == "boot_get_role"          \* only the check is left

\* main() starts with prepareAndCheck.
FirstStep == "boot_set_password"

BootRequest == [op |-> "REGISTER", name |-> BootName, password |-> BootPassword]

\* The process ends, by an abort or a crash, and what it had in memory is gone.
ServerEnds ==
    /\ roles_' = [a \in Addrs |-> Nil]
    /\ pc' = [p \in Procs |-> IF p = Main THEN "down" ELSE "idle"]
    /\ held' = [p \in Procs |-> Nil]
    /\ rsp' = [p \in Procs |-> Nil]
    /\ UNCHANGED req

\* Somebody starts the process. It is not the program that does so: the image's
\* only command is the server itself.
Start ==
    /\ pc[Main] = "down"
    /\ Goto(Main, FirstStep)
    /\ UNCHANGED <<redisVars, roles_, req, held, rsp, budgetVars, historyVars>>

SeedRole == [id |-> SeedId, returning |-> FALSE, username |-> SeedName]

\* set __password_hello world; an error reply fails the assertion.
BootSetPassword ==
    /\ pc[Main] = "boot_set_password"
    /\ \/ /\ Answered
          /\ passwords' = [passwords EXCEPT ![SeedName] = SeedPassword]
          /\ Goto(Main, "boot_set_role")
          /\ UNCHANGED <<roles_, req, held, rsp>>
       \/ /\ ErrorReply
          /\ ServerEnds
          /\ UNCHANGED passwords
    /\ UNCHANGED <<dbRoles, gid, requests, crashes, historyVars>>

\* set __role_hello: the assertion only asks for a reply, not for which one.
BootSetRole ==
    /\ pc[Main] = "boot_set_role"
    /\ \/ /\ Answered
          /\ dbRoles' = [dbRoles EXCEPT ![SeedName] = SeedRole]
       \/ /\ ErrorReply
          /\ UNCHANGED dbRoles
    /\ Goto(Main, "boot_get_role")
    /\ UNCHANGED <<passwords, gid, roles_, req, held, rsp,
                   requests, crashes, historyVars>>

FaultyAssertionsOff == TRUE                 \* NDEBUG

\* The assertion on the reply to get __role_hello.
SeedRoleRead == dbRoles[SeedName] # Nil

\* get __role_hello must be a string; main() then registers account "2".
BootGetRole ==
    /\ pc[Main] = "boot_get_role"
    /\ \/ /\ Answered
          /\ SeedRoleRead
          /\ Goto(Main, "register_get")
          /\ UNCHANGED <<roles_, req, held, rsp>>
       \/ /\ \/ Answered /\ ~SeedRoleRead
             \/ ErrorReply
          /\ ServerEnds
    /\ UNCHANGED <<redisVars, requests, crashes, historyVars>>

-----------------------------------------------------------------------------
(***************************************************************************)
(* MinigameRegisterService                                                 *)
(***************************************************************************)

FaultyFree(n) == TRUE                       \* the name is not looked up

Free(n) == passwords[n] = Nil

\* get __password_<name>: anything but nil, an error too, counts as existing.
RegisterGetPassword(p) ==
    LET n == req[p].name
    IN  /\ pc[p] = "register_get"
        /\ \/ /\ Answered
              /\ Free(n)
              /\ Goto(p, "register_set_password")
              /\ raced' = IF \E q \in Procs \ {p} : Creating(q, n)
                          THEN raced \cup {n} ELSE raced
              /\ UNCHANGED <<held, rsp>>
           \/ /\ \/ Answered /\ ~Free(n)
                 \/ ErrorReply
              /\ Respond(p, "ACCOUNT_ALREADY_EXIST", FALSE)
              /\ UNCHANGED raced
        /\ UNCHANGED <<redisVars, roles_, req, requests, crashes,
                       registered, verified, cut>>

\* set __password_<name> <password>, both as c_str().
RegisterSetPassword(p) ==
    /\ pc[p] = "register_set_password"
    /\ \/ /\ Answered
          /\ passwords' = [passwords EXCEPT ![req[p].name] = CStr[req[p].password]]
          /\ Goto(p, "register_incr")
          /\ UNCHANGED <<held, rsp>>
       \/ /\ ErrorReply
          /\ Respond(p, "UNKOWN_EORROR", FALSE)
          /\ UNCHANGED passwords
    /\ UNCHANGED <<dbRoles, gid, roles_, req, requests, crashes, historyVars>>

FaultyOldGid(p) ==                          \* the counter before incr
    [id |-> gid, returning |-> FALSE, username |-> req[p].name]
FaultyNoUsername(p) == [id |-> gid + 1, returning |-> FALSE, username |-> EmptyName]
FaultyReturning(p) == [id |-> gid + 1, returning |-> TRUE, username |-> req[p].name]

\* initial_role
NewRole(p) == [id |-> gid + 1, returning |-> FALSE, username |-> req[p].name]

\* incr gid: the new player's id.
RegisterIncrGid(p) ==
    /\ pc[p] = "register_incr"
    /\ \/ /\ Answered
          /\ gid' = gid + 1
          /\ held' = [held EXCEPT ![p] = NewRole(p)]
          /\ Goto(p, "register_set_role")
          /\ UNCHANGED <<rsp, cut>>
       \/ /\ ErrorReply
          /\ Respond(p, "UNKOWN_EORROR", FALSE)
          /\ cut' = cut \cup {req[p].name}
          /\ UNCHANGED gid
    /\ UNCHANGED <<passwords, dbRoles, roles_, req, requests, crashes,
                   registered, verified, raced>>

RegisterSetRole(p) ==
    /\ pc[p] = "register_set_role"
    /\ \/ /\ Answered
          /\ dbRoles' = [dbRoles EXCEPT ![req[p].name] = held[p]]
          /\ Respond(p, "SUCCEED", FALSE)
          /\ registered' = registered \cup
                {[name |-> req[p].name, password |-> req[p].password,
                  id |-> held[p].id]}
          /\ UNCHANGED cut
       \/ /\ ErrorReply
          /\ Respond(p, "UNKOWN_EORROR", FALSE)
          /\ cut' = cut \cup {req[p].name}
          /\ UNCHANGED <<dbRoles, registered>>
    /\ UNCHANGED <<passwords, gid, roles_, req, requests, crashes,
                   verified, raced>>

-----------------------------------------------------------------------------
(***************************************************************************)
(* RoleInjectHandler::read, case LOGIN, and MinigameFakeLoginService       *)
(***************************************************************************)

FaultyPulled(n) == TRUE                     \* no test for a null role

\* PullRoleInfoFromDB returns a role, not a null pointer.
Pulled(n) == dbRoles[n] # Nil

\* PullRoleInfoFromDB. The handler does this before the login service is asked.
InjectGetRole(a) ==
    /\ pc[a] = "inject_get_role"
    /\ \/ /\ Answered
          /\ Pulled(req[a].name)
          /\ held' = [held EXCEPT ![a] = dbRoles[req[a].name]]
          /\ Goto(a, "inject_add_role")
       \/ /\ \/ Answered /\ ~Pulled(req[a].name)
             \/ ErrorReply
          /\ Goto(a, "login_get_password")
          /\ UNCHANGED held
    /\ UNCHANGED <<redisVars, roles_, req, rsp, requests, crashes, historyVars>>

FaultyAddRoleRetries(a) ==                  \* until the insertion takes place
    /\ pc[a] = "inject_add_role"
    /\ roles_' = [roles_ EXCEPT ![a] = IF @ = Nil THEN held[a] ELSE @]
    /\ held' = [held EXCEPT ![a] = Nil]
    /\ Goto(a, IF roles_[a] = Nil THEN "login_get_password" ELSE "inject_get_role")
    /\ UNCHANGED <<redisVars, req, rsp, budgetVars, historyVars>>

\* AddRole inserts under roles_mutex_: an entry that is there stays.
InjectAddRole(a) ==
    /\ pc[a] = "inject_add_role"
    /\ roles_' = [roles_ EXCEPT ![a] = IF @ = Nil THEN held[a] ELSE @]
    /\ held' = [held EXCEPT ![a] = Nil]
    /\ Goto(a, "login_get_password")
    /\ UNCHANGED <<redisVars, req, rsp, budgetVars, historyVars>>

\* The whole password of the request is compared, with a NUL in it as well.
LoginGetPassword(a) ==
    LET n == req[a].name
    IN  /\ pc[a] = "login_get_password"
        /\ \/ /\ Answered
              /\ passwords[n] = req[a].password
              /\ Goto(a, "login_get_role")
              /\ verified' = verified \cup {n}
              /\ UNCHANGED <<held, rsp>>
           \/ /\ Answered
              /\ passwords[n] \notin {Nil, req[a].password}
              /\ Respond(a, "LOGIN_PASSWORD_WRONG", FALSE)
              /\ UNCHANGED verified
           \/ /\ \/ Answered /\ passwords[n] = Nil
                 \/ ErrorReply
              /\ Respond(a, "LOGIN_NOT_REGISTERED", FALSE)
              /\ UNCHANGED verified
        /\ UNCHANGED <<redisVars, roles_, req, requests, crashes,
                       registered, raced, cut>>

FaultyMarked(role) ==                       \* a new RoleInfo
    [id |-> 0, returning |-> TRUE, username |-> role.username]

\* set_is_returning_visitor(true)
Marked(role) == [id |-> role.id, returning |-> TRUE, username |-> role.username]

\* The second pull of the same role: on the first login of its account the
\* copy is marked and goes back to Redis.
LoginGetRole(a) ==
    LET role == dbRoles[req[a].name]
    IN  /\ pc[a] = "login_get_role"
        /\ \/ /\ Answered
              /\ role # Nil /\ ~role.returning
              /\ held' = [held EXCEPT ![a] = Marked(role)]
              /\ Goto(a, "login_set_role")
              /\ UNCHANGED rsp
           \/ /\ Answered
              /\ role # Nil /\ role.returning
              /\ Respond(a, "SUCCEED", TRUE)
           \/ /\ \/ Answered /\ role = Nil
                 \/ ErrorReply
              /\ Respond(a, "UNKOWN_EORROR", FALSE)
        /\ UNCHANGED <<redisVars, roles_, req, requests, crashes, historyVars>>

\* PushRoleToDB under the name inside the role; the result is not looked at.
LoginSetRole(a) ==
    /\ pc[a] = "login_set_role"
    /\ \/ /\ Answered
          /\ dbRoles' = [dbRoles EXCEPT ![held[a].username] = held[a]]
       \/ /\ ErrorReply
          /\ UNCHANGED dbRoles
    /\ Respond(a, "SUCCEED", FALSE)
    /\ UNCHANGED <<passwords, gid, roles_, req, requests, crashes, historyVars>>

-----------------------------------------------------------------------------
(***************************************************************************)
(* EraseRoleService: the injected role is cleared as soon as the request   *)
(* comes in (ReceiveErase), then pushed under the name that it has by now, *)
(* the empty one.                                                          *)
(***************************************************************************)
FaultyEraseKey(a) == req[a].name            \* the account named last

EraseKey(a) == EmptyRole.username

EraseSetRole(a) ==
    /\ pc[a] = "erase_set_role"
    /\ \/ /\ Answered
          /\ dbRoles' = [dbRoles EXCEPT ![EraseKey(a)] = EmptyRole]
          /\ Respond(a, "SUCCEED", FALSE)
       \/ /\ ErrorReply
          /\ Respond(a, "UNKOWN_EORROR", FALSE)
          /\ UNCHANGED dbRoles
    /\ UNCHANGED <<passwords, gid, roles_, req, requests, crashes, historyVars>>

-----------------------------------------------------------------------------
(***************************************************************************)
(* The environment                                                         *)
(***************************************************************************)

\* A request comes up the pipeline of a's connection. The handlers are
\* synchronous, so the connection has no other request in hand.
Receive(a, r, label) ==
    /\ Up
    /\ pc[a] = "idle"
    /\ requests < MaxRequests
    /\ requests' = requests + 1
    /\ req' = [req EXCEPT ![a] = r]
    /\ rsp' = [rsp EXCEPT ![a] = Nil]
    /\ Goto(a, label)
    /\ UNCHANGED <<redisVars, held, crashes, errors, historyVars>>

ReceiveLogin(a) ==
    /\ \E n \in ClientNames, w \in ClientPasswords :
        Receive(a, [op |-> "LOGIN", name |-> n, password |-> w], "inject_get_role")
    /\ UNCHANGED roles_

ReceiveRegister(a) ==
    /\ \E n \in ClientNames, w \in ClientPasswords :
        Receive(a, [op |-> "REGISTER", name |-> n, password |-> w], "register_get")
    /\ UNCHANGED roles_

\* GetRole walks roles_ without the mutex: while another connection inserts an
\* entry the walk may miss a's, and the service clears a fresh role instead.
MayMissRole(a) ==
    \E b \in Addrs \ {a} : pc[b] = "inject_add_role" /\ roles_[b] = Nil

FaultyErased(role) ==                       \* the username is kept
    [id |-> 0, returning |-> FALSE, username |-> role.username]

\* clear_basic_info and clear_progress
Erased(role) == EmptyRole

ReceiveErase(a) ==
    /\ Receive(a, [op |-> "ERASE_ROLE", name |-> req[a].name,
                   password |-> req[a].password], "erase_set_role")
    /\ \/ roles_' = [roles_ EXCEPT ![a] = IF @ = Nil THEN Nil ELSE Erased(@)]
       \/ MayMissRole(a) /\ UNCHANGED roles_

\* The server process dies: RedisCommand dereferences the null reply of a lost
\* Redis connection, or an operator stops it.
Crash ==
    /\ pc[Main] # "down"
    /\ crashes < MaxCrashes
    /\ crashes' = crashes + 1
    /\ ServerEnds
    /\ cut' = cut \cup {req[p].name : p \in {q \in Procs :
                            pc[q] \in {"register_incr", "register_set_role"}}}
    /\ UNCHANGED <<redisVars, requests, errors, registered, verified, raced>>

\* No request is in hand and the clients send no more.
Quiet ==
    /\ \A p \in Procs : pc[p] = "idle"
    /\ UNCHANGED vars

Register(p) ==
    \/ RegisterGetPassword(p)
    \/ RegisterSetPassword(p)
    \/ RegisterIncrGid(p)
    \/ RegisterSetRole(p)

Login(a) ==
    \/ InjectGetRole(a)
    \/ InjectAddRole(a)
    \/ LoginGetPassword(a)
    \/ LoginGetRole(a)
    \/ LoginSetRole(a)

Boot == BootSetPassword \/ BootSetRole \/ BootGetRole

\* What the thread that serves address a does.
Serve(a) == Register(a) \/ Login(a) \/ EraseSetRole(a)

Client(a) == ReceiveLogin(a) \/ ReceiveRegister(a) \/ ReceiveErase(a)

Init ==
    /\ passwords = [n \in Names |-> Nil]
    /\ dbRoles = [n \in Names |-> Nil]
    /\ gid = 0
    /\ roles_ = [a \in Addrs |-> Nil]
    /\ pc = [p \in Procs |-> IF p = Main THEN "down" ELSE "idle"]
    /\ req = [p \in Procs |-> BootRequest]
    /\ held = [p \in Procs |-> Nil]
    /\ rsp = [p \in Procs |-> Nil]
    /\ requests = 0 /\ crashes = 0 /\ errors = 0
    /\ registered = {} /\ verified = {} /\ raced = {} /\ cut = {}

Next ==
    \/ Start
    \/ Boot
    \/ Register(Main)
    \/ \E a \in Addrs : Client(a) \/ Serve(a)
    \/ Crash
    \/ Quiet

Spec == Init /\ [][Next]_vars

\* Each thread goes on with the request in hand. This is the handlers' doing, and
\* Redis': it assumes that every command gets some reply. The connection has a
\* timeout for connecting only, so a Redis that stays silent blocks redisCommand
\* under the lock, and with it every thread. Clients and crashes are not fair.
Fairness ==
    /\ WF_vars(Boot \/ Register(Main))
    /\ \A a \in Addrs : WF_vars(Serve(a))

\* An assumption about those who run the server: one that is down is started.
Operated == WF_vars(Start)

FairSpec == Spec /\ Fairness /\ Operated

-----------------------------------------------------------------------------
(***************************************************************************)
(* Properties                                                              *)
(***************************************************************************)

\* Every variable has its type; a thread is only at a label of its own code,
\* and has a RoleInfo on its stack exactly where the code has one.
TypeOK ==
    /\ passwords \in [Names -> Passwords \cup {Nil}]
    /\ dbRoles \in [Names -> Role \cup {Nil}]
    /\ gid \in Nat
    /\ roles_ \in [Addrs -> Role \cup {Nil}]
    /\ pc \in [Procs -> Labels]
    /\ pc[Main] \in BootLabels \cup CreatingLabels \cup {"register_get", "idle"}
    /\ \A a \in Addrs : pc[a] \notin BootLabels
    /\ req \in [Procs -> Requests]
    /\ held \in [Procs -> Role \cup {Nil}]
    /\ \A p \in Procs : held[p] # Nil <=>
            pc[p] \in {"register_set_role", "inject_add_role", "login_set_role"}
    /\ rsp \in [Procs -> Responses \cup {Nil}]
    /\ requests \in Nat /\ crashes \in Nat /\ errors \in Nat
    /\ registered \subseteq Grant
    /\ verified \subseteq Names /\ raced \subseteq Names /\ cut \subseteq Names

\* Every RoleInfo there is: in Redis, in roles_ and on the stacks.
LiveRoles ==
    ({dbRoles[n] : n \in Names} \cup {roles_[a] : a \in Addrs}
        \cup {held[p] : p \in Procs}) \ {Nil}

\* A player_id, which is the key of a player's task data, is never shared by
\* two accounts, whatever interleaving of registrations, logins and erasures
\* handed it out (minigame_register_service.cpp, incr gid); the one exception
\* is the seeded role, whose fixed id is given away again once gid gets there.
PlayerIdsDistinct ==
    \A r, s \in LiveRoles :
        r.id = s.id => \/ r.username = s.username
                       \/ SeedName \in {r.username, s.username} /\ SeedId <= gid

\* All copies of an account's role carry the same player_id: what a login has
\* cached in roles_, or is about to push back, is never another player's. Only
\* names that two registrations were creating at the same time are exempt, and
\* the empty name, which EraseRoleService overwrites.
RoleCopiesAgree ==
    \A r, s \in LiveRoles :
        r.username = s.username /\ r.username \notin raced \cup {EmptyName}
            => r.id = s.id

\* PushRoleToDB uses the name inside the role as its key, PullRoleInfoFromDB
\* the name in the request: they are the same for every stored role.
RoleUnderOwnName ==
    \A n \in Names : dbRoles[n] # Nil => dbRoles[n].username = n

\* A REGISTER answered with SUCCEED lasts: the account keeps the password, up to
\* a NUL in it, and the player_id that it was given, through logins, erasures,
\* failed commands, crashes and the seeding at each start. (The role under the empty name is
\* overwritten by EraseRoleService, and racing registrations by each other.)
RegistrationLasts ==
    \A g \in registered :
        g.name \notin raced =>
            /\ passwords[g.name] = CStr[g.password]
            /\ g.name # EmptyName => dbRoles[g.name] # Nil /\ dbRoles[g.name].id = g.id

\* No name is granted twice, unless two registrations passed the existence
\* check before either had set the password.
RegisteredOnce ==
    \A g, h \in registered : g.name = h.name /\ g.name \notin raced => g = h

\* An account that has a password and no role is being registered right now, or
\* its registration was cut short between the two writes, or it is the seeded
\* one before the port is bound: every other login finds its role.
HalfRegisteredExplained ==
    \A n \in Names :
        passwords[n] # Nil /\ dbRoles[n] = Nil =>
            \/ n \in cut
            \/ \E p \in Procs : Creating(p, n)
            \/ n = SeedName /\ ~Up

\* Nobody is a returning visitor before a login with the right password.
ReturningMeansVerified ==
    \A r \in LiveRoles : r.returning => r.username \in verified

\* Once stored, the mark of a returning visitor is not lost to a slower login
\* that pushes an older copy of the role; only a start of the server resets it,
\* for the seeded account.
ReturningSticks ==
    [][\A n \in Names \ {SeedName, EmptyName} :
         dbRoles[n] # Nil /\ dbRoles[n].returning /\ n \notin raced'
            => dbRoles'[n] # Nil /\ dbRoles'[n].returning]_vars

\* The account of a name as far as it is complete: password and role are there.
\* Nothing is promised for a name that two registrations were creating at once.
BookEntry(n) ==
    IF n \in raced \/ passwords[n] = Nil \/ dbRoles[n] = Nil THEN Nil
    ELSE [password |-> passwords[n], id |-> dbRoles[n].id]

Admitted(a) ==
    IF rsp[a] # Nil /\ rsp[a].op = "LOGIN" /\ rsp[a].error = "SUCCEED"
            /\ rsp[a].name \notin raced \cup {EmptyName}
    THEN [name |-> rsp[a].name, password |-> req[a].password]
    ELSE Nil

Book == INSTANCE AccountBook WITH
    Names <- Names \ {EmptyName},
    Clients <- Addrs,
    Preset <- {SeedName},
    book <- [n \in Names \ {EmptyName} |-> BookEntry(n)],
    granted <- {g.name : g \in registered} \ (raced \cup {EmptyName}),
    admitted <- [a \in Addrs |-> Admitted(a)]

\* The commands of registrations, logins, erasures and starts, interleaved in
\* any way and cut short anywhere, add up to single steps of the account book:
\* an account is opened as a whole or not at all, its password and id last, and
\* a login succeeds only with the password of an account that is open.
ImplementsBook == Book!Spec

\* Every request gets its response, or the server ends: as long as Redis replies,
\* with whatever it may be, no handler goes round in circles or waits for another.
EveryRequestAnswered ==
    \A a \in Addrs : pc[a] # "idle" ~> pc[a] = "idle"

\* Whatever an abort or a crash has left in Redis, a server that is started again
\* gets through prepareAndCheck and its registration, and binds the port, as soon
\* as no further command fails.
AlwaysUpAgain == []<>Up

\* What minigame_register_service.h says: a registration of an account that
\* exists is answered with ACCOUNT_ALREADY_EXIST, so two connections never both
\* hold the SUCCEED of the same name.
RegisterExclusive ==
    \A g, h \in registered : g.name = h.name => g = h

\* What minigame_register_service.h says: registering fills in the player's
\* role. So when no request is in hand, an account with a password has a role.
RegisteredHasRole ==
    (\A p \in Procs : pc[p] = "idle") =>
        \A n \in Names : passwords[n] # Nil => dbRoles[n] # Nil

\* What roleinfo_manager.h says: the remote address identifies the player. So
\* after a LOGIN is answered with SUCCEED, the address has that player's role.
LoginBindsAccount ==
    \A a \in Addrs :
        rsp[a] # Nil /\ rsp[a].op = "LOGIN" /\ rsp[a].error = "SUCCEED" =>
            roles_[a] # Nil /\ roles_[a].username = rsp[a].name

=============================================================================
