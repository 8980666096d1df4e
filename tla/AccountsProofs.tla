--------------------------- MODULE AccountsProofs ---------------------------
(***************************************************************************)
(* Theorems about Accounts, for every set of accounts and connections and  *)
(* every number of requests, crashes and failed commands.                  *)
(***************************************************************************)
EXTENDS Accounts, TLAPS

\* The roles that the actions build have the type of a role, and none of them
\* is the null value.
LEMMA RoleTypes ==
    /\ EmptyRole \in Role /\ SeedRole \in Role
    /\ \A i \in Nat, b \in BOOLEAN, n \in Names :
           [id |-> i, returning |-> b, username |-> n] \in Role
    /\ \A r \in Role : /\ r # Nil
                       /\ r.id \in Nat /\ r.returning \in BOOLEAN /\ r.username \in Names
                       /\ Marked(r) \in Role
BY NamesAssumption, NilAssumption DEF EmptyRole, SeedRole, Role, Marked

\* So have the requests.
LEMMA RequestTypes ==
    /\ BootRequest \in Requests
    /\ \A n \in Names, w \in Passwords, op \in Ops :
           [op |-> op, name |-> n, password |-> w] \in Requests
    /\ \A r \in Requests : /\ r.op \in Ops /\ r.name \in Names /\ r.password \in Passwords
                           /\ CStr[r.password] \in Passwords
BY NamesAssumption DEF BootRequest, Requests, Ops

-----------------------------------------------------------------------------
\* The initial state is well typed.
LEMMA TypeInit == Init => TypeOK
BY RequestTypes, ProcessAssumption
   DEF Init, TypeOK, Procs, Labels, BootLabels, CreatingLabels

\* Where each thread is and what it has on its stack, and everything else.
ControlTyped ==
    /\ pc \in [Procs -> Labels]
    /\ pc[Main] \in BootLabels \cup CreatingLabels \cup {"register_get", "idle"}
    /\ \A a \in Addrs : pc[a] \notin BootLabels
    /\ held \in [Procs -> Role \cup {Nil}]
    /\ \A p \in Procs : held[p] # Nil <=>
            pc[p] \in {"register_set_role", "inject_add_role", "login_set_role"}
    /\ rsp \in [Procs -> Responses \cup {Nil}]

DataTyped ==
    /\ passwords \in [Names -> Passwords \cup {Nil}]
    /\ dbRoles \in [Names -> Role \cup {Nil}]
    /\ gid \in Nat
    /\ roles_ \in [Addrs -> Role \cup {Nil}]
    /\ req \in [Procs -> Requests]
    /\ requests \in Nat /\ crashes \in Nat /\ errors \in Nat
    /\ registered \subseteq Grant
    /\ verified \subseteq Names /\ raced \subseteq Names /\ cut \subseteq Names

\* The two parts make up the type invariant.
LEMMA TypeParts ==
    (TypeOK <=> ControlTyped /\ DataTyped) /\ (TypeOK' <=> ControlTyped' /\ DataTyped')
BY DEF TypeOK, ControlTyped, DataTyped

\* A thread moves from one label of its own code to another, with a role on its
\* stack exactly if it should have one.
LEMMA ControlGoto ==
    ASSUME ControlTyped, NEW p \in Procs, NEW l \in Labels, NEW h \in Role \cup {Nil},
           p \in Addrs => l \notin BootLabels,
           p = Main => l \in BootLabels \cup CreatingLabels \cup {"register_get", "idle"},
           h # Nil <=> l \in {"register_set_role", "inject_add_role", "login_set_role"},
           Goto(p, l), held' = [held EXCEPT ![p] = h],
           rsp' \in [Procs -> Responses \cup {Nil}]
    PROVE  ControlTyped'
BY ProcessAssumption DEF ControlTyped, Procs, Goto

\* A thread moves between two labels at which it has no role on its stack.
LEMMA ControlMove ==
    ASSUME ControlTyped, NEW p \in Procs, NEW l \in Labels, held[p] = Nil,
           p \in Addrs => l \notin BootLabels,
           p = Main => l \in BootLabels \cup CreatingLabels \cup {"register_get", "idle"},
           l \notin {"register_set_role", "inject_add_role", "login_set_role"},
           Goto(p, l), UNCHANGED held, UNCHANGED rsp
    PROVE  ControlTyped'
BY ProcessAssumption DEF ControlTyped, Procs, Goto

\* The thread answers the request in hand.
LEMMA ControlRespond ==
    ASSUME ControlTyped, DataTyped, NEW p \in Procs, NEW e \in ErrorCodes, NEW b \in BOOLEAN,
           Respond(p, e, b)
    PROVE  ControlTyped'
<1>1. [op |-> req[p].op, name |-> req[p].name, error |-> e, returning |-> b] \in Responses
  BY RequestTypes DEF DataTyped, Responses
<1>2. rsp' \in [Procs -> Responses \cup {Nil}]
  BY <1>1 DEF ControlTyped, Respond
<1>3. "idle" \in Labels /\ "idle" \notin BootLabels
  BY DEF Labels, BootLabels
<1>4. QED BY <1>2, <1>3, ControlGoto DEF Respond

\* The server process ends.
LEMMA EndTyped ==
    ASSUME ControlTyped, DataTyped, ServerEnds
    PROVE  /\ ControlTyped'
           /\ roles_' \in [Addrs -> Role \cup {Nil}] /\ req' \in [Procs -> Requests]
BY RequestTypes, ProcessAssumption
   DEF ControlTyped, DataTyped, ServerEnds, Procs, Labels, BootLabels

\* Every step keeps the types.
LEMMA TypeNext == TypeOK /\ [Next]_vars => TypeOK'
<1> SUFFICES ASSUME ControlTyped, DataTyped, [Next]_vars PROVE ControlTyped' /\ DataTyped'
  BY TypeParts
<1> USE DEF redisVars, budgetVars, historyVars
<1>l. /\ Labels = {"down", "boot_set_password", "boot_set_role", "boot_get_role",
                   "register_set_password", "register_incr", "register_set_role",
                   "idle", "register_get", "inject_get_role", "inject_add_role",
                   "login_get_password", "login_get_role", "login_set_role",
                   "erase_set_role"}
      /\ BootLabels = {"down", "boot_set_password", "boot_set_role", "boot_get_role"}
      /\ CreatingLabels = {"register_set_password", "register_incr", "register_set_role"}
      /\ ErrorCodes = {"SUCCEED", "UNKOWN_EORROR", "ACCOUNT_ALREADY_EXIST",
                       "LOGIN_PASSWORD_WRONG", "LOGIN_NOT_REGISTERED"}
  BY DEF Labels, BootLabels, CreatingLabels, ErrorCodes
<1>h. \A p \in Procs : pc[p] \notin {"register_set_role", "inject_add_role", "login_set_role"}
                           => held[p] = Nil
  BY DEF ControlTyped
<1>p. Main \in Procs /\ Addrs \subseteq Procs /\ \A a \in Addrs : a # Main
  BY ProcessAssumption DEF Procs
<1>q. \A p \in Procs : /\ req[p].name \in Names /\ req[p].password \in Passwords
                        /\ CStr[req[p].password] \in Passwords
  BY RequestTypes DEF DataTyped
<1>1. CASE BootSetPassword
  <2>1. CASE ErrorReply /\ ServerEnds /\ UNCHANGED passwords
    BY <1>1, <2>1, EndTyped DEF BootSetPassword, DataTyped, ErrorReply
  <2>2. CASE /\ passwords' = [passwords EXCEPT ![SeedName] = SeedPassword]
             /\ Goto(Main, "boot_set_role")
             /\ UNCHANGED <<errors, roles_, req, held, rsp>>
    <3>1. ControlTyped'
      BY <1>1, <2>2, <1>l, <1>h, <1>p, ControlMove DEF BootSetPassword
    <3>2. DataTyped'
      BY <1>1, <2>2, NamesAssumption DEF BootSetPassword, DataTyped
    <3>3. QED BY <3>1, <3>2
  <2>3. QED BY <1>1, <2>1, <2>2 DEF BootSetPassword, Answered
<1>2. CASE BootSetRole
  <2>1. ControlTyped'
    BY <1>2, <1>l, <1>h, <1>p, ControlMove DEF BootSetRole
  <2>2. DataTyped'
    BY <1>2, RoleTypes, NamesAssumption DEF BootSetRole, DataTyped, Answered, ErrorReply
  <2>3. QED BY <2>1, <2>2
<1>3. CASE BootGetRole
  <2>1. CASE ServerEnds /\ (Answered \/ ErrorReply)
    BY <1>3, <2>1, EndTyped DEF BootGetRole, DataTyped, ErrorReply, Answered
  <2>2. CASE Answered /\ Goto(Main, "register_get") /\ UNCHANGED <<roles_, req, held, rsp>>
    <3>1. ControlTyped'
      BY <1>3, <2>2, <1>l, <1>h, <1>p, ControlMove DEF BootGetRole
    <3>2. QED BY <1>3, <2>2, <3>1 DEF BootGetRole, DataTyped, Answered
  <2>3. QED BY <1>3, <2>1, <2>2 DEF BootGetRole
<1>4. ASSUME NEW p \in Procs, RegisterGetPassword(p) PROVE ControlTyped' /\ DataTyped'
  <2>1. ControlTyped'
    <3>1. CASE Goto(p, "register_set_password") /\ UNCHANGED <<held, rsp>>
      BY <1>4, <3>1, <1>l, <1>h, ControlMove DEF RegisterGetPassword
    <3>2. CASE Respond(p, "ACCOUNT_ALREADY_EXIST", FALSE)
      BY <3>2, <1>l, ControlRespond
    <3>3. QED BY <1>4, <3>1, <3>2 DEF RegisterGetPassword
  <2>2. DataTyped'
    BY <1>4, <1>q DEF RegisterGetPassword, DataTyped, Answered, ErrorReply, Respond
  <2>3. QED BY <2>1, <2>2
<1>5. ASSUME NEW p \in Procs, RegisterSetPassword(p) PROVE ControlTyped' /\ DataTyped'
  <2>1. ControlTyped'
    <3>1. CASE Goto(p, "register_incr") /\ UNCHANGED <<held, rsp>>
      BY <1>5, <3>1, <1>l, <1>h, ControlMove DEF RegisterSetPassword
    <3>2. CASE Respond(p, "UNKOWN_EORROR", FALSE)
      BY <3>2, <1>l, ControlRespond
    <3>3. QED BY <1>5, <3>1, <3>2 DEF RegisterSetPassword
  <2>2. DataTyped'
    BY <1>5, <1>q DEF RegisterSetPassword, DataTyped, Answered, ErrorReply, Respond
  <2>3. QED BY <2>1, <2>2
<1>6. ASSUME NEW p \in Procs, RegisterIncrGid(p) PROVE ControlTyped' /\ DataTyped'
  <2>1. ControlTyped'
    <3>1. NewRole(p) \in Role /\ NewRole(p) # Nil
      <4>1. NewRole(p) \in Role
        BY <1>q DEF NewRole, Role, DataTyped
      <4>2. QED BY <4>1, NilAssumption
    <3>2. CASE Goto(p, "register_set_role") /\ held' = [held EXCEPT ![p] = NewRole(p)]
               /\ UNCHANGED rsp
      <4>1. rsp' \in [Procs -> Responses \cup {Nil}]
        BY <3>2 DEF ControlTyped
      <4>2. p = Main => pc[p] = "register_incr"
        BY <1>6 DEF RegisterIncrGid
      <4>3. QED BY <3>1, <3>2, <4>1, <1>l, ControlGoto
    <3>3. CASE Respond(p, "UNKOWN_EORROR", FALSE)
      BY <3>3, <1>l, ControlRespond
    <3>4. QED BY <1>6, <3>2, <3>3 DEF RegisterIncrGid
  <2>2. DataTyped'
    BY <1>6, <1>q DEF RegisterIncrGid, DataTyped, Answered, ErrorReply, Respond
  <2>3. QED BY <2>1, <2>2
<1>7. ASSUME NEW p \in Procs, RegisterSetRole(p) PROVE ControlTyped' /\ DataTyped'
  <2>1. ControlTyped'
    BY <1>7, <1>l, ControlRespond DEF RegisterSetRole
  <2>2. held[p] \in Role
    BY <1>7, <1>l DEF RegisterSetRole, ControlTyped
  <2>3. [name |-> req[p].name, password |-> req[p].password, id |-> held[p].id] \in Grant
    BY <2>2, RoleTypes, RequestTypes DEF Grant, DataTyped
  <2>4. DataTyped'
    BY <1>7, <1>q, <2>2, <2>3
       DEF RegisterSetRole, DataTyped, Answered, ErrorReply, Respond
  <2>5. QED BY <2>1, <2>4
<1>8. ASSUME NEW a \in Addrs, InjectGetRole(a) PROVE ControlTyped' /\ DataTyped'
  <2>1. ControlTyped'
    <3>1. CASE /\ Pulled(req[a].name) /\ Goto(a, "inject_add_role")
               /\ held' = [held EXCEPT ![a] = dbRoles[req[a].name]]
      <4>1. dbRoles[req[a].name] \in Role
        BY <3>1, <1>p, RequestTypes DEF Pulled, DataTyped
      <4>2. rsp' \in [Procs -> Responses \cup {Nil}]
        BY <1>8 DEF InjectGetRole, ControlTyped
      <4>3. QED BY <3>1, <4>1, <4>2, <1>l, <1>p, RoleTypes, ControlGoto
    <3>2. CASE Goto(a, "login_get_password") /\ UNCHANGED held
      BY <1>8, <3>2, <1>l, <1>h, <1>p, ControlMove DEF InjectGetRole
    <3>3. QED BY <1>8, <3>1, <3>2 DEF InjectGetRole
  <2>2. DataTyped'
    BY <1>8 DEF InjectGetRole, DataTyped, Answered, ErrorReply
  <2>3. QED BY <2>1, <2>2
<1>9. ASSUME NEW a \in Addrs, InjectAddRole(a) PROVE ControlTyped' /\ DataTyped'
  <2>1. ControlTyped'
    <3>1. rsp' \in [Procs -> Responses \cup {Nil}]
      BY <1>9 DEF InjectAddRole, ControlTyped
    <3>2. QED BY <1>9, <3>1, <1>l, <1>p, ControlGoto DEF InjectAddRole
  <2>2. held[a] \in Role \cup {Nil}
    BY <1>p DEF ControlTyped
  <2>3. DataTyped'
    BY <1>9, <2>2 DEF InjectAddRole, DataTyped
  <2>4. QED BY <2>1, <2>3
<1>10. ASSUME NEW a \in Addrs, LoginGetPassword(a) PROVE ControlTyped' /\ DataTyped'
  <2>1. ControlTyped'
    <3>1. CASE Goto(a, "login_get_role") /\ UNCHANGED <<held, rsp>>
      BY <1>10, <3>1, <1>l, <1>h, <1>p, ControlMove DEF LoginGetPassword
    <3>2. CASE \/ Respond(a, "LOGIN_PASSWORD_WRONG", FALSE)
               \/ Respond(a, "LOGIN_NOT_REGISTERED", FALSE)
      BY <3>2, <1>l, <1>p, ControlRespond
    <3>3. QED BY <1>10, <3>1, <3>2 DEF LoginGetPassword
  <2>2. DataTyped'
    BY <1>10, <1>p, <1>q
       DEF LoginGetPassword, DataTyped, Answered, ErrorReply, Respond
  <2>3. QED BY <2>1, <2>2
<1>11. ASSUME NEW a \in Addrs, LoginGetRole(a) PROVE ControlTyped' /\ DataTyped'
  <2>1. ControlTyped'
    <3>1. CASE /\ dbRoles[req[a].name] # Nil /\ Goto(a, "login_set_role") /\ UNCHANGED rsp
               /\ held' = [held EXCEPT ![a] = Marked(dbRoles[req[a].name])]
      <4>1. Marked(dbRoles[req[a].name]) \in Role
        BY <3>1, <1>p, RequestTypes, RoleTypes DEF DataTyped
      <4>2. rsp' \in [Procs -> Responses \cup {Nil}]
        BY <3>1 DEF ControlTyped
      <4>3. QED BY <3>1, <4>1, <4>2, <1>l, <1>p, RoleTypes, ControlGoto
    <3>2. CASE Respond(a, "SUCCEED", TRUE) \/ Respond(a, "UNKOWN_EORROR", FALSE)
      BY <3>2, <1>l, <1>p, ControlRespond
    <3>3. QED BY <1>11, <3>1, <3>2 DEF LoginGetRole
  <2>2. DataTyped'
    BY <1>11 DEF LoginGetRole, DataTyped, Answered, ErrorReply, Respond
  <2>3. QED BY <2>1, <2>2
<1>12. ASSUME NEW a \in Addrs, LoginSetRole(a) PROVE ControlTyped' /\ DataTyped'
  <2>1. ControlTyped'
    BY <1>12, <1>l, <1>p, ControlRespond DEF LoginSetRole
  <2>2. held[a] \in Role /\ held[a].username \in Names
    BY <1>12, <1>l, <1>p, RoleTypes DEF LoginSetRole, ControlTyped
  <2>3. DataTyped'
    BY <1>12, <2>2 DEF LoginSetRole, DataTyped, Answered, ErrorReply
  <2>4. QED BY <2>1, <2>3
<1>13. ASSUME NEW a \in Addrs, EraseSetRole(a) PROVE ControlTyped' /\ DataTyped'
  <2>1. ControlTyped'
    BY <1>13, <1>l, <1>p, ControlRespond DEF EraseSetRole
  <2>2. DataTyped'
    BY <1>13, RoleTypes
       DEF EraseSetRole, EraseKey, DataTyped, Answered, ErrorReply, Respond
  <2>3. QED BY <2>1, <2>2
<1>14. ASSUME NEW a \in Addrs, NEW r \in Requests,
              NEW l \in {"inject_get_role", "register_get", "erase_set_role"},
              Receive(a, r, l), roles_' \in [Addrs -> Role \cup {Nil}]
       PROVE  ControlTyped' /\ DataTyped'
  <2>1. ControlTyped'
    BY <1>14, <1>l, <1>p DEF Receive, Goto, ControlTyped
  <2>2. DataTyped'
    BY <1>14, <1>p DEF Receive, DataTyped
  <2>3. QED BY <2>1, <2>2
<1>15. ASSUME NEW a \in Addrs, Client(a) PROVE ControlTyped' /\ DataTyped'
  <2>1. roles_' \in [Addrs -> Role \cup {Nil}]
    BY <1>15, RoleTypes
       DEF Client, ReceiveLogin, ReceiveRegister, ReceiveErase, Erased, DataTyped
  <2>2. CASE ReceiveLogin(a)
    <3>1. PICK n \in ClientNames, w \in ClientPasswords :
            Receive(a, [op |-> "LOGIN", name |-> n, password |-> w], "inject_get_role")
      BY <2>2 DEF ReceiveLogin
    <3>2. [op |-> "LOGIN", name |-> n, password |-> w] \in Requests
      BY NamesAssumption, RequestTypes DEF Ops
    <3>3. QED BY <2>1, <3>1, <3>2, <1>14
  <2>3. CASE ReceiveRegister(a)
    <3>1. PICK n \in ClientNames, w \in ClientPasswords :
            Receive(a, [op |-> "REGISTER", name |-> n, password |-> w], "register_get")
      BY <2>3 DEF ReceiveRegister
    <3>2. [op |-> "REGISTER", name |-> n, password |-> w] \in Requests
      BY NamesAssumption, RequestTypes DEF Ops
    <3>3. QED BY <2>1, <3>1, <3>2, <1>14
  <2>4. CASE ReceiveErase(a)
    <3>1. [op |-> "ERASE_ROLE", name |-> req[a].name, password |-> req[a].password]
              \in Requests
      BY <1>p, RequestTypes DEF Ops, DataTyped
    <3>2. QED BY <2>1, <2>4, <3>1, <1>14 DEF ReceiveErase
  <2>5. QED BY <1>15, <2>2, <2>3, <2>4 DEF Client
<1>16. CASE Crash
  <2>1. {req[p].name : p \in {q \in Procs :
              pc[q] \in {"register_incr", "register_set_role"}}} \subseteq Names
    BY RequestTypes DEF DataTyped
  <2>2. QED BY <1>16, <2>1, EndTyped DEF Crash, DataTyped
<1>17. CASE Start
  <2>1. ControlTyped'
    BY <1>17, <1>l, <1>h, <1>p, ControlMove DEF Start, FirstStep
  <2>2. QED BY <1>17, <2>1 DEF Start, DataTyped
<1>18. CASE UNCHANGED vars
  BY <1>18 DEF vars, ControlTyped, DataTyped
<1>19. QED
  BY <1>1, <1>2, <1>3, <1>4, <1>5, <1>6, <1>7, <1>8, <1>9, <1>10, <1>11, <1>12,
     <1>13, <1>15, <1>16, <1>17, <1>18, <1>p
     DEF Next, Boot, Register, Login, Serve, Quiet

\* The program keeps its variables well typed: a thread is only where its own
\* code can be, and it has a role on its stack exactly between the command that
\* fetched or made it and the command that stores it.
THEOREM TypeCorrect == Spec => []TypeOK
BY TypeInit, TypeNext, PTL DEF Spec

-----------------------------------------------------------------------------
(***************************************************************************)
(* Player ids.                                                             *)
(*                                                                         *)
(* PlayerIdsDistinct is not inductive: a fresh id is fresh only because    *)
(* every id in use is at most gid, an erased role is told from a           *)
(* registered one because ids start at 1, and the seeded id stays with the *)
(* seeded account because no client can register that name: its password   *)
(* is written before the port is bound.                                    *)
(***************************************************************************)

\* Nobody is served before main() has come to its end, and after the first
\* command of main() the seeded name is taken.
SeedTaken ==
    /\ ~Up => \A a \in Addrs : pc[a] = "idle"
    /\ pc[Main] \notin {"down", "boot_set_password"} => passwords[SeedName] # Nil
    /\ \A p \in Procs : ~Creating(p, SeedName)

\* A role on a stack, like a role in Redis, is that of the account in question.
RolesNamed ==
    /\ RoleUnderOwnName
    /\ \A p \in Procs : held[p] # Nil => held[p].username = req[p].name

\* The seeded account has the seeded id, the empty role has none, and all other
\* ids in use have been drawn from gid.
IdsDrawn ==
    \A r \in LiveRoles :
        /\ r.username = SeedName => r.id = SeedId
        /\ r.username \notin {SeedName, EmptyName} => 0 < r.id
        /\ r.username # SeedName => r.id <= gid

IdInv == TypeOK /\ SeedTaken /\ RolesNamed /\ IdsDrawn /\ PlayerIdsDistinct

\* Where a role can come from in a step: it is a copy of one that was there, and
\* marked as a returning visitor's only if that one was or if p has just marked
\* it, it is the cleared one, the seeded one, or the one that p has just drawn an
\* id for.
Derived(r, p) ==
    \/ r = Nil
    \/ \E s \in LiveRoles :
          /\ r.id = s.id /\ r.username = s.username
          /\ r.returning => \/ s.returning
                            \/ pc[p] = "login_get_role" /\ s = dbRoles[req[p].name]
    \/ r = EmptyRole
    \/ r = SeedRole /\ pc[Main] = "boot_set_role"
    \/ r = NewRole(p) /\ pc[p] = "register_incr" /\ pc'[p] = "register_set_role"
                      /\ gid' = gid + 1

\* No step makes a role out of nothing, and at most one thread draws an id.
LEMMA RoleOrigin ==
    ASSUME TypeOK, [Next]_vars
    PROVE  /\ gid' \in {gid, gid + 1}
           /\ \E p \in Procs :
                /\ \A n \in Names : Derived(dbRoles'[n], p)
                /\ \A a \in Addrs : Derived(roles_'[a], p)
                /\ \A q \in Procs : Derived(held'[q], p)
<1> DEFINE From(p) == /\ \A n \in Names : Derived(dbRoles'[n], p)
                      /\ \A a \in Addrs : Derived(roles_'[a], p)
                      /\ \A q \in Procs : Derived(held'[q], p)
           Goal == gid' \in {gid, gid + 1} /\ \E p \in Procs : From(p)
<1> SUFFICES Goal
  OBVIOUS
<1> USE DEF redisVars, budgetVars, historyVars
<1>p. Main \in Procs /\ Addrs \subseteq Procs
  BY DEF Procs
<1>o. ASSUME NEW p \in Procs
      PROVE  /\ \A n \in Names : Derived(dbRoles[n], p)
             /\ \A a \in Addrs : Derived(roles_[a], p)
             /\ \A q \in Procs : Derived(held[q], p)
             /\ Derived(Nil, p) /\ Derived(EmptyRole, p)
             /\ pc[Main] = "boot_set_role" => Derived(SeedRole, p)
             /\ pc[p] = "login_get_role" /\ dbRoles[req[p].name] # Nil
                    => Derived(Marked(dbRoles[req[p].name]), p)
  BY RequestTypes DEF Derived, LiveRoles, Marked, TypeOK
<1>t. /\ dbRoles \in [Names -> Role \cup {Nil}] /\ roles_ \in [Addrs -> Role \cup {Nil}]
      /\ held \in [Procs -> Role \cup {Nil}]
      /\ \A p \in Procs : req[p].name \in Names
  BY RequestTypes DEF TypeOK
<1>s. ASSUME ServerEnds, UNCHANGED <<dbRoles, gid>> PROVE Goal
  <2> HIDE DEF Derived
  <2>1. From(Main)
    BY <1>s, <1>o, <1>p, <1>t DEF ServerEnds
  <2>2. QED BY <1>s, <2>1, <1>p
<1> HIDE DEF Derived
<1>1. CASE BootSetPassword
  <2>1. CASE UNCHANGED <<roles_, held>>
    <3>1. From(Main) BY <1>1, <2>1, <1>o, <1>p DEF BootSetPassword
    <3>2. QED BY <1>1, <3>1, <1>p DEF BootSetPassword
  <2>2. QED BY <1>1, <2>1, <1>s DEF BootSetPassword
<1>2. CASE BootSetRole
  <2>1. From(Main) BY <1>2, <1>o, <1>p, <1>t DEF BootSetRole
  <2>2. QED BY <1>2, <2>1, <1>p DEF BootSetRole
<1>3. CASE BootGetRole
  <2>1. CASE UNCHANGED <<roles_, held>>
    <3>1. From(Main) BY <1>3, <2>1, <1>o, <1>p DEF BootGetRole
    <3>2. QED BY <1>3, <3>1, <1>p DEF BootGetRole
  <2>2. QED BY <1>3, <2>1, <1>s DEF BootGetRole
<1>4. ASSUME NEW p \in Procs, RegisterGetPassword(p) \/ RegisterSetPassword(p) PROVE Goal
  <2>1. From(p)
    BY <1>4, <1>o, <1>t DEF RegisterGetPassword, RegisterSetPassword, Respond
  <2>2. QED BY <1>4, <2>1 DEF RegisterGetPassword, RegisterSetPassword, Respond
<1>5. ASSUME NEW p \in Procs, RegisterIncrGid(p) PROVE Goal
  <2>1. CASE gid' = gid + 1 /\ held' = [held EXCEPT ![p] = NewRole(p)]
             /\ Goto(p, "register_set_role")
    <3>1. Derived(NewRole(p), p)
      <4>1. pc \in [Procs -> Labels]
        BY DEF TypeOK
      <4>2. pc'[p] = "register_set_role"
        BY <2>1, <4>1 DEF Goto
      <4>3. QED BY <1>5, <2>1, <4>2 DEF RegisterIncrGid, Derived
    <3>2. From(p)
      BY <1>5, <2>1, <3>1, <1>o, <1>t DEF RegisterIncrGid
    <3>3. QED BY <2>1, <3>2
  <2>2. CASE gid' = gid /\ held' = [held EXCEPT ![p] = Nil]
    <3>1. From(p)
      BY <1>5, <2>2, <1>o, <1>t DEF RegisterIncrGid
    <3>2. QED BY <2>2, <3>1
  <2>3. QED BY <1>5, <2>1, <2>2 DEF RegisterIncrGid, Respond
<1>6. ASSUME NEW p \in Procs, RegisterSetRole(p) PROVE Goal
  <2>1. From(p)
    BY <1>6, <1>o, <1>t DEF RegisterSetRole, Respond
  <2>2. QED BY <1>6, <2>1 DEF RegisterSetRole, Respond
<1>7. ASSUME NEW a \in Addrs, InjectGetRole(a) \/ InjectAddRole(a) PROVE Goal
  <2>1. From(a)
    BY <1>7, <1>o, <1>p, <1>t DEF InjectGetRole, InjectAddRole
  <2>2. QED BY <1>7, <2>1, <1>p DEF InjectGetRole, InjectAddRole
<1>8. ASSUME NEW a \in Addrs, LoginGetPassword(a) PROVE Goal
  <2>1. From(a)
    BY <1>8, <1>o, <1>p, <1>t DEF LoginGetPassword, Respond
  <2>2. QED BY <1>8, <2>1, <1>p DEF LoginGetPassword, Respond
<1>9. ASSUME NEW a \in Addrs, LoginGetRole(a) PROVE Goal
  <2>1. From(a)
    BY <1>9, <1>o, <1>p, <1>t DEF LoginGetRole, Respond
  <2>2. QED BY <1>9, <2>1, <1>p DEF LoginGetRole, Respond
<1>10. ASSUME NEW a \in Addrs, LoginSetRole(a) \/ EraseSetRole(a) PROVE Goal
  <2>1. From(a)
    BY <1>10, <1>o, <1>p, <1>t DEF LoginSetRole, EraseSetRole, Respond
  <2>2. QED BY <1>10, <2>1, <1>p DEF LoginSetRole, EraseSetRole, Respond
<1>11. ASSUME NEW a \in Addrs, Client(a) PROVE Goal
  <2>1. UNCHANGED <<dbRoles, gid, held>>
    BY <1>11 DEF Client, ReceiveLogin, ReceiveRegister, ReceiveErase, Receive
  <2>2. UNCHANGED roles_ \/ \E v \in {Nil, EmptyRole} : roles_' = [roles_ EXCEPT ![a] = v]
    BY <1>11 DEF Client, ReceiveLogin, ReceiveRegister, ReceiveErase, Erased
  <2>3. From(a)
    BY <2>1, <2>2, <1>o, <1>p, <1>t
  <2>4. QED BY <2>1, <2>3, <1>p
<1>12. CASE Crash
  BY <1>12, <1>s DEF Crash
<1>13. CASE Start \/ UNCHANGED vars
  <2>1. From(Main) BY <1>13, <1>o, <1>p DEF Start, vars
  <2>2. QED BY <1>13, <2>1, <1>p DEF Start, vars
<1>14. QED
  BY <1>1, <1>2, <1>3, <1>4, <1>5, <1>6, <1>7, <1>8, <1>9, <1>10, <1>11, <1>12, <1>13,
     <1>p DEF Next, Boot, Register, Login, Serve, Quiet

\* The seeded name stays taken.
LEMMA SeedTakenNext ==
    ASSUME TypeOK, SeedTaken, [Next]_vars PROVE SeedTaken'
<1> USE DEF redisVars, budgetVars, historyVars
<1>t. /\ passwords \in [Names -> Passwords \cup {Nil}] /\ pc \in [Procs -> Labels]
      /\ req \in [Procs -> Requests] /\ \A a \in Addrs : pc[a] \notin BootLabels
      /\ Main \in Procs /\ Main \notin Addrs /\ Procs = Addrs \cup {Main}
      /\ SeedName \in Names /\ SeedPassword # Nil /\ Nil \notin Passwords
      /\ \A p \in Procs : CStr[req[p].password] \in Passwords
  BY RequestTypes, NamesAssumption, NilAssumption, ProcessAssumption DEF TypeOK, Procs
<1>u. \A p \in Procs : pc[p] \notin BootLabels \cup {"idle"}
                           => pc[Main] \notin {"down", "boot_set_password"}
  BY <1>t DEF SeedTaken, Up, BootLabels
<1>s. ASSUME ServerEnds PROVE SeedTaken'
  BY <1>s, <1>t DEF ServerEnds, SeedTaken, Up, Creating, CreatingLabels
\* A step of a thread that does not begin to create an account.
<1>g. ASSUME NEW p \in Procs, NEW l, Goto(p, l), UNCHANGED req,
             p = Main \/ pc[p] # "idle",
             p = Main => pc[Main] \notin {"idle", "down"},
             l \in CreatingLabels => pc[p] \in CreatingLabels,
             \/ UNCHANGED passwords
             \/ \E n \in Names, w \in Passwords : passwords' = [passwords EXCEPT ![n] = w],
             passwords'[SeedName] # Nil \/ UNCHANGED passwords,
             p = Main /\ pc[Main] = "boot_set_password" => passwords'[SeedName] # Nil
      PROVE  SeedTaken'
  BY <1>g, <1>t DEF Goto, SeedTaken, Up, Creating
<1>1. CASE BootSetPassword
  <2>1. CASE /\ passwords' = [passwords EXCEPT ![SeedName] = SeedPassword]
             /\ Goto(Main, "boot_set_role") /\ UNCHANGED req
    BY <1>1, <2>1, <1>t
       DEF BootSetPassword, Goto, SeedTaken, Up, Creating, CreatingLabels
  <2>2. QED BY <1>1, <2>1, <1>s DEF BootSetPassword
<1>2. CASE BootSetRole
  BY <1>2, <1>g, <1>t DEF BootSetRole, CreatingLabels
<1>3. CASE BootGetRole
  BY <1>3, <1>s, <1>g, <1>t DEF BootGetRole, CreatingLabels
<1>4. ASSUME NEW p \in Procs, RegisterGetPassword(p) PROVE SeedTaken'
  <2>1. CASE Free(req[p].name)
    <3>1. req[p].name # SeedName
      BY <1>4, <2>1, <1>u DEF RegisterGetPassword, Free, SeedTaken, BootLabels
    <3>2. QED
      BY <1>4, <2>1, <3>1, <1>t
         DEF RegisterGetPassword, Respond, Goto, SeedTaken, Up, Creating
  <2>2. CASE ~Free(req[p].name)
    BY <1>4, <2>2, <1>g DEF RegisterGetPassword, Respond, CreatingLabels
  <2>3. QED BY <2>1, <2>2
<1>5. ASSUME NEW p \in Procs, RegisterSetPassword(p) PROVE SeedTaken'
  <2>1. passwords[SeedName] # Nil
    BY <1>5, <1>u DEF RegisterSetPassword, SeedTaken, BootLabels
  <2>2. passwords'[SeedName] # Nil
    BY <1>5, <2>1, <1>t DEF RegisterSetPassword, Respond
  <2>3. QED
    BY <1>5, <2>2, <1>t
       DEF RegisterSetPassword, Respond, Goto, SeedTaken, Up, Creating, CreatingLabels
<1>6. ASSUME NEW p \in Procs, RegisterIncrGid(p) \/ RegisterSetRole(p) PROVE SeedTaken'
  BY <1>6, <1>g, <1>t DEF RegisterIncrGid, RegisterSetRole, Respond, CreatingLabels
<1>7. ASSUME NEW a \in Addrs, InjectGetRole(a) \/ InjectAddRole(a) PROVE SeedTaken'
  BY <1>7, <1>g, <1>t DEF InjectGetRole, InjectAddRole, CreatingLabels
<1>8. ASSUME NEW a \in Addrs, LoginGetPassword(a) PROVE SeedTaken'
  BY <1>8, <1>g, <1>t DEF LoginGetPassword, Respond, CreatingLabels
<1>9. ASSUME NEW a \in Addrs, LoginGetRole(a) PROVE SeedTaken'
  BY <1>9, <1>g, <1>t DEF LoginGetRole, Respond, CreatingLabels
<1>10. ASSUME NEW a \in Addrs, LoginSetRole(a) \/ EraseSetRole(a) PROVE SeedTaken'
  BY <1>10, <1>g, <1>t DEF LoginSetRole, EraseSetRole, Respond, CreatingLabels
<1>11. ASSUME NEW a \in Addrs, NEW r,
              NEW l \in {"inject_get_role", "register_get", "erase_set_role"},
              Receive(a, r, l)
       PROVE  SeedTaken'
  BY <1>11, <1>t DEF Receive, Goto, SeedTaken, Up, Creating, CreatingLabels
<1>12. ASSUME NEW a \in Addrs, Client(a) PROVE SeedTaken'
  BY <1>12, <1>11 DEF Client, ReceiveLogin, ReceiveRegister, ReceiveErase
<1>13. CASE Crash
  BY <1>13, <1>s DEF Crash
<1>14. CASE Start
  BY <1>14, <1>t
     DEF Start, Goto, SeedTaken, Up, Creating, CreatingLabels, FirstStep
<1>15. CASE UNCHANGED vars
  BY <1>15 DEF vars, SeedTaken, Up, Creating
<1>16. QED
  BY <1>1, <1>2, <1>3, <1>4, <1>5, <1>6, <1>7, <1>8, <1>9, <1>10, <1>12, <1>13, <1>14,
     <1>15, <1>t DEF Next, Boot, Register, Login, Serve, Quiet

\* Roles stay under their own names.
LEMMA RolesNamedNext ==
    ASSUME TypeOK, RolesNamed, [Next]_vars PROVE RolesNamed'
<1> USE DEF redisVars, budgetVars, historyVars
<1>t. /\ dbRoles \in [Names -> Role \cup {Nil}] /\ held \in [Procs -> Role \cup {Nil}]
      /\ req \in [Procs -> Requests]
      /\ \A p \in Procs : req[p].name \in Names
      /\ \A p \in Procs : held[p] # Nil <=>
             pc[p] \in {"register_set_role", "inject_add_role", "login_set_role"}
      /\ Main \in Procs /\ Addrs \subseteq Procs /\ {SeedName, EmptyName} \subseteq Names
      /\ SeedRole.username = SeedName /\ EmptyRole.username = EmptyName
      /\ \A p \in Procs : NewRole(p).username = req[p].name
      /\ \A n \in Names : Marked(dbRoles[n]).username = dbRoles[n].username
  BY RequestTypes, NamesAssumption
     DEF TypeOK, Procs, SeedRole, EmptyRole, NewRole, Marked
<1>s. ASSUME ServerEnds, UNCHANGED dbRoles PROVE RolesNamed'
  BY <1>s DEF ServerEnds, RolesNamed, RoleUnderOwnName
\* A thread stores at most one role and leaves at most one on its stack.
<1>g. ASSUME NEW p \in Procs, UNCHANGED req,
             \/ UNCHANGED dbRoles
             \/ \E n \in Names : \E r : r.username = n /\ dbRoles' = [dbRoles EXCEPT ![n] = r],
             \/ UNCHANGED held
             \/ \E r : (r = Nil \/ r.username = req[p].name) /\ held' = [held EXCEPT ![p] = r]
      PROVE  RolesNamed'
  BY <1>g, <1>t DEF RolesNamed, RoleUnderOwnName
<1>1. CASE BootSetPassword
  BY <1>1, <1>s, <1>g, <1>t DEF BootSetPassword
<1>2. CASE BootSetRole
  BY <1>2, <1>g, <1>t DEF BootSetRole
<1>3. CASE BootGetRole
  BY <1>3, <1>s, <1>g, <1>t DEF BootGetRole
<1>4. ASSUME NEW p \in Procs, RegisterGetPassword(p) \/ RegisterSetPassword(p)
      PROVE  RolesNamed'
  BY <1>4, <1>g DEF RegisterGetPassword, RegisterSetPassword, Respond
<1>5. ASSUME NEW p \in Procs, RegisterIncrGid(p) PROVE RolesNamed'
  BY <1>5, <1>g, <1>t DEF RegisterIncrGid, Respond
<1>6. ASSUME NEW p \in Procs, RegisterSetRole(p) PROVE RolesNamed'
  <2>1. held[p].username = req[p].name /\ req[p].name \in Names
    BY <1>6, <1>t DEF RegisterSetRole, RolesNamed
  <2>2. \/ UNCHANGED dbRoles
        \/ \E n \in Names : \E r : r.username = n /\ dbRoles' = [dbRoles EXCEPT ![n] = r]
    BY <1>6, <2>1 DEF RegisterSetRole
  <2>3. UNCHANGED req /\ held' = [held EXCEPT ![p] = Nil]
    BY <1>6 DEF RegisterSetRole, Respond
  <2>4. QED BY <2>2, <2>3, <1>g
<1>7. ASSUME NEW a \in Addrs, InjectGetRole(a) PROVE RolesNamed'
  <2>1. dbRoles[req[a].name] # Nil => dbRoles[req[a].name].username = req[a].name
    BY <1>t DEF RolesNamed, RoleUnderOwnName
  <2>2. QED BY <1>7, <2>1, <1>g, <1>t DEF InjectGetRole, Pulled
<1>8. ASSUME NEW a \in Addrs, InjectAddRole(a) PROVE RolesNamed'
  BY <1>8, <1>g, <1>t DEF InjectAddRole
<1>9. ASSUME NEW a \in Addrs, LoginGetPassword(a) PROVE RolesNamed'
  BY <1>9, <1>g, <1>t DEF LoginGetPassword, Respond
<1>10. ASSUME NEW a \in Addrs, LoginGetRole(a) PROVE RolesNamed'
  <2>1. dbRoles[req[a].name] # Nil => Marked(dbRoles[req[a].name]).username = req[a].name
    BY <1>t DEF RolesNamed, RoleUnderOwnName
  <2>2. QED BY <1>10, <2>1, <1>g, <1>t DEF LoginGetRole, Respond
<1>11. ASSUME NEW a \in Addrs, LoginSetRole(a) PROVE RolesNamed'
  <2>1. held[a].username = req[a].name /\ req[a].name \in Names
    BY <1>11, <1>t DEF LoginSetRole, RolesNamed
  <2>2. \/ UNCHANGED dbRoles
        \/ \E n \in Names : \E r : r.username = n /\ dbRoles' = [dbRoles EXCEPT ![n] = r]
    BY <1>11, <2>1 DEF LoginSetRole
  <2>3. UNCHANGED req /\ held' = [held EXCEPT ![a] = Nil]
    BY <1>11 DEF LoginSetRole, Respond
  <2>4. QED BY <2>2, <2>3, <1>g, <1>t
<1>12. ASSUME NEW a \in Addrs, EraseSetRole(a) PROVE RolesNamed'
  BY <1>12, <1>g, <1>t DEF EraseSetRole, EraseKey, Respond
<1>13. ASSUME NEW a \in Addrs, NEW r, NEW l, Receive(a, r, l) PROVE RolesNamed'
  BY <1>13, <1>t DEF Receive, RolesNamed, RoleUnderOwnName
<1>14. ASSUME NEW a \in Addrs, Client(a) PROVE RolesNamed'
  BY <1>14, <1>13 DEF Client, ReceiveLogin, ReceiveRegister, ReceiveErase
<1>15. CASE Crash
  BY <1>15, <1>s DEF Crash
<1>16. CASE Start \/ UNCHANGED vars
  BY <1>16 DEF Start, vars, RolesNamed, RoleUnderOwnName
<1>17. QED
  BY <1>1, <1>2, <1>3, <1>4, <1>5, <1>6, <1>7, <1>8, <1>9, <1>10, <1>11, <1>12, <1>14,
     <1>15, <1>16, <1>t DEF Next, Boot, Register, Login, Serve, Quiet

\* With every id in use drawn from gid, the one drawn next is new.
LEMMA IdsNext ==
    ASSUME IdInv, [Next]_vars PROVE IdsDrawn' /\ PlayerIdsDistinct'
<1>1. gid \in Nat /\ SeedId \in Nat /\ SeedName # EmptyName
      /\ \A r \in LiveRoles : r \in Role
  BY NamesAssumption DEF IdInv, TypeOK, LiveRoles
<1>2. gid' \in {gid, gid + 1}
  BY RoleOrigin DEF IdInv
<1>3. PICK p \in Procs : \A r \in LiveRoles' : Derived(r, p)
  <2>1. PICK p \in Procs : /\ \A n \in Names : Derived(dbRoles'[n], p)
                           /\ \A a \in Addrs : Derived(roles_'[a], p)
                           /\ \A q \in Procs : Derived(held'[q], p)
    BY RoleOrigin DEF IdInv
  <2>2. \A r \in LiveRoles' : Derived(r, p)
    BY <2>1 DEF LiveRoles
  <2>3. QED BY <2>2
<1>4. pc[p] = "register_incr" => req[p].name # SeedName
  BY DEF IdInv, SeedTaken, Creating, CreatingLabels
<1>5. /\ EmptyRole.id = 0 /\ EmptyRole.username = EmptyName
      /\ SeedRole.id = SeedId /\ SeedRole.username = SeedName
      /\ NewRole(p).id = gid + 1 /\ NewRole(p).username = req[p].name
  BY DEF EmptyRole, SeedRole, NewRole
\* What the step can have made of a role: its id and its name.
<1>6. ASSUME NEW r \in LiveRoles'
      PROVE  \/ \E s \in LiveRoles : r.id = s.id /\ r.username = s.username
             \/ r.id = 0 /\ r.username = EmptyName
             \/ r.id = SeedId /\ r.username = SeedName
             \/ r.id = gid + 1 /\ r.username = req[p].name /\ r.username # SeedName
                /\ gid' = gid + 1
  <2>1. r # Nil
    BY DEF LiveRoles
  <2>2. QED BY <2>1, <1>3, <1>4, <1>5 DEF Derived
<1>7. \A s \in LiveRoles :
        /\ s.id \in Nat
        /\ s.username = SeedName => s.id = SeedId
        /\ s.username \notin {SeedName, EmptyName} => 0 < s.id
        /\ s.username # SeedName => s.id <= gid
  BY <1>1, RoleTypes DEF IdInv, IdsDrawn
<1>8. ASSUME NEW r \in LiveRoles'
      PROVE  /\ r.username = SeedName => r.id = SeedId
             /\ r.username \notin {SeedName, EmptyName} => 0 < r.id
             /\ r.username # SeedName => r.id <= gid'
  BY <1>1, <1>2, <1>6, <1>7
<1>9. ASSUME NEW r \in LiveRoles', NEW s \in LiveRoles', r.id = s.id
      PROVE  \/ r.username = s.username
             \/ SeedName \in {r.username, s.username} /\ SeedId <= gid'
  <2>1. CASE r.username = SeedName \/ s.username = SeedName
    BY <2>1, <1>9, <1>8
  <2>2. CASE r.username # SeedName /\ s.username # SeedName
    <3>1. \A x, y \in LiveRoles :
             x.id = y.id /\ x.username # SeedName /\ y.username # SeedName
                => x.username = y.username
      BY DEF IdInv, PlayerIdsDistinct
    <3>2. QED BY <2>2, <3>1, <1>1, <1>6, <1>7, <1>9
  <2>3. QED BY <2>1, <2>2
<1>10. QED BY <1>8, <1>9 DEF IdsDrawn, PlayerIdsDistinct

\* The invariant holds at the start and is kept by every step.
LEMMA IdInvariant == Spec => []IdInv
<1>1. Init => IdInv
  <2> SUFFICES ASSUME Init PROVE IdInv
    OBVIOUS
  <2>1. TypeOK
    BY TypeInit
  <2>2. LiveRoles = {}
    BY DEF Init, LiveRoles
  <2>3. SeedTaken
    BY ProcessAssumption
       DEF Init, SeedTaken, Up, Creating, CreatingLabels, Procs
  <2>4. RolesNamed
    BY DEF Init, RolesNamed, RoleUnderOwnName
  <2>5. QED BY <2>1, <2>2, <2>3, <2>4 DEF IdInv, IdsDrawn, PlayerIdsDistinct
<1>2. IdInv /\ [Next]_vars => IdInv'
  BY TypeNext, SeedTakenNext, RolesNamedNext, IdsNext DEF IdInv
<1>3. QED BY <1>1, <1>2, PTL DEF Spec

\* Whatever connections, registrations, logins, erasures, failed commands and
\* crashes there are, two accounts never share a player_id that incr gid drew.
THEOREM IdsDistinct == Spec => []PlayerIdsDistinct
<1>1. IdInv => PlayerIdsDistinct
  BY DEF IdInv
<1>2. QED BY <1>1, IdInvariant, PTL

\* PushRoleToDB and PullRoleInfoFromDB agree on the key of every stored role.
THEOREM StoredUnderOwnName == Spec => []RoleUnderOwnName
<1>1. IdInv => RoleUnderOwnName
  BY DEF IdInv, RolesNamed
<1>2. QED BY <1>1, IdInvariant, PTL

=============================================================================
