------------------------- MODULE RegistrationProofs -------------------------
(***************************************************************************)
(* Theorems about registrations and logins in Accounts: what a SUCCEED     *)
(* promises, for every number of connections that race for a name, and     *)
(* wherever an error reply or a crash cuts a handler short.                *)
(*                                                                         *)
(* None of the properties is inductive.  They all rest on the order of the *)
(* commands of a registration: the password is looked up, then stored, and *)
(* the role only comes after it.  The parts of the inductive invariant say *)
(* what that order gives for every state in between.                       *)
(***************************************************************************)
EXTENDS AccountsProofs

\* The labels of each service.
RegisterLabels == CreatingLabels \cup {"register_get"}

LoginLabels == {"inject_get_role", "inject_add_role", "login_get_password",
                "login_get_role", "login_set_role"}

\* A handler serves the kind of request that it is for, and the connection has
\* not been given a response since.
InHand ==
    /\ req[Main] = BootRequest
    /\ \A p \in Procs :
         /\ pc[p] \in RegisterLabels => req[p].op = "REGISTER"
         /\ pc[p] \in LoginLabels => req[p].op = "LOGIN"
         /\ pc[p] = "erase_set_role" => req[p].op = "ERASE_ROLE"
    /\ \A a \in Addrs : pc[a] # "idle" => rsp[a] = Nil

\* The password is there before anything else of an account is, and it stays.
PasswordFirst ==
    /\ passwords[SeedName] \in {Nil, SeedPassword}
    /\ \A p \in Procs : pc[p] \in {"register_incr", "register_set_role"}
                            => passwords[req[p].name] # Nil
    /\ \A r \in LiveRoles : r.username # EmptyName => passwords[r.username] # Nil
    /\ \A g \in registered : passwords[g.name] # Nil

\* Thread p is creating an account, and nobody else has been at the same time.
Alone(p) == pc[p] \in CreatingLabels /\ req[p].name \notin raced

\* Whoever creates an account alone finds nothing of it but what it has written.
CreatorAlone ==
    \A p \in Procs : Alone(p) =>
        /\ \A q \in Procs : Creating(q, req[p].name) => q = p
        /\ \A g \in registered : g.name # req[p].name
        /\ passwords[req[p].name] =
             IF pc[p] = "register_set_password" THEN Nil ELSE CStr[req[p].password]
        /\ req[p].name # EmptyName => dbRoles[req[p].name] = Nil
        /\ req[p].name # EmptyName /\ pc[p] # "register_set_role" =>
             \A r \in LiveRoles : r.username # req[p].name

\* What a login knows of its account once the password was right.
LoggingIn ==
    \A a \in Addrs :
        /\ pc[a] \in {"login_get_role", "login_set_role"} =>
             /\ req[a].name \in verified
             /\ req[a].name \notin raced => passwords[req[a].name] = req[a].password
        /\ pc[a] = "login_set_role" => held[a].returning /\ dbRoles[req[a].name] # Nil

\* An account without a role is about to get it, or its registration was cut
\* short, or it is the seeded one and main() has not looked at it yet.
Unfinished ==
    \A n \in Names :
        passwords[n] # Nil /\ dbRoles[n] = Nil =>
            \/ n \in cut
            \/ \E p \in Procs : /\ req[p].name = n
                                /\ pc[p] \in {"register_incr", "register_set_role"}
            \/ n = SeedName /\ pc[Main] \in BootLabels

RegInv ==
    /\ IdInv
    /\ InHand /\ PasswordFirst /\ CreatorAlone /\ LoggingIn /\ Unfinished
    /\ RoleCopiesAgree /\ RegistrationLasts /\ RegisteredOnce
    /\ ReturningMeansVerified

-----------------------------------------------------------------------------
\* The types that the proofs below use.
LEMMA Typing ==
    ASSUME TypeOK
    PROVE  /\ passwords \in [Names -> Passwords \cup {Nil}]
           /\ dbRoles \in [Names -> Role \cup {Nil}]
           /\ pc \in [Procs -> Labels] /\ req \in [Procs -> Requests]
           /\ held \in [Procs -> Role \cup {Nil}]
           /\ rsp \in [Procs -> Responses \cup {Nil}]
           /\ \A p \in Procs : /\ req[p].name \in Names /\ req[p].password \in Passwords
                              /\ CStr[req[p].password] \in Passwords
           /\ \A p \in Procs : held[p] # Nil <=>
                pc[p] \in {"register_set_role", "inject_add_role", "login_set_role"}
           /\ Procs = Addrs \cup {Main} /\ Main \notin Addrs
           /\ {SeedName, EmptyName} \subseteq Names /\ SeedName # EmptyName
           /\ Nil \notin Passwords /\ SeedPassword \in Passwords /\ Nil \notin Role
BY RequestTypes, NamesAssumption, NilAssumption, ProcessAssumption DEF TypeOK, Procs

(***************************************************************************)
(* The commands that change an account.                                    *)
(***************************************************************************)

\* A registration finds its name free.
Checked(p) ==
    /\ pc[p] = "register_get" /\ passwords[req[p].name] = Nil
    /\ Goto(p, "register_set_password")
    /\ raced' = IF \E q \in Procs \ {p} : Creating(q, req[p].name)
                THEN raced \cup {req[p].name} ELSE raced
    /\ UNCHANGED <<passwords, dbRoles, req, held, registered>>

PasswordStored(p) ==
    /\ pc[p] = "register_set_password"
    /\ passwords' = [passwords EXCEPT ![req[p].name] = CStr[req[p].password]]
    /\ Goto(p, "register_incr")
    /\ UNCHANGED <<dbRoles, req, held, registered, raced>>

IdDrawn(p) ==
    /\ pc[p] = "register_incr"
    /\ Goto(p, "register_set_role")
    /\ UNCHANGED <<passwords, dbRoles, req, registered, raced>>

RoleStored(p) ==
    /\ pc[p] = "register_set_role"
    /\ dbRoles' = [dbRoles EXCEPT ![req[p].name] = held[p]]
    /\ registered' = registered \cup
          {[name |-> req[p].name, password |-> req[p].password, id |-> held[p].id]}
    /\ Goto(p, "idle")
    /\ rsp' = [rsp EXCEPT ![p] = [op |-> req[p].op, name |-> req[p].name,
                                  error |-> "SUCCEED", returning |-> FALSE]]
    /\ UNCHANGED <<passwords, req, raced>>

\* A login stores the role that it has marked.
RolePushed(a) ==
    /\ pc[a] = "login_set_role"
    /\ dbRoles' = [dbRoles EXCEPT ![held[a].username] = held[a]]
    /\ Goto(a, "idle")
    /\ UNCHANGED <<passwords, req, registered, raced>>

SeedPasswordStored ==
    /\ passwords' = [passwords EXCEPT ![SeedName] = SeedPassword]
    /\ Goto(Main, "boot_set_role")
    /\ UNCHANGED <<dbRoles, req, held, registered, raced>>

SeedRoleStored ==
    /\ pc[Main] = "boot_set_role"
    /\ dbRoles' = [dbRoles EXCEPT ![SeedName] = SeedRole]
    /\ Goto(Main, "boot_get_role")
    /\ UNCHANGED <<passwords, req, rsp, registered, raced>>

\* The erasure of a role.
EmptyRoleStored(a) ==
    /\ pc[a] = "erase_set_role"
    /\ dbRoles' = [dbRoles EXCEPT ![EmptyName] = EmptyRole]
    /\ Goto(a, "idle")
    /\ UNCHANGED <<passwords, req, registered, raced>>

FixedRoleStored == SeedRoleStored \/ \E a \in Addrs : EmptyRoleStored(a)

\* Every other step leaves the accounts alone, and no thread gets further with
\* creating one.
Aside ==
    /\ UNCHANGED <<passwords, dbRoles, registered, raced>>
    /\ \A p \in Procs : pc'[p] \in CreatingLabels => pc'[p] = pc[p] /\ req'[p] = req[p]

\* So there are no other steps than these.
LEMMA AccountSteps ==
    ASSUME TypeOK, SeedTaken, [Next]_vars
    PROVE  \/ Aside
           \/ \E p \in Procs : Checked(p) \/ PasswordStored(p) \/ IdDrawn(p) \/ RoleStored(p)
           \/ \E a \in Addrs : RolePushed(a)
           \/ SeedPasswordStored \/ FixedRoleStored
<1> DEFINE Goal == \/ Aside
                   \/ \E p \in Procs : Checked(p) \/ PasswordStored(p) \/ IdDrawn(p)
                                        \/ RoleStored(p)
                   \/ \E a \in Addrs : RolePushed(a)
                   \/ SeedPasswordStored \/ FixedRoleStored
<1> SUFFICES Goal
  OBVIOUS
<1> USE DEF redisVars, budgetVars, historyVars
<1>t. /\ pc \in [Procs -> Labels] /\ Procs = Addrs \cup {Main} /\ Main \notin Addrs
      /\ \A a \in Addrs : pc[a] # "idle" => pc[Main] = "idle"
  BY Typing DEF SeedTaken, Up
\* A thread moves elsewhere without having changed an account.
<1>a. ASSUME NEW p \in Procs, NEW l, l \notin CreatingLabels, Goto(p, l),
             \A q \in Procs \ {p} : req'[q] = req[q],
             UNCHANGED <<passwords, dbRoles, registered, raced>>
      PROVE  Aside
  BY <1>a, <1>t DEF Goto, Aside
<1>s. ASSUME ServerEnds, UNCHANGED <<passwords, dbRoles, registered, raced>>
      PROVE  Aside
  BY <1>s DEF ServerEnds, Aside, CreatingLabels
<1>1. CASE BootSetPassword
  BY <1>1, <1>s DEF BootSetPassword, SeedPasswordStored
<1>2. CASE BootSetRole
  BY <1>2, <1>a, <1>t
     DEF BootSetRole, FixedRoleStored, SeedRoleStored, EmptyRoleStored, CreatingLabels
<1>3. CASE BootGetRole
  BY <1>3, <1>a, <1>s, <1>t DEF BootGetRole, CreatingLabels
<1>4. ASSUME NEW p \in Procs, RegisterGetPassword(p) PROVE Goal
  BY <1>4, <1>a DEF RegisterGetPassword, Free, Checked, Respond, CreatingLabels
<1>5. ASSUME NEW p \in Procs, RegisterSetPassword(p) PROVE Goal
  BY <1>5, <1>a DEF RegisterSetPassword, PasswordStored, Respond, CreatingLabels
<1>6. ASSUME NEW p \in Procs, RegisterIncrGid(p) PROVE Goal
  BY <1>6, <1>a DEF RegisterIncrGid, IdDrawn, Respond, CreatingLabels
<1>7. ASSUME NEW p \in Procs, RegisterSetRole(p) PROVE Goal
  BY <1>7, <1>a DEF RegisterSetRole, RoleStored, Respond, CreatingLabels
<1>8. ASSUME NEW a \in Addrs, InjectGetRole(a) \/ InjectAddRole(a) PROVE Goal
  BY <1>8, <1>a, <1>t DEF InjectGetRole, InjectAddRole, CreatingLabels
<1>9. ASSUME NEW a \in Addrs, LoginGetPassword(a) PROVE Goal
  BY <1>9, <1>a, <1>t DEF LoginGetPassword, Respond, CreatingLabels
<1>10. ASSUME NEW a \in Addrs, LoginGetRole(a) PROVE Goal
  BY <1>10, <1>a, <1>t DEF LoginGetRole, Respond, CreatingLabels
<1>11. ASSUME NEW a \in Addrs, LoginSetRole(a) PROVE Goal
  BY <1>11, <1>a, <1>t DEF LoginSetRole, RolePushed, Respond, CreatingLabels
<1>12. ASSUME NEW a \in Addrs, EraseSetRole(a) PROVE Goal
  BY <1>12, <1>a, <1>t
     DEF EraseSetRole, EraseKey, EmptyRole, FixedRoleStored, SeedRoleStored,
         EmptyRoleStored, Respond, CreatingLabels
<1>13. ASSUME NEW a \in Addrs, NEW r,
              NEW l \in {"inject_get_role", "register_get", "erase_set_role"},
              Receive(a, r, l)
       PROVE  Aside
  BY <1>13, <1>a, <1>t DEF Receive, CreatingLabels
<1>14. ASSUME NEW a \in Addrs, Client(a) PROVE Goal
  BY <1>14, <1>13 DEF Client, ReceiveLogin, ReceiveRegister, ReceiveErase
<1>15. CASE Crash
  BY <1>15, <1>s DEF Crash
<1>16. CASE Start
  BY <1>16, <1>a, <1>t DEF Start, FirstStep, CreatingLabels
<1>17. CASE UNCHANGED vars
  BY <1>17 DEF vars, Aside
<1>18. QED
  BY <1>1, <1>2, <1>3, <1>4, <1>5, <1>6, <1>7, <1>8, <1>9, <1>10, <1>11, <1>12, <1>14,
     <1>15, <1>16, <1>17, <1>t DEF Next, Boot, Register, Login, Serve, Quiet

\* A password or a role that is there is there after every step, and so is the
\* memory of a race.
LEMMA Lasting ==
    ASSUME IdInv, [Next]_vars
    PROVE  /\ \A n \in Names : passwords[n] # Nil => passwords'[n] # Nil
           /\ \A n \in Names : dbRoles[n] # Nil => dbRoles'[n] # Nil
           /\ raced \subseteq raced'
<1>t. TypeOK /\ SeedTaken
  BY DEF IdInv
<1>r. SeedRole # Nil /\ EmptyRole # Nil
  BY RoleTypes
<1>1. CASE Aside
  BY <1>1 DEF Aside
<1>2. ASSUME NEW p \in Procs, Checked(p) \/ IdDrawn(p)
      PROVE  raced \subseteq raced' /\ UNCHANGED <<passwords, dbRoles>>
  BY <1>2 DEF Checked, IdDrawn
<1>3. ASSUME NEW p \in Procs, PasswordStored(p)
      PROVE  /\ \A n \in Names : passwords[n] # Nil => passwords'[n] # Nil
             /\ UNCHANGED <<raced, dbRoles>>
  BY <1>3, <1>t, Typing DEF PasswordStored
<1>4. ASSUME NEW p \in Procs, RoleStored(p)
      PROVE  /\ \A n \in Names : dbRoles[n] # Nil => dbRoles'[n] # Nil
             /\ UNCHANGED <<raced, passwords>>
  BY <1>4, <1>t, Typing DEF RoleStored
<1>5. ASSUME NEW a \in Addrs, RolePushed(a)
      PROVE  /\ \A n \in Names : dbRoles[n] # Nil => dbRoles'[n] # Nil
             /\ UNCHANGED <<raced, passwords>>
  BY <1>5, <1>t, Typing DEF RolePushed
<1>6. CASE SeedPasswordStored
  BY <1>6, <1>t, Typing DEF SeedPasswordStored
<1>7. CASE FixedRoleStored
  BY <1>7, <1>t, <1>r, Typing DEF FixedRoleStored, SeedRoleStored, EmptyRoleStored
<1>8. QED BY <1>1, <1>2, <1>3, <1>4, <1>5, <1>6, <1>7, <1>t, AccountSteps

\* Where the roles after a step come from, in terms of what is in them.
LEMMA LiveOrigin ==
    ASSUME IdInv, [Next]_vars
    PROVE  \E p \in Procs : \A r \in LiveRoles' :
             \/ \E s \in LiveRoles :
                   /\ r.id = s.id /\ r.username = s.username
                   /\ r.returning => \/ s.returning
                                     \/ /\ pc[p] = "login_get_role"
                                        /\ s.username = req[p].name
             \/ r.username = EmptyName /\ ~r.returning
             \/ /\ pc[Main] = "boot_set_role"
                /\ r.username = SeedName /\ r.id = SeedId /\ ~r.returning
             \/ /\ pc[p] = "register_incr" /\ pc'[p] = "register_set_role"
                /\ r.username = req[p].name /\ r.id = gid + 1 /\ ~r.returning
<1>1. PICK p \in Procs : /\ \A n \in Names : Derived(dbRoles'[n], p)
                         /\ \A a \in Addrs : Derived(roles_'[a], p)
                         /\ \A q \in Procs : Derived(held'[q], p)
  BY RoleOrigin DEF IdInv
<1>2. \A r \in LiveRoles' : r # Nil /\ Derived(r, p)
  BY <1>1 DEF LiveRoles
<1>3. \A s \in LiveRoles : s = dbRoles[req[p].name] => s.username = req[p].name
  BY RequestTypes DEF LiveRoles, IdInv, TypeOK, RolesNamed, RoleUnderOwnName
<1>4. /\ EmptyRole.username = EmptyName /\ ~EmptyRole.returning
      /\ SeedRole.id = SeedId /\ SeedRole.username = SeedName /\ ~SeedRole.returning
      /\ NewRole(p).id = gid + 1 /\ NewRole(p).username = req[p].name
      /\ ~NewRole(p).returning
  BY DEF EmptyRole, SeedRole, NewRole
<1>5. QED BY <1>2, <1>3, <1>4 DEF Derived

\* The password stays the first thing of every account.
LEMMA PasswordFirstNext ==
    ASSUME IdInv, PasswordFirst, [Next]_vars PROVE PasswordFirst'
<1>t. TypeOK /\ SeedTaken
  BY DEF IdInv
<1>1. passwords'[SeedName] \in {Nil, SeedPassword}
  <2>1. CASE UNCHANGED passwords
    BY <2>1 DEF PasswordFirst
  <2>2. ASSUME NEW p \in Procs, PasswordStored(p)
        PROVE  passwords'[SeedName] = passwords[SeedName]
    BY <2>2, <1>t, Typing DEF PasswordStored, SeedTaken, Creating, CreatingLabels
  <2>3. CASE SeedPasswordStored
    BY <2>3, <1>t, Typing DEF SeedPasswordStored
  <2>4. QED
    BY <2>1, <2>2, <2>3, <1>t, AccountSteps
       DEF PasswordFirst, Aside, Checked, IdDrawn, RoleStored, RolePushed,
           FixedRoleStored, SeedRoleStored, EmptyRoleStored
<1>2. ASSUME NEW p \in Procs, pc'[p] \in {"register_incr", "register_set_role"}
      PROVE  passwords'[req'[p].name] # Nil
  <2>1. CASE Aside
    BY <2>1, <1>2, <1>t, Typing, Lasting DEF Aside, PasswordFirst, CreatingLabels
  <2>2. ASSUME NEW q \in Procs, Checked(q) \/ IdDrawn(q) \/ RoleStored(q)
        PROVE  passwords'[req'[p].name] # Nil
    BY <2>2, <1>2, <1>t, Typing
       DEF Checked, IdDrawn, RoleStored, Goto, PasswordFirst
  <2>3. ASSUME NEW q \in Procs, PasswordStored(q)
        PROVE  passwords'[req'[p].name] # Nil
    BY <2>3, <1>2, <1>t, Typing DEF PasswordStored, Goto, PasswordFirst
  <2>4. ASSUME NEW a \in Addrs, RolePushed(a) PROVE passwords'[req'[p].name] # Nil
    BY <2>4, <1>2, <1>t, Typing DEF RolePushed, Goto, PasswordFirst
  <2>5. CASE SeedPasswordStored
    BY <2>5, <1>2, <1>t, Typing DEF SeedPasswordStored, Goto, PasswordFirst
  <2>6. CASE FixedRoleStored
    BY <2>6, <1>2, <1>t, Typing
       DEF FixedRoleStored, SeedRoleStored, EmptyRoleStored, Goto, PasswordFirst
  <2>7. QED BY <2>1, <2>2, <2>3, <2>4, <2>5, <2>6, <1>t, AccountSteps
<1>3. ASSUME NEW r \in LiveRoles', r.username # EmptyName
      PROVE  passwords'[r.username] # Nil
  <2>1. \A s \in LiveRoles : s.username \in Names
    BY <1>t, RoleTypes DEF LiveRoles, TypeOK
  <2>2. pc[Main] = "boot_set_role" => passwords[SeedName] # Nil
    BY <1>t DEF SeedTaken
  <2>3. \/ \E s \in LiveRoles : r.username = s.username
        \/ r.username = SeedName /\ pc[Main] = "boot_set_role"
        \/ \E p \in Procs : pc[p] = "register_incr" /\ r.username = req[p].name
    BY <1>3, LiveOrigin
  <2>4. passwords[r.username] # Nil /\ r.username \in Names
    BY <1>3, <2>1, <2>2, <2>3, <1>t, Typing DEF PasswordFirst
  <2>5. QED BY <2>4, Lasting
<1>4. ASSUME NEW g \in registered' PROVE passwords'[g.name] # Nil
  <2>1. \A h \in registered : h.name \in Names
    BY <1>t DEF TypeOK, Grant
  <2>2. \/ g \in registered
        \/ \E p \in Procs : pc[p] = "register_set_role" /\ g.name = req[p].name
    BY <1>t, AccountSteps
       DEF Aside, Checked, PasswordStored, IdDrawn, RoleStored, RolePushed,
           SeedPasswordStored, FixedRoleStored, SeedRoleStored, EmptyRoleStored
  <2>3. passwords[g.name] # Nil /\ g.name \in Names
    BY <2>1, <2>2, <1>t, Typing DEF PasswordFirst
  <2>4. QED BY <2>3, Lasting
<1>5. QED BY <1>1, <1>2, <1>3, <1>4 DEF PasswordFirst

\* A thread that is creating an account after a step was creating it before, no
\* further than now, or has just found the name free.
LEMMA Creators ==
    ASSUME TypeOK, SeedTaken, [Next]_vars, NEW p \in Procs, pc'[p] \in CreatingLabels
    PROVE  /\ req'[p] = req[p]
           /\ \/ Checked(p)
              \/ PasswordStored(p)
              \/ IdDrawn(p)
              \/ pc[p] = pc'[p]
<1>t. /\ pc \in [Procs -> Labels] /\ Procs = Addrs \cup {Main}
      /\ CreatingLabels = {"register_set_password", "register_incr", "register_set_role"}
  BY Typing DEF CreatingLabels
<1>1. CASE Aside
  BY <1>1 DEF Aside
<1>2. ASSUME NEW q \in Procs, Checked(q) \/ PasswordStored(q) \/ IdDrawn(q) \/ RoleStored(q)
      PROVE  /\ req'[p] = req[p]
             /\ p = q => ~RoleStored(q)
             /\ p # q => pc[p] = pc'[p]
  BY <1>2, <1>t DEF Checked, PasswordStored, IdDrawn, RoleStored, Goto
<1>3. ASSUME NEW a \in Addrs, RolePushed(a)
      PROVE  req'[p] = req[p] /\ pc[p] = pc'[p]
  BY <1>3, <1>t DEF RolePushed, Goto
<1>4. CASE SeedPasswordStored \/ FixedRoleStored
  BY <1>4, <1>t
     DEF SeedPasswordStored, FixedRoleStored, SeedRoleStored, EmptyRoleStored, Goto
<1>5. QED BY <1>1, <1>2, <1>3, <1>4, AccountSteps

\* Whoever is alone in creating an account after a step finds nothing of it but
\* what it has written itself.
LEMMA CreatorAloneNext ==
    ASSUME IdInv, PasswordFirst, CreatorAlone, LoggingIn, [Next]_vars
    PROVE  CreatorAlone'
<1>t. TypeOK /\ SeedTaken
  BY DEF IdInv
<1>l. CreatingLabels = {"register_set_password", "register_incr", "register_set_role"}
  BY DEF CreatingLabels
<1> SUFFICES ASSUME NEW p \in Procs, Alone(p)'
             PROVE  /\ \A q \in Procs : Creating(q, req[p].name)' => q = p
                    /\ \A g \in registered' : g.name # req'[p].name
                    /\ passwords'[req'[p].name] =
                         IF pc'[p] = "register_set_password" THEN Nil
                         ELSE CStr[req'[p].password]
                    /\ req'[p].name # EmptyName => dbRoles'[req'[p].name] = Nil
                    /\ req'[p].name # EmptyName /\ pc'[p] # "register_set_role" =>
                         \A r \in LiveRoles' : r.username # req'[p].name
  BY DEF CreatorAlone
<1> DEFINE n == req[p].name
<1>n. req'[p] = req[p] /\ n \notin raced' /\ n \notin raced /\ n \in Names
  BY <1>t, Creators, Lasting, Typing DEF Alone
<1>s. n # SeedName
  BY <1>n, SeedTakenNext, <1>t DEF SeedTaken, Creating, Alone
\* Before the step p was alone too, or the name was free and nobody was at it.
<1>b. \/ Alone(p) /\ pc[p] = pc'[p]
      \/ Alone(p) /\ PasswordStored(p)
      \/ Alone(p) /\ IdDrawn(p)
      \/ Checked(p) /\ \A q \in Procs : ~Creating(q, n)
  <2>1. CASE Checked(p)
    BY <2>1, <1>n, <1>l DEF Checked, Creating
  <2>2. QED BY <2>1, <1>t, <1>n, <1>l, Creators DEF Alone, PasswordStored, IdDrawn
<1>1. ASSUME NEW q \in Procs, Creating(q, req[p].name)' PROVE q = p
  <2>1. req'[q] = req[q] /\ req[q].name = n /\ pc'[q] \in CreatingLabels
    BY <1>1, <1>t, <1>n, Creators DEF Creating
  <2>2. CASE Checked(q)
    <3>1. \A x \in Procs \ {q} : ~Creating(x, n)
      BY <2>1, <2>2, <1>n DEF Checked
    <3>2. q # p => pc'[p] = pc[p]
      BY <2>2, <1>t, Typing DEF Checked, Goto
    <3>3. QED BY <3>1, <3>2 DEF Creating, Alone
  <2>3. CASE ~Checked(q)
    <3>1. Creating(q, n)
      BY <2>1, <2>3, <1>t, <1>l, Creators DEF Creating, PasswordStored, IdDrawn
    <3>2. QED BY <1>b, <3>1 DEF CreatorAlone
  <2>4. QED BY <2>2, <2>3
<1>2. /\ \A g \in registered : g.name # n
      /\ n # EmptyName => dbRoles[n] = Nil
      /\ Checked(p) => \A r \in LiveRoles : n # EmptyName => r.username # n
  <2>1. CASE Alone(p)
    BY <2>1, <1>l DEF CreatorAlone, Alone, Checked
  <2>2. CASE passwords[n] = Nil
    <3>1. n # EmptyName => \A r \in LiveRoles : r.username # n
      BY <2>2 DEF PasswordFirst
    <3>2. dbRoles[n] # Nil => dbRoles[n] \in LiveRoles /\ dbRoles[n].username = n
      BY <1>n DEF LiveRoles, IdInv, RolesNamed, RoleUnderOwnName
    <3>3. QED BY <2>2, <3>1, <3>2 DEF PasswordFirst
  <2>3. QED BY <2>1, <2>2, <1>b DEF Checked
\* The only thread that writes to the account is p.
<1>3. /\ \A g \in registered' : g.name # n
      /\ n # EmptyName => dbRoles'[n] = Nil
      /\ passwords'[n] = IF PasswordStored(p) THEN CStr[req[p].password]
                         ELSE passwords[n]
  <2>1. CASE Aside
    <3>1. ~PasswordStored(p)
      BY <2>1, <1>t, Typing DEF PasswordStored, Aside, Goto, CreatingLabels
    <3>2. QED BY <2>1, <3>1, <1>2 DEF Aside
  <2>2. ASSUME NEW q \in Procs, Checked(q) \/ PasswordStored(q) \/ IdDrawn(q) \/ RoleStored(q)
        PROVE  /\ \A g \in registered' : g.name # n
               /\ n # EmptyName => dbRoles'[n] = Nil
               /\ passwords'[n] = IF PasswordStored(p) THEN CStr[req[p].password]
                                  ELSE passwords[n]
    <3>1. CASE q = p
      BY <2>2, <3>1, <1>2, <1>n, <1>t, <1>l, Typing
         DEF Checked, PasswordStored, IdDrawn, RoleStored, Goto, Alone
    <3>2. CASE q # p
      <4>1. pc'[p] = pc[p] /\ Alone(p)
        BY <2>2, <3>2, <1>b, <1>t, Typing
           DEF Checked, PasswordStored, IdDrawn, RoleStored, Goto, Alone
      <4>2. ~PasswordStored(p)
        BY <4>1, <1>t, Typing DEF PasswordStored, Goto
      <4>3. Checked(q) \/ IdDrawn(q) \/ req[q].name # n
        BY <2>2, <3>2, <4>1, <1>l DEF CreatorAlone, Creating, PasswordStored, RoleStored
      <4>4. QED
        BY <2>2, <4>2, <4>3, <1>2, <1>n, <1>t, Typing
           DEF Checked, PasswordStored, IdDrawn, RoleStored
    <3>3. QED BY <3>1, <3>2
  <2>3. ASSUME NEW a \in Addrs, RolePushed(a)
        PROVE  /\ ~PasswordStored(p)
               /\ UNCHANGED <<registered, passwords>>
               /\ n # EmptyName => dbRoles'[n] = Nil
    <3>1. a # p /\ pc'[p] = pc[p]
      BY <2>3, <1>t, <1>l, Typing DEF RolePushed, Goto, Alone
    <3>2. Alone(p)
      BY <3>1, <1>n DEF Alone
    <3>3. held[a].username = req[a].name /\ dbRoles[req[a].name] # Nil
      BY <2>3, <1>t, Typing DEF RolePushed, LoggingIn, IdInv, RolesNamed
    <3>4. QED
      BY <2>3, <3>1, <3>2, <3>3, <1>2, <1>n, <1>t, Typing
         DEF RolePushed, PasswordStored, Goto
  <2>4. CASE SeedPasswordStored
    <3>1. ~PasswordStored(p)
      BY <2>4, <1>t, <1>s, <1>n, Typing DEF SeedPasswordStored, PasswordStored, Goto
    <3>2. QED BY <2>4, <3>1, <1>2, <1>n, <1>s, <1>t, Typing DEF SeedPasswordStored
  <2>5. CASE FixedRoleStored
    <3>1. ~PasswordStored(p)
      BY <2>5, <1>t, Typing
         DEF FixedRoleStored, SeedRoleStored, EmptyRoleStored, PasswordStored, Goto
    <3>2. QED BY <2>5, <3>1, <1>2, <1>n, <1>s, <1>t, Typing
      DEF FixedRoleStored, SeedRoleStored, EmptyRoleStored
  <2>6. QED BY <2>1, <2>2, <2>3, <2>4, <2>5, <1>t, <1>2, AccountSteps
<1>4. passwords'[n] = IF pc'[p] = "register_set_password" THEN Nil
                      ELSE CStr[req[p].password]
  <2>1. CASE PasswordStored(p)
    BY <2>1, <1>3, <1>t, Typing DEF PasswordStored, Goto
  <2>2. CASE Checked(p)
    BY <2>2, <1>3, <1>t, Typing DEF Checked, PasswordStored, Goto
  <2>3. CASE ~PasswordStored(p) /\ ~Checked(p)
    <3>1. Alone(p) /\ (pc[p] = pc'[p] \/ IdDrawn(p))
      BY <2>3, <1>b
    <3>2. passwords'[n] = passwords[n]
      BY <2>3, <1>3
    <3>3. pc[p] = "register_set_password" <=> pc'[p] = "register_set_password"
      BY <3>1, <1>t, Typing DEF IdDrawn, Goto
    <3>4. QED BY <3>1, <3>2, <3>3 DEF CreatorAlone
  <2>4. QED BY <2>1, <2>2, <2>3
<1>5. ASSUME n # EmptyName, pc'[p] # "register_set_role", NEW r \in LiveRoles'
      PROVE  r.username # n
  <2>1. \A s \in LiveRoles : s.username # n
    <3>1. CASE Alone(p) /\ pc[p] # "register_set_role"
      BY <3>1, <1>5 DEF CreatorAlone
    <3>2. CASE Checked(p)
      BY <3>2, <1>5, <1>2
    <3>3. QED
      BY <3>1, <3>2, <1>5, <1>b DEF PasswordStored, IdDrawn
  <2>2. ASSUME NEW q \in Procs, pc[q] = "register_incr", pc'[q] = "register_set_role"
        PROVE  req[q].name # n
    <3>1. req'[q] = req[q]
      BY <2>2, <1>t, <1>l, Creators
    <3>2. q # p
      BY <2>2, <1>5
    <3>3. QED BY <2>2, <3>1, <3>2, <1>1, <1>l, <1>n DEF Creating
  <2>3. QED BY <2>1, <2>2, <1>5, <1>s, LiveOrigin
<1>6. QED BY <1>1, <1>3, <1>4, <1>5, <1>n

-----------------------------------------------------------------------------
(***************************************************************************)
(* Where a thread is after a step, and what it has in hand.                *)
(***************************************************************************)
Kept(p) ==
    pc'[p] = pc[p] /\ req'[p] = req[p] /\ held'[p] = held[p] /\ rsp'[p] = rsp[p]

Booting(p) ==
    /\ p = Main
    /\ pc'[p] \in BootLabels \cup {"register_get"}
    /\ req'[p] \in {req[p], BootRequest}

Received(p) ==
    /\ p \in Addrs
    /\ rsp'[p] = Nil
    /\ \/ pc'[p] = "inject_get_role" /\ req'[p].op = "LOGIN"
       \/ pc'[p] = "register_get" /\ req'[p].op = "REGISTER"
       \/ pc'[p] = "erase_set_role" /\ req'[p].op = "ERASE_ROLE"

RegisterMoves(p) == pc[p] \in RegisterLabels /\ pc'[p] \in RegisterLabels

LoginMoves(p) ==
    /\ p \in Addrs
    /\ \/ /\ pc[p] \in {"inject_get_role", "inject_add_role"}
          /\ pc'[p] \in {"inject_add_role", "login_get_password"}
       \/ /\ pc[p] = "login_get_password" /\ pc'[p] = "login_get_role"
          /\ passwords[req[p].name] = req[p].password
          /\ req[p].name \in verified'
       \/ /\ pc[p] = "login_get_role" /\ pc'[p] = "login_set_role"
          /\ dbRoles[req[p].name] # Nil /\ held'[p] = Marked(dbRoles[req[p].name])

\* A thread that is not idle has not moved, is in main(), has just been given a
\* request, or has got on with the one it had.
LEMMA Moves ==
    ASSUME TypeOK, [Next]_vars, NEW p \in Procs, pc'[p] # "idle"
    PROVE  \/ Kept(p) \/ Booting(p) \/ Received(p)
           \/ /\ req'[p] = req[p] /\ rsp'[p] = rsp[p]
              /\ RegisterMoves(p) \/ LoginMoves(p)
<1> DEFINE Goal == \/ Kept(p) \/ Booting(p) \/ Received(p)
                   \/ /\ req'[p] = req[p] /\ rsp'[p] = rsp[p]
                      /\ RegisterMoves(p) \/ LoginMoves(p)
<1> SUFFICES Goal
  OBVIOUS
<1> USE DEF redisVars, budgetVars, historyVars
<1>t. /\ pc \in [Procs -> Labels] /\ req \in [Procs -> Requests]
      /\ held \in [Procs -> Role \cup {Nil}] /\ rsp \in [Procs -> Responses \cup {Nil}]
      /\ Procs = Addrs \cup {Main} /\ Main \notin Addrs
      /\ RegisterLabels = {"register_get", "register_set_password", "register_incr",
                           "register_set_role"}
      /\ BootLabels = {"down", "boot_set_password", "boot_set_role", "boot_get_role"}
  BY Typing DEF RegisterLabels, CreatingLabels, BootLabels
<1>s. ASSUME ServerEnds PROVE Goal
  BY <1>s, <1>t DEF ServerEnds, Booting
\* The step of thread q, seen from another one.
<1>o. ASSUME NEW q \in Procs, q # p, NEW l, Goto(q, l),
             UNCHANGED req \/ \E r : req' = [req EXCEPT ![q] = r],
             UNCHANGED held \/ \E r : held' = [held EXCEPT ![q] = r],
             UNCHANGED rsp \/ \E r : rsp' = [rsp EXCEPT ![q] = r]
      PROVE  Kept(p)
  BY <1>o, <1>t DEF Goto, Kept
<1>i. ASSUME NEW q \in Procs, NEW e, NEW b, Respond(q, e, b), UNCHANGED req PROVE Kept(p)
  <2>1. q # p
    BY <1>i, <1>t DEF Respond, Goto
  <2>2. QED BY <1>i, <2>1, <1>o DEF Respond
<1>1. CASE BootSetPassword
  BY <1>1, <1>s, <1>o, <1>t DEF BootSetPassword, Goto, Booting
<1>2. CASE BootSetRole
  BY <1>2, <1>o, <1>t DEF BootSetRole, Goto, Booting
<1>3. CASE BootGetRole
  BY <1>3, <1>s, <1>o, <1>t DEF BootGetRole, Goto, Booting
<1>4. ASSUME NEW q \in Procs, RegisterGetPassword(q) PROVE Goal
  BY <1>4, <1>i, <1>o, <1>t DEF RegisterGetPassword, Goto, RegisterMoves
<1>5. ASSUME NEW q \in Procs, RegisterSetPassword(q) PROVE Goal
  BY <1>5, <1>i, <1>o, <1>t DEF RegisterSetPassword, Goto, RegisterMoves
<1>6. ASSUME NEW q \in Procs, RegisterIncrGid(q) PROVE Goal
  BY <1>6, <1>i, <1>o, <1>t DEF RegisterIncrGid, Goto, RegisterMoves
<1>7. ASSUME NEW q \in Procs, RegisterSetRole(q) PROVE Goal
  BY <1>7, <1>i DEF RegisterSetRole
<1>8. ASSUME NEW a \in Addrs, InjectGetRole(a) PROVE Goal
  BY <1>8, <1>o, <1>t DEF InjectGetRole, Goto, LoginMoves
<1>9. ASSUME NEW a \in Addrs, InjectAddRole(a) PROVE Goal
  BY <1>9, <1>o, <1>t DEF InjectAddRole, Goto, LoginMoves
<1>10. ASSUME NEW a \in Addrs, LoginGetPassword(a) PROVE Goal
  <2>1. CASE \E e, b : Respond(a, e, b)
    BY <1>10, <2>1, <1>i, <1>t DEF LoginGetPassword
  <2>2. CASE Goto(a, "login_get_role") /\ passwords[req[a].name] = req[a].password
             /\ verified' = verified \cup {req[a].name} /\ UNCHANGED <<held, rsp>>
    BY <1>10, <2>2, <1>o, <1>t DEF LoginGetPassword, Goto, LoginMoves
  <2>3. QED BY <1>10, <2>1, <2>2 DEF LoginGetPassword
<1>11. ASSUME NEW a \in Addrs, LoginGetRole(a) PROVE Goal
  <2>1. CASE \E e, b : Respond(a, e, b)
    BY <1>11, <2>1, <1>i, <1>t DEF LoginGetRole
  <2>2. CASE Goto(a, "login_set_role") /\ dbRoles[req[a].name] # Nil
             /\ held' = [held EXCEPT ![a] = Marked(dbRoles[req[a].name])] /\ UNCHANGED rsp
    BY <1>11, <2>2, <1>o, <1>t DEF LoginGetRole, Goto, LoginMoves
  <2>3. QED BY <1>11, <2>1, <2>2 DEF LoginGetRole
<1>12. ASSUME NEW a \in Addrs, LoginSetRole(a) \/ EraseSetRole(a) PROVE Goal
  BY <1>12, <1>i, <1>t DEF LoginSetRole, EraseSetRole
<1>13. ASSUME NEW a \in Addrs, NEW r, NEW l, Receive(a, r, l),
              \/ l = "inject_get_role" /\ r.op = "LOGIN"
              \/ l = "register_get" /\ r.op = "REGISTER"
              \/ l = "erase_set_role" /\ r.op = "ERASE_ROLE"
       PROVE  Goal
  BY <1>13, <1>o, <1>t DEF Receive, Goto, Received
<1>14. ASSUME NEW a \in Addrs, Client(a) PROVE Goal
  <2>1. CASE ReceiveLogin(a)
    BY <2>1, <1>13 DEF ReceiveLogin
  <2>2. CASE ReceiveRegister(a)
    BY <2>2, <1>13 DEF ReceiveRegister
  <2>3. CASE ReceiveErase(a)
    BY <2>3, <1>13 DEF ReceiveErase
  <2>4. QED BY <1>14, <2>1, <2>2, <2>3 DEF Client
<1>15. CASE Crash
  BY <1>15, <1>s DEF Crash
<1>16. CASE Start
  BY <1>16, <1>o, <1>t DEF Start, FirstStep, Goto, Booting
<1>17. CASE UNCHANGED vars
  BY <1>17 DEF vars, Kept
<1>18. QED
  BY <1>1, <1>2, <1>3, <1>4, <1>5, <1>6, <1>7, <1>8, <1>9, <1>10, <1>11, <1>12, <1>14,
     <1>15, <1>16, <1>17, <1>t DEF Next, Boot, Register, Login, Serve, Quiet

\* A request changes when the connection is given its next one, main()'s never.
LEMMA RequestsKept ==
    ASSUME [Next]_vars
    PROVE  \/ UNCHANGED req
           \/ \E a \in Addrs : \E r : req' = [req EXCEPT ![a] = r]
<1> USE DEF redisVars, budgetVars, historyVars
<1>1. CASE Boot
  BY <1>1 DEF Boot, BootSetPassword, BootSetRole, BootGetRole, ServerEnds
<1>2. ASSUME NEW p, Register(p) PROVE UNCHANGED req
  BY <1>2 DEF Register, RegisterGetPassword, RegisterSetPassword, RegisterIncrGid,
              RegisterSetRole
<1>3. ASSUME NEW a, Login(a) \/ EraseSetRole(a) PROVE UNCHANGED req
  BY <1>3 DEF Login, InjectGetRole, InjectAddRole, LoginGetPassword, LoginGetRole,
              LoginSetRole, EraseSetRole
<1>4. ASSUME NEW a \in Addrs, NEW r, NEW l, Receive(a, r, l)
      PROVE  req' = [req EXCEPT ![a] = r]
  BY <1>4 DEF Receive
<1>5. ASSUME NEW a \in Addrs, Client(a)
      PROVE  \E b \in Addrs : \E r : req' = [req EXCEPT ![b] = r]
  <2>1. \E r, l : Receive(a, r, l)
    BY <1>5 DEF Client, ReceiveLogin, ReceiveRegister, ReceiveErase
  <2>2. QED BY <2>1, <1>4
<1>6. QED
  BY <1>1, <1>2, <1>3, <1>5 DEF Next, Start, Serve, Crash, ServerEnds, Quiet, vars

\* Handlers go on serving the kind of request that they are for.
LEMMA InHandNext ==
    ASSUME TypeOK, InHand, [Next]_vars PROVE InHand'
<1>t. /\ req \in [Procs -> Requests] /\ Procs = Addrs \cup {Main} /\ Main \notin Addrs
      /\ RegisterLabels = {"register_get", "register_set_password", "register_incr",
                           "register_set_role"}
      /\ BootLabels = {"down", "boot_set_password", "boot_set_role", "boot_get_role"}
      /\ BootRequest.op = "REGISTER"
  BY Typing DEF RegisterLabels, CreatingLabels, BootLabels, BootRequest
<1>1. req'[Main] = BootRequest
  BY <1>t, RequestsKept DEF InHand
<1>2. ASSUME NEW p \in Procs, pc'[p] # "idle"
      PROVE  /\ pc'[p] \in RegisterLabels => req'[p].op = "REGISTER"
             /\ pc'[p] \in LoginLabels => req'[p].op = "LOGIN"
             /\ pc'[p] = "erase_set_role" => req'[p].op = "ERASE_ROLE"
             /\ p \in Addrs => rsp'[p] = Nil
  <2>1. CASE Kept(p)
    BY <2>1, <1>2 DEF Kept, InHand
  <2>2. CASE Booting(p)
    BY <2>2, <1>1, <1>t DEF Booting, LoginLabels
  <2>3. CASE Received(p)
    BY <2>3, <1>t DEF Received, LoginLabels
  <2>4. CASE req'[p] = req[p] /\ rsp'[p] = rsp[p] /\ (RegisterMoves(p) \/ LoginMoves(p))
    BY <2>4, <1>t DEF RegisterMoves, LoginMoves, LoginLabels, InHand
  <2>5. QED BY <2>1, <2>2, <2>3, <2>4, <1>2, Moves
<1>3. "idle" \notin RegisterLabels /\ "idle" \notin LoginLabels
  BY <1>t DEF LoginLabels
<1>4. QED BY <1>1, <1>2, <1>3, <1>t DEF InHand

\* The password of an account that was created by one registration alone is set
\* once: nobody overwrites it.
LEMMA PasswordKept ==
    ASSUME IdInv, PasswordFirst, CreatorAlone, [Next]_vars,
           NEW n \in Names, n \notin raced, passwords[n] # Nil
    PROVE  passwords'[n] = passwords[n]
<1>t. TypeOK /\ SeedTaken
  BY DEF IdInv
<1>1. ASSUME NEW p \in Procs, PasswordStored(p) PROVE passwords'[n] = passwords[n]
  <2>1. req[p].name # n
    BY <1>1 DEF PasswordStored, CreatorAlone, Alone, CreatingLabels
  <2>2. QED BY <1>1, <2>1, <1>t, Typing DEF PasswordStored
<1>2. CASE SeedPasswordStored
  BY <1>2, <1>t, Typing DEF SeedPasswordStored, PasswordFirst
<1>3. QED
  BY <1>1, <1>2, <1>t, AccountSteps
     DEF Aside, Checked, IdDrawn, RoleStored, RolePushed, FixedRoleStored,
         SeedRoleStored, EmptyRoleStored

\* Nobody's password check is forgotten.
LEMMA VerifiedKept == ASSUME [Next]_vars PROVE verified \subseteq verified'
<1> USE DEF redisVars, budgetVars, historyVars
<1>1. CASE Boot
  BY <1>1 DEF Boot, BootSetPassword, BootSetRole, BootGetRole
<1>2. ASSUME NEW p, Register(p) PROVE UNCHANGED verified
  BY <1>2 DEF Register, RegisterGetPassword, RegisterSetPassword, RegisterIncrGid,
              RegisterSetRole
<1>3. ASSUME NEW a, Login(a) \/ EraseSetRole(a) PROVE verified \subseteq verified'
  BY <1>3 DEF Login, InjectGetRole, InjectAddRole, LoginGetPassword, LoginGetRole,
              LoginSetRole, EraseSetRole
<1>4. ASSUME NEW a \in Addrs, Client(a) PROVE UNCHANGED verified
  <2>1. \E r, l : Receive(a, r, l)
    BY <1>4 DEF Client, ReceiveLogin, ReceiveRegister, ReceiveErase
  <2>2. QED BY <2>1 DEF Receive
<1>5. QED
  BY <1>1, <1>2, <1>3, <1>4 DEF Next, Start, Serve, Crash, Quiet, vars

\* What a login knows of its account stays true while other threads run.
LEMMA LoggingInNext ==
    ASSUME IdInv, PasswordFirst, CreatorAlone, LoggingIn, [Next]_vars
    PROVE  LoggingIn'
<1>t. TypeOK /\ SeedTaken
  BY DEF IdInv
<1> SUFFICES ASSUME NEW a \in Addrs, pc'[a] \in {"login_get_role", "login_set_role"}
             PROVE  /\ req'[a].name \in verified'
                    /\ req'[a].name \notin raced' =>
                         passwords'[req'[a].name] = req'[a].password
                    /\ pc'[a] = "login_set_role" =>
                         held'[a].returning /\ dbRoles'[req'[a].name] # Nil
  BY DEF LoggingIn
<1>m. /\ req'[a] = req[a] /\ req[a].name \in Names /\ req[a].password # Nil
      /\ Kept(a) \/ LoginMoves(a)
  BY <1>t, Moves, Typing
     DEF Kept, Booting, Received, RegisterMoves, RegisterLabels, CreatingLabels,
         BootLabels
<1>1. req[a].name \in verified'
  BY <1>m, VerifiedKept DEF Kept, LoginMoves, LoggingIn
<1>2. ASSUME req[a].name \notin raced' PROVE passwords'[req[a].name] = req[a].password
  <2>1. passwords[req[a].name] = req[a].password /\ req[a].name \notin raced
    BY <1>2, <1>m, Lasting DEF Kept, LoginMoves, LoggingIn
  <2>2. QED BY <2>1, <1>m, PasswordKept
<1>3. ASSUME pc'[a] = "login_set_role"
      PROVE  held'[a].returning /\ dbRoles'[req[a].name] # Nil
  <2>1. held'[a].returning /\ dbRoles[req[a].name] # Nil
    BY <1>3, <1>m DEF Kept, LoginMoves, LoggingIn, Marked
  <2>2. QED BY <2>1, <1>m, Lasting
<1>4. QED BY <1>1, <1>2, <1>3, <1>m

\* A registration that has stored its password goes on, or has stored the role
\* too, or is remembered as cut short.
LEMMA Ended ==
    ASSUME TypeOK, SeedTaken, [Next]_vars, NEW p \in Procs,
           pc[p] \in {"register_incr", "register_set_role"}
    PROVE  \/ req'[p] = req[p] /\ pc'[p] \in {"register_incr", "register_set_role"}
           \/ dbRoles'[req[p].name] # Nil
           \/ req[p].name \in cut'
<1> DEFINE Goal == \/ req'[p] = req[p] /\ pc'[p] \in {"register_incr", "register_set_role"}
                   \/ dbRoles'[req[p].name] # Nil
                   \/ req[p].name \in cut'
<1> SUFFICES Goal
  OBVIOUS
<1> USE DEF redisVars, budgetVars, historyVars
<1>t. /\ pc \in [Procs -> Labels] /\ req \in [Procs -> Requests]
      /\ Procs = Addrs \cup {Main} /\ Main \notin Addrs
      /\ pc[Main] \notin {"down", "boot_set_password", "boot_set_role", "boot_get_role"}
  BY Typing DEF SeedTaken, Up
\* The step of another thread.
<1>o. ASSUME NEW q \in Procs, q # p, NEW l, Goto(q, l),
             UNCHANGED req \/ \E r : req' = [req EXCEPT ![q] = r]
      PROVE  Goal
  BY <1>o, <1>t DEF Goto
<1>1. ~Start /\ ~Boot
  BY <1>t DEF Start, Boot, BootSetPassword, BootSetRole, BootGetRole
<1>2. ASSUME NEW q \in Procs, RegisterGetPassword(q) \/ RegisterSetPassword(q) PROVE Goal
  BY <1>2, <1>o DEF RegisterGetPassword, RegisterSetPassword, Respond
<1>3. ASSUME NEW q \in Procs, RegisterIncrGid(q) PROVE Goal
  BY <1>3, <1>o, <1>t DEF RegisterIncrGid, Respond, Goto
<1>4. ASSUME NEW q \in Procs, RegisterSetRole(q) PROVE Goal
  <2>1. CASE q = p
    BY <1>4, <2>1, Typing DEF RegisterSetRole
  <2>2. CASE q # p
    BY <1>4, <2>2, <1>o DEF RegisterSetRole, Respond
  <2>3. QED BY <2>1, <2>2
<1>5. ASSUME NEW a \in Addrs, InjectGetRole(a) \/ InjectAddRole(a) PROVE Goal
  BY <1>5, <1>o, <1>t DEF InjectGetRole, InjectAddRole
<1>6. ASSUME NEW a \in Addrs, LoginGetPassword(a) \/ LoginGetRole(a) PROVE Goal
  BY <1>6, <1>o, <1>t DEF LoginGetPassword, LoginGetRole, Respond
<1>7. ASSUME NEW a \in Addrs, LoginSetRole(a) \/ EraseSetRole(a) PROVE Goal
  BY <1>7, <1>o, <1>t DEF LoginSetRole, EraseSetRole, Respond
<1>8. ASSUME NEW a \in Addrs, Client(a) PROVE Goal
  <2>1. PICK r, l : Receive(a, r, l)
    BY <1>8 DEF Client, ReceiveLogin, ReceiveRegister, ReceiveErase
  <2>2. QED BY <2>1, <1>o, <1>t DEF Receive
<1>9. CASE Crash
  BY <1>9 DEF Crash
<1>10. CASE UNCHANGED vars
  BY <1>10 DEF vars
<1>11. QED
  BY <1>1, <1>2, <1>3, <1>4, <1>5, <1>6, <1>7, <1>8, <1>9, <1>10, <1>t
     DEF Next, Register, Login, Serve, Quiet

\* main() comes to its registration only after it has found the seeded role.
LEMMA SeedChecked ==
    ASSUME TypeOK, [Next]_vars, pc[Main] \in BootLabels
    PROVE  pc'[Main] \in BootLabels \/ dbRoles'[SeedName] # Nil
<1> USE DEF redisVars, budgetVars, historyVars
<1>t. /\ pc \in [Procs -> Labels] /\ Procs = Addrs \cup {Main} /\ Main \notin Addrs
      /\ BootLabels = {"down", "boot_set_password", "boot_set_role", "boot_get_role"}
  BY Typing DEF BootLabels
<1>s. ASSUME ServerEnds PROVE pc'[Main] \in BootLabels
  BY <1>s, <1>t DEF ServerEnds
<1>o. ASSUME NEW q \in Addrs, NEW l, Goto(q, l) PROVE pc'[Main] \in BootLabels
  BY <1>o, <1>t DEF Goto
<1>1. CASE BootSetPassword \/ BootSetRole
  BY <1>1, <1>s, <1>t DEF BootSetPassword, BootSetRole, Goto
<1>2. CASE BootGetRole
  BY <1>2, <1>s, <1>t DEF BootGetRole, SeedRoleRead
<1>3. ~Register(Main)
  BY <1>t DEF Register, RegisterGetPassword, RegisterSetPassword, RegisterIncrGid,
              RegisterSetRole
<1>4. ASSUME NEW a \in Addrs, Serve(a) \/ Client(a) PROVE pc'[Main] \in BootLabels
  <2>1. CASE Register(a)
    BY <2>1, <1>o DEF Register, RegisterGetPassword, RegisterSetPassword,
                      RegisterIncrGid, RegisterSetRole, Respond
  <2>2. CASE Login(a) \/ EraseSetRole(a)
    BY <2>2, <1>o
       DEF Login, InjectGetRole, InjectAddRole, LoginGetPassword, LoginGetRole,
                      LoginSetRole, EraseSetRole, Respond
  <2>3. CASE Client(a)
    <3>1. PICK r, l : Receive(a, r, l)
      BY <2>3 DEF Client, ReceiveLogin, ReceiveRegister, ReceiveErase
    <3>2. QED BY <3>1, <1>o DEF Receive
  <2>4. QED BY <1>4, <2>1, <2>2, <2>3 DEF Serve
<1>5. CASE Start
  BY <1>5, <1>t DEF Start, FirstStep, Goto
<1>6. QED
  BY <1>1, <1>2, <1>3, <1>4, <1>5, <1>s DEF Next, Boot, Crash, Quiet, vars

\* No registration that was cut short is forgotten.
LEMMA CutKept == ASSUME [Next]_vars PROVE cut \subseteq cut'
<1> USE DEF redisVars, budgetVars, historyVars
<1>1. CASE Boot
  BY <1>1 DEF Boot, BootSetPassword, BootSetRole, BootGetRole
<1>2. ASSUME NEW p, Register(p) PROVE cut \subseteq cut'
  BY <1>2 DEF Register, RegisterGetPassword, RegisterSetPassword, RegisterIncrGid,
              RegisterSetRole
<1>3. ASSUME NEW a, Login(a) \/ EraseSetRole(a) PROVE cut \subseteq cut'
  BY <1>3 DEF Login, InjectGetRole, InjectAddRole, LoginGetPassword, LoginGetRole,
              LoginSetRole, EraseSetRole
<1>4. ASSUME NEW a \in Addrs, Client(a) PROVE UNCHANGED cut
  <2>1. \E r, l : Receive(a, r, l)
    BY <1>4 DEF Client, ReceiveLogin, ReceiveRegister, ReceiveErase
  <2>2. QED BY <2>1 DEF Receive
<1>5. QED
  BY <1>1, <1>2, <1>3, <1>4 DEF Next, Start, Serve, Crash, Quiet, vars

\* Every account without a role keeps its explanation.
LEMMA UnfinishedNext ==
    ASSUME IdInv, Unfinished, [Next]_vars PROVE Unfinished'
<1>t. TypeOK /\ SeedTaken
  BY DEF IdInv
<1> SUFFICES ASSUME NEW n \in Names, passwords'[n] # Nil, dbRoles'[n] = Nil
             PROVE  \/ n \in cut'
                    \/ \E p \in Procs : /\ req'[p].name = n
                                        /\ pc'[p] \in {"register_incr", "register_set_role"}
                    \/ n = SeedName /\ pc'[Main] \in BootLabels
  BY DEF Unfinished
<1>1. dbRoles[n] = Nil
  BY Lasting
<1>2. CASE passwords[n] # Nil
  <2>1. CASE n \in cut
    BY <2>1, CutKept
  <2>2. ASSUME NEW p \in Procs, req[p].name = n,
               pc[p] \in {"register_incr", "register_set_role"}
        PROVE  \/ n \in cut'
               \/ req'[p].name = n /\ pc'[p] \in {"register_incr", "register_set_role"}
    BY <2>2, <1>t, Ended
  <2>3. CASE n = SeedName /\ pc[Main] \in BootLabels
    BY <2>3, <1>t, SeedChecked
  <2>4. QED BY <1>1, <1>2, <2>1, <2>2, <2>3 DEF Unfinished
<1>3. CASE passwords[n] = Nil
  <2>1. ASSUME NEW p \in Procs, PasswordStored(p)
        PROVE  req'[p].name = n /\ pc'[p] = "register_incr"
    BY <2>1, <1>3, <1>t, Typing DEF PasswordStored, Goto
  <2>2. CASE SeedPasswordStored
    BY <2>2, <1>3, <1>t, Typing DEF SeedPasswordStored, Goto, BootLabels
  <2>3. QED
    BY <2>1, <2>2, <1>3, <1>t, AccountSteps
       DEF Aside, Checked, IdDrawn, RoleStored, RolePushed, FixedRoleStored,
           SeedRoleStored, EmptyRoleStored
<1>4. QED BY <1>2, <1>3

\* What is stored, cached or on a stack after a step as the role of an account
\* that was registered without a race: a copy of what was there, or all of it new.
LEMMA CopiesNext ==
    ASSUME IdInv, CreatorAlone, RoleCopiesAgree, [Next]_vars
    PROVE  /\ RoleCopiesAgree'
           /\ \A r \in LiveRoles, s \in LiveRoles' :
                r.username = s.username /\ r.username \notin raced' \cup {EmptyName}
                    => r.id = s.id
<1>1. raced \subseteq raced'
  BY Lasting
<1>2. PICK p \in Procs : \A r \in LiveRoles' :
        \/ \E s \in LiveRoles : r.id = s.id /\ r.username = s.username
        \/ r.username = EmptyName
        \/ r.username = SeedName /\ r.id = SeedId
        \/ pc[p] = "register_incr" /\ r.username = req[p].name /\ r.id = gid + 1
  BY LiveOrigin
<1>3. \A r \in LiveRoles : r.username = SeedName => r.id = SeedId
  BY DEF IdInv, IdsDrawn
<1>4. ASSUME pc[p] = "register_incr", req[p].name \notin raced \cup {EmptyName}
      PROVE  req[p].name # SeedName /\ \A r \in LiveRoles : r.username # req[p].name
  BY <1>4 DEF IdInv, SeedTaken, Creating, CreatingLabels, CreatorAlone, Alone
<1>5. \A r, s \in LiveRoles :
        r.username = s.username /\ r.username \notin raced \cup {EmptyName} => r.id = s.id
  BY DEF RoleCopiesAgree
<1>6. ASSUME NEW r \in LiveRoles, NEW s \in LiveRoles',
             r.username = s.username, r.username \notin raced' \cup {EmptyName}
      PROVE  r.id = s.id
  BY <1>1, <1>2, <1>3, <1>4, <1>5, <1>6
<1>7. ASSUME NEW r \in LiveRoles', NEW s \in LiveRoles',
             r.username = s.username, r.username \notin raced' \cup {EmptyName}
      PROVE  r.id = s.id
  BY <1>1, <1>2, <1>3, <1>4, <1>6, <1>7
<1>8. QED BY <1>6, <1>7 DEF RoleCopiesAgree

\* Roles are marked by logins with the right password only.
LEMMA ReturningNext ==
    ASSUME IdInv, LoggingIn, ReturningMeansVerified, [Next]_vars
    PROVE  ReturningMeansVerified'
<1>1. \A p \in Procs : pc[p] = "login_get_role" => req[p].name \in verified
  BY DEF IdInv, TypeOK, Procs, LoggingIn, BootLabels, CreatingLabels
<1>2. ASSUME NEW r \in LiveRoles', r.returning PROVE r.username \in verified'
  <2>1. \/ \E s \in LiveRoles : s.returning /\ r.username = s.username
        \/ \E p \in Procs : pc[p] = "login_get_role" /\ r.username = req[p].name
    BY <1>2, LiveOrigin
  <2>2. QED BY <2>1, <1>1, VerifiedKept DEF ReturningMeansVerified
<1>3. QED BY <1>2 DEF ReturningMeansVerified

\* A grant is new when it is made, and kept from then on.
LEMMA GrantsNext ==
    ASSUME RegInv, [Next]_vars PROVE RegistrationLasts' /\ RegisteredOnce'
<1> USE DEF RegInv
<1>t. TypeOK /\ SeedTaken
  BY DEF IdInv
<1>1. raced \subseteq raced' /\ \A g \in registered : g.name \in Names
  BY Lasting, <1>t DEF TypeOK, Grant
<1>2. RoleUnderOwnName /\ RoleUnderOwnName'
  BY RolesNamedNext DEF IdInv, RolesNamed
\* The grants that were there.
<1>3. ASSUME NEW g \in registered, g.name \notin raced'
      PROVE  /\ passwords'[g.name] = CStr[g.password]
             /\ g.name # EmptyName => dbRoles'[g.name] # Nil /\ dbRoles'[g.name].id = g.id
  <2>1. passwords[g.name] = CStr[g.password] /\ passwords[g.name] # Nil
    BY <1>1, <1>3 DEF RegistrationLasts, PasswordFirst
  <2>2. passwords'[g.name] = CStr[g.password]
    BY <2>1, <1>1, <1>3, PasswordKept
  <2>3. ASSUME g.name # EmptyName
        PROVE  dbRoles'[g.name] # Nil /\ dbRoles'[g.name].id = g.id
    <3>1. dbRoles[g.name] # Nil /\ dbRoles[g.name].id = g.id
      BY <2>3, <1>1, <1>3 DEF RegistrationLasts
    <3>2. dbRoles'[g.name] # Nil
      BY <3>1, <1>1, Lasting
    <3>3. /\ dbRoles[g.name] \in LiveRoles /\ dbRoles[g.name].username = g.name
          /\ dbRoles'[g.name] \in LiveRoles' /\ dbRoles'[g.name].username = g.name
      BY <3>1, <3>2, <1>1, <1>2 DEF LiveRoles, RoleUnderOwnName
    <3>4. QED BY <3>1, <3>2, <3>3, <2>3, <1>3, CopiesNext
  <2>4. QED BY <2>2, <2>3
\* The one that is made in this step, if any.
<1>4. CASE UNCHANGED registered
  BY <1>1, <1>3, <1>4 DEF RegistrationLasts, RegisteredOnce
<1>5. ASSUME NEW p \in Procs, RoleStored(p) PROVE RegistrationLasts' /\ RegisteredOnce'
  <2> DEFINE g == [name |-> req[p].name, password |-> req[p].password, id |-> held[p].id]
  <2>1. registered' = registered \cup {g} /\ raced' = raced /\ passwords' = passwords
        /\ g.name = req[p].name /\ g.password = req[p].password /\ g.id = held[p].id
    BY <1>5 DEF RoleStored
  <2>2. ASSUME g.name \notin raced
        PROVE  /\ passwords'[g.name] = CStr[g.password]
               /\ dbRoles'[g.name] # Nil /\ dbRoles'[g.name].id = g.id
               /\ \A h \in registered : h.name # g.name
    <3>1. Alone(p) /\ pc[p] = "register_set_role" /\ held[p] # Nil /\ g.name \in Names
      BY <1>5, <2>2, <1>t, Typing DEF RoleStored, Alone, CreatingLabels
    <3>2. /\ passwords[g.name] = CStr[g.password]
          /\ \A h \in registered : h.name # g.name
      BY <3>1 DEF CreatorAlone
    <3>3. dbRoles'[g.name] = held[p]
      BY <1>5, <3>1, <1>t, Typing DEF RoleStored
    <3>4. QED BY <2>1, <3>1, <3>2, <3>3
  <2> HIDE DEF g
  <2>3. QED BY <1>3, <2>1, <2>2 DEF RegistrationLasts, RegisteredOnce
<1>6. QED
  BY <1>4, <1>5, <1>t, AccountSteps
     DEF Aside, Checked, PasswordStored, IdDrawn, RolePushed, SeedPasswordStored,
         FixedRoleStored, SeedRoleStored, EmptyRoleStored

-----------------------------------------------------------------------------
\* Every step keeps the invariant.
LEMMA RegNext == ASSUME RegInv, [Next]_vars PROVE RegInv'
<1>1. IdInv'
  BY TypeNext, SeedTakenNext, RolesNamedNext, IdsNext DEF RegInv, IdInv
<1>2. InHand' /\ PasswordFirst' /\ CreatorAlone' /\ LoggingIn' /\ Unfinished'
  BY InHandNext, PasswordFirstNext, CreatorAloneNext, LoggingInNext, UnfinishedNext
     DEF RegInv, IdInv
<1>3. RoleCopiesAgree' /\ ReturningMeansVerified'
  BY CopiesNext, ReturningNext DEF RegInv
<1>4. QED BY <1>1, <1>2, <1>3, GrantsNext DEF RegInv

\* It holds when the server is first started, on an empty Redis.
LEMMA RegInit == ASSUME Init PROVE IdInv => RegInv
<1>1. LiveRoles = {} /\ registered = {} /\ raced = {}
  BY DEF Init, LiveRoles
<1>2. \A p \in Procs : pc[p] \in {"idle", "down"}
  BY DEF Init
<1>3. InHand
  BY <1>2 DEF Init, InHand, Procs, RegisterLabels, CreatingLabels, LoginLabels
<1>4. PasswordFirst
  BY <1>1, <1>2, NamesAssumption DEF Init, PasswordFirst
<1>5. CreatorAlone /\ LoggingIn
  BY <1>2 DEF CreatorAlone, Alone, LoggingIn, CreatingLabels, Procs
<1>6. Unfinished
  BY DEF Init, Unfinished
<1>7. QED
  BY <1>1, <1>3, <1>4, <1>5, <1>6
     DEF RegInv, RoleCopiesAgree, RegistrationLasts, RegisteredOnce,
         ReturningMeansVerified

\* So it always holds.
LEMMA RegInvariant == Spec => []RegInv
<1>1. Init /\ IdInv => RegInv
  BY RegInit
<1>2. RegInv /\ [Next]_vars => RegInv'
  BY RegNext
<1>3. QED BY <1>1, <1>2, IdInvariant, PTL DEF Spec

\* A REGISTER answered with SUCCEED lasts: no later request, error reply, crash
\* or start of the server takes the account's password (up to a NUL in it) or player_id away.
THEOREM RegistrationsLast == Spec => []RegistrationLasts
<1>1. RegInv => RegistrationLasts
  BY DEF RegInv
<1>2. QED BY <1>1, RegInvariant, PTL

\* A name is granted once, unless two registrations pass the existence check
\* before either has set the password; that is the only way to grant it twice.
THEOREM GrantedOnce == Spec => []RegisteredOnce
<1>1. RegInv => RegisteredOnce
  BY DEF RegInv
<1>2. QED BY <1>1, RegInvariant, PTL

\* Redis, roles_ and the stacks of all handlers agree on the player_id of every
\* account whose registration was not raced.
THEOREM CopiesAgree == Spec => []RoleCopiesAgree
<1>1. RegInv => RoleCopiesAgree
  BY DEF RegInv
<1>2. QED BY <1>1, RegInvariant, PTL

\* There are exactly three ways to have a password and no role: a registration
\* that is under way, one that was cut short, and the seeding at the start.
THEOREM HalfRegistrations == Spec => []HalfRegisteredExplained
<1>1. RegInv => HalfRegisteredExplained
  <2> SUFFICES ASSUME RegInv PROVE HalfRegisteredExplained
    OBVIOUS
  <2>1. \A p \in Procs : pc[p] \in {"register_incr", "register_set_role"}
                             => Creating(p, req[p].name)
    BY DEF Creating, CreatingLabels
  <2>2. pc[Main] \in BootLabels => ~Up
    BY DEF Up, BootLabels
  <2>3. QED BY <2>1, <2>2 DEF RegInv, Unfinished, HalfRegisteredExplained
<1>2. QED BY <1>1, RegInvariant, PTL

\* Nobody is marked as a returning visitor without a login that passed the
\* password check, whoever else pushes copies of the role.
THEOREM ReturningVerified == Spec => []ReturningMeansVerified
<1>1. RegInv => ReturningMeansVerified
  BY DEF RegInv
<1>2. QED BY <1>1, RegInvariant, PTL

\* Once stored, the mark of a returning visitor is never lost to a slower login
\* that pushes an older copy: what a login pushes is marked itself, and nobody
\* else writes the role of an account that was registered without a race.
THEOREM ReturningStays == Spec => ReturningSticks
<1>1. ASSUME RegInv, [Next]_vars, NEW n \in Names \ {SeedName, EmptyName},
             dbRoles[n] # Nil, dbRoles[n].returning, n \notin raced'
      PROVE  dbRoles'[n] # Nil /\ dbRoles'[n].returning
  <2>t. IdInv /\ TypeOK /\ SeedTaken
    BY <1>1 DEF RegInv, IdInv
  <2>1. dbRoles'[n] # Nil /\ n \notin raced
    BY <1>1, <2>t, Lasting
  <2>2. ASSUME NEW p \in Procs, RoleStored(p) PROVE dbRoles'[n] = dbRoles[n]
    <3>1. req[p].name # n
      BY <1>1, <2>1, <2>2 DEF RegInv, RoleStored, CreatorAlone, Alone, CreatingLabels
    <3>2. QED BY <2>2, <3>1, <2>t, Typing DEF RoleStored
  <2>3. ASSUME NEW a \in Addrs, RolePushed(a) PROVE dbRoles'[n].returning
    <3>1. held[a].returning
      BY <1>1, <2>3 DEF RegInv, LoggingIn, RolePushed
    <3>2. QED BY <1>1, <2>3, <3>1, <2>t, Typing DEF RolePushed
  <2>4. CASE FixedRoleStored
    BY <1>1, <2>4, <2>t, Typing DEF FixedRoleStored, SeedRoleStored, EmptyRoleStored
  <2>5. QED
    BY <1>1, <2>1, <2>2, <2>3, <2>4, <2>t, AccountSteps
       DEF Aside, Checked, PasswordStored, IdDrawn, SeedPasswordStored
<1>2. RegInv /\ [Next]_vars =>
        [\A n \in Names \ {SeedName, EmptyName} :
           dbRoles[n] # Nil /\ dbRoles[n].returning /\ n \notin raced'
              => dbRoles'[n] # Nil /\ dbRoles'[n].returning]_vars
  BY <1>1
<1>3. QED BY <1>2, RegInvariant, PTL DEF Spec, ReturningSticks

=============================================================================
