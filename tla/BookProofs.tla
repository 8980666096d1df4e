----------------------------- MODULE BookProofs -----------------------------
(***************************************************************************)
(* Accounts implements AccountBook: the single Redis commands of all       *)
(* registrations, logins, erasures and starts map to steps of the book or  *)
(* leave it as it is.                                                      *)
(***************************************************************************)
EXTENDS RegistrationProofs

\* An entry of the book changes only when its account is opened: with the last
\* command of a registration, or when main() seeds it.
LEMMA Opened ==
    ASSUME RegInv, [Next]_vars, NEW n \in Names \ {EmptyName}
    PROVE  \/ BookEntry(n)' = BookEntry(n)
           \/ /\ BookEntry(n) = Nil /\ n \notin raced' /\ dbRoles[n] = Nil
              /\ \/ SeedRoleStored /\ n = SeedName
                 \/ \E p \in Procs : RoleStored(p) /\ req[p].name = n
<1>t. IdInv /\ TypeOK /\ SeedTaken /\ PasswordFirst /\ CreatorAlone /\ LoggingIn
      /\ RoleUnderOwnName /\ RoleUnderOwnName'
  BY RolesNamedNext DEF RegInv, IdInv, RolesNamed
<1>1. CASE n \in raced
  BY <1>1, <1>t, Lasting DEF BookEntry
<1>2. CASE n \in raced' \ raced
  <2>1. passwords[n] = Nil
    BY <1>2, <1>t, AccountSteps
       DEF Aside, Checked, PasswordStored, IdDrawn, RoleStored, RolePushed,
           SeedPasswordStored, FixedRoleStored, SeedRoleStored, EmptyRoleStored
  <2>2. QED BY <1>2, <2>1 DEF BookEntry
<1>3. CASE n \notin raced' /\ dbRoles[n] # Nil
  <2>1. /\ dbRoles[n] \in LiveRoles /\ dbRoles[n].username = n
        /\ dbRoles'[n] # Nil /\ dbRoles'[n] \in LiveRoles' /\ dbRoles'[n].username = n
    BY <1>3, <1>t, Lasting DEF LiveRoles, RoleUnderOwnName
  <2>2. dbRoles'[n].id = dbRoles[n].id
    BY <1>3, <2>1, <1>t, CopiesNext DEF RegInv
  <2>3. passwords[n] # Nil /\ n \notin raced
    BY <1>3, <2>1, <1>t, Lasting DEF PasswordFirst
  <2>4. passwords'[n] = passwords[n]
    BY <2>3, <1>t, PasswordKept
  <2>5. QED BY <1>3, <2>1, <2>2, <2>3, <2>4 DEF BookEntry
<1>4. CASE n \notin raced' /\ dbRoles[n] = Nil /\ dbRoles'[n] = Nil
  BY <1>4 DEF BookEntry
<1>5. CASE n \notin raced' /\ dbRoles[n] = Nil /\ dbRoles'[n] # Nil
  <2>1. ASSUME NEW p \in Procs, RoleStored(p) PROVE req[p].name = n
    BY <2>1, <1>5, <1>t, Typing DEF RoleStored
  <2>2. ASSUME NEW a \in Addrs, RolePushed(a) PROVE FALSE
    <3>1. held[a].username = req[a].name /\ dbRoles[req[a].name] # Nil
      BY <2>2, <1>t, Typing DEF RolePushed, LoggingIn, IdInv, RolesNamed
    <3>2. QED BY <2>2, <3>1, <1>5, <1>t, Typing DEF RolePushed
  <2>3. SeedRoleStored => n = SeedName
    BY <1>5, <1>t, Typing DEF SeedRoleStored
  <2>4. ASSUME NEW a \in Addrs, EmptyRoleStored(a) PROVE FALSE
    BY <2>4, <1>5, <1>t, Typing DEF EmptyRoleStored
  <2>5. dbRoles' # dbRoles
    BY <1>5
  <2>6. SeedRoleStored \/ \E p \in Procs : RoleStored(p)
    BY <2>2, <2>4, <2>5, <1>t, AccountSteps
       DEF Aside, Checked, PasswordStored, IdDrawn, SeedPasswordStored, FixedRoleStored
  <2>7. QED BY <1>5, <2>1, <2>3, <2>6 DEF BookEntry
<1>6. QED BY <1>1, <1>2, <1>3, <1>4, <1>5

Granted == {g.name : g \in registered} \ (raced \cup {EmptyName})

\* A name is granted with the last command of its registration, and only then.
LEMMA GrantedStep ==
    ASSUME RegInv, [Next]_vars
    PROVE  /\ (\A p \in Procs : ~RoleStored(p)) => Granted' = Granted
           /\ \A p \in Procs : RoleStored(p) =>
                Granted' = Granted \cup ({req[p].name} \ (raced \cup {EmptyName}))
<1>t. IdInv /\ TypeOK /\ SeedTaken /\ PasswordFirst
  BY DEF RegInv, IdInv
<1>1. ASSUME NEW p \in Procs, RoleStored(p)
      PROVE  Granted' = Granted \cup ({req[p].name} \ (raced \cup {EmptyName}))
  <2> DEFINE g == [name |-> req[p].name, password |-> req[p].password, id |-> held[p].id]
  <2>1. registered' = registered \cup {g} /\ g.name = req[p].name
    BY <1>1 DEF RoleStored
  <2>2. UNCHANGED raced
    BY <1>1 DEF RoleStored
  <2> HIDE DEF g
  <2>3. QED BY <2>1, <2>2 DEF Granted
<1>2. ASSUME NEW p \in Procs, Checked(p) PROVE Granted' = Granted
  <2>1. \A g \in registered : g.name # req[p].name
    BY <1>2, <1>t DEF Checked, PasswordFirst
  <2>2. QED BY <1>2, <2>1 DEF Checked, Granted
<1>3. ASSUME UNCHANGED <<registered, raced>> PROVE Granted' = Granted
  BY <1>3 DEF Granted
<1>4. QED
  BY <1>1, <1>2, <1>3, <1>t, AccountSteps
     DEF Aside, PasswordStored, IdDrawn, RolePushed, SeedPasswordStored,
         FixedRoleStored, SeedRoleStored, EmptyRoleStored

\* The response that tells a client that it is logged in.
Admits(a) ==
    /\ pc[a] \in {"login_get_role", "login_set_role"} /\ Goto(a, "idle")
    /\ dbRoles[req[a].name] # Nil
    /\ UNCHANGED <<req, raced>>
    /\ \E b \in BOOLEAN :
         rsp' = [rsp EXCEPT ![a] = [op |-> req[a].op, name |-> req[a].name,
                                    error |-> "SUCCEED", returning |-> b]]

\* Except for those responses, a client is logged in after a step as it was
\* before, or not at all.
LEMMA AdmittedStep ==
    ASSUME TypeOK, SeedTaken, InHand, LoggingIn, [Next]_vars,
           \A a \in Addrs : ~Admits(a), NEW c \in Addrs
    PROVE  Admitted(c)' \in {Admitted(c), Nil}
<1> USE DEF redisVars, budgetVars, historyVars
<1>t. /\ pc \in [Procs -> Labels] /\ req \in [Procs -> Requests]
      /\ rsp \in [Procs -> Responses \cup {Nil}]
      /\ Procs = Addrs \cup {Main} /\ Main \notin Addrs
  BY Typing
<1>s. ASSUME ServerEnds PROVE Admitted(c)' = Nil
  BY <1>s, <1>t DEF ServerEnds, Admitted
\* Nothing is said to c, or it is not told to be logged in.
<1>k. ASSUME rsp'[c] = rsp[c], req'[c] = req[c], raced \subseteq raced'
      PROVE  Admitted(c)' \in {Admitted(c), Nil}
  BY <1>k DEF Admitted
<1>i. ASSUME NEW p \in Procs, NEW e, NEW b, Respond(p, e, b), UNCHANGED req,
             raced \subseteq raced', e # "SUCCEED" \/ req[p].op # "LOGIN"
      PROVE  Admitted(c)' \in {Admitted(c), Nil}
  <2>1. CASE p = c
    BY <1>i, <2>1, <1>t DEF Respond, Admitted
  <2>2. CASE p # c
    BY <1>i, <2>2, <1>t, <1>k DEF Respond
  <2>3. QED BY <2>1, <2>2
<1>1. CASE Boot
  BY <1>1, <1>s, <1>k DEF Boot, BootSetPassword, BootSetRole, BootGetRole
<1>2. ASSUME NEW p \in Procs, RegisterGetPassword(p)
      PROVE  Admitted(c)' \in {Admitted(c), Nil}
  BY <1>2, <1>i, <1>k DEF RegisterGetPassword
<1>3. ASSUME NEW p \in Procs, RegisterSetPassword(p) \/ RegisterIncrGid(p)
      PROVE  Admitted(c)' \in {Admitted(c), Nil}
  BY <1>3, <1>i, <1>k DEF RegisterSetPassword, RegisterIncrGid
<1>4. ASSUME NEW p \in Procs, RegisterSetRole(p)
      PROVE  Admitted(c)' \in {Admitted(c), Nil}
  <2>1. req[p].op = "REGISTER"
    BY <1>4 DEF RegisterSetRole, InHand, RegisterLabels, CreatingLabels
  <2>2. QED BY <1>4, <2>1, <1>i DEF RegisterSetRole
<1>5. ASSUME NEW a \in Addrs, InjectGetRole(a) \/ InjectAddRole(a)
      PROVE  Admitted(c)' \in {Admitted(c), Nil}
  BY <1>5, <1>k DEF InjectGetRole, InjectAddRole
<1>6. ASSUME NEW a \in Addrs, LoginGetPassword(a)
      PROVE  Admitted(c)' \in {Admitted(c), Nil}
  BY <1>6, <1>i, <1>k, <1>t DEF LoginGetPassword
<1>7. ASSUME NEW a \in Addrs, LoginGetRole(a)
      PROVE  Admitted(c)' \in {Admitted(c), Nil}
  <2>1. CASE Respond(a, "SUCCEED", TRUE) /\ dbRoles[req[a].name] # Nil
    <3>1. Admits(a)
      BY <1>7, <2>1 DEF LoginGetRole, Admits, Respond
    <3>2. QED BY <3>1
  <2>2. QED BY <1>7, <2>1, <1>i, <1>k, <1>t DEF LoginGetRole
<1>8. ASSUME NEW a \in Addrs, LoginSetRole(a) PROVE FALSE
  BY <1>8 DEF LoginSetRole, Admits, Respond, LoggingIn
<1>9. ASSUME NEW a \in Addrs, EraseSetRole(a)
      PROVE  Admitted(c)' \in {Admitted(c), Nil}
  <2>1. req[a].op = "ERASE_ROLE"
    BY <1>9, <1>t DEF EraseSetRole, InHand
  <2>2. QED BY <1>9, <2>1, <1>i, <1>t DEF EraseSetRole
<1>10. ASSUME NEW a \in Addrs, Client(a)
       PROVE  Admitted(c)' \in {Admitted(c), Nil}
  <2>1. PICK r, l : Receive(a, r, l)
    BY <1>10 DEF Client, ReceiveLogin, ReceiveRegister, ReceiveErase
  <2>2. CASE a = c
    BY <2>1, <2>2, <1>t DEF Receive, Admitted
  <2>3. CASE a # c
    BY <2>1, <2>3, <1>t, <1>k DEF Receive
  <2>4. QED BY <2>2, <2>3
<1>11. CASE Crash
  BY <1>11, <1>s DEF Crash
<1>12. CASE Start \/ UNCHANGED vars
  BY <1>12, <1>k DEF Start, vars
<1>13. QED
  BY <1>1, <1>2, <1>3, <1>4, <1>5, <1>6, <1>7, <1>8, <1>9, <1>10, <1>11, <1>12, <1>t
     DEF Next, Register, Login, Serve, Quiet

-----------------------------------------------------------------------------
\* The last command of a registration opens the account, and tells the client.
LEMMA RegistrationOpens ==
    ASSUME RegInv, [Next]_vars, NEW p \in Procs, RoleStored(p)
    PROVE  [Book!Next]_(Book!vars)
<1>n. PICK n \in Names : n = req[p].name
  BY Typing DEF RegInv, IdInv
<1>t. /\ IdInv /\ TypeOK /\ SeedTaken /\ PasswordFirst /\ CreatorAlone /\ InHand
      /\ n = req[p].name /\ raced' = raced /\ passwords' = passwords
      /\ pc[p] = "register_set_role" /\ held[p] \in Role /\ held[p] # Nil
      /\ dbRoles' = [dbRoles EXCEPT ![n] = held[p]]
  BY <1>n, Typing DEF RegInv, IdInv, RoleStored
<1>1. \A a \in Addrs : Admitted(a)' = Admitted(a)
  <2>1. req[p].op = "REGISTER" /\ (p \in Addrs => rsp[p] = Nil)
    BY <1>t DEF InHand, RegisterLabels, CreatingLabels
  <2>2. QED BY <2>1, <1>t, Typing DEF RoleStored, Admitted
<1>2. \A m \in Names \ {EmptyName, n} : BookEntry(m)' = BookEntry(m)
  BY <1>t, Typing DEF BookEntry
<1>3. CASE n \in raced \cup {EmptyName}
  <2>1. \A m \in Names \ {EmptyName} : BookEntry(m)' = BookEntry(m)
    BY <1>2, <1>3, <1>t DEF BookEntry
  <2>2. Granted' = Granted
    BY <1>3, <1>t, GrantedStep
  <2>3. QED BY <1>1, <2>1, <2>2 DEF Book!vars, Granted
<1>4. CASE n \notin raced \cup {EmptyName}
  <2>1. passwords[n] = CStr[req[p].password] /\ dbRoles[n] = Nil
    BY <1>4, <1>t DEF CreatorAlone, Alone, CreatingLabels
  <2>2. BookEntry(n) = Nil
    BY <2>1 DEF BookEntry
  <2>3. BookEntry(n)' = [password |-> CStr[req[p].password], id |-> held[p].id]
    <3>1. dbRoles'[n] = held[p] /\ passwords'[n] = CStr[req[p].password]
      BY <1>t, <2>1, Typing
    <3>2. passwords'[n] # Nil /\ dbRoles'[n] # Nil /\ n \notin raced'
      BY <1>4, <1>t, <3>1, Typing
    <3>3. QED BY <3>1, <3>2 DEF BookEntry
  <2>4. BookEntry(n)' \in [password : Passwords, id : Nat]
    BY <2>3, <1>t, Typing, RoleTypes
  <2>5. ASSUME NEW m \in Names \ {EmptyName, SeedName}, BookEntry(m) # Nil
        PROVE  BookEntry(m).id # held[p].id
    <3>1. dbRoles[m] # Nil /\ BookEntry(m).id = dbRoles[m].id /\ m # n
      BY <2>2, <2>5 DEF BookEntry
    <3>2. /\ dbRoles[m] \in LiveRoles /\ held[p] \in LiveRoles
          /\ dbRoles[m].username = m /\ held[p].username = n
      BY <3>1, <1>t DEF LiveRoles, IdInv, RolesNamed, RoleUnderOwnName
    <3>3. n # SeedName
      BY <1>t DEF SeedTaken, Creating, CreatingLabels
    <3>4. QED BY <3>1, <3>2, <3>3, <1>t DEF IdInv, PlayerIdsDistinct
  <2>6. Granted' = Granted \cup {n}
    BY <1>4, <1>t, GrantedStep
  <2>7. Book!Open(n, {n})
    <3>1. [m \in Names \ {EmptyName} |-> BookEntry(m)'] =
              [[m \in Names \ {EmptyName} |-> BookEntry(m)] EXCEPT ![n] = BookEntry(n)']
      BY <1>2, <1>4, <1>t
    <3>2. BookEntry(n)'.id = held[p].id
      BY <2>3
    <3>3. QED
      BY <1>1, <1>4, <1>t, <2>2, <2>4, <2>5, <2>6, <3>1, <3>2
         DEF Book!Open, Book!Fresh, Book!Account, Granted
  <2>8. QED BY <1>4, <1>t, <2>7 DEF Book!Next
<1>5. QED BY <1>3, <1>4

\* The seeding at the start opens the seeded account, or finds it open.
LEMMA SeedingOpens ==
    ASSUME RegInv, [Next]_vars, SeedRoleStored
    PROVE  [Book!Next]_(Book!vars)
<1>t. TypeOK /\ SeedTaken /\ IdInv
  BY DEF RegInv, IdInv
<1>1. \A a \in Addrs : Admitted(a)' = Admitted(a)
  BY DEF SeedRoleStored, Admitted
<1>2. \A m \in Names \ {EmptyName, SeedName} : BookEntry(m)' = BookEntry(m)
  BY <1>t, Typing DEF SeedRoleStored, BookEntry
<1>3. Granted' = Granted
  BY DEF SeedRoleStored, Granted
<1>4. CASE BookEntry(SeedName)' = BookEntry(SeedName)
  <2>1. \A m \in Names \ {EmptyName} : BookEntry(m)' = BookEntry(m)
    BY <1>2, <1>4
  <2>2. QED BY <1>1, <1>3, <2>1 DEF Book!vars, Granted
<1>5. CASE BookEntry(SeedName)' # BookEntry(SeedName)
  <2>1. BookEntry(SeedName) = Nil /\ SeedName \in Names \ {EmptyName} /\ SeedName \notin raced'
    BY <1>5, <1>t, Opened, Typing
  <2>2. passwords'[SeedName] = passwords[SeedName] /\ passwords[SeedName] \in Passwords
    BY <1>t, Typing DEF SeedRoleStored, SeedTaken
  <2>3. dbRoles'[SeedName] = SeedRole /\ SeedRole.id \in Nat /\ SeedRole # Nil
    BY <1>t, Typing, RoleTypes DEF SeedRoleStored
  <2>4. BookEntry(SeedName)' \in [password : Passwords, id : Nat]
    BY <2>1, <2>2, <2>3, <1>t, Typing DEF BookEntry
  <2>5. Book!Open(SeedName, {})
    BY <1>1, <1>2, <1>3, <2>1, <2>4 DEF Book!Open, Book!Account, Granted
  <2>6. QED BY <2>1, <2>5 DEF Book!Next
<1>6. QED BY <1>4, <1>5

\* The response to a successful login admits the client.
LEMMA LoginAdmits ==
    ASSUME RegInv, [Next]_vars, NEW a \in Addrs, Admits(a)
    PROVE  [Book!Next]_(Book!vars)
<1> DEFINE n == req[a].name
<1>t. TypeOK /\ SeedTaken /\ InHand /\ LoggingIn /\ n \in Names /\ a \in Procs
  BY Typing DEF RegInv, IdInv
<1>1. ~SeedRoleStored /\ \A p \in Procs : ~RoleStored(p)
  BY <1>t, Typing DEF Admits, SeedRoleStored, RoleStored, Goto
<1>2. \A m \in Names \ {EmptyName} : BookEntry(m)' = BookEntry(m)
  BY <1>1, Opened
<1>3. Granted' = Granted
  BY <1>1, GrantedStep
<1>4. \A c \in Addrs \ {a} : Admitted(c)' = Admitted(c)
  BY <1>t, Typing DEF Admits, Admitted
<1>5. req[a].op = "LOGIN" /\ rsp[a] = Nil
  BY <1>t DEF Admits, InHand, LoginLabels
<1>6. PICK b \in BOOLEAN :
        rsp'[a] = [op |-> "LOGIN", name |-> n, error |-> "SUCCEED", returning |-> b]
  BY <1>5, <1>t, Typing DEF Admits
<1>7. rsp'[a] # Nil
  <2>1. rsp'[a] \in Responses
    BY <1>6, <1>t DEF Responses, Ops, ErrorCodes
  <2>2. QED BY <2>1, NilAssumption
<1>8. CASE n \in raced \cup {EmptyName}
  <2>1. Admitted(a)' = Admitted(a)
    BY <1>5, <1>6, <1>8 DEF Admits, Admitted
  <2>2. QED BY <1>2, <1>3, <1>4, <2>1 DEF Book!vars, Granted
<1>9. CASE n \notin raced \cup {EmptyName}
  <2>1. passwords[n] = req[a].password /\ req[a].password \in Passwords
        /\ passwords[n] # Nil
    BY <1>9, <1>t, Typing DEF Admits, LoggingIn
  <2>2. BookEntry(n) # Nil /\ BookEntry(n).password = req[a].password
    <3>1. dbRoles[n] # Nil /\ dbRoles[n].id \in Nat
      BY <1>t, Typing, RoleTypes DEF Admits
    <3>2. [password |-> passwords[n], id |-> dbRoles[n].id] # Nil
      BY <2>1, <3>1, NilAssumption
    <3>3. QED BY <2>1, <3>1, <3>2, <1>9 DEF BookEntry
  <2>3. Admitted(a)' = [name |-> n, password |-> req[a].password]
    BY <1>6, <1>7, <1>9 DEF Admitted, Admits
  <2>4. Book!Admit(a, n)
    <3>1. [c \in Addrs |-> Admitted(c)'] =
              [[c \in Addrs |-> Admitted(c)] EXCEPT ![a] = Admitted(a)']
      BY <1>4
    <3>2. Admitted(a)' \in [name : {n}, password : Passwords]
          /\ Admitted(a)'.password = req[a].password
      BY <2>1, <2>3
    <3>3. QED
      BY <1>2, <1>3, <1>9, <1>t, <2>2, <3>1, <3>2 DEF Book!Admit, Granted
  <2>5. QED BY <1>9, <1>t, <2>4 DEF Book!Next
<1>10. QED BY <1>8, <1>9

\* Every step of the server is a step of the book, or none.
LEMMA BookNext ==
    ASSUME RegInv, [Next]_vars PROVE [Book!Next]_(Book!vars)
<1>t. TypeOK /\ SeedTaken /\ InHand /\ LoggingIn
  BY DEF RegInv, IdInv
<1>1. CASE \E p \in Procs : RoleStored(p)
  BY <1>1, RegistrationOpens
<1>2. CASE SeedRoleStored
  BY <1>2, SeedingOpens
<1>3. CASE \E a \in Addrs : Admits(a)
  BY <1>3, LoginAdmits
<1>4. CASE ~SeedRoleStored /\ (\A p \in Procs : ~RoleStored(p)) /\ \A a \in Addrs : ~Admits(a)
  <2>1. \A m \in Names \ {EmptyName} : BookEntry(m)' = BookEntry(m)
    BY <1>4, Opened
  <2>2. Granted' = Granted
    BY <1>4, GrantedStep
  <2>3. \A a \in Addrs : Admitted(a)' \in {Admitted(a), Nil}
    BY <1>4, <1>t, AdmittedStep
  <2>4. Book!Leave
    BY <2>1, <2>2, <2>3 DEF Book!Leave, Granted
  <2>5. QED BY <2>4 DEF Book!Next
<1>5. QED BY <1>1, <1>2, <1>3, <1>4

\* The book is empty at the start.
LEMMA BookInit == Init => Book!Init
BY DEF Init, Book!Init, BookEntry, Admitted, Procs

\* The Redis commands of registrations, logins, erasures and starts, interleaved
\* in any way and cut short anywhere, implement the account book: an account is
\* opened as a whole or not at all, its password and player_id last, and a login
\* succeeds only with the password of an account that is open.
THEOREM BookImplemented == Spec => ImplementsBook
<1>1. RegInv /\ [Next]_vars => [Book!Next]_(Book!vars)
  BY BookNext
<1>2. QED
  BY <1>1, BookInit, RegInvariant, PTL DEF Spec, ImplementsBook, Book!Spec

=============================================================================
