----------------------------- MODULE TasksProofs -----------------------------
(***************************************************************************)
(* Theorems about Tasks, for every number of players, connections and      *)
(* requests.                                                               *)
(***************************************************************************)
EXTENDS Tasks, TLAPS

\* The values that the actions build have their types.
LEMMA ValueTypes ==
    /\ EmptyInfo \in Info
    /\ \A i \in Info : i # Nil /\ i.tasks \in SUBSET TaskIds /\ i.x \in Int
    /\ \A r \in Requests : /\ r.role \in Players /\ r.tasks \in SUBSET TaskIds
                           /\ r.x \in Coordinates \cup {0} /\ r.x \in Int
    /\ \A r \in Requests, g \in Players : [r EXCEPT !.role = g] \in Requests
    /\ \A i \in Info : QueryAnswer(i) \in Responses
    /\ \A i \in Info, r \in Requests : Updated(i, r) \in Info
    /\ 0 \in Players /\ Nil \notin Players
<1>1. EmptyInfo \in Info
  BY DEF EmptyInfo, Info
<1>2. \A i \in Info : i # Nil /\ i.tasks \in SUBSET TaskIds /\ i.x \in Int
  BY NilAssumption DEF Info
<1>3. \A r \in Requests : /\ r.role \in Players /\ r.tasks \in SUBSET TaskIds
                          /\ r.x \in Coordinates \cup {0} /\ r.x \in Int
  <2>1. \A r \in Requests : r.role \in Players /\ r.tasks \in SUBSET TaskIds
                            /\ r.x \in Coordinates \cup {0}
    BY DEF Requests
  <2>2. \A x \in Coordinates \cup {0} : x \in Int
    BY PositionsAssumption
  <2>3. QED BY <2>1, <2>2
<1>r. \A r \in Requests, g \in Players : [r EXCEPT !.role = g] \in Requests
  BY DEF Requests
<1>4. \A i \in Info : QueryAnswer(i) \in Responses
  BY <1>2 DEF QueryAnswer, Finished, Responses
<1>5. \A x \in Int : Truncated(x) \in Int
  BY DEF Truncated
<1>6. \A i \in Info, r \in Requests : Updated(i, r) \in Info
  BY <1>2, <1>3, <1>5 DEF Updated, Info
<1>7. 0 \in Players /\ Nil \notin Players
  <2>1. Nat \subseteq Int /\ 0 \in Int
    OBVIOUS
  <2>2. \A g \in Players : g \in Int
    BY <2>1, GidsAssumption DEF Players
  <2>3. QED BY <2>2, NilAssumption DEF Players
<1>8. QED BY <1>1, <1>2, <1>3, <1>r, <1>4, <1>6, <1>7

-----------------------------------------------------------------------------
\* The role that a request is served with is a player's, or nobody's.
LEMMA OwnerTypes ==
    ASSUME TypeOK, NEW a \in Addrs
    PROVE  Owner(a) \in Players /\ Injected(a) \subseteq Players /\ Gid(a) \in Players
BY ValueTypes DEF TypeOK, Owner, Injected, Gid

\* A request comes in.
LEMMA ReceiveTyped ==
    ASSUME TypeOK, NEW a \in Addrs, NEW r \in Requests,
           NEW l \in {"idle", "query_get", "update_get"}, Receive(a, r, l),
           roles_' \in [Addrs -> Players \cup {Nil}],
           reported' \in [Players -> [tasks : SUBSET TaskIds, xs : SUBSET Coordinates]]
    PROVE  TypeOK'
<1>1. missed' \subseteq Players
  BY OwnerTypes DEF Receive, TypeOK
<1>2. /\ pc' \in [Addrs -> {"idle", "inject_add_role", "query_get",
                            "update_get", "update_set"}]
      /\ \A b \in Addrs : info'[b] # Nil <=> pc'[b] = "update_set"
  BY DEF Receive, Goto, TypeOK
<1>3. req' \in [Addrs -> Requests] /\ rsp' \in [Addrs -> Responses \cup {Nil}]
  BY DEF Receive, TypeOK
<1>4. requests' \in Nat
  BY DEF Receive, TypeOK
<1>5. QED BY <1>1, <1>2, <1>3, <1>4 DEF Receive, TypeOK

\* A request is answered.
LEMMA RespondTyped ==
    ASSUME TypeOK, NEW a \in Addrs, NEW r \in Responses, Respond(a, r)
    PROVE  /\ pc' \in [Addrs -> {"idle", "inject_add_role", "query_get",
                                 "update_get", "update_set"}]
           /\ info' \in [Addrs -> Info \cup {Nil}]
           /\ \A b \in Addrs : info'[b] # Nil <=> pc'[b] = "update_set"
           /\ rsp' \in [Addrs -> Responses \cup {Nil}]
BY DEF TypeOK, Respond, Goto

\* Every step keeps the types.
LEMMA TypeNext == TypeOK /\ [Next]_vars => TypeOK'
<1> SUFFICES ASSUME TypeOK, [Next]_vars PROVE TypeOK'
  OBVIOUS
<1> USE DEF budgetVars, historyVars
<1>1. ASSUME NEW a \in Addrs, ReceiveLogin(a) PROVE TypeOK'
  <2>1. PICK g \in Players : req' = [req EXCEPT ![a].role = g]
    BY <1>1 DEF ReceiveLogin
  <2>2. [req[a] EXCEPT !.role = g] \in Requests
    BY ValueTypes DEF TypeOK
  <2>3. req' \in [Addrs -> Requests]
    BY <2>1, <2>2 DEF TypeOK
  <2>4. QED BY <1>1, <2>3 DEF ReceiveLogin, Goto, TypeOK
<1>2. ASSUME NEW a \in Addrs, InjectAddRole(a) PROVE TypeOK'
  BY <1>2, ValueTypes DEF InjectAddRole, Goto, TypeOK
<1>3. ASSUME NEW a \in Addrs, ReceiveErase(a) PROVE TypeOK'
  <2>1. PICK g \in Injected(a) :
          /\ Receive(a, [req[a] EXCEPT !.role = g], "idle")
          /\ roles_' = [roles_ EXCEPT ![a] = IF @ = Nil \/ g # @ THEN @ ELSE 0]
    BY <1>3 DEF ReceiveErase
  <2>2. [req[a] EXCEPT !.role = g] \in Requests
    BY OwnerTypes, ValueTypes DEF TypeOK
  <2>3. roles_' \in [Addrs -> Players \cup {Nil}]
    BY <2>1, ValueTypes DEF TypeOK
  <2>4. UNCHANGED reported
    BY <1>3 DEF ReceiveErase
  <2>5. QED BY <2>1, <2>2, <2>3, <2>4, ReceiveTyped DEF TypeOK
<1>4. ASSUME NEW a \in Addrs, ReceiveQuery(a) PROVE TypeOK'
  <2>1. PICK g \in Injected(a) : Receive(a, [req[a] EXCEPT !.role = g], "query_get")
    BY <1>4 DEF ReceiveQuery
  <2>2. [req[a] EXCEPT !.role = g] \in Requests
    BY OwnerTypes, ValueTypes DEF TypeOK
  <2>3. UNCHANGED <<roles_, reported>>
    BY <1>4 DEF ReceiveQuery
  <2>4. QED BY <2>1, <2>2, <2>3, ReceiveTyped DEF TypeOK
<1>5. ASSUME NEW a \in Addrs, QueryGet(a) PROVE TypeOK'
  <2>1. PICK r \in Responses : Respond(a, r)
    <3>1. [op |-> "QUERY_TASK", error |-> "UNKOWN_EORROR", done |-> {}, x |-> 0]
              \in Responses
      BY DEF Responses
    <3>2. taskinfo[Gid(a)] # Nil => taskinfo[Gid(a)] \in Info
      BY OwnerTypes DEF TypeOK
    <3>3. QED BY <1>5, <3>1, <3>2, ValueTypes DEF QueryGet
  <2>2. QED BY <1>5, <2>1, RespondTyped DEF QueryGet, TypeOK, Answered, ErrorReply
<1>6. ASSUME NEW a \in Addrs, ReceiveUpdate(a) PROVE TypeOK'
  <2>1. PICK g \in Injected(a), ts \in SUBSET TaskIds, x \in Coordinates :
          /\ Receive(a, [role |-> g, tasks |-> ts, x |-> x], "update_get")
          /\ reported' = [reported EXCEPT ![g] =
                            [tasks |-> @.tasks \cup ts, xs |-> @.xs \cup {x}]]
    BY <1>6 DEF ReceiveUpdate
  <2>2. g \in Players /\ [role |-> g, tasks |-> ts, x |-> x] \in Requests
    BY OwnerTypes DEF Requests
  <2>3. reported' \in [Players -> [tasks : SUBSET TaskIds, xs : SUBSET Coordinates]]
    BY <2>1, <2>2 DEF TypeOK
  <2>4. UNCHANGED roles_
    BY <1>6 DEF ReceiveUpdate
  <2>5. QED BY <2>1, <2>2, <2>3, <2>4, ReceiveTyped DEF TypeOK
<1>7. ASSUME NEW a \in Addrs, UpdateGet(a) PROVE TypeOK'
  <2>1. PICK i \in Info : info' = [info EXCEPT ![a] = i]
    <3>1. taskinfo[Gid(a)] # Nil => taskinfo[Gid(a)] \in Info
      BY OwnerTypes DEF TypeOK
    <3>2. QED BY <1>7, <3>1, ValueTypes DEF UpdateGet, TypeOK
  <2>2. torn' \subseteq Players
    BY <1>7, OwnerTypes DEF UpdateGet, TypeOK
  <2>3. i # Nil
    BY ValueTypes
  <2>4. /\ info' \in [Addrs -> Info \cup {Nil}]
        /\ pc' \in [Addrs -> {"idle", "inject_add_role", "query_get",
                              "update_get", "update_set"}]
        /\ \A b \in Addrs : info'[b] # Nil <=> pc'[b] = "update_set"
    BY <1>7, <2>1, <2>3 DEF UpdateGet, Goto, TypeOK
  <2>5. QED BY <1>7, <2>2, <2>4 DEF UpdateGet, TypeOK, Answered, ErrorReply
<1>8. ASSUME NEW a \in Addrs, UpdateSet(a) PROVE TypeOK'
  <2>1. [op |-> "UPDATE_TASK", error |-> "SUCCEED", done |-> {}, x |-> 0] \in Responses
    BY DEF Responses
  <2>2. taskinfo' \in [Players -> Info \cup {Nil}]
    BY <1>8, OwnerTypes DEF UpdateSet, TypeOK
  <2>3. req[a].tasks \in SUBSET TaskIds
    BY ValueTypes DEF TypeOK
  <2>4. /\ acked' \in [Players -> SUBSET TaskIds]
        /\ unsaved' \in [Players -> SUBSET TaskIds]
    BY <1>8, <2>3, OwnerTypes DEF UpdateSet, TypeOK
  <2>5. QED
    BY <1>8, <2>1, <2>2, <2>4, RespondTyped DEF UpdateSet, TypeOK, Answered, ErrorReply
<1>9. CASE Crash
  BY <1>9 DEF Crash, TypeOK
<1>10. CASE UNCHANGED vars
  BY <1>10 DEF vars, TypeOK
<1>11. QED
  BY <1>1, <1>2, <1>3, <1>4, <1>5, <1>6, <1>7, <1>8, <1>9, <1>10 DEF Next, Quiet

\* The server starts with the types right.
LEMMA TypeInit == Init => TypeOK
<1> SUFFICES ASSUME Init PROVE TypeOK
  OBVIOUS
<1>1. [role |-> 0, tasks |-> {}, x |-> 0] \in Requests
  BY ValueTypes DEF Requests
<1>2. QED BY <1>1 DEF Init, TypeOK

\* The program keeps its variables well typed, and a DBTaskInfo is on the stack
\* of a handler exactly between get and set of an update.
THEOREM TypeCorrect == Spec => []TypeOK
BY TypeInit, TypeNext, PTL DEF Spec

-----------------------------------------------------------------------------
(***************************************************************************)
(* Players do not mix.                                                     *)
(***************************************************************************)

\* All of DBTaskInfo i came in for player g.
CameIn(g, i) == i.tasks \subseteq reported[g].tasks /\ NearReported(g, 2 * i.x)

\* So did all that response r tells.
Told(g, r) == r.done \subseteq reported[g].tasks /\ NearReported(g, r.x)

\* Between its arrival and its answer an update is about what came in for the
\* player that its handler writes to, and so is the DBTaskInfo that it writes.
UpdatesReported ==
    \A a \in Addrs :
        /\ pc[a] \in {"update_get", "update_set"} =>
              /\ req[a].tasks \subseteq reported[Gid(a)].tasks
              /\ req[a].x \in reported[Gid(a)].xs
        /\ info[a] # Nil => CameIn(Gid(a), info[a])

OwnInv == TypeOK /\ OwnProgressOnly /\ UpdatesReported

\* A double that became an int32 is off by less than one unit.
LEMMA TruncatedNear == \A x \in Int : 2 * Truncated(x) - x \in -1 .. 1
BY DEF Truncated

\* What came in stays on record.
LEMMA ReportedGrows ==
    ASSUME TypeOK, [Next]_vars
    PROVE  /\ \A g \in Players : /\ reported[g].tasks \subseteq reported'[g].tasks
                                 /\ reported[g].xs \subseteq reported'[g].xs
           /\ \A g \in Players : \A i : CameIn(g, i) => CameIn(g, i)'
           /\ \A g \in Players : \A r : Told(g, r) => Told(g, r)'
<1>1. \A g \in Players : /\ reported[g].tasks \subseteq reported'[g].tasks
                         /\ reported[g].xs \subseteq reported'[g].xs
  <2>1. CASE UNCHANGED reported
    BY <2>1
  <2>2. ASSUME NEW a \in Addrs, ReceiveUpdate(a)
        PROVE  \A g \in Players : /\ reported[g].tasks \subseteq reported'[g].tasks
                                  /\ reported[g].xs \subseteq reported'[g].xs
    BY <2>2, OwnerTypes DEF ReceiveUpdate, TypeOK
  <2>3. QED
    BY <2>1, <2>2
    DEF Next, vars, historyVars, Quiet, Crash, ReceiveLogin, InjectAddRole, ReceiveErase,
        ReceiveQuery, QueryGet, UpdateGet, UpdateSet
<1>2. \A g \in Players : \A x : NearReported(g, x) => NearReported(g, x)'
  BY <1>1 DEF NearReported
<1>3. QED BY <1>1, <1>2 DEF CameIn, Told

\* A request comes in: it answers nothing, and has not written anything yet.
LEMMA ReceiveOwn ==
    ASSUME OwnInv, [Next]_vars, NEW a \in Addrs, NEW r, NEW l, Receive(a, r, l),
           r.role \in Players, l \in {"idle", "query_get", "update_get"},
           l = "update_get" => /\ r.tasks \subseteq reported'[r.role].tasks
                               /\ r.x \in reported'[r.role].xs
    PROVE  OwnProgressOnly' /\ UpdatesReported'
<1> USE DEF OwnInv
<1>1. /\ taskinfo' = taskinfo /\ info' = info /\ info[a] = Nil
      /\ req'[a] = r /\ rsp'[a] = Nil /\ pc'[a] = l
      /\ \A b \in Addrs \ {a} : req'[b] = req[b] /\ rsp'[b] = rsp[b] /\ pc'[b] = pc[b]
  BY DEF Receive, Goto, TypeOK
<1>2. OwnProgressOnly'
  <2>1. ASSUME NEW g \in Players, taskinfo'[g] # Nil PROVE CameIn(g, taskinfo[g])'
    BY <1>1, <2>1, ReportedGrows DEF OwnProgressOnly, CameIn
  <2>2. ASSUME NEW b \in Addrs, rsp'[b] # Nil, rsp'[b].op = "QUERY_TASK"
        PROVE  Told(req[b].role, rsp[b])'
    <3>1. b # a /\ req[b].role \in Players
      BY <1>1, <2>2, ValueTypes DEF TypeOK
    <3>2. Told(req[b].role, rsp[b])
      BY <1>1, <2>2, <3>1 DEF OwnProgressOnly, Told
    <3>3. QED BY <1>1, <3>1, <3>2, ReportedGrows DEF Told
  <2>3. QED BY <2>1, <2>2 DEF OwnProgressOnly, CameIn, Told
<1>3. UpdatesReported'
  <2>1. ASSUME NEW b \in Addrs, b # a, pc'[b] \in {"update_get", "update_set"}
        PROVE  req[b].tasks \subseteq reported'[Gid(b)].tasks
               /\ req[b].x \in reported'[Gid(b)].xs
    BY <1>1, <2>1, ReportedGrows, OwnerTypes DEF UpdatesReported
  <2>2. ASSUME NEW b \in Addrs, b # a, info'[b] # Nil PROVE CameIn(Gid(b), info[b])'
    BY <1>1, <2>2, ReportedGrows, OwnerTypes DEF UpdatesReported, CameIn, Gid
  <2>3. QED BY <1>1, <2>1, <2>2 DEF UpdatesReported, Gid
<1>4. QED BY <1>2, <1>3

\* A connection leaves the others' requests and answers alone.
LEMMA OthersOwn ==
    ASSUME OwnInv, [Next]_vars, NEW b \in Addrs,
           req'[b] = req[b], rsp'[b] = rsp[b], info'[b] = info[b], pc'[b] = pc[b]
    PROVE  /\ rsp'[b] # Nil /\ rsp'[b].op = "QUERY_TASK" => Told(req[b].role, rsp[b])'
           /\ pc'[b] \in {"update_get", "update_set"} =>
                 /\ req'[b].tasks \subseteq reported'[req'[b].role].tasks
                 /\ req'[b].x \in reported'[req'[b].role].xs
           /\ info'[b] # Nil => CameIn(req[b].role, info[b])'
<1> USE DEF OwnInv
<1>1. req[b].role \in Players
  BY OwnerTypes DEF Gid
<1>2. rsp[b] # Nil /\ rsp[b].op = "QUERY_TASK" => Told(req[b].role, rsp[b])
  BY DEF OwnProgressOnly, Told
<1>3. info[b] # Nil => CameIn(req[b].role, info[b])
  BY DEF UpdatesReported, Gid
<1>4. pc[b] \in {"update_get", "update_set"} =>
         /\ req[b].tasks \subseteq reported'[req[b].role].tasks
         /\ req[b].x \in reported'[req[b].role].xs
  BY <1>1, ReportedGrows DEF UpdatesReported, Gid
<1>5. \A r : Told(req[b].role, r) => Told(req[b].role, r)'
  BY <1>1, ReportedGrows DEF Told
<1>6. \A i : CameIn(req[b].role, i) => CameIn(req[b].role, i)'
  BY <1>1, ReportedGrows DEF CameIn
<1>7. QED BY <1>2, <1>3, <1>4, <1>5, <1>6

\* The answer to a query tells what is stored; every other answer tells nothing.
LEMMA QueryOwn ==
    ASSUME OwnInv, NEW a \in Addrs, QueryGet(a)
    PROVE  /\ Told(req[a].role, rsp[a])' /\ info'[a] = Nil /\ pc'[a] = "idle"
           /\ UNCHANGED <<taskinfo, req>>
<1> USE DEF OwnInv, historyVars
<1>1. PICK r : Respond(a, r) /\ Told(Gid(a), r)
  <2>1. \A i : CameIn(Gid(a), i) => Told(Gid(a), QueryAnswer(i))
    BY DEF CameIn, Told, QueryAnswer, Finished
  <2>2. taskinfo[Gid(a)] # Nil => CameIn(Gid(a), taskinfo[Gid(a)])
    BY OwnerTypes DEF OwnProgressOnly, CameIn
  <2>3. CameIn(Gid(a), EmptyInfo)
    BY DEF CameIn, EmptyInfo, NearReported
  <2>4. Told(Gid(a), [op |-> "QUERY_TASK", error |-> "UNKOWN_EORROR",
                      done |-> {}, x |-> 0])
    BY DEF Told, NearReported
  <2>5. QED BY <2>1, <2>2, <2>3, <2>4 DEF QueryGet
<1>2. rsp'[a] = r /\ info'[a] = Nil /\ pc'[a] = "idle"
  BY <1>1 DEF Respond, Goto, TypeOK
<1>3. UNCHANGED <<taskinfo, req, reported>>
  BY DEF QueryGet
<1>4. QED BY <1>1, <1>2, <1>3 DEF Told, NearReported, Gid

\* What an update is about to write came in, with this request or an earlier one.
LEMMA UpdateOwn ==
    ASSUME OwnInv, NEW a \in Addrs, UpdateGet(a)
    PROVE  /\ CameIn(req[a].role, info[a])' /\ pc'[a] = "update_set"
           /\ UNCHANGED <<taskinfo, req, rsp, reported>>
<1> USE DEF OwnInv
<1>1. PICK i : /\ i = EmptyInfo \/ (taskinfo[Gid(a)] # Nil /\ i = taskinfo[Gid(a)])
               /\ info'[a] = Updated(i, req[a])
  BY DEF UpdateGet, TypeOK
<1>2. i.tasks \subseteq reported[Gid(a)].tasks
  BY <1>1, OwnerTypes DEF EmptyInfo, OwnProgressOnly
<1>3. /\ req[a].tasks \subseteq reported[Gid(a)].tasks
      /\ req[a].x \in reported[Gid(a)].xs
  BY DEF UpdateGet, UpdatesReported
<1>4. NearReported(Gid(a), 2 * Truncated(req[a].x))
  BY <1>3, TruncatedNear, ValueTypes DEF NearReported, TypeOK
<1>5. CameIn(Gid(a), Updated(i, req[a]))
  BY <1>2, <1>3, <1>4 DEF CameIn, Updated
<1>6. UNCHANGED <<taskinfo, req, rsp, reported>> /\ pc'[a] = "update_set"
  BY DEF UpdateGet, Goto, TypeOK
<1>7. QED BY <1>1, <1>5, <1>6 DEF CameIn, NearReported, Gid

\* No step mixes the progress of players.
LEMMA OwnNext == OwnInv /\ [Next]_vars => OwnInv'
<1> SUFFICES ASSUME OwnInv, [Next]_vars PROVE OwnProgressOnly' /\ UpdatesReported'
  BY TypeNext DEF OwnInv
<1> USE DEF OwnInv, budgetVars, historyVars
<1>k. \A g \in Players : taskinfo'[g] = taskinfo[g] /\ taskinfo[g] # Nil =>
                             CameIn(g, taskinfo[g])'
  BY ReportedGrows DEF OwnProgressOnly, CameIn
<1>1. ASSUME NEW a \in Addrs, ReceiveLogin(a)
      PROVE  OwnProgressOnly' /\ UpdatesReported'
  <2>1. /\ taskinfo' = taskinfo /\ info'[a] = Nil
        /\ rsp'[a] = Nil /\ pc'[a] = "inject_add_role"
        /\ \A b \in Addrs \ {a} : /\ req'[b] = req[b] /\ rsp'[b] = rsp[b]
                                  /\ info'[b] = info[b] /\ pc'[b] = pc[b]
    BY <1>1 DEF ReceiveLogin, Goto, TypeOK
  <2>2. QED
    BY <1>k, <2>1, OthersOwn DEF OwnProgressOnly, UpdatesReported, CameIn, Told, Gid
<1>2. ASSUME NEW a \in Addrs, InjectAddRole(a)
      PROVE  OwnProgressOnly' /\ UpdatesReported'
  <2>1. /\ taskinfo' = taskinfo /\ req' = req /\ info' = info /\ rsp' = rsp
        /\ info[a] = Nil /\ pc'[a] = "idle" /\ reported' = reported
        /\ \A b \in Addrs \ {a} : pc'[b] = pc[b]
    BY <1>2 DEF InjectAddRole, Goto, TypeOK
  <2>2. QED
    BY <2>1 DEF OwnProgressOnly, UpdatesReported, CameIn, NearReported, Gid
<1>3. ASSUME NEW a \in Addrs, ReceiveErase(a)
      PROVE  OwnProgressOnly' /\ UpdatesReported'
  <2>1. PICK g \in Injected(a) : Receive(a, [req[a] EXCEPT !.role = g], "idle")
    BY <1>3 DEF ReceiveErase
  <2>2. [req[a] EXCEPT !.role = g].role \in Players
    BY OwnerTypes, ValueTypes DEF TypeOK
  <2>3. QED BY <2>1, <2>2, ReceiveOwn
<1>4. ASSUME NEW a \in Addrs, ReceiveQuery(a)
      PROVE  OwnProgressOnly' /\ UpdatesReported'
  <2>1. PICK g \in Injected(a) : Receive(a, [req[a] EXCEPT !.role = g], "query_get")
    BY <1>4 DEF ReceiveQuery
  <2>2. [req[a] EXCEPT !.role = g].role \in Players
    BY OwnerTypes, ValueTypes DEF TypeOK
  <2>3. QED BY <2>1, <2>2, ReceiveOwn
<1>5. ASSUME NEW a \in Addrs, QueryGet(a)
      PROVE  OwnProgressOnly' /\ UpdatesReported'
  <2>1. /\ Told(req[a].role, rsp[a])' /\ info'[a] = Nil /\ pc'[a] = "idle"
        /\ UNCHANGED <<taskinfo, req>>
    BY <1>5, QueryOwn
  <2>2. \A b \in Addrs \ {a} : rsp'[b] = rsp[b] /\ info'[b] = info[b] /\ pc'[b] = pc[b]
    BY <1>5 DEF QueryGet, Respond, Goto, TypeOK
  <2>3. QED
    BY <1>k, <2>1, <2>2, OthersOwn DEF OwnProgressOnly, UpdatesReported, CameIn, Told, Gid
<1>6. ASSUME NEW a \in Addrs, ReceiveUpdate(a)
      PROVE  OwnProgressOnly' /\ UpdatesReported'
  <2>1. PICK g \in Injected(a), ts \in SUBSET TaskIds, x \in Coordinates :
          /\ Receive(a, [role |-> g, tasks |-> ts, x |-> x], "update_get")
          /\ reported' = [reported EXCEPT ![g] =
                            [tasks |-> @.tasks \cup ts, xs |-> @.xs \cup {x}]]
    BY <1>6 DEF ReceiveUpdate
  <2>2. g \in Players /\ ts \subseteq reported'[g].tasks /\ x \in reported'[g].xs
    BY <2>1, OwnerTypes DEF TypeOK
  <2>3. QED BY <2>1, <2>2, ReceiveOwn
<1>7. ASSUME NEW a \in Addrs, UpdateGet(a)
      PROVE  OwnProgressOnly' /\ UpdatesReported'
  <2>1. /\ CameIn(req[a].role, info[a])' /\ pc'[a] = "update_set"
        /\ UNCHANGED <<taskinfo, req, rsp, reported>>
    BY <1>7, UpdateOwn
  <2>2. \A b \in Addrs \ {a} : info'[b] = info[b] /\ pc'[b] = pc[b]
    BY <1>7 DEF UpdateGet, Goto, TypeOK
  <2>3. pc[a] = "update_get"
    BY <1>7 DEF UpdateGet
  <2>4. OwnProgressOnly'
    BY <2>1 DEF OwnProgressOnly, NearReported
  <2>5. QED BY <2>1, <2>2, <2>3, <2>4, OthersOwn DEF UpdatesReported, Gid
<1>8. ASSUME NEW a \in Addrs, UpdateSet(a)
      PROVE  OwnProgressOnly' /\ UpdatesReported'
  <2>1. /\ \A b \in Addrs \ {a} : rsp'[b] = rsp[b] /\ info'[b] = info[b] /\ pc'[b] = pc[b]
        /\ info'[a] = Nil /\ pc'[a] = "idle" /\ rsp'[a].op = "UPDATE_TASK"
        /\ UNCHANGED <<req, reported>>
    BY <1>8 DEF UpdateSet, Respond, Goto, TypeOK
  <2>2. \A g \in Players :
          \/ taskinfo'[g] = taskinfo[g]
          \/ g = Gid(a) /\ taskinfo'[g] = info[a] /\ info[a] # Nil
    BY <1>8 DEF UpdateSet, TypeOK
  <2>3. info[a] # Nil => CameIn(Gid(a), info[a])
    BY DEF UpdatesReported
  <2>4. \A g \in Players : taskinfo'[g] # Nil => CameIn(g, taskinfo[g])'
    BY <1>k, <2>1, <2>2, <2>3 DEF CameIn, NearReported
  <2>5. QED
    BY <2>1, <2>4, OthersOwn DEF OwnProgressOnly, UpdatesReported, CameIn, Told, Gid
<1>9. CASE Crash
  <2>1. /\ UNCHANGED <<taskinfo, reported>>
        /\ \A a \in Addrs : pc'[a] = "idle" /\ info'[a] = Nil /\ rsp'[a] = Nil
    BY <1>9 DEF Crash
  <2>2. QED BY <1>k, <2>1 DEF OwnProgressOnly, UpdatesReported, CameIn
<1>10. CASE UNCHANGED vars
  BY <1>10
  DEF vars, OwnProgressOnly, UpdatesReported, CameIn, NearReported, Gid
<1>11. QED
  BY <1>1, <1>2, <1>3, <1>4, <1>5, <1>6, <1>7, <1>8, <1>9, <1>10 DEF Next, Quiet

\* For any number of players and connections that share them, and whatever the
\* position of a player: Redis holds of a player, and a query tells of it, only
\* tasks and a position that came in for it.
THEOREM PlayersApart == Spec => []OwnProgressOnly
<1>1. Init => OwnInv
  BY TypeInit DEF Init, OwnInv, OwnProgressOnly, UpdatesReported
<1>2. QED BY <1>1, OwnNext, PTL DEF Spec, OwnInv

-----------------------------------------------------------------------------
(***************************************************************************)
(* Acknowledged tasks stay.                                                *)
(***************************************************************************)

\* A request at work is its owner's, unless the role was missed.
ServedAsOwner ==
    \A a \in Addrs :
        pc[a] \in {"query_get", "update_get", "update_set"} =>
            Gid(a) = Owner(a) \/ Owner(a) \in missed

\* Of two updates of a player between get and set, the later one noticed.
OverlapsTorn ==
    \A a \in Addrs, b \in Addrs :
        /\ a # b /\ Gid(a) = Gid(b)
        /\ pc[a] = "update_set" /\ pc[b] = "update_set"
        => Gid(a) \in torn

\* Apart from those, what an update is about to write has all that is stored,
\* and what the update brings.
WritesAll ==
    \A a \in Addrs :
        pc[a] = "update_set" /\ Gid(a) \notin torn =>
            Stored(Gid(a)) \cup req[a].tasks \subseteq info[a].tasks

KeptInv == TypeOK /\ ServedAsOwner /\ OverlapsTorn /\ WritesAll /\ AckedTasksKept

\* What explains a loss stays on record, and what was acknowledged and saved does
\* not become due by a step that touches neither Redis nor the history.
LEMMA DueShrinks ==
    ASSUME UNCHANGED <<taskinfo, acked, unsaved>>, missed \subseteq missed',
           torn \subseteq torn', AckedTasksKept
    PROVE  AckedTasksKept'
BY DEF AckedTasksKept, Due, Stored

\* A request comes in: it is its owner's, or the owner is put down as missed.
LEMMA ReceiveKept ==
    ASSUME KeptInv, NEW a \in Addrs, NEW r, NEW l, Receive(a, r, l),
           l \in {"idle", "query_get", "update_get"},
           \A b \in Addrs : b # a \/ l # "idle" => roles_'[b] = roles_[b]
    PROVE  ServedAsOwner' /\ OverlapsTorn' /\ WritesAll' /\ AckedTasksKept'
<1> USE DEF KeptInv
<1>1. /\ UNCHANGED <<taskinfo, info, acked, torn, unsaved>> /\ missed \subseteq missed'
      /\ req'[a] = r /\ pc'[a] = l /\ (r.role = Owner(a) \/ Owner(a) \in missed')
      /\ \A b \in Addrs \ {a} : req'[b] = req[b] /\ pc'[b] = pc[b]
  BY DEF Receive, Goto, TypeOK
<1>2. ServedAsOwner'
  <2>1. \A b \in Addrs : b # a \/ l # "idle" => Owner(b)' = Owner(b)
    BY DEF Owner
  <2>2. QED BY <1>1, <2>1 DEF ServedAsOwner, Gid
<1>3. OverlapsTorn'
  BY <1>1 DEF OverlapsTorn, Gid
<1>4. WritesAll'
  BY <1>1 DEF WritesAll, Gid, Stored
<1>5. AckedTasksKept'
  BY <1>1, DueShrinks
<1>6. QED BY <1>2, <1>3, <1>4, <1>5

\* Between get and set an update has all there is, or the player is torn.
LEMMA UpdateGetKept ==
    ASSUME KeptInv, NEW a \in Addrs, UpdateGet(a)
    PROVE  ServedAsOwner' /\ OverlapsTorn' /\ WritesAll' /\ AckedTasksKept'
<1> USE DEF KeptInv
<1>1. /\ UNCHANGED <<taskinfo, roles_, req, acked, missed, unsaved>>
      /\ pc[a] = "update_get" /\ pc'[a] = "update_set" /\ torn \subseteq torn'
      /\ \A b \in Addrs \ {a} : pc'[b] = pc[b] /\ info'[b] = info[b]
  BY DEF UpdateGet, Goto, TypeOK
<1>2. ServedAsOwner'
  BY <1>1 DEF ServedAsOwner, Gid, Owner
<1>3. OverlapsTorn'
  <2>1. \A b \in Addrs \ {a} : pc[b] = "update_set" /\ Gid(b) = Gid(a) => Gid(a) \in torn'
    BY DEF UpdateGet
  <2>2. QED BY <1>1, <2>1 DEF OverlapsTorn, Gid
<1>4. WritesAll'
  <2>1. Gid(a) \notin torn' => Stored(Gid(a)) \cup req[a].tasks \subseteq info'[a].tasks
    <3>1. Gid(a) \notin torn' =>
            info'[a] = Updated(IF taskinfo[Gid(a)] = Nil THEN EmptyInfo
                               ELSE taskinfo[Gid(a)], req[a])
      BY DEF UpdateGet, TypeOK
    <3>2. QED BY <3>1 DEF Stored, Updated, EmptyInfo
  <2>2. QED BY <1>1, <2>1 DEF WritesAll, Gid, Stored
<1>5. AckedTasksKept'
  BY <1>1, DueShrinks
<1>6. QED BY <1>2, <1>3, <1>4, <1>5

\* A set takes nothing away that is due, and what it acknowledges it has written.
LEMMA UpdateSetKept ==
    ASSUME KeptInv, NEW a \in Addrs, UpdateSet(a)
    PROVE  ServedAsOwner' /\ OverlapsTorn' /\ WritesAll' /\ AckedTasksKept'
<1> USE DEF KeptInv
<1>1. /\ UNCHANGED <<roles_, req, missed, torn>>
      /\ pc[a] = "update_set" /\ pc'[a] = "idle"
      /\ \A b \in Addrs \ {a} : pc'[b] = pc[b] /\ info'[b] = info[b]
  BY DEF UpdateSet, Respond, Goto, TypeOK
<1>2. ServedAsOwner' /\ OverlapsTorn'
  BY <1>1 DEF ServedAsOwner, OverlapsTorn, Gid, Owner
<1>3. \A g \in Players : Stored(g)' = Stored(g) \/ g = Gid(a)
  BY OwnerTypes DEF UpdateSet, Stored, TypeOK
<1>4. WritesAll'
  <2>1. ASSUME NEW b \in Addrs, b # a, pc[b] = "update_set", Gid(b) \notin torn
        PROVE  Gid(b) \in Players /\ Gid(b) # Gid(a)
    BY <1>1, <2>1, OwnerTypes DEF OverlapsTorn
  <2>2. \A b \in Addrs : Gid(b)' = Gid(b)
    BY <1>1 DEF Gid
  <2>3. ASSUME NEW b \in Addrs, pc'[b] = "update_set", Gid(b) \notin torn
        PROVE  Stored(Gid(b))' \cup req[b].tasks \subseteq info'[b].tasks
    <3>1. b # a /\ pc[b] = "update_set" /\ info'[b] = info[b]
      BY <1>1, <2>3
    <3>2. Stored(Gid(b))' = Stored(Gid(b))
      BY <1>3, <2>1, <2>2, <2>3, <3>1 DEF Stored
    <3>3. QED BY <2>3, <3>1, <3>2 DEF WritesAll
  <2>4. QED BY <1>1, <2>2, <2>3 DEF WritesAll
<1>5. AckedTasksKept'
  <2>1. Owner(a) \in Players /\ Gid(a) \in Players
    BY OwnerTypes
  <2>2. Gid(a) = Owner(a) \/ Owner(a) \in missed
    BY <1>1 DEF ServedAsOwner
  <2>3. CASE UNCHANGED unsaved /\ taskinfo' = [taskinfo EXCEPT ![Gid(a)] = info[a]]
    <3>1. Gid(a) \notin torn =>
            Stored(Gid(a)) \cup req[a].tasks \subseteq taskinfo'[Gid(a)].tasks
      BY <1>1, <2>1, <2>3 DEF WritesAll, TypeOK
    <3>2. taskinfo'[Gid(a)] # Nil
      BY <1>1, <2>1, <2>3 DEF TypeOK
    <3>3. \A g \in Players : acked'[g] = IF g = Owner(a) THEN acked[g] \cup req[a].tasks
                                         ELSE acked[g]
      BY DEF UpdateSet, TypeOK
    <3>4. ASSUME NEW g \in Players PROVE (Due(g) \subseteq Stored(g))'
      <4>1. Due(g) \subseteq Stored(g)
        BY DEF AckedTasksKept
      <4>2. CASE g = Gid(a)
        BY <1>1, <2>3, <3>1, <3>2, <3>3, <4>1, <4>2 DEF Due, Stored
      <4>3. CASE g # Gid(a)
        <5>1. Stored(g)' = Stored(g)
          BY <1>3, <4>3
        <5>2. Due(g)' \subseteq Due(g)
          BY <1>1, <2>2, <2>3, <3>3, <4>3 DEF Due
        <5>3. QED BY <4>1, <5>1, <5>2
      <4>4. QED BY <4>2, <4>3
    <3>5. QED BY <3>4 DEF AckedTasksKept
  <2>4. CASE /\ UNCHANGED taskinfo
             /\ unsaved' = [unsaved EXCEPT ![Owner(a)] = @ \cup req[a].tasks]
    <3>1. \A g \in Players : Due(g)' \subseteq Due(g)
      BY <1>1, <2>1, <2>4 DEF UpdateSet, Due, TypeOK
    <3>2. \A g \in Players : Stored(g)' = Stored(g)
      BY <2>4 DEF Stored
    <3>3. QED BY <3>1, <3>2 DEF AckedTasksKept
  <2>5. QED BY <2>3, <2>4 DEF UpdateSet
<1>6. QED BY <1>2, <1>4, <1>5

\* No step loses an acknowledged task in a way that the history does not name.
LEMMA KeptNext == KeptInv /\ [Next]_vars => KeptInv'
<1> SUFFICES ASSUME KeptInv, [Next]_vars
             PROVE  ServedAsOwner' /\ OverlapsTorn' /\ WritesAll' /\ AckedTasksKept'
  BY TypeNext DEF KeptInv
<1> USE DEF KeptInv, budgetVars, historyVars
<1> DEFINE Goal == ServedAsOwner' /\ OverlapsTorn' /\ WritesAll' /\ AckedTasksKept'
<1>1. ASSUME NEW a \in Addrs, ReceiveLogin(a) PROVE Goal
  <2>1. /\ UNCHANGED <<taskinfo, roles_, info, acked, missed, torn, unsaved>>
        /\ pc'[a] = "inject_add_role"
        /\ \A b \in Addrs \ {a} : req'[b] = req[b] /\ pc'[b] = pc[b]
    BY <1>1 DEF ReceiveLogin, Goto, TypeOK
  <2>2. ServedAsOwner' /\ OverlapsTorn' /\ WritesAll'
    BY <2>1 DEF ServedAsOwner, OverlapsTorn, WritesAll, Gid, Owner, Stored
  <2>3. QED BY <2>1, <2>2, DueShrinks
<1>2. ASSUME NEW a \in Addrs, InjectAddRole(a) PROVE Goal
  <2>1. /\ UNCHANGED <<taskinfo, req, info, acked, missed, torn, unsaved>>
        /\ pc'[a] = "idle"
        /\ \A b \in Addrs \ {a} : roles_'[b] = roles_[b] /\ pc'[b] = pc[b]
    BY <1>2 DEF InjectAddRole, Goto, TypeOK
  <2>2. ServedAsOwner' /\ OverlapsTorn' /\ WritesAll'
    BY <2>1 DEF ServedAsOwner, OverlapsTorn, WritesAll, Gid, Owner, Stored
  <2>3. QED BY <2>1, <2>2, DueShrinks
<1>3. ASSUME NEW a \in Addrs, ReceiveErase(a) PROVE Goal
  <2>1. PICK g \in Injected(a) :
          /\ Receive(a, [req[a] EXCEPT !.role = g], "idle")
          /\ roles_' = [roles_ EXCEPT ![a] = IF @ = Nil \/ g # @ THEN @ ELSE 0]
    BY <1>3 DEF ReceiveErase
  <2>2. \A b \in Addrs : b # a => roles_'[b] = roles_[b]
    BY <2>1 DEF TypeOK
  <2>3. QED BY <2>1, <2>2, ReceiveKept
<1>4. ASSUME NEW a \in Addrs, ReceiveQuery(a) PROVE Goal
  BY <1>4, ReceiveKept DEF ReceiveQuery
<1>5. ASSUME NEW a \in Addrs, QueryGet(a) PROVE Goal
  <2>1. /\ UNCHANGED <<taskinfo, roles_, req, acked, missed, torn, unsaved>>
        /\ pc'[a] = "idle"
        /\ \A b \in Addrs \ {a} : info'[b] = info[b] /\ pc'[b] = pc[b]
    BY <1>5 DEF QueryGet, Respond, Goto, TypeOK
  <2>2. ServedAsOwner' /\ OverlapsTorn' /\ WritesAll'
    BY <2>1 DEF ServedAsOwner, OverlapsTorn, WritesAll, Gid, Owner, Stored
  <2>3. QED BY <2>1, <2>2, DueShrinks
<1>6. ASSUME NEW a \in Addrs, ReceiveUpdate(a) PROVE Goal
  BY <1>6, ReceiveKept DEF ReceiveUpdate
<1>7. ASSUME NEW a \in Addrs, UpdateGet(a) PROVE Goal
  BY <1>7, UpdateGetKept
<1>8. ASSUME NEW a \in Addrs, UpdateSet(a) PROVE Goal
  BY <1>8, UpdateSetKept
<1>9. CASE Crash
  <2>1. /\ UNCHANGED <<taskinfo, acked, missed, torn, unsaved>>
        /\ \A a \in Addrs : pc'[a] = "idle"
    BY <1>9 DEF Crash
  <2>2. QED BY <2>1, DueShrinks DEF ServedAsOwner, OverlapsTorn, WritesAll
<1>10. CASE UNCHANGED vars
  BY <1>10
  DEF vars, ServedAsOwner, OverlapsTorn, WritesAll, AckedTasksKept, Gid, Owner, Due, Stored
<1>11. QED
  BY <1>1, <1>2, <1>3, <1>4, <1>5, <1>6, <1>7, <1>8, <1>9, <1>10 DEF Next, Quiet

\* So acknowledged tasks are always kept, and why.
LEMMA KeptInvariant == Spec => []KeptInv
<1>1. Init => KeptInv
  BY TypeInit
  DEF Init, KeptInv, ServedAsOwner, OverlapsTorn, WritesAll, AckedTasksKept, Due
<1>2. QED BY <1>1, KeptNext, PTL DEF Spec

\* An update that was acknowledged is never undone, by however many connections
\* and updates, failed commands and crashes, but for the three ways that the
\* history variables put down.
THEOREM AckedStay == Spec => []AckedTasksKept
BY KeptInvariant, PTL DEF KeptInv

\* A query that Redis answers lists every acknowledged task of its player, with
\* the same exceptions.
THEOREM QueriesComplete == Spec => QueryComplete
<1> DEFINE Complete ==
        \A a \in Addrs :
            pc[a] = "query_get" /\ pc'[a] = "idle" /\ budgetVars' = budgetVars
                => Due(Gid(a)) \subseteq rsp'[a].done
<1>1. ASSUME KeptInv, [Next]_vars PROVE [Complete]_vars
  <2> SUFFICES ASSUME NEW a \in Addrs, pc[a] = "query_get", pc'[a] = "idle",
                      budgetVars' = budgetVars
               PROVE  Due(Gid(a)) \subseteq rsp'[a].done
    OBVIOUS
  <2> USE DEF KeptInv
  <2>1. QueryGet(a) /\ Answered
    <3>1. ~Crash
      BY <1>1 DEF Crash, budgetVars, TypeOK
    <3>2. ~UNCHANGED vars
      BY DEF vars
    <3>3. \A b \in Addrs \ {a} :
            ~ (\/ ReceiveLogin(b) \/ InjectAddRole(b) \/ ReceiveErase(b)
               \/ ReceiveQuery(b) \/ QueryGet(b)
               \/ ReceiveUpdate(b) \/ UpdateGet(b) \/ UpdateSet(b))
      BY <1>1 DEF ReceiveLogin, InjectAddRole, ReceiveErase, ReceiveQuery, QueryGet,
             ReceiveUpdate, UpdateGet, UpdateSet, Receive, Respond, Goto, TypeOK
    <3>4. /\ ~ReceiveLogin(a) /\ ~InjectAddRole(a)
          /\ ~UpdateGet(a) /\ ~UpdateSet(a)
      BY DEF ReceiveLogin, InjectAddRole, UpdateGet, UpdateSet
    <3>5. ~ReceiveErase(a) /\ ~ReceiveQuery(a) /\ ~ReceiveUpdate(a)
      BY DEF ReceiveErase, ReceiveQuery, ReceiveUpdate, Receive
    <3>6. PICK b \in Addrs :
            \/ ReceiveLogin(b) \/ InjectAddRole(b) \/ ReceiveErase(b)
            \/ ReceiveQuery(b) \/ QueryGet(b)
            \/ ReceiveUpdate(b) \/ UpdateGet(b) \/ UpdateSet(b)
      BY <1>1, <3>1, <3>2 DEF Next, Quiet
    <3>7. b = a
      BY <3>3, <3>6
    <3>8. QueryGet(a)
      BY <3>4, <3>5, <3>6, <3>7
    <3>9. QED BY <3>8 DEF budgetVars, Answered
  <2>2. rsp'[a].done = Stored(Gid(a))
    <3>1. errors' # errors + 1
      BY <1>1, <2>1 DEF Answered, TypeOK
    <3>2. \/ /\ taskinfo[Gid(a)] # Nil
             /\ rsp' = [rsp EXCEPT ![a] = QueryAnswer(taskinfo[Gid(a)])]
          \/ /\ taskinfo[Gid(a)] = Nil
             /\ rsp' = [rsp EXCEPT ![a] = [op |-> "QUERY_TASK", error |-> "UNKOWN_EORROR",
                                           done |-> {}, x |-> 0]]
      BY <2>1, <3>1 DEF QueryGet, ErrorReply, Respond
    <3>3. rsp \in [Addrs -> Responses \cup {Nil}]
      BY <1>1 DEF TypeOK
    <3>4. QED BY <3>2, <3>3 DEF QueryAnswer, Finished, Stored
  <2>3. QED BY <1>1, <2>2, OwnerTypes DEF AckedTasksKept
<1>2. QED BY <1>1, KeptInvariant, PTL DEF Spec, QueryComplete

=============================================================================
