-------------------------------- MODULE Tasks --------------------------------
(***************************************************************************)
(* The progress of the players: TaskQueryService, TaskUpdateService and    *)
(* TaskDataManager.                                                        *)
(*                                                                         *)
(* As in Accounts, a step is one Redis command with the computation around *)
(* it.  Of a role only the player_id matters here.  The services hold      *)
(* their TaskDataManager by value and are built anew for every request, so *)
(* task_infos_ starts out empty each time: what a request has in it is the *)
(* DBTaskInfo on the stack of its handler.                                 *)
(***************************************************************************)
EXTENDS Integers

CONSTANTS
    Gids,           \* player ids that registrations have drawn
    Addrs,          \* peer addresses
    TaskIds,
    Coordinates,    \* what clients send as position: a double, in halves
    Nil,            \* a key that does not exist, a null shared_ptr, no response
    MaxRequests,    \* bound: requests that the clients send
    MaxCrashes,     \* bound: crashes of the server process
    MaxErrors       \* bound: commands that Redis answers with an error reply

ASSUME GidsAssumption == Gids \subseteq Nat \ {0}

ASSUME PositionsAssumption == Coordinates \subseteq Int

ASSUME BoundsAssumption ==
    MaxRequests \in Nat /\ MaxCrashes \in Nat /\ MaxErrors \in Nat

\* Without a role, and after ERASE_ROLE, player_id is 0.
Players == Gids \cup {0}

VARIABLES
    taskinfo,       \* Redis: __taskinfo_<gid>
    roles_,         \* the player_id in RoleinfoManager's role for each address
    pc,             \* the next step of each connection's handler
    req,            \* the request in hand, with the player_id that was injected
    info,           \* task_infos_[gid] of the service at work
    rsp,            \* the last response to each connection
    requests, crashes, errors,
    \* history, read by the properties and the next value of history only
    reported,       \* the tasks and positions that came in for each player
    acked,          \* the tasks in updates that were answered with SUCCEED
    missed,         \* players of whom a request was served without their role
    torn,           \* players of whom two updates were between get and set, or
                    \* of whom an update was given an error instead of the info
    unsaved         \* the tasks in updates whose set failed

budgetVars == <<requests, crashes, errors>>
historyVars == <<reported, acked, missed, torn, unsaved>>
vars == <<taskinfo, roles_, pc, req, info, rsp, budgetVars, historyVars>>

Requests == [role : Players, tasks : SUBSET TaskIds, x : Coordinates \cup {0}]

\* A DBTaskInfo. The only state it ever holds of a task is FINISH, so its map
\* is the set of the finished ones; one coordinate stands for both.
Info == [tasks : SUBSET TaskIds, x : Int]

EmptyInfo == [tasks |-> {}, x |-> 0]

Responses == [op : {"QUERY_TASK", "UPDATE_TASK"}, error : {"SUCCEED", "UNKOWN_EORROR"},
              done : SUBSET TaskIds, x : Int]

\* Nil is none of the values in whose place it stands.
ASSUME NilAssumption == Nil \notin Int /\ Nil \notin Info /\ Nil \notin Responses

Goto(a, label) == pc' = [pc EXCEPT ![a] = label]

(***************************************************************************)
(* Definitions named Faulty... are plausible mistakes in the code that the *)
(* definition behind them models. No action uses them.                     *)
(***************************************************************************)
FaultyRespond(a, r) ==                      \* a TaskDataManager held by reference
    /\ Goto(a, "idle")
    /\ rsp' = [rsp EXCEPT ![a] = r]
    /\ UNCHANGED info

\* The service returns, with its copy of the TaskDataManager it is gone, and the
\* dispatcher writes the response.
Respond(a, r) ==
    /\ Goto(a, "idle")
    /\ rsp' = [rsp EXCEPT ![a] = r]
    /\ info' = [info EXCEPT ![a] = Nil]

Answered == UNCHANGED errors

ErrorReply ==
    /\ errors < MaxErrors
    /\ errors' = errors + 1

-----------------------------------------------------------------------------
(***************************************************************************)
(* RoleInjectHandler                                                       *)
(***************************************************************************)

\* The player that the connection has logged in as.
Owner(a) == IF roles_[a] = Nil THEN 0 ELSE roles_[a]

\* GetRole walks roles_ without the mutex: it may miss an entry while another
\* connection inserts one.
MayMissRole(a) ==
    \E b \in Addrs \ {a} : pc[b] = "inject_add_role" /\ roles_[b] = Nil

\* The player_id of the role that goes up the pipeline with a request.
Injected(a) == {Owner(a)} \cup (IF MayMissRole(a) THEN {0} ELSE {})

Receive(a, r, label) ==
    /\ pc[a] = "idle"
    /\ requests < MaxRequests
    /\ requests' = requests + 1
    /\ req' = [req EXCEPT ![a] = r]
    /\ rsp' = [rsp EXCEPT ![a] = Nil]
    /\ missed' = IF r.role = Owner(a) THEN missed ELSE missed \cup {Owner(a)}
    /\ Goto(a, label)
    /\ UNCHANGED <<taskinfo, info, crashes, errors, acked, torn, unsaved>>

\* A LOGIN, of which only the role for this address matters. The role is pulled
\* and added whatever the password check says, by any number of connections;
\* its player_id is 0 if it is the erased role under the empty name.
ReceiveLogin(a) ==
    /\ pc[a] = "idle"
    /\ requests < MaxRequests
    /\ requests' = requests + 1
    /\ \E g \in Players : req' = [req EXCEPT ![a].role = g]
    /\ rsp' = [rsp EXCEPT ![a] = Nil]
    /\ Goto(a, "inject_add_role")
    /\ UNCHANGED <<taskinfo, roles_, info, crashes, errors, historyVars>>

\* AddRole keeps the entry that is there.
InjectAddRole(a) ==
    /\ pc[a] = "inject_add_role"
    /\ roles_' = [roles_ EXCEPT ![a] = IF @ = Nil THEN req[a].role ELSE @]
    /\ Goto(a, "idle")
    /\ UNCHANGED <<taskinfo, req, info, rsp, budgetVars, historyVars>>

\* ERASE_ROLE clears the role of this address.
ReceiveErase(a) ==
    /\ \E g \in Injected(a) :
        /\ Receive(a, [req[a] EXCEPT !.role = g], "idle")
        /\ roles_' = [roles_ EXCEPT ![a] = IF @ = Nil \/ g # @ THEN @ ELSE 0]
    /\ UNCHANGED reported

ReceiveQuery(a) ==
    /\ \E g \in Injected(a) : Receive(a, [req[a] EXCEPT !.role = g], "query_get")
    /\ UNCHANGED <<roles_, reported>>

ReceiveUpdate(a) ==
    /\ \E g \in Injected(a), ts \in SUBSET TaskIds, x \in Coordinates :
        /\ Receive(a, [role |-> g, tasks |-> ts, x |-> x], "update_get")
        /\ reported' = [reported EXCEPT ![g] =
                            [tasks |-> @.tasks \cup ts, xs |-> @.xs \cup {x}]]
    /\ UNCHANGED roles_

-----------------------------------------------------------------------------
(***************************************************************************)
(* The services                                                            *)
(***************************************************************************)

FaultyGid(a) == 0                           \* the static empty_role

\* role.basic_info().player_id()
Gid(a) == req[a].role

FaultyFinished(i) == {}                     \* the tasks in state START

\* done_tasks
Finished(i) == i.tasks

\* What a query answers from a DBTaskInfo. The position is a double again.
QueryAnswer(i) == [op |-> "QUERY_TASK", error |-> "SUCCEED",
                   done |-> Finished(i), x |-> 2 * i.x]

\* PullTaskInfoFromDB fails on nil only. An error reply is parsed as if it were
\* a DBTaskInfo, with no regard to whether that works: nothing is found in it.
QueryGet(a) ==
    /\ pc[a] = "query_get"
    /\ \/ /\ Answered
          /\ taskinfo[Gid(a)] # Nil
          /\ Respond(a, QueryAnswer(taskinfo[Gid(a)]))
       \/ /\ Answered
          /\ taskinfo[Gid(a)] = Nil
          /\ Respond(a, [op |-> "QUERY_TASK", error |-> "UNKOWN_EORROR",
                         done |-> {}, x |-> 0])
       \/ /\ ErrorReply
          /\ Respond(a, QueryAnswer(EmptyInfo))
    /\ UNCHANGED <<taskinfo, roles_, req, requests, crashes, historyVars>>

\* The conversion of a double to int32 drops the fraction.
Truncated(x) == IF x >= 0 THEN x \div 2 ELSE -((-x) \div 2)

FaultyUpdated(i, r) == [tasks |-> r.tasks, x |-> Truncated(r.x)]

\* The finished tasks are added, the position is overwritten.
Updated(i, r) == [tasks |-> i.tasks \cup r.tasks, x |-> Truncated(r.x)]

\* GetTaskInfo makes an empty DBTaskInfo if none could be pulled.
UpdateGet(a) ==
    /\ pc[a] = "update_get"
    /\ \/ /\ Answered
          /\ info' = [info EXCEPT ![a] =
                Updated(IF taskinfo[Gid(a)] = Nil THEN EmptyInfo ELSE taskinfo[Gid(a)],
                        req[a])]
          /\ torn' = IF \E b \in Addrs \ {a} : pc[b] = "update_set" /\ Gid(b) = Gid(a)
                     THEN torn \cup {Gid(a)} ELSE torn
       \/ /\ ErrorReply
          /\ info' = [info EXCEPT ![a] = Updated(EmptyInfo, req[a])]
          /\ torn' = torn \cup {Gid(a)}
    /\ Goto(a, "update_set")
    /\ UNCHANGED <<taskinfo, roles_, req, rsp, requests, crashes,
                   reported, acked, missed, unsaved>>

\* PushTaskInfoToDB: its result is not looked at, the answer is SUCCEED.
UpdateSet(a) ==
    /\ pc[a] = "update_set"
    /\ \/ /\ Answered
          /\ taskinfo' = [taskinfo EXCEPT ![Gid(a)] = info[a]]
          /\ UNCHANGED unsaved
       \/ /\ ErrorReply
          /\ unsaved' = [unsaved EXCEPT ![Owner(a)] = @ \cup req[a].tasks]
          /\ UNCHANGED taskinfo
    /\ Respond(a, [op |-> "UPDATE_TASK", error |-> "SUCCEED", done |-> {}, x |-> 0])
    /\ acked' = [acked EXCEPT ![Owner(a)] = @ \cup req[a].tasks]
    /\ UNCHANGED <<roles_, req, requests, crashes, reported, missed, torn>>

-----------------------------------------------------------------------------
\* The server process dies, and somebody starts it again. (What a server that is
\* down leaves waiting does not matter here; Accounts has the start as its own step.)
Crash ==
    /\ crashes < MaxCrashes
    /\ crashes' = crashes + 1
    /\ roles_' = [a \in Addrs |-> Nil]
    /\ pc' = [a \in Addrs |-> "idle"]
    /\ info' = [a \in Addrs |-> Nil]
    /\ rsp' = [a \in Addrs |-> Nil]
    /\ UNCHANGED <<taskinfo, req, requests, errors, historyVars>>

\* No request is in hand and the clients send no more.
Quiet ==
    /\ \A a \in Addrs : pc[a] = "idle"
    /\ UNCHANGED vars

Init ==
    /\ taskinfo = [g \in Players |-> Nil]
    /\ roles_ = [a \in Addrs |-> Nil]
    /\ pc = [a \in Addrs |-> "idle"]
    /\ req = [a \in Addrs |-> [role |-> 0, tasks |-> {}, x |-> 0]]
    /\ info = [a \in Addrs |-> Nil]
    /\ rsp = [a \in Addrs |-> Nil]
    /\ requests = 0 /\ crashes = 0 /\ errors = 0
    /\ reported = [g \in Players |-> [tasks |-> {}, xs |-> {}]]
    /\ acked = [g \in Players |-> {}]
    /\ missed = {} /\ torn = {}
    /\ unsaved = [g \in Players |-> {}]

Next ==
    \/ \E a \in Addrs :
        \/ ReceiveLogin(a) \/ InjectAddRole(a) \/ ReceiveErase(a)
        \/ ReceiveQuery(a) \/ QueryGet(a)
        \/ ReceiveUpdate(a) \/ UpdateGet(a) \/ UpdateSet(a)
    \/ Crash
    \/ Quiet

Spec == Init /\ [][Next]_vars

-----------------------------------------------------------------------------
(***************************************************************************)
(* Properties                                                              *)
(***************************************************************************)

\* Types; a DBTaskInfo is on the stack between get and set of an update only.
TypeOK ==
    /\ taskinfo \in [Players -> Info \cup {Nil}]
    /\ roles_ \in [Addrs -> Players \cup {Nil}]
    /\ pc \in [Addrs -> {"idle", "inject_add_role", "query_get",
                         "update_get", "update_set"}]
    /\ req \in [Addrs -> Requests]
    /\ info \in [Addrs -> Info \cup {Nil}]
    /\ \A a \in Addrs : info[a] # Nil <=> pc[a] = "update_set"
    /\ rsp \in [Addrs -> Responses \cup {Nil}]
    /\ requests \in Nat /\ crashes \in Nat /\ errors \in Nat
    /\ reported \in [Players -> [tasks : SUBSET TaskIds, xs : SUBSET Coordinates]]
    /\ acked \in [Players -> SUBSET TaskIds] /\ unsaved \in [Players -> SUBSET TaskIds]
    /\ missed \subseteq Players /\ torn \subseteq Players

\* A position within less than one unit of one that came in for player g, or the
\* default position.
NearReported(g, x) ==
    \/ x = 0
    \/ \E y \in reported[g].xs : x - y \in -1 .. 1

\* Players do not mix: what Redis holds for a player are tasks that came in for
\* that player and, up to the lost fraction, a position that did; and the last
\* answer to a query tells nothing else (task_update_service.cpp,
\* task_query_service.cpp: the gid of the injected role is the key).
OwnProgressOnly ==
    /\ \A g \in Players :
        taskinfo[g] # Nil => /\ taskinfo[g].tasks \subseteq reported[g].tasks
                             /\ NearReported(g, 2 * taskinfo[g].x)
    /\ \A a \in Addrs :
        rsp[a] # Nil /\ rsp[a].op = "QUERY_TASK" =>
            /\ rsp[a].done \subseteq reported[req[a].role].tasks
            /\ NearReported(req[a].role, rsp[a].x)

\* The tasks that Redis has for player g.
Stored(g) == IF taskinfo[g] = Nil THEN {} ELSE taskinfo[g].tasks

\* Tasks of player g whose loss nothing below explains.
Due(g) == IF g \in missed \cup torn THEN {} ELSE acked[g] \ unsaved[g]

\* A finished task that was acknowledged stays finished, through later updates,
\* erasures, other connections of the same player, failed commands and crashes.
\* The three ways to lose one are the ones that the history variables name:
\* overlapping updates of a player, or an error reply to get, write back an
\* older map (torn); a failed set (unsaved); a request served as nobody's (missed).
AckedTasksKept == \A g \in Players : Due(g) \subseteq Stored(g)

\* A query lists all acknowledged tasks of its player, unless Redis gave it an
\* error instead of the data.
QueryComplete ==
    [][\A a \in Addrs :
         pc[a] = "query_get" /\ pc'[a] = "idle" /\ budgetVars' = budgetVars
            => Due(Gid(a)) \subseteq rsp'[a].done]_vars

\* What task_update_service.h says: an update brings the player's progress up to
\* date. So the tasks of every update answered with SUCCEED are in Redis, at
\* least for logged in players all of whose requests were given their role.
AckMeansStored ==
    \A g \in Gids \ missed : acked[g] \subseteq Stored(g)

=============================================================================
