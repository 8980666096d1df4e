# TLA+ verification of littleB and its minigame server

littleB is a small C++ server library on top of folly and wangle; `minigame_server`
is the game server built with it. Clients speak length-prefixed protobuf messages
over TCP; accounts, roles and progress live in Redis. This directory holds a model
of that system, the TLC configurations that check it on small instances and
proofs, checked by TLAPS, of what matters most for every instance.

## 1. The system

| Component | State | Operations | Talks to |
|---|---|---|---|
| `LengthFieldBasedFrameDecoder`, `LengthFieldPrepender` | the bytes queued for a connection | `decode` (called in a loop by wangle), `write` | socket, next handler |
| `OpcodeInjectHandler`, `CmdMessageSerializeHandler` | none | strip or prepend the opcode, parse or serialize protobuf | neighbours in the pipeline |
| `RoleInjectHandler` | none | LOGIN and REGISTER are served here; other commands get the role of their address | login and registration services, `RoleinfoManager` |
| `RoleinfoManager` | `roles_`: address to role, shared by all threads | `AddRole`, `GetRole`, pull from and push to Redis | Redis |
| `MinigameRegisterService` | none | get password, set password, incr gid, set role | Redis |
| `MinigameFakeLoginService` | none | get password, get role, set role on the first login | Redis, `RoleinfoManager` |
| `EraseRoleService` | none | clear the injected role, push it | `RoleinfoManager` |
| `TaskQueryService`, `TaskUpdateService`, `TaskDataManager` | a `DBTaskInfo` during a request | get; get, change, set | Redis |
| `CommandManager`, `PbReflectionManager`, `CommandDistributor`, `register_helper.h` | the registered commands (fixed before the port is bound) | register, look up, run a service and write its response | services |
| `SyncRedisWrapper` | the Redis connection and `redis_lock_` | one command at a time | Redis |
| `main` | – | seed account `hello`, register account `2`, bind the port | everything |
| Redis | `__password_<name>`, `__role_<name>`, `gid`, `__taskinfo_<gid>` | get, set, incr | – |

What is hard here:

* **Interleaving.** wangle serves connections on several IO threads. A handler is a
  sequence of Redis commands and the lock is held for one command only, so every
  handler can be overtaken between any two of its commands.
* **Partial failure and crashes.** Redis may answer a command with an error, which
  different places treat differently (as "exists", as "not registered", as task
  data, not at all). If the connection to Redis is lost, `RedisCommand` dereferences
  a null reply and the process ends. Redis keeps what was written until then.
* **Shared memory.** `roles_` is written under a mutex and read without it.
* **Stream framing.** TCP cuts the stream anywhere; frames may be too long, too
  short, incomplete; lengths are computed in wrapping 32 bit arithmetic.
* **Buffers and futures.** A frame may lie in several IOBufs while handlers look at the
  first; the answer of an asynchronous service is written by a continuation, after
  those to later requests, or never.

Correct means: a player id belongs to one account; a registration that was granted
lasts; the copies of a role agree; nobody's progress is lost or attributed to
somebody else; every request is answered; the messages that were sent are the ones
that are handled. `PROJECT.json` lists the hazards line by line with the properties
that watch them.

## 2. Modules

| Module | Models |
|---|---|
| `Accounts` | start of the server, registration, login, role injection, erasure, over Redis and `roles_`, with error replies and crashes |
| `MCAccounts` | instances of it |
| `AccountsProofs` | theorems about `Accounts`: types and player ids |
| `RegistrationProofs` | theorems about `Accounts`: what a granted registration and a login promise |
| `BookProofs` | `Accounts` implements `AccountBook` |
| `Tasks` | progress of players: query, update, task data, with the role injection they depend on |
| `MCTasks` | instances of it |
| `TasksProofs` | theorems about `Tasks` |
| `FrameDecoder` | prepender, byte stream, decoder, for any parameters |
| `ByteOrderProofs` | a length field reads back as what was written; induction and recursion over numbers |
| `FrameDecoderProofs` | theorems about `FrameDecoder` |
| `ChannelProofs` | `FrameDecoder` implements the safety part of `MessageChannel`; the server's parameters |
| `MessageChannel` | the abstract specification of what framing promises |
| `Pipeline` | opcode, serialize and role handlers, dispatcher, command registry, for a connection behind `MessageChannel` |
| `MCPipeline` | instances of it |
| `PipelineProofs` | theorems about `Pipeline` |
| `AccountBook` | the abstract specification of what registration and login promise |
| `MCFrameDecoder` | the pipeline's parameters and those of the documented examples |

**Accounts.** A process is a peer address, or `Main`, the thread of `main()`.
`pc[p]` names the next Redis command of the handler that runs for `p`; an action is
that command together with the local computation after it, up to the next command or
the response. Each action has one disjunct for each way the code distinguishes
replies. `req[p]` is the request in hand, `held[p]` the `RoleInfo` on the stack,
`rsp[p]` the last response. `InjectAddRole` is a step without a command, as `AddRole`
takes a lock of its own. `ReceiveErase` clears the role already when the request
comes in, since no command precedes that. `GetRole` reads `roles_` without the
mutex; of the outcomes of that data race the model has the two that let the
process go on, the entry is found or missed, and `Crash` stands for the third.
A failed assertion ends the process (`ServerEnds`), as a crash does: the build files set
build type debug, so that assertions are compiled in. Nothing in the repository starts it
again (the command of `docker/Dockerfile` is the server itself); `Start` is the environment's, somebody
who does. Account names are model values except the three that the code treats
specially (empty, `hello`, `2`); the seeded id 31 is the constant `SeedId`. Names and passwords go to
Redis as `c_str()`, that is up to their first NUL. All uses of a name are of that form, so `Names` are
names up to a NUL; a password is stored so and compared as a whole, so `CStr` says what of it is stored.

**Tasks.** The services copy the `TaskDataManager` and are constructed for every
request, so the cache in it is empty at the start of each; `info[a]` is its content
while a request runs. An error reply to `get` is parsed without regard to the
result: with the error texts of Redis no field of `DBTaskInfo` is found, hence
`EmptyInfo`. Doubles are integers counting halves, so that the conversion to `int32`
loses something; coordinates outside the range of `int32` are left out.

**FrameDecoder.** Bytes are digits to a small base `Radix` and `uint32_t` wraps at
`WordMod` (`uint64_t`, in which the length of a frame is computed, at its square), which
brings the limits into reach. `Power` and `Value`, the number of values of a field and the number that
its bytes amount to, are recursive functions, as the provers know no powers. `stream` is all that the peer has
written, `tail` how much has arrived and `head` how much the decoder has taken out.
The sender is the prepender where the layout has no other headers, and the format
of the decoder's documentation elsewhere. A length field of a size that the switch
lacks yields any `uint64_t`, as the variable is not initialized. The constructor's CHECKs are
`LayoutAssumption`, with their wrapping difference; offsets so large that the end of the length field
wraps, which the CHECKs let pass, are left out.
`Suits` says which parameters go with which frames; the theorems on the decoder assume it,
and `TightSuits` in `MCFrameDecoder` has TLC confirm it for the layouts of the run.

**Pipeline.** The frames come through an instance of `MessageChannel`, which is what
`FrameDecoder` is shown to implement; `OpcodeRead` takes the next one and chooses how
many of its bytes lie behind the first buffer. (folly fills a buffer and
goes on to the next when little room is left, wherever in a frame that is.)
Each handler's `read` is an action, `stage` names the next one; the writes are one
operator, `Written`, as they are nested calls. A field of a message takes two
bytes, so that a cut can go through it, and `RpcId`, field 90, comes last. A first buffer with a
single byte makes the length wrap: undefined, and the model has the process end, the
message fail to parse, or parse as empty. A thrown exception (of the cursor, a service, the
prepender), a failed assertion, or a null pointer where LOGIN or REGISTER was registered with another request type
(`mistyped`) ends the process (`phase` says why). Connections share only the registry, so one is enough.
Registrations are those of any program on the library: each command once or twice, as
synchronous or asynchronous. Promises are fulfilled on the connection's IO thread; a
service that fulfils one elsewhere also races for the socket, which is not modelled.
The client may leave: its pipeline stays and answers no longer reach it.

**AccountBook.** An account is opened as a whole, once, and keeps its password and id; a
login is told SUCCEED only with the password of an open account. `Accounts` implements it
under the mapping `BookEntry`: an account is open when password and role are both there
and no registrations of its name have raced.

Definitions named `Faulty...` are mistakes that could be made in the definition that
follows them. They are used nowhere in the models; replacing a definition by its
faulty variant makes TLC report the property that `PROJECT.json` names, which shows
that the property depends on that piece of code.

History variables (`registered`, `verified`, `raced`, `cut`; `reported`, `acked`,
`missed`, `torn`, `unsaved`; `ends`, `torn`; `executed`, `excused`) record what happened; no guard and no other variable
depends on them.

## 3. Runs

Passing:

| Run | Checks | Instance |
|---|---|---|
| `accounts` | the safety properties of `Accounts`, refinement of `AccountBook` | 2 addresses, 4 names, 2 passwords, 3 requests, 1 error reply, 1 crash (1.1 million states); one of the passwords has a NUL |
| `accounts_live` | every request ends; a server that is started again comes up | 2 addresses, 2 requests, 1 error reply, 1 crash, no symmetry (64,000 states) |
| `tasks` | progress is kept, kept apart and reported completely | 2 addresses, players 0, 1, 2, 2 tasks, 4 requests, 1 error reply, 1 crash (1.4 million states) |
| `framing` | order, integrity and promptness of messages, refinement of `MessageChannel` with liveness, recovery after overlong frames | 7 layouts, 2 messages of 0, 2, 7 or 8 bytes to the base 3, every way to cut the stream (180,000 states) |
| `pipeline` | answers belong to requests, in order, and come | every registry over 2 commands, 3 requests, every way to spread frames over buffers (890,000 states) |

Why the bounds are enough: the hazards are pairs of handlers, so two addresses show
them; three requests suffice for two racing ones and a later one that sees the
result, four in `tasks`, where a connection first has to log in; one crash or error can
hit any command, and both together give a crash during the aftermath of an error.
`SeedId = 2` lets the counter pass the seeded id. In `framing` the body lengths give
empty, short, just fitting and overlong frames. In `pipeline` three requests let an asynchronous
one come between two others; the two commands are the largest opcodes, so that the
answer to one has the opcode of the other and the other's wraps. `SYMMETRY` is used in safety runs only.

Violations, each of which is a finding of `PROJECT.json` about a line that says otherwise:

| Run | What happens |
|---|---|
| `register_race` | two registrations of one name pass the check before either has set the password; both are told SUCCEED |
| `half_registered` | a registration stops after its first write: the account cannot be used and cannot be registered again |
| `login_binding` | a second login on a connection succeeds but the first role stays bound to the address |
| `lost_update` | two updates of one player overlap, the acknowledged tasks of one are gone |
| `overlong_frame` | an overlong frame that has not arrived completely is dropped in part; its rest is taken for frames |
| `segmented_frame` | the frame of a request goes on in a second buffer; the service runs without its RpcId or payload |
| `three_byte_field` | a length field of three bytes, as documented, is never read |

The passing properties say what holds in spite of these. `RoleCopiesAgree`,
`RegistrationLasts`, `RegisteredOnce` and `ReturningSticks` exempt names in `raced`,
those for which two registrations really were past the check at the same time, and
`AckedTasksKept` and `QueryComplete` exempt players in `torn` or `missed`, tasks in `unsaved` and
queries that got an error. So these are real losses that the properties do not count: a push that Redis
refuses is answered SUCCEED, an error reply is taken for empty task info, and a request whose role `GetRole` misses is
served for player 0. They say that there is no other way to lose a task. `PlayerIdsDistinct` exempts
the seeded id, which is drawn again by the 31st registration; no line of the code says that it
is not, so there is no run for that. `InSync` exempts what follows an overlong frame
that was dropped in part. `AnsweredAsSent` holds even for segmented frames: since `RpcId` is
encoded last, whoever gets an answer with his number knows that all of his request
was read. `IntactRequestAnswered` names the only ways for a request to go without answer: its
frame lay in several buffers, its future failed, the client left or the process ended
(a short frame, an answer too long, a cut through an opcode, a service that threw, a command of the wrong type). Any other way to lose a registration,
progress or an answer would be reported.

Fairness. `Accounts`: each thread goes on with its request (`Fairness`, `WF` on the steps of a
process): the handlers are synchronous and the lock is released after each command. This
assumes that Redis replies to every command, with data or an error, or closes the connection, which is a crash.
The code does not enforce it: the only timeout is that for connecting
(`sync_redis_wrapper.cpp:8`), and a Redis that stays silent blocks `redisCommand`, and under `redis_lock_`
every thread, for as long as it does. A second assumption on the environment is `Operated`, `WF` on `Start`: a server that is down is started
again. Both are needed for `accounts_live` only. Clients and crashes are not fair. `FrameDecoder`: TCP delivers what was written and
`read` runs until `decode` returns false. `Pipeline`: the event loop goes on, and
asynchronous services fulfil their promises, with a value or an exception.

Deadlock is checked in all runs. A `Quiet` step stands for waiting when no request
is in hand, so a handler that cannot go on would be reported.

## 4. Proofs

TLAPS checks the proofs for any sets of names, passwords, addresses, players, tasks and
commands and any bounds. They use what the modules assume about their constants and
nothing else: in `Accounts` the three special names differ and are names and `Main` is
no address, and what `CStr` leaves of a password is a password without NUL; in `Tasks` player ids are positive and coordinates whole numbers of halves; in
`Pipeline` opcodes are below `OpcodeMod` and requests are numbered from 1; in `FrameDecoder`
`Radix` is at least 2, `WordMod` positive, and the layouts pass the constructor's CHECKs without a wrapped end offset; in the
first three `Nil` is none of the values in whose place it stands. Every inductive invariant below
was also run through TLC, on the instance of the run for its module, before it was proved.

**`AccountsProofs`**

* `TypeCorrect`: `Spec => []TypeOK`. `TypeOK` is inductive. It includes that a
  handler has a role on its stack exactly at the labels where the code uses one. The
  proof separates control (`pc`, `held`, `rsp`) from data; lemmas `ControlGoto`,
  `ControlMove`, `ControlRespond` and `EndTyped` treat each way of moving on once.
* `IdsDistinct`: `Spec => []PlayerIdsDistinct`, and `StoredUnderOwnName`:
  `Spec => []RoleUnderOwnName`, from the inductive invariant

      IdInv == TypeOK /\ SeedTaken /\ RolesNamed /\ IdsDrawn /\ PlayerIdsDistinct

  `PlayerIdsDistinct` alone is not inductive. `IdsDrawn` says that ids in use are at
  most `gid` and that only the empty role has id 0, so an id that is drawn is new;
  `RolesNamed` says that a role, on a stack or in Redis, is that of the account at
  hand, so a push never moves an id to another account; `SeedTaken` says that the
  seeded account cannot be registered, since its password is set before anything
  else of a started server runs, so its fixed id stays with its name. Lemma `RoleOrigin` does the case analysis over the
  actions once: every role after a step is a copy of one before it, the empty one, the
  seeded one, or the one just drawn.

**`RegistrationProofs`** proves `RegistrationLasts`, `RegisteredOnce`, `RoleCopiesAgree`,
`HalfRegisteredExplained`, `ReturningMeansVerified` (theorems `RegistrationsLast`,
`GrantedOnce`, `CopiesAgree`, `HalfRegistrations`, `ReturningVerified`) and the action
property `ReturningSticks` (`ReturningStays`). None of them is inductive; all follow from

    RegInv == IdInv /\ InHand /\ PasswordFirst /\ CreatorAlone /\ LoggingIn /\ Unfinished
                    /\ (the five invariants)

The argument is the order of a registration's commands. The password is stored before the
role and is never deleted, so a name without password has no role, no copy of one and no
grant (`PasswordFirst`). A registration goes on only where it found no password; if no
other one of the name is past that check, it finds nothing of the account but what
it has written itself (`CreatorAlone`), so what it is granted is the only grant and nothing
overwrites it. A login that pushes a role back has a copy with the same id and sets the mark
of a returning visitor itself (`LoggingIn`). What a registration that stops halfway leaves
is put down in `cut` (`Unfinished`). Lemma `AccountSteps` sorts the steps of all handlers by
what they write, so that each part of the invariant is shown for eight kinds of steps.

**`BookProofs`** proves `BookImplemented`: `Spec => ImplementsBook`, the refinement of
`AccountBook`. The role's `set` is the step that opens an account (`RegistrationOpens`, and
`SeedingOpens` for the seeded one); by `CreatorAlone` it is open to nobody before, and by
`RegistrationLasts` and `RoleCopiesAgree` nothing changes its entry later. The answer to a login is
the step that admits a client (`LoginAdmits`, with `LoggingIn`: the password that was
compared is still the account's). Every other step of every handler leaves book, grants and
admitted clients alone, or takes a client away.

**`TasksProofs`**

* `TypeCorrect`: `Spec => []TypeOK`, inductive by itself.
* `PlayersApart`: `Spec => []OwnProgressOnly`, with `UpdatesReported`: an update in hand and
  the `DBTaskInfo` on its stack are about what came in for the player under whose key they
  will be written. `TruncatedNear` is the arithmetic of the conversion from double to int32.
* `AckedStay`: `Spec => []AckedTasksKept`, with `ServedAsOwner` (a request at work is its
  owner's, or the owner is in `missed`), `OverlapsTorn` (two updates of a player between get
  and set: the player is in `torn`) and `WritesAll` (otherwise an update is about to write
  all that is stored, and what it brings).
* `QueriesComplete`: `Spec => QueryComplete`, an action property, from the same invariant.

**`PipelineProofs`**

* `TypeCorrect`: `Spec => []TypeOK`, together with `Queue`: frames come out of the decoder in
  the order of sending, and the number of a request is its `RpcId`.
* `Dispatchable`: `Spec => []CommandsDispatchable`, with `Registry`: the commands that the
  serialize handler knows are those with a service, and no command has two.
* `AnsweredRight` and `AnsweredInOrder`: `Spec => []AnsweredAsSent` and `Spec =>
  []AnswersInOrder`. `InHand` and `Waiting` say that a request in hand or pending that still
  has its number has lost nothing (lemma `Parsing`, because `RpcId` comes last), that pending
  ones are asynchronous, different and unanswered, and `Answers` that no answer has a number
  the thread has not come to; so an answer by the thread has the largest number so far.

**`ByteOrderProofs`** proves `ReadsWhatIsWritten`: `Value(Written(v, n, order), order) = v` for
every `n` and every `v` that fits into `n` bytes. The library's induction theorems take an
operator, which the provers cannot instantiate; `Induction` and `Recursion` state the
same with sets and functions, from `WFMin`: a set of numbers with 0 and all successors has
every number, and a function with given first value and step exists. So `Power` and
`Value` obey their recurrences, and by induction the first `i` bytes amount to
`v \div Power[n - i]` (`QuotientTwice`: dividing twice is dividing by the product).

**`FrameDecoderProofs`**

* `TypeCorrect`: `Spec => []TypeOK`, for all parameters that pass the constructor's CHECKs,
  those with a field that is never read included (but for a wrapped end offset).
* `DecoderInSync`, `DeliveredInOrder`, `DeliveredAtOnce`: `Spec => []InSync`, `Spec =>
  []MessagesInOrder` and `Spec => []NothingLeftBehind`, if all layouts suit their frames. `Suits`
  is a hypothesis of the theorems and no assumption of the module, since the
  CHECKs do not ensure it: `three_byte_field` shows what happens without it. The invariant is

      Inv == TypeOK /\ StreamOfFrames /\ InSync /\ TornLate /\ NothingWaits

  `StreamOfFrames` says that the stream is the frames of `sent` one after the other, with `ends`
  the positions between them. From it lemma `FieldRead` derives that a decoder which stands between two
  frames, with a header in its queue, computes the size of just the next frame; here
  `ReadsWhatIsWritten` and the wrapping sum of `FrameLength` come in. So `decode()` does one of three things there (`DecodeCases`):
  it drops a frame that does not fit, waits, or passes the content on. `TornLate` says
  that a decoder loses its place only at a frame that does not fit, when all messages ahead of the first such
  frame are out already; `NothingWaits` that between two calls of `read()` the next frame is
  incomplete. `InSync` counts frames by cardinalities, which `PassedNext`, `RankNext` and
  `LeadPassed` relate to positions.

**`ChannelProofs`**

* `FramingIsChannel`: `Spec => Channel!Safety`, under the same hypothesis and from the same invariant. `Send`
  sends on the channel if no overlong message is ahead (`SendStep`), `Deliver` receives the next
  message while the decoder is in sync, and what it passes on after that is not seen (`DecodeStep`).
* `LosslessWithinLimit`: if no message is too long, what has come out is what was sent up to what is still on its
  way, and there is no exception. `ServerLossless` applies it to the parameters of the
  server's pipeline: with `maxFrameLength` 65536 nothing is lost of messages of up to 65534
  bytes. The prepender's length field would allow one byte more.

Only model-checked, and why:

* liveness (`accounts_live`, `IntactRequestAnswered`, and that the messages of `ImplementsChannel` arrive in the end), as
  fairness and `ENABLED` are out of the prover's reach;
* the violations, which are single executions.

## 5. Not modelled

* `RemoveRole`, `RemoveTaskInfo`, `PushRoleToDB(address)`: no caller.
* A Redis that accepts a command and never replies (see Fairness above).
* Connection set-up and tear-down: `transportInactive`, `readEOF`, `readException` and `close` do nothing
  but log and forward, so for `roles_` a connection is its address, and a later
  connection from the same address is a further request of the same process.
* `incr gid` beyond the range of the `int` it is assigned to.
* A prepender with a `lengthAdjustment` (the server's has none), `SyncServiceDecorator` (no
  caller), what an asynchronous service does with its references after it has returned.
* `progress.main_task_id`: written once, never read. `LoginRsp.gid`: never set.
* Logging, including the `snprintf` of each Redis command into a static buffer of
  100 bytes, which is written under the lock.
* Tests, build files, scripts.

## 6. Plan

Every safety invariant, action property and the safety of both refinements are proved. Left to TLC is
liveness. Worth adding if the code changes: a prepender with a `lengthAdjustment`, and the
life time of what an asynchronous service refers to once a service that completes later exists.
