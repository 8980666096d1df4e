------------------------------ MODULE Pipeline ------------------------------
(***************************************************************************)
(* The handlers behind the frame decoder: OpcodeInjectHandler,             *)
(* CmdMessageSerializeHandler, RoleInjectHandler as far as it answers      *)
(* requests, CommandDistributor, and the registry that they look commands  *)
(* up in.                                                                  *)
(*                                                                         *)
(* What comes out of the decoder is what MessageChannel promises, except   *)
(* that a frame may lie in several IOBufs: the socket fills one buffer     *)
(* after the other, and frames do not end where buffers do.                *)
(*                                                                         *)
(* Connections share only the registry, which is fixed before the port is  *)
(* bound, so one connection is modelled.  All of its handlers run on its   *)
(* IO thread, and so do the promises that asynchronous services fulfil.    *)
(* What the services do is the subject of Accounts and Tasks; here they    *)
(* take a request and answer with its RpcId.                               *)
(***************************************************************************)
EXTENDS Integers, Sequences, FiniteSets

CONSTANTS
    Cmds,           \* opcodes
    LoginCmds,      \* those of LOGIN and REGISTER
    NoOpcode,       \* a frame too short to have an opcode
    Payloads,       \* what requests say apart from their RpcId
    Default,        \* a payload whose fields have their default values
    OpcodeMod,      \* the number of values of an opcode, a uint16_t
    Nil,            \* no message
    MaxRequests     \* bound: requests that the client sends

ASSUME OpcodesAssumption ==
    /\ OpcodeMod \in Nat \ {0}
    /\ LoginCmds \subseteq Cmds /\ Cmds \subseteq 0 .. OpcodeMod - 1
    /\ NoOpcode \notin Cmds

ASSUME MessagesAssumption == Default \notin Payloads /\ MaxRequests \in Nat

OPCODE_SIZE == 2

\* A request in protobuf. Clients number their requests from 1 on.
Messages == [payload : Payloads \cup {Default}, rpcid : 0 .. MaxRequests]

ASSUME NilAssumption == Nil \notin Messages

EmptyMessage == [payload |-> Default, rpcid |-> 0]

Frames == [cmd : Cmds \cup {NoOpcode}, message : Messages]

VARIABLES
    sync_services_, async_services_,    \* CommandManager
    reflection_data_,                   \* PbReflectionManager
    mistyped,       \* commands it has under another type than their handler's
    phase,          \* "starting", "serving", or what has ended the process
    sent, received, \* the frames on their way through socket and decoder
    stage,          \* the handler that is next to read, or "idle"
    work,           \* the request in its hands
    pending,        \* requests whose promise is not fulfilled yet
    peerOpen,       \* whether the client still listens
    out,            \* answers that have reached it
    \* history, read by the properties only
    executed,       \* what services were asked to do
    excused         \* requests that lay in several buffers or whose promise failed

registryVars == <<sync_services_, async_services_, reflection_data_, mistyped>>
inputVars == <<sent, received, peerOpen>>
historyVars == <<executed, excused>>
vars == <<registryVars, phase, inputVars, stage, work, pending, out, historyVars>>

Transport == INSTANCE MessageChannel WITH Messages <- Frames

(***************************************************************************)
(* Definitions named Faulty... are plausible mistakes in the code that the *)
(* definition behind them models. No action uses them.                     *)
(***************************************************************************)

\* A failed assertion, or an exception that leaves the socket's read callback.
End(reason) ==
    /\ phase' = reason
    /\ stage' = "idle" /\ work' = Nil
    /\ UNCHANGED <<pending, out>>

-----------------------------------------------------------------------------
(***************************************************************************)
(* RegisterSyncCommand and RegisterAsyncCommand, called before bind        *)
(***************************************************************************)

IsSyncCmd(cmd) == cmd \in sync_services_
IsAsyncCmd(cmd) == cmd \in async_services_
IsValidCmd(cmd) == IsSyncCmd(cmd) \/ IsAsyncCmd(cmd)

FaultyAnswerOpcode(cmd) == cmd + 1          \* as if it were a uint32_t

\* The answer to command n has opcode n + 1.
AnswerOpcode(cmd) == (cmd + 1) % OpcodeMod

FaultyReflections(cmd) ==                   \* one entry for each message type
    reflection_data_ \cup {cmd, AnswerOpcode(cmd)}

\* AddReflection
Reflections(cmd) == reflection_data_ \cup {cmd}

RegisterSyncCmd(cmd) ==
    sync_services_' = sync_services_ \cup {cmd} /\ UNCHANGED async_services_

RegisterAsyncCmd(cmd) ==
    async_services_' = async_services_ \cup {cmd} /\ UNCHANGED sync_services_

\* The types that LOGIN and REGISTER are registered with are up to the program.
Mistypings(cmd) == {mistyped, mistyped \cup ({cmd} \cap LoginCmds)}

\* Both assert that the command is new.
RegisterCommand(cmd) ==
    /\ phase = "starting"
    /\ \/ /\ ~IsValidCmd(cmd)
          /\ RegisterSyncCmd(cmd) \/ RegisterAsyncCmd(cmd)
          /\ reflection_data_' = Reflections(cmd)
          /\ mistyped' \in Mistypings(cmd)
          /\ UNCHANGED <<phase, stage, work, pending, out>>
       \/ /\ IsValidCmd(cmd)
          /\ End("duplicate_command")
          /\ UNCHANGED registryVars
    /\ UNCHANGED <<inputVars, historyVars>>

Bind ==
    /\ phase = "starting"
    /\ phase' = "serving"
    /\ UNCHANGED <<registryVars, inputVars, stage, work, pending, out, historyVars>>

-----------------------------------------------------------------------------
(***************************************************************************)
(* The way up: read of each handler                                        *)
(***************************************************************************)

\* A field that has not its default value takes two bytes, and RpcId, the one
\* with the largest number, comes last.
PayloadSize(m) == IF m.payload = Default THEN 0 ELSE 2
MessageSize(m) == PayloadSize(m) + (IF m.rpcid = 0 THEN 0 ELSE 2)

\* OpcodeInjectHandler::read. The cursor walks over all buffers, and throws if
\* they hold less than an opcode; trimStart shortens the first buffer only.
OpcodeRead ==
    /\ phase = "serving" /\ stage = "idle"
    /\ Transport!Receive
    /\ LET index == Len(received')
           frame == received'[index]
           size  == OPCODE_SIZE + MessageSize(frame.message)
       IN  \/ /\ frame.cmd = NoOpcode
              /\ End("short_frame")
              /\ UNCHANGED excused
           \/ /\ frame.cmd # NoOpcode
              /\ \E rest \in 0 .. size - 1 :   \* bytes behind the first buffer
                  /\ work' = [cmd |-> frame.cmd, index |-> index, message |-> frame.message,
                              left |-> size - rest - OPCODE_SIZE]
                  /\ excused' = IF rest = 0 THEN excused ELSE excused \cup {index}
              /\ stage' = "serialize"
              /\ UNCHANGED <<phase, pending, out>>
    /\ UNCHANGED <<registryVars, peerOpen, executed>>

FaultyParsed(m, n) ==                       \* RpcId is the field with number 1
    IF n % 2 # 0 THEN {Nil}
    ELSE {[payload |-> IF n >= MessageSize(m) THEN m.payload ELSE Default,
           rpcid   |-> IF n >= 2 THEN m.rpcid ELSE 0]}

\* ParseFromArray of n bytes of message m: Nil if they end within a field. A
\* negative n is a length that has wrapped, and undefined: without consequences
\* the buffer reads as empty or as broken.
Parsed(m, n) ==
    IF n < 0 THEN {EmptyMessage, Nil}
    ELSE IF n % 2 # 0 THEN {Nil}
    ELSE {[payload |-> IF n >= PayloadSize(m) THEN m.payload ELSE Default,
           rpcid   |-> IF n >= MessageSize(m) THEN m.rpcid ELSE 0]}

FaultyReflected(cmd) == cmd \in sync_services_

Reflected(cmd) == cmd \in reflection_data_

\* CmdMessageSerializeHandler::read. An unknown command is dropped; so is what
\* cannot be parsed, as nobody reacts to the readEOF that it is turned into.
SerializeRead ==
    /\ stage = "serialize"
    /\ \/ /\ ~Reflected(work.cmd)
          /\ stage' = "idle" /\ work' = Nil
          /\ UNCHANGED <<phase, pending, out>>
       \/ /\ Reflected(work.cmd)
          /\ \E m \in Parsed(work.message, work.left) :
              /\ stage' = IF m = Nil THEN "idle" ELSE "inject"
              /\ work' = IF m = Nil THEN Nil
                         ELSE [cmd |-> work.cmd, index |-> work.index, message |-> m]
          /\ UNCHANGED <<phase, pending, out>>
       \/ Reflected(work.cmd) /\ work.left < 0 /\ End("opcode_cut")
    /\ UNCHANGED <<registryVars, inputVars, historyVars>>

\* The way down: CmdMessageSerializeHandler::write, OpcodeInjectHandler::write
\* and LengthFieldPrepender::write, unless the answer is too long.
Written(w) ==
    out' = IF peerOpen
           THEN Append(out, [opcode |-> AnswerOpcode(w.cmd), rpcid |-> w.message.rpcid])
           ELSE out

Run == executed' = executed \cup {work}

\* RoleInjectHandler::read: LOGIN and REGISTER are answered here, whatever is
\* registered for them, and if that has another type, dynamic_pointer_cast gives
\* a null pointer to work on. Other requests go on with a role.
InjectRead ==
    /\ stage = "inject"
    /\ \/ /\ work.cmd \in LoginCmds \ mistyped
          /\ Run
          /\ Written(work)
          /\ stage' = "idle" /\ work' = Nil
          /\ UNCHANGED <<phase, pending>>
       \/ /\ work.cmd \in LoginCmds \cap mistyped
          /\ End("wrong_type")
          /\ UNCHANGED executed
       \/ /\ work.cmd \notin LoginCmds
          /\ stage' = "dispatch"
          /\ UNCHANGED <<phase, work, pending, out, executed>>
    /\ UNCHANGED <<registryVars, inputVars, excused>>

FaultyRunsNow(cmd) == FALSE                 \* every service is run as a future

\* CommandDistributor asks for a synchronous service first.
RunsNow(cmd) == IsSyncCmd(cmd)

\* CommandDistributor::read. A service may throw instead of returning a response
\* or a future, and the prepender does if the answer, with opcode, is too long for
\* the length field; nothing catches either on the way back up.
DispatchRead ==
    /\ stage = "dispatch"
    /\ \/ /\ ~IsValidCmd(work.cmd)
          /\ End("invalid_command")
          /\ UNCHANGED executed
       \/ /\ IsValidCmd(work.cmd) /\ RunsNow(work.cmd)
          /\ Run
          /\ \/ /\ Written(work)
                /\ stage' = "idle" /\ work' = Nil
                /\ UNCHANGED <<phase, pending>>
             \/ End("long_answer")
       \/ /\ IsValidCmd(work.cmd) /\ ~RunsNow(work.cmd)
          /\ Run
          /\ pending' = pending \cup {work}
          /\ stage' = "idle" /\ work' = Nil
          /\ UNCHANGED <<phase, out>>
       \/ /\ IsValidCmd(work.cmd)
          /\ Run
          /\ End("service_threw")
    /\ UNCHANGED <<registryVars, inputVars, excused>>

\* The continuation of an asynchronous service. An exception, the service's or
\* the prepender's, stays in a future that nobody looks at.
Continue(w) ==
    /\ phase = "serving" /\ stage = "idle"
    /\ pending' = pending \ {w}
    /\ \/ Written(w) /\ UNCHANGED excused
       \/ excused' = excused \cup {w.index} /\ UNCHANGED out
    /\ UNCHANGED <<registryVars, phase, inputVars, stage, work, executed>>

-----------------------------------------------------------------------------
(***************************************************************************)
(* The client                                                              *)
(***************************************************************************)
ClientSends ==
    /\ phase = "serving" /\ peerOpen
    /\ Len(sent) < MaxRequests
    /\ Transport!Send
    /\ sent'[Len(sent')].message.rpcid = Len(sent')
    /\ UNCHANGED <<registryVars, phase, peerOpen, stage, work, pending, out, historyVars>>

\* The handlers pass readEOF on to the end of the pipeline. Nobody closes it: it
\* stays, with its unfinished requests.
ClientCloses ==
    /\ phase = "serving" /\ peerOpen
    /\ peerOpen' = FALSE
    /\ UNCHANGED <<registryVars, phase, sent, received, stage, work, pending, out,
                   historyVars>>

Init ==
    /\ sync_services_ = {} /\ async_services_ = {} /\ reflection_data_ = {}
    /\ mistyped = {}
    /\ phase = "starting"
    /\ Transport!Init
    /\ stage = "idle" /\ work = Nil
    /\ pending = {}
    /\ peerOpen = TRUE /\ out = <<>>
    /\ executed = {} /\ excused = {}

Handle == OpcodeRead \/ SerializeRead \/ InjectRead \/ DispatchRead

\* The process has ended, or waits for the client.
Quiet ==
    /\ \/ phase \notin {"starting", "serving"}
       \/ stage = "idle" /\ pending = {} /\ received = sent
    /\ UNCHANGED vars

Next ==
    \/ \E cmd \in Cmds : RegisterCommand(cmd)
    \/ Bind
    \/ ClientSends
    \/ ClientCloses
    \/ Handle
    \/ \E w \in pending : Continue(w)
    \/ Quiet

Spec == Init /\ [][Next]_vars

\* The event loop goes on, TCP delivers, and every service fulfils its promise.
FairSpec ==
    /\ Spec
    /\ WF_vars(Handle)
    /\ \A i \in 1 .. MaxRequests : WF_vars(\E w \in pending : w.index = i /\ Continue(w))

-----------------------------------------------------------------------------
(***************************************************************************)
(* Properties                                                              *)
(***************************************************************************)

Endings == {"duplicate_command", "short_frame", "opcode_cut", "invalid_command",
            "long_answer", "wrong_type", "service_threw"}

Work == [cmd : Cmds, index : 1 .. MaxRequests, message : Messages]

TypeOK ==
    /\ sync_services_ \subseteq Cmds /\ async_services_ \subseteq Cmds
    /\ reflection_data_ \subseteq Cmds /\ mistyped \subseteq LoginCmds
    /\ phase \in {"starting", "serving"} \cup Endings
    /\ sent \in Seq(Frames) /\ received \in Seq(Frames)
    /\ stage \in {"idle", "serialize", "inject", "dispatch"}
    /\ stage = "idle" => work = Nil
    /\ stage = "serialize" => /\ work \in [cmd : Cmds, index : 1 .. MaxRequests,
                                           message : Messages, left : Int]
                              /\ work.left \in -1 .. MessageSize(work.message)
    /\ stage \in {"inject", "dispatch"} => work \in Work
    /\ pending \subseteq Work
    /\ peerOpen \in BOOLEAN
    /\ out \in Seq([opcode : 0 .. OpcodeMod - 1, rpcid : 0 .. MaxRequests])
    /\ executed \subseteq Work /\ excused \subseteq 1 .. MaxRequests

\* The assertions about commands hold while the server is up: what the serialize
\* handler lets through, looking into one registry, the dispatcher finds in the
\* other, as a service of exactly one kind.
CommandsDispatchable ==
    /\ phase # "invalid_command"
    /\ stage \in {"inject", "dispatch"} =>
            IsSyncCmd(work.cmd) # IsAsyncCmd(work.cmd)

\* An answer that carries the number of a request is the answer to it: it has
\* the opcode that the client expects, the service was given the request just as
\* it was sent, however its frame was spread over buffers, and no other answer
\* carries that number. (RpcId comes last in the frame, so it is not read from a
\* buffer that lacks anything else.)
AnsweredAsSent ==
    \A k \in 1 .. Len(out) :
        out[k].rpcid # 0 =>
            LET i == out[k].rpcid
            IN  /\ i <= Len(sent) /\ out[k].opcode = (sent[i].cmd + 1) % OpcodeMod
                /\ [cmd |-> sent[i].cmd, index |-> i, message |-> sent[i].message]
                        \in executed
                /\ \A j \in 1 .. Len(out) : out[j].rpcid = i => j = k

\* Answers from the IO thread keep the order of the requests, although those of
\* asynchronous services come in between.
AnswersInOrder ==
    LET FromThread(r) == r # 0 /\ sent[r].cmd \notin async_services_
    IN  \A j, k \in 1 .. Len(out) :
            j < k /\ FromThread(out[j].rpcid) /\ FromThread(out[k].rpcid) =>
                out[j].rpcid < out[k].rpcid

\* Every request for a registered command is answered in the end, if its frame
\* lies in one buffer, its service does not fail, and neither the client nor the
\* process goes away; in particular what became of other requests does not matter.
IntactRequestAnswered ==
    \A i \in 1 .. MaxRequests :
        (i <= Len(sent) /\ IsValidCmd(sent[i].cmd)) ~>
            (\/ \E k \in 1 .. Len(out) : out[k].rpcid = i
             \/ i \in excused
             \/ phase # "serving" \/ ~peerOpen)

\* What cmd_message_serialize_handler.cpp says of read: it reads the data from
\* the IOBuf into the message. So services are given what was sent.
ExecutedAsSent ==
    \A w \in executed :
        w.cmd = sent[w.index].cmd /\ w.message = sent[w.index].message

=============================================================================
