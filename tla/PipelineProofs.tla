--------------------------- MODULE PipelineProofs ---------------------------
(***************************************************************************)
(* Theorems about Pipeline, for every registry and set of opcodes, and any *)
(* number of requests.                                                     *)
(***************************************************************************)
EXTENDS Pipeline, SequenceTheorems, TLAPS

(***************************************************************************)
(* The inductive invariant                                                 *)
(***************************************************************************)

\* The decoder hands over the requests in the order of sending, and their number
\* is their RpcId.
Queue ==
    /\ Len(received) <= Len(sent) /\ Len(sent) <= MaxRequests
    /\ \A i \in 1 .. Len(received) : received[i] = sent[i]
    /\ \A i \in 1 .. Len(sent) : sent[i].message.rpcid = i

\* Both registries know the same commands, and each has one kind of service.
Registry ==
    /\ reflection_data_ = sync_services_ \cup async_services_
    /\ sync_services_ \cap async_services_ = {}

\* Request w was taken from the frame of its index. If it has kept its RpcId, it
\* has lost nothing.
AsSent(w) ==
    /\ w.cmd = sent[w.index].cmd
    /\ w.message.rpcid # 0 => w.message = sent[w.index].message

\* The thread is at the request that was received last.
InHand ==
    stage # "idle" =>
        /\ work.index = Len(received) /\ AsSent(work)
        /\ stage = "serialize" => work.message = sent[work.index].message

\* The requests that it is done with.
Done == IF stage = "idle" THEN Len(received) ELSE Len(received) - 1

\* Only requests to asynchronous services wait, each once and unanswered.
Waiting ==
    \A w \in pending :
        /\ AsSent(w) /\ w.index <= Done
        /\ w \in executed /\ w.cmd \in async_services_
        /\ \A v \in pending : v.index = w.index => v = w
        /\ \A k \in 1 .. Len(out) : out[k].rpcid # 0 => out[k].rpcid # w.message.rpcid

\* Nothing is answered that the thread has not come to.
Answers == \A k \in 1 .. Len(out) : out[k].rpcid <= Done

\* Types and the order of the requests belong together: a request's index is its
\* place in what was received.
TypeInv == TypeOK /\ Queue

\* What is behind the serialize handler is in its registry.
CommandInv ==
    /\ TypeInv /\ Registry /\ CommandsDispatchable
    /\ stage \in {"inject", "dispatch"} => work.cmd \in reflection_data_

PipeInv ==
    /\ CommandInv /\ InHand /\ Waiting /\ Answers
    /\ AnsweredAsSent /\ AnswersInOrder

-----------------------------------------------------------------------------
(***************************************************************************)
(* Messages, and the types of all variables                                *)
(***************************************************************************)

\* A message is at least as long as its payload.
LEMMA Sizes ==
    \A m : PayloadSize(m) \in 0 .. 2 /\ MessageSize(m) \in PayloadSize(m) .. 4
BY DEF PayloadSize, MessageSize

\* RpcId comes last: what still has it after a cut was not cut at all.
LEMMA Parsing ==
    ASSUME NEW m \in Messages, NEW n \in Int, n <= MessageSize(m),
           NEW p \in Parsed(m, n), p # Nil
    PROVE  p \in Messages /\ (p.rpcid # 0 => p = m)
<1>1. EmptyMessage \in Messages /\ EmptyMessage.rpcid = 0
  BY MessagesAssumption DEF EmptyMessage, Messages
<1>2. CASE p = EmptyMessage
  BY <1>1, <1>2
<1>3. CASE p = [payload |-> IF n >= PayloadSize(m) THEN m.payload ELSE Default,
                rpcid   |-> IF n >= MessageSize(m) THEN m.rpcid ELSE 0]
  <2>1. p \in Messages
    BY <1>3, MessagesAssumption DEF Messages
  <2>2. ASSUME p.rpcid # 0 PROVE p = m
    <3>1. n >= MessageSize(m)
      BY <1>3, <2>2
    <3>2. n >= PayloadSize(m)
      BY <3>1, Sizes
    <3>3. QED BY <1>3, <3>1, <3>2 DEF Messages
  <2>3. QED BY <2>1, <2>2
<1>4. QED BY <1>2, <1>3 DEF Parsed

\* An answer is appended, unless the client has gone.
LEMMA WrittenOut ==
    ASSUME TypeOK, NEW w \in Work, Written(w)
    PROVE  /\ out' \in Seq([opcode : 0 .. OpcodeMod - 1, rpcid : 0 .. MaxRequests])
           /\ \/ UNCHANGED out
              \/ /\ Len(out') = Len(out) + 1
                 /\ out'[Len(out')].opcode = AnswerOpcode(w.cmd)
                 /\ out'[Len(out')].rpcid = w.message.rpcid
                 /\ \A k \in 1 .. Len(out) : out'[k] = out[k]
<1>1. \A cmd \in Cmds : AnswerOpcode(cmd) \in 0 .. OpcodeMod - 1
  BY OpcodesAssumption DEF AnswerOpcode
<1>2. w.cmd \in Cmds /\ w.message.rpcid \in 0 .. MaxRequests
  BY DEF Work, Messages
<1>3. [opcode |-> AnswerOpcode(w.cmd), rpcid |-> w.message.rpcid]
         \in [opcode : 0 .. OpcodeMod - 1, rpcid : 0 .. MaxRequests]
  BY <1>1, <1>2
<1>4. out \in Seq([opcode : 0 .. OpcodeMod - 1, rpcid : 0 .. MaxRequests])
  BY DEF TypeOK
<1>5. CASE ~peerOpen
  BY <1>4, <1>5 DEF Written
<1>6. CASE peerOpen
  BY <1>3, <1>4, <1>6 DEF Written
<1>7. QED BY <1>5, <1>6

\* The next frame comes out of the decoder.
LEMMA ReceiveQueue ==
    ASSUME TypeInv, Transport!Receive
    PROVE  /\ received' \in Seq(Frames) /\ UNCHANGED sent /\ Queue'
           /\ Len(received') = Len(received) + 1
           /\ Len(received') \in 1 .. MaxRequests /\ Len(received') <= Len(sent)
           /\ received'[Len(received')] = sent[Len(received')]
           /\ received'[Len(received')] \in Frames
<1>1. /\ Len(received) < Len(sent) /\ sent' = sent
      /\ received' = Append(received, sent[Len(received) + 1])
  BY DEF Transport!Receive
<1>2. /\ sent \in Seq(Frames) /\ received \in Seq(Frames)
      /\ Len(received) \in Nat /\ Len(sent) \in Nat
  BY DEF TypeInv, TypeOK
<1>3. /\ Len(sent) <= MaxRequests /\ \A i \in 1 .. Len(received) : received[i] = sent[i]
      /\ \A i \in 1 .. Len(sent) : sent[i].message.rpcid = i
  BY DEF TypeInv, Queue
<1>4. sent[Len(received) + 1] \in Frames
  BY <1>1, <1>2
<1>5. /\ received' \in Seq(Frames) /\ Len(received') = Len(received) + 1
      /\ received'[Len(received) + 1] = sent[Len(received) + 1]
      /\ \A i \in 1 .. Len(received) : received'[i] = received[i]
  BY <1>1, <1>2, <1>4
<1>6. Len(received') \in 1 .. MaxRequests /\ Len(received') <= Len(sent)
  BY <1>1, <1>2, <1>3, <1>5, MessagesAssumption
<1>7. ASSUME NEW i \in 1 .. Len(received') PROVE received'[i] = sent[i]
  <2>1. i = Len(received) + 1 \/ i \in 1 .. Len(received)
    BY <1>2, <1>5
  <2>2. QED BY <1>3, <1>5, <2>1
<1>8. Queue'
  BY <1>1, <1>3, <1>6, <1>7 DEF Queue
<1>9. QED BY <1>1, <1>4, <1>5, <1>6, <1>8

\* The client sends its next request.
LEMMA SendQueue ==
    ASSUME TypeInv, ClientSends
    PROVE  /\ sent' \in Seq(Frames) /\ UNCHANGED received /\ Queue'
           /\ Len(sent') = Len(sent) + 1
           /\ \A i \in 1 .. Len(sent) : sent'[i] = sent[i]
<1>1. PICK m \in Frames : sent' = Append(sent, m) /\ UNCHANGED received
  BY DEF ClientSends, Transport!Send
<1>2. sent \in Seq(Frames) /\ Len(sent) \in Nat /\ Len(received) \in Nat
  BY DEF TypeInv, TypeOK
<1>3. /\ Len(received) <= Len(sent) /\ \A i \in 1 .. Len(received) : received[i] = sent[i]
      /\ \A i \in 1 .. Len(sent) : sent[i].message.rpcid = i
  BY DEF TypeInv, Queue
<1>4. /\ sent' \in Seq(Frames) /\ Len(sent') = Len(sent) + 1
      /\ \A i \in 1 .. Len(sent) : sent'[i] = sent[i]
  BY <1>1, <1>2
<1>5. sent'[Len(sent')].message.rpcid = Len(sent') /\ Len(sent) < MaxRequests
  BY DEF ClientSends
<1>6. ASSUME NEW i \in 1 .. Len(sent') PROVE sent'[i].message.rpcid = i
  <2>1. i = Len(sent') \/ i \in 1 .. Len(sent)
    BY <1>2, <1>4
  <2>2. QED BY <1>3, <1>4, <1>5, <2>1
<1>7. \A i \in 1 .. Len(received) : i \in 1 .. Len(sent)
  BY <1>2, <1>3
<1>8. /\ Len(received') <= Len(sent') /\ Len(sent') <= MaxRequests
      /\ \A i \in 1 .. Len(received') : received'[i] = sent'[i]
  BY <1>1, <1>2, <1>3, <1>4, <1>5, <1>7, MessagesAssumption
<1>9. QED BY <1>1, <1>4, <1>6, <1>8 DEF Queue

\* Every step keeps types and order.
LEMMA TypeNext == TypeInv /\ [Next]_vars => TypeInv'
<1> SUFFICES ASSUME TypeInv, [Next]_vars PROVE TypeInv'
  OBVIOUS
<1> USE DEF TypeInv, registryVars, inputVars, historyVars
<1>1. ASSUME NEW cmd \in Cmds, RegisterCommand(cmd) PROVE TypeInv'
  <2>1. /\ sync_services_' \subseteq Cmds /\ async_services_' \subseteq Cmds
        /\ reflection_data_' \subseteq Cmds /\ mistyped' \subseteq LoginCmds
    BY <1>1 DEF RegisterCommand, RegisterSyncCmd, RegisterAsyncCmd, Reflections,
                Mistypings, TypeOK
  <2>2. /\ UNCHANGED <<inputVars, historyVars, pending, out>>
        /\ phase' \in {"starting", "serving"} \cup Endings
        /\ UNCHANGED <<stage, work>> \/ (stage' = "idle" /\ work' = Nil)
    BY <1>1 DEF RegisterCommand, End, Endings, TypeOK
  <2>3. QED BY <2>1, <2>2 DEF TypeOK, Queue
<1>2. CASE Bind
  BY <1>2 DEF Bind, TypeOK, Queue
<1>3. CASE ClientSends
  BY <1>3, SendQueue DEF ClientSends, TypeOK
<1>4. CASE ClientCloses
  BY <1>4 DEF ClientCloses, TypeOK, Queue
<1>5. CASE OpcodeRead
  <2> DEFINE index == Len(received')
             frame == received'[index]
             size  == OPCODE_SIZE + MessageSize(frame.message)
  <2>1. /\ received' \in Seq(Frames) /\ UNCHANGED sent /\ Queue'
        /\ index \in 1 .. MaxRequests /\ frame \in Frames
    BY <1>5, ReceiveQueue DEF OpcodeRead
  <2>2. /\ UNCHANGED <<registryVars, peerOpen, executed, pending, out>>
        /\ phase' \in {"starting", "serving"} \cup Endings
    BY <1>5 DEF OpcodeRead, End, Endings, TypeOK
  <2>3. CASE /\ stage' = "idle" /\ work' = Nil
             /\ UNCHANGED excused
    BY <2>1, <2>2, <2>3 DEF TypeOK
  <2>4. ASSUME NEW rest \in 0 .. size - 1, frame.cmd # NoOpcode, stage' = "serialize",
               work' = [cmd |-> frame.cmd, index |-> index, message |-> frame.message,
                        left |-> size - rest - OPCODE_SIZE],
               excused' = IF rest = 0 THEN excused ELSE excused \cup {index}
        PROVE  TypeInv'
    <3>1. frame.cmd \in Cmds /\ frame.message \in Messages
      BY <2>1, <2>4 DEF Frames
    <3>2. MessageSize(frame.message) \in 0 .. 4
      BY Sizes
    <3> HIDE DEF index, frame
    <3>3. size - rest - OPCODE_SIZE \in -1 .. MessageSize(frame.message)
      BY <3>2 DEF OPCODE_SIZE
    <3>4. size - rest - OPCODE_SIZE \in Int
      BY <3>2, <3>3
    <3>5. /\ work' \in [cmd : Cmds, index : 1 .. MaxRequests,
                        message : Messages, left : Int]
          /\ work'.left \in -1 .. MessageSize(work'.message)
      BY <2>1, <2>4, <3>1, <3>3, <3>4
    <3>6. excused' \subseteq 1 .. MaxRequests
      BY <2>1, <2>4 DEF TypeOK
    <3>7. QED BY <2>1, <2>2, <2>4, <3>5, <3>6 DEF TypeOK
  <2>5. QED BY <1>5, <2>3, <2>4 DEF OpcodeRead, End
<1>6. CASE SerializeRead
  <2>1. /\ UNCHANGED <<registryVars, inputVars, historyVars, pending, out>>
        /\ phase' \in {"starting", "serving"} \cup Endings
    BY <1>6 DEF SerializeRead, End, Endings, TypeOK
  <2>2. CASE stage' = "idle" /\ work' = Nil
    BY <2>1, <2>2 DEF TypeOK, Queue
  <2>3. ASSUME NEW m \in Parsed(work.message, work.left), m # Nil, stage' = "inject",
               work' = [cmd |-> work.cmd, index |-> work.index, message |-> m]
        PROVE  TypeInv'
    <3>1. /\ work.cmd \in Cmds /\ work.index \in 1 .. MaxRequests
          /\ work.message \in Messages /\ work.left \in Int
          /\ work.left <= MessageSize(work.message)
      BY <1>6, Sizes DEF SerializeRead, TypeOK
    <3>2. m \in Messages
      BY <2>3, <3>1, Parsing
    <3>3. work' \in Work
      BY <2>3, <3>1, <3>2 DEF Work
    <3>4. QED BY <2>1, <2>3, <3>3 DEF TypeOK, Queue
  <2>4. QED BY <1>6, <2>2, <2>3 DEF SerializeRead, End
<1>7. CASE InjectRead
  <2>1. work \in Work
    BY <1>7 DEF InjectRead, TypeOK
  <2>2. /\ UNCHANGED <<registryVars, inputVars, pending, excused>>
        /\ executed' \subseteq Work
        /\ phase' \in {"starting", "serving"} \cup Endings
        /\ Written(work) \/ UNCHANGED out
        /\ (stage' = "idle" /\ work' = Nil) \/ (stage' = "dispatch" /\ work' = work)
    BY <1>7, <2>1 DEF InjectRead, Run, End, Endings, TypeOK
  <2>3. out' \in Seq([opcode : 0 .. OpcodeMod - 1, rpcid : 0 .. MaxRequests])
    BY <2>1, <2>2, WrittenOut DEF TypeOK
  <2>4. QED BY <2>1, <2>2, <2>3 DEF TypeOK, Queue
<1>8. CASE DispatchRead
  <2>1. work \in Work
    BY <1>8 DEF DispatchRead, TypeOK
  <2>2. /\ UNCHANGED <<registryVars, inputVars, excused>>
        /\ executed' \subseteq Work /\ pending' \subseteq Work
        /\ phase' \in {"starting", "serving"} \cup Endings
        /\ Written(work) \/ UNCHANGED out
        /\ stage' = "idle" /\ work' = Nil
    BY <1>8, <2>1 DEF DispatchRead, Run, End, Endings, TypeOK
  <2>3. out' \in Seq([opcode : 0 .. OpcodeMod - 1, rpcid : 0 .. MaxRequests])
    BY <2>1, <2>2, WrittenOut DEF TypeOK
  <2>4. QED BY <2>1, <2>2, <2>3 DEF TypeOK, Queue
<1>9. ASSUME NEW w \in pending, Continue(w) PROVE TypeInv'
  <2>1. w \in Work /\ w.index \in 1 .. MaxRequests
    BY DEF TypeOK, Work
  <2>2. /\ UNCHANGED <<registryVars, phase, inputVars, stage, work, executed>>
        /\ pending' \subseteq Work /\ excused' \subseteq 1 .. MaxRequests
        /\ Written(w) \/ UNCHANGED out
    BY <1>9, <2>1 DEF Continue, TypeOK
  <2>3. out' \in Seq([opcode : 0 .. OpcodeMod - 1, rpcid : 0 .. MaxRequests])
    BY <2>1, <2>2, WrittenOut DEF TypeOK
  <2>4. QED BY <2>2, <2>3 DEF TypeOK, Queue
<1>10. CASE UNCHANGED vars
  BY <1>10 DEF vars, TypeOK, Queue
<1>11. QED
  BY <1>1, <1>2, <1>3, <1>4, <1>5, <1>6, <1>7, <1>8, <1>9, <1>10 DEF Next, Handle, Quiet

\* The server starts with the types right and nothing sent.
LEMMA TypeInit == Init => TypeInv
BY MessagesAssumption DEF Init, Transport!Init, TypeInv, TypeOK, Queue

\* Every variable keeps its type; in particular the payload that the serialize
\* handler parses is never more than the frame, and at most one byte of the opcode
\* behind the first buffer is cut off from it.
THEOREM TypeCorrect == Spec => []TypeOK
<1>1. Spec => []TypeInv
  BY TypeInit, TypeNext, PTL DEF Spec
<1>2. QED BY <1>1, PTL DEF TypeInv

-----------------------------------------------------------------------------
(***************************************************************************)
(* The registry and the dispatcher                                         *)
(***************************************************************************)

\* Every step keeps the registries in agreement.
LEMMA CommandNext == CommandInv /\ [Next]_vars => CommandInv'
<1> SUFFICES ASSUME CommandInv, [Next]_vars PROVE CommandInv'
  OBVIOUS
<1>t. TypeInv'
  BY TypeNext DEF CommandInv
<1> USE DEF registryVars, inputVars, historyVars, Registry, CommandsDispatchable,
            IsSyncCmd, IsAsyncCmd
<1>1. ASSUME NEW cmd \in Cmds, RegisterCommand(cmd) PROVE CommandInv'
  <2>1. Registry' /\ reflection_data_ \subseteq reflection_data_'
    BY <1>1
    DEF CommandInv, RegisterCommand, RegisterSyncCmd, RegisterAsyncCmd, Reflections,
        IsValidCmd
  <2>2. /\ phase' # "invalid_command"
        /\ UNCHANGED <<stage, work>> \/ stage' = "idle"
    BY <1>1 DEF CommandInv, RegisterCommand, End
  <2>3. QED BY <1>t, <2>1, <2>2 DEF CommandInv
<1>2. CASE OpcodeRead
  <2>1. UNCHANGED registryVars /\ phase' # "invalid_command"
        /\ stage' \in {"idle", "serialize"}
    BY <1>2 DEF CommandInv, OpcodeRead, End
  <2>2. QED BY <1>t, <2>1 DEF CommandInv
<1>3. CASE SerializeRead
  <2>1. UNCHANGED registryVars /\ phase' # "invalid_command"
    BY <1>3 DEF CommandInv, SerializeRead, End
  <2>2. stage' = "idle" \/ (work.cmd \in reflection_data_ /\ work'.cmd = work.cmd)
    BY <1>3 DEF SerializeRead, End, Reflected
  <2>3. QED BY <1>t, <2>1, <2>2 DEF CommandInv
<1>4. CASE InjectRead
  <2>1. /\ UNCHANGED registryVars /\ phase' # "invalid_command"
        /\ stage' = "idle" \/ (stage = "inject" /\ work' = work)
    BY <1>4 DEF CommandInv, InjectRead, End
  <2>2. QED BY <1>t, <2>1 DEF CommandInv
<1>5. CASE DispatchRead
  <2>1. IsValidCmd(work.cmd)
    BY <1>5 DEF CommandInv, DispatchRead, IsValidCmd
  <2>2. UNCHANGED registryVars /\ phase' # "invalid_command" /\ stage' = "idle"
    BY <1>5, <2>1 DEF CommandInv, DispatchRead, End
  <2>3. QED BY <1>t, <2>2 DEF CommandInv
<1>6. CASE \/ Bind \/ ClientSends \/ ClientCloses
           \/ \E w \in pending : Continue(w)
           \/ UNCHANGED vars
  <2>1. UNCHANGED <<registryVars, stage, work>> /\ phase' # "invalid_command"
    BY <1>6 DEF CommandInv, Bind, ClientSends, ClientCloses, Continue, vars
  <2>2. QED BY <1>t, <2>1 DEF CommandInv
<1>7. QED BY <1>1, <1>2, <1>3, <1>4, <1>5, <1>6 DEF Next, Handle, Quiet

\* They agree at the start, being empty.
LEMMA CommandInit == Init => CommandInv
BY TypeInit DEF Init, CommandInv, Registry, CommandsDispatchable

\* Whatever is registered, in whichever order, and whatever clients send: no
\* request that the serialize handler lets through fails the dispatcher's
\* assertion, or finds services of both kinds.
THEOREM Dispatchable == Spec => []CommandsDispatchable
<1>1. Spec => []CommandInv
  BY CommandInit, CommandNext, PTL DEF Spec
<1>2. QED BY <1>1, PTL DEF CommandInv

-----------------------------------------------------------------------------
(***************************************************************************)
(* The answers                                                             *)
(***************************************************************************)

\* Lengths, and where answers, the request in hand and pending ones come from.
LEMMA Places ==
    ASSUME PipeInv
    PROVE  /\ Len(sent) \in Nat /\ Len(received) \in Nat /\ Len(out) \in Nat
           /\ Len(received) <= Len(sent)
           /\ Done \in Int /\ Done <= Len(received)
           /\ \A k \in 1 .. Len(out) : out[k].rpcid \in Nat /\ out[k].rpcid <= Len(sent)
           /\ \A w \in pending : w.index \in 1 .. Len(sent)
           /\ stage # "idle" => work.index \in 1 .. Len(sent)
<1> USE DEF PipeInv, CommandInv, TypeInv, Queue
<1>1. Len(sent) \in Nat /\ Len(received) \in Nat /\ Len(out) \in Nat
  BY DEF TypeOK
<1>2. Done \in Int /\ Done <= Len(received)
  BY <1>1 DEF Done
<1>3. out \in Seq([opcode : 0 .. OpcodeMod - 1, rpcid : 0 .. MaxRequests])
  BY DEF TypeOK
<1>4. \A k \in 1 .. Len(out) : out[k].rpcid \in Nat
  <2>1. ASSUME NEW k \in 1 .. Len(out)
        PROVE  out[k] \in [opcode : 0 .. OpcodeMod - 1, rpcid : 0 .. MaxRequests]
    BY <1>3, ElementOfSeq, Zenon
  <2>2. QED BY <2>1, MessagesAssumption
<1>5. \A k \in 1 .. Len(out) : out[k].rpcid <= Len(sent)
  BY <1>1, <1>2, <1>4 DEF Answers
<1>6. \A w \in pending : w.index \in 1 .. Len(sent)
  <2>1. \A w \in pending : w.index \in 1 .. MaxRequests /\ w.index <= Done
    BY DEF Waiting, TypeOK, Work
  <2>2. QED BY <1>1, <1>2, <2>1, MessagesAssumption
<1>7. stage # "idle" => work.index \in 1 .. Len(sent)
  <2>1. stage # "idle" => work.index \in 1 .. MaxRequests /\ work.index = Len(received)
    BY DEF InHand, TypeOK, Work
  <2>2. QED BY <1>1, <2>1, MessagesAssumption
<1>8. QED BY <1>1, <1>2, <1>4, <1>5, <1>6, <1>7

\* As long as nothing is written, answers stay right: requests that were sent are
\* not changed, and services neither forgotten nor unregistered.
LEMMA AnswersKept ==
    ASSUME PipeInv, UNCHANGED out, Len(sent') \in Nat, Len(sent) <= Len(sent'),
           \A i \in 1 .. Len(sent) : sent'[i] = sent[i],
           executed \subseteq executed', async_services_ \subseteq async_services_'
    PROVE  AnsweredAsSent' /\ AnswersInOrder'
<1> USE DEF PipeInv
<1>1. \A k \in 1 .. Len(out) :
        out[k].rpcid # 0 => /\ out[k].rpcid \in 1 .. Len(sent)
                            /\ out[k].rpcid <= Len(sent')
                            /\ sent'[out[k].rpcid] = sent[out[k].rpcid]
  BY Places
<1>2. AnsweredAsSent'
  BY <1>1 DEF AnsweredAsSent
<1>3. AnswersInOrder'
  BY <1>1 DEF AnswersInOrder
<1>4. QED BY <1>2, <1>3

\* Request w is answered, for the first time, after it was executed; by the thread
\* it is answered last of all so far.
LEMMA AnswerWritten ==
    ASSUME PipeInv, NEW w \in Work, Written(w), AsSent(w), w \in executed',
           w.index \in 1 .. Len(sent), executed \subseteq executed',
           UNCHANGED <<sent, async_services_>>,
           \A k \in 1 .. Len(out) : out[k].rpcid # 0 => out[k].rpcid # w.message.rpcid,
           w.cmd \in async_services_ \/ \A k \in 1 .. Len(out) : out[k].rpcid < w.index
    PROVE  AnsweredAsSent' /\ AnswersInOrder'
<1> DEFINE r == w.message.rpcid
           n == Len(out) + 1
<1>1. CASE UNCHANGED out
  BY <1>1, AnswersKept, Places
<1>2. CASE /\ Len(out') = n
           /\ out'[n].opcode = AnswerOpcode(w.cmd) /\ out'[n].rpcid = r
           /\ \A k \in 1 .. Len(out) : out'[k] = out[k]
  <2>1. Len(out) \in Nat /\ Len(sent) \in Nat
    BY Places
  <2>2. r # 0 => /\ r = w.index /\ r <= Len(sent)
                 /\ w = [cmd |-> sent[r].cmd, index |-> r, message |-> sent[r].message]
    <3>1. sent[w.index].message.rpcid = w.index
      BY DEF PipeInv, CommandInv, TypeInv, Queue
    <3>2. w = [cmd |-> w.cmd, index |-> w.index, message |-> w.message]
      BY DEF Work
    <3>3. QED BY <2>1, <3>1, <3>2 DEF AsSent
  <2>3. \A k \in 1 .. n : k = n \/ k \in 1 .. Len(out)
    BY <2>1
  <2>4. n \in 1 .. n /\ \A k \in 1 .. Len(out) : k \in 1 .. n /\ k < n
    BY <2>1
  <2>5. AnsweredAsSent'
    <3> SUFFICES ASSUME NEW k \in 1 .. n, out'[k].rpcid # 0
                 PROVE  LET i == out'[k].rpcid
                        IN  /\ i <= Len(sent)
                            /\ out'[k].opcode = (sent[i].cmd + 1) % OpcodeMod
                            /\ [cmd |-> sent[i].cmd, index |-> i,
                                message |-> sent[i].message] \in executed'
                            /\ \A j \in 1 .. n : out'[j].rpcid = i => j = k
      BY <1>2 DEF AnsweredAsSent
    <3>1. CASE k = n
      <4>1. \A j \in 1 .. n : out'[j].rpcid = r => j = n
        BY <1>2, <2>3, <3>1
      <4>2. out'[n].opcode = (sent[r].cmd + 1) % OpcodeMod
        BY <1>2, <2>2, <3>1 DEF AsSent, AnswerOpcode
      <4>3. QED BY <1>2, <2>2, <3>1, <4>1, <4>2
    <3>2. CASE k \in 1 .. Len(out)
      <4>1. out'[k] = out[k] /\ out[k].rpcid # r
        BY <1>2, <3>2
      <4>2. LET i == out[k].rpcid
            IN  /\ i <= Len(sent)
                /\ out[k].opcode = (sent[i].cmd + 1) % OpcodeMod
                /\ [cmd |-> sent[i].cmd, index |-> i, message |-> sent[i].message]
                       \in executed
                /\ \A j \in 1 .. Len(out) : out[j].rpcid = i => j = k
        BY <3>2, <4>1 DEF PipeInv, AnsweredAsSent
      <4>3. \A j \in 1 .. n : out'[j].rpcid = out'[k].rpcid => j = k
        BY <1>2, <2>3, <4>1, <4>2
      <4>4. QED BY <4>1, <4>2, <4>3
    <3>3. QED BY <2>3, <3>1, <3>2
  <2>6. AnswersInOrder'
    <3> SUFFICES ASSUME NEW j \in 1 .. n, NEW k \in 1 .. n, j < k,
                        out'[j].rpcid # 0, out'[k].rpcid # 0,
                        sent[out'[j].rpcid].cmd \notin async_services_,
                        sent[out'[k].rpcid].cmd \notin async_services_
                 PROVE  out'[j].rpcid < out'[k].rpcid
      BY <1>2 DEF AnswersInOrder
    <3>1. j \in 1 .. Len(out)
      BY <2>1
    <3>2. CASE k = n
      <4>1. w.cmd \notin async_services_ /\ r = w.index
        BY <1>2, <2>2, <3>2 DEF AsSent
      <4>2. QED BY <1>2, <3>1, <3>2, <4>1
    <3>3. CASE k \in 1 .. Len(out)
      BY <1>2, <3>1, <3>3 DEF PipeInv, AnswersInOrder
    <3>4. QED BY <2>3, <3>2, <3>3
  <2>7. QED BY <2>5, <2>6
<1>3. QED BY <1>1, <1>2, WrittenOut DEF PipeInv, CommandInv, TypeInv

\* What was sent is not changed any more.
SentKept ==
    /\ Len(sent') \in Nat /\ Len(sent) <= Len(sent')
    /\ \A i \in 1 .. Len(sent) : sent'[i] = sent[i]

\* A request that waits goes on waiting.
LEMMA WaitingKept ==
    ASSUME PipeInv, SentKept, pending' \subseteq pending, Done' \in Int, Done <= Done',
           executed \subseteq executed', async_services_ \subseteq async_services_',
           \A v \in pending', k \in 1 .. Len(out') :
               out'[k].rpcid # 0 => out'[k].rpcid # v.message.rpcid
    PROVE  Waiting'
<1>1. ASSUME NEW w \in pending' PROVE AsSent(w)' /\ w.index <= Done'
  <2>1. w.index \in 1 .. Len(sent) /\ Done \in Int /\ Len(sent) \in Nat
    BY Places
  <2>2. AsSent(w) /\ w.index <= Done
    BY DEF PipeInv, Waiting
  <2>3. QED BY <2>1, <2>2 DEF AsSent, SentKept
<1>2. ASSUME NEW w \in pending'
      PROVE  /\ w \in executed' /\ w.cmd \in async_services_'
             /\ \A v \in pending' : v.index = w.index => v = w
  BY DEF PipeInv, Waiting
<1>3. QED BY <1>1, <1>2 DEF Waiting

\* The thread is done with the request in hand, or leaves it alone, and nothing
\* is answered.
LEMMA NothingAnswered ==
    ASSUME PipeInv, SentKept, UNCHANGED <<received, pending, out>>,
           executed \subseteq executed', async_services_ \subseteq async_services_',
           stage' = "idle" \/ UNCHANGED <<stage, work>>
    PROVE  InHand' /\ Waiting' /\ Answers' /\ AnsweredAsSent' /\ AnswersInOrder'
<1>1. Done' \in Int /\ Done <= Done'
  BY Places DEF Done
<1>2. InHand'
  <2>1. CASE stage' = "idle"
    BY <2>1 DEF InHand
  <2>2. CASE stage # "idle" /\ UNCHANGED <<stage, work>>
    <3>1. work.index \in 1 .. Len(sent)
      BY <2>2, Places
    <3>2. sent'[work.index] = sent[work.index]
      BY <3>1 DEF SentKept
    <3>3. QED BY <2>2, <3>2 DEF PipeInv, InHand, AsSent
  <2>3. QED BY <2>1, <2>2
<1>3. Waiting'
  BY <1>1, WaitingKept DEF PipeInv, Waiting
<1>4. Answers'
  BY <1>1, Places DEF PipeInv, Answers
<1>5. QED BY <1>2, <1>3, <1>4, AnswersKept DEF SentKept

\* There is at most one new answer, and it carries the RpcId of its request.
LEMMA AnswersAfter ==
    ASSUME PipeInv, NEW w \in Work, Written(w)
    PROVE  \A k \in 1 .. Len(out') : \/ k \in 1 .. Len(out) /\ out'[k] = out[k]
                                     \/ out'[k].rpcid = w.message.rpcid
<1>1. \/ UNCHANGED out
      \/ /\ Len(out') = Len(out) + 1
         /\ out'[Len(out')].rpcid = w.message.rpcid
         /\ \A k \in 1 .. Len(out) : out'[k] = out[k]
  BY WrittenOut DEF PipeInv, CommandInv, TypeInv
<1>2. Len(out) \in Nat
  BY Places
<1>3. \A k \in 1 .. Len(out) + 1 : k \in 1 .. Len(out) \/ k = Len(out) + 1
  BY <1>2
<1>4. QED BY <1>1, <1>3

\* The thread answers the request in hand.
LEMMA ThreadAnswers ==
    ASSUME PipeInv, stage \in {"inject", "dispatch"}, stage' = "idle", Run, Written(work),
           UNCHANGED <<sent, received, pending, async_services_>>
    PROVE  InHand' /\ Waiting' /\ Answers' /\ AnsweredAsSent' /\ AnswersInOrder'
<1>1. /\ work \in Work /\ AsSent(work) /\ work.index = Len(received)
      /\ work.index \in 1 .. Len(sent)
  BY Places DEF PipeInv, CommandInv, TypeInv, TypeOK, InHand
<1>2. work.message.rpcid \in {0, work.index}
  <2>1. sent[work.index].message.rpcid = work.index
    BY <1>1 DEF PipeInv, CommandInv, TypeInv, Queue
  <2>2. QED BY <1>1, <2>1 DEF AsSent
<1>3. work \in executed' /\ executed \subseteq executed'
  BY DEF Run
<1>4. Done = Len(received) - 1 /\ Done' = Len(received)
  BY DEF Done
<1>5. Len(received) \in Nat /\ Len(sent) \in Nat /\ Len(out) \in Nat
  BY Places
<1>6. \A k \in 1 .. Len(out) : out[k].rpcid \in Nat /\ out[k].rpcid < work.index
  BY <1>1, <1>4, <1>5, Places DEF PipeInv, Answers
<1>7. AnsweredAsSent' /\ AnswersInOrder'
  BY <1>1, <1>2, <1>3, <1>6, AnswerWritten
<1>8. \A k \in 1 .. Len(out') : \/ k \in 1 .. Len(out) /\ out'[k] = out[k]
                                \/ out'[k].rpcid = work.message.rpcid
  BY <1>1, AnswersAfter
<1>9. Answers'
  BY <1>1, <1>2, <1>4, <1>5, <1>6, <1>8 DEF Answers
<1>10. Waiting'
  <2>1. ASSUME NEW v \in pending, NEW k \in 1 .. Len(out'), out'[k].rpcid # 0
        PROVE  out'[k].rpcid # v.message.rpcid
    <3>1. v.index < work.index /\ v.message.rpcid \in {0, v.index}
      <4>1. sent[v.index].message.rpcid = v.index
        BY Places DEF PipeInv, CommandInv, TypeInv, Queue
      <4>2. v.index <= Done /\ AsSent(v) /\ v.index \in Int
        BY Places DEF PipeInv, Waiting
      <4>3. QED BY <1>1, <1>4, <1>5, <4>1, <4>2 DEF AsSent
    <3>2. v.index \in Int
      BY Places
    <3>3. CASE k \in 1 .. Len(out) /\ out'[k] = out[k]
      BY <2>1, <3>3 DEF PipeInv, Waiting
    <3>4. CASE out'[k].rpcid = work.message.rpcid
      BY <1>1, <1>2, <1>5, <2>1, <3>1, <3>2, <3>4
    <3>5. QED BY <1>8, <3>3, <3>4
  <2>2. SentKept
    BY <1>5 DEF SentKept
  <2>3. QED BY <1>3, <1>4, <1>5, <2>1, <2>2, WaitingKept
<1>11. QED BY <1>7, <1>9, <1>10 DEF InHand

\* A promise is fulfilled, with a value or an exception: its request no longer waits.
LEMMA PromiseAnswers ==
    ASSUME PipeInv, NEW w \in pending, Continue(w)
    PROVE  InHand' /\ Waiting' /\ Answers' /\ AnsweredAsSent' /\ AnswersInOrder'
<1>1. /\ UNCHANGED <<sent, received, stage, work, executed, async_services_>>
      /\ pending' = pending \ {w} /\ (Written(w) \/ UNCHANGED out)
  BY DEF Continue, registryVars, inputVars
<1>2. /\ w \in Work /\ AsSent(w) /\ w.index \in 1 .. Len(sent) /\ w \in executed
      /\ w.index <= Done /\ w.cmd \in async_services_
      /\ \A k \in 1 .. Len(out) : out[k].rpcid # 0 => out[k].rpcid # w.message.rpcid
  BY Places DEF PipeInv, CommandInv, TypeInv, TypeOK, Waiting
<1>3. \A v \in pending : v.message.rpcid \in {0, v.index}
  <2>1. \A v \in pending : sent[v.index].message.rpcid = v.index
    BY Places DEF PipeInv, CommandInv, TypeInv, Queue
  <2>2. QED BY <2>1 DEF PipeInv, Waiting, AsSent
<1>4. Done' = Done /\ Done \in Int /\ 0 <= Done /\ Len(sent) \in Nat
  BY <1>1, <1>2, Places DEF Done
<1>5. SentKept
  BY <1>1, <1>4 DEF SentKept
<1>6. InHand'
  BY <1>1 DEF PipeInv, InHand, AsSent
<1>7. \A k \in 1 .. Len(out') : \/ k \in 1 .. Len(out) /\ out'[k] = out[k]
                                \/ out'[k].rpcid = w.message.rpcid
  BY <1>1, <1>2, AnswersAfter
<1>8. Waiting'
  <2>1. ASSUME NEW v \in pending', NEW k \in 1 .. Len(out'), out'[k].rpcid # 0
        PROVE  out'[k].rpcid # v.message.rpcid
    <3>1. v \in pending /\ v.index # w.index
      BY <1>1 DEF PipeInv, Waiting
    <3>2. CASE k \in 1 .. Len(out) /\ out'[k] = out[k]
      BY <2>1, <3>1, <3>2 DEF PipeInv, Waiting
    <3>3. CASE out'[k].rpcid = w.message.rpcid
      BY <1>3, <2>1, <3>1, <3>3
    <3>4. QED BY <1>7, <3>2, <3>3
  <2>2. QED BY <1>1, <1>4, <1>5, <2>1, WaitingKept
<1>9. Answers'
  <2>1. w.message.rpcid <= Done
    BY <1>2, <1>3, <1>4
  <2>2. QED BY <1>4, <1>7, <2>1 DEF PipeInv, Answers
<1>10. AnsweredAsSent' /\ AnswersInOrder'
  <2>1. CASE Written(w)
    BY <1>1, <1>2, <2>1, AnswerWritten
  <2>2. CASE UNCHANGED out
    BY <1>1, <1>5, <2>2, AnswersKept DEF SentKept
  <2>3. QED BY <1>1, <2>1, <2>2
<1>11. QED BY <1>6, <1>8, <1>9, <1>10

\* A frame is received.
LEMMA OpcodeReads ==
    ASSUME PipeInv, OpcodeRead
    PROVE  InHand' /\ Waiting' /\ Answers' /\ AnsweredAsSent' /\ AnswersInOrder'
<1>1. /\ UNCHANGED sent /\ Len(received') = Len(received) + 1
      /\ received'[Len(received')] = sent[Len(received')]
  BY ReceiveQueue DEF OpcodeRead, PipeInv, CommandInv
<1>2. /\ UNCHANGED <<registryVars, executed, pending, out>> /\ stage = "idle"
      /\ \/ stage' = "idle"
         \/ /\ stage' = "serialize" /\ work'.index = Len(received')
            /\ work'.cmd = received'[Len(received')].cmd
            /\ work'.message = received'[Len(received')].message
  BY DEF OpcodeRead, End
<1>3. Len(received) \in Nat /\ Len(sent) \in Nat
  BY Places
<1>4. Done' \in Int /\ Done <= Done'
  BY <1>1, <1>2, <1>3 DEF Done
<1>5. SentKept /\ async_services_' = async_services_
  BY <1>1, <1>2, <1>3 DEF SentKept, registryVars
<1>6. InHand'
  BY <1>1, <1>2 DEF InHand, AsSent
<1>7. Waiting'
  BY <1>2, <1>4, <1>5, WaitingKept DEF PipeInv, Waiting
<1>8. Answers'
  BY <1>2, <1>4, Places DEF PipeInv, Answers
<1>9. QED
  BY <1>2, <1>5, <1>6, <1>7, <1>8, AnswersKept DEF SentKept

\* A request moves from one handler to the next.
LEMMA HandedOn ==
    ASSUME PipeInv, UNCHANGED <<sent, received, pending, out, executed, async_services_>>,
           stage # "idle", stage' \in {"inject", "dispatch"},
           work'.index = work.index, work'.cmd = work.cmd,
           work'.message.rpcid # 0 => work'.message = sent[work.index].message
    PROVE  InHand' /\ Waiting' /\ Answers' /\ AnsweredAsSent' /\ AnswersInOrder'
<1>1. Len(sent) \in Nat /\ Done \in Int /\ Done' = Done
  BY Places DEF Done
<1>2. SentKept
  BY <1>1 DEF SentKept
<1>3. InHand'
  BY DEF PipeInv, InHand, AsSent
<1>4. Waiting'
  BY <1>1, <1>2, WaitingKept DEF PipeInv, Waiting
<1>5. Answers'
  BY <1>1 DEF PipeInv, Answers
<1>6. QED BY <1>2, <1>3, <1>4, <1>5, AnswersKept DEF SentKept

\* A request goes to an asynchronous service.
LEMMA Promised ==
    ASSUME PipeInv, stage = "dispatch", work.cmd \in async_services_, Run,
           pending' = pending \cup {work}, stage' = "idle",
           UNCHANGED <<sent, received, out, async_services_>>
    PROVE  InHand' /\ Waiting' /\ Answers' /\ AnsweredAsSent' /\ AnswersInOrder'
<1>1. AsSent(work) /\ work.index = Len(received) /\ work.index \in 1 .. Len(sent)
  BY Places DEF PipeInv, InHand
<1>2. Len(sent) \in Nat /\ Len(received) \in Nat
  BY Places
<1>3. Done = Len(received) - 1 /\ Done' = Len(received)
  BY DEF Done
<1>4. work \in executed' /\ executed \subseteq executed'
  BY DEF Run
<1>5. \A k \in 1 .. Len(out) : out[k].rpcid # 0 => out[k].rpcid # work.message.rpcid
  <2>1. sent[work.index].message.rpcid = work.index
    BY <1>1 DEF PipeInv, CommandInv, TypeInv, Queue
  <2>2. work.message.rpcid \in {0, work.index}
    BY <1>1, <2>1 DEF AsSent
  <2>3. \A k \in 1 .. Len(out) : out[k].rpcid \in Nat /\ out[k].rpcid < work.index
    BY <1>1, <1>2, <1>3, Places DEF PipeInv, Answers
  <2>4. QED BY <1>1, <1>2, <2>2, <2>3
<1>6. Waiting'
  <2>1. \A v \in pending : v.index \in Int /\ v.index < work.index
    BY <1>1, <1>2, <1>3, Places DEF PipeInv, Waiting
  <2>2. \A w \in pending' : AsSent(w)' /\ w.index <= Done'
    BY <1>1, <1>2, <1>3, <2>1 DEF PipeInv, Waiting, AsSent
  <2>3. \A v, w \in pending' : v.index = w.index => v = w
    BY <1>1, <1>2, <2>1 DEF PipeInv, Waiting
  <2>4. \A w \in pending' :
          /\ w \in executed' /\ w.cmd \in async_services_'
          /\ \A k \in 1 .. Len(out') : out'[k].rpcid # 0 => out'[k].rpcid # w.message.rpcid
    BY <1>4, <1>5 DEF PipeInv, Waiting
  <2>5. QED BY <2>2, <2>3, <2>4 DEF Waiting
<1>7. Answers'
  BY <1>2, <1>3, Places DEF PipeInv, Answers
<1>8. QED BY <1>2, <1>4, <1>6, <1>7, AnswersKept DEF InHand

\* Every step keeps the invariant.
LEMMA PipeNext == PipeInv /\ [Next]_vars => PipeInv'
<1> SUFFICES ASSUME PipeInv, [Next]_vars
             PROVE  InHand' /\ Waiting' /\ Answers' /\ AnsweredAsSent' /\ AnswersInOrder'
  BY CommandNext DEF PipeInv
<1> DEFINE Goal == InHand' /\ Waiting' /\ Answers' /\ AnsweredAsSent' /\ AnswersInOrder'
<1> USE DEF registryVars, inputVars, historyVars
<1>s. UNCHANGED sent => SentKept
  BY Places DEF SentKept
<1>1. ASSUME NEW cmd \in Cmds, RegisterCommand(cmd) PROVE Goal
  <2>1. /\ UNCHANGED <<sent, received, pending, out, executed>>
        /\ async_services_ \subseteq async_services_'
        /\ stage' = "idle" \/ UNCHANGED <<stage, work>>
    BY <1>1 DEF RegisterCommand, RegisterSyncCmd, RegisterAsyncCmd, End
  <2>2. QED BY <1>s, <2>1, NothingAnswered
<1>2. CASE ClientSends
  <2>1. SentKept
    <3>1. /\ sent' \in Seq(Frames) /\ Len(sent') = Len(sent) + 1
          /\ \A i \in 1 .. Len(sent) : sent'[i] = sent[i]
      BY <1>2, SendQueue DEF PipeInv, CommandInv
    <3>2. QED BY <3>1, Places DEF SentKept
  <2>2. UNCHANGED <<received, stage, work, pending, out, executed, async_services_>>
    BY <1>2, SendQueue DEF ClientSends, PipeInv, CommandInv
  <2>3. QED BY <2>1, <2>2, NothingAnswered
<1>3. CASE OpcodeRead
  BY <1>3, OpcodeReads
<1>4. CASE SerializeRead
  <2>1. UNCHANGED <<sent, received, pending, out, executed, async_services_>>
    BY <1>4 DEF SerializeRead, End
  <2>2. CASE stage' = "idle"
    BY <1>s, <2>1, <2>2, NothingAnswered
  <2>3. ASSUME NEW m \in Parsed(work.message, work.left), m # Nil, stage' = "inject",
               work' = [cmd |-> work.cmd, index |-> work.index, message |-> m]
        PROVE  Goal
    <3>1. /\ work.message \in Messages /\ work.left \in Int
          /\ work.left <= MessageSize(work.message)
      BY <1>4, Sizes DEF SerializeRead, PipeInv, CommandInv, TypeInv, TypeOK
    <3>2. m.rpcid # 0 => m = work.message
      BY <2>3, <3>1, Parsing
    <3>3. stage = "serialize" /\ work.message = sent[work.index].message
      BY <1>4 DEF SerializeRead, PipeInv, InHand
    <3>4. QED BY <2>1, <2>3, <3>2, <3>3, HandedOn
  <2>4. QED BY <1>4, <2>2, <2>3 DEF SerializeRead, End
<1>5. CASE InjectRead
  <2>1. CASE stage' = "dispatch"
    <3>1. /\ UNCHANGED <<sent, received, pending, out, executed, async_services_, work>>
          /\ stage = "inject"
      BY <1>5, <2>1 DEF InjectRead, End
    <3>2. QED BY <2>1, <3>1, HandedOn DEF PipeInv, InHand, AsSent
  <2>2. CASE Run /\ Written(work) /\ stage' = "idle" /\ UNCHANGED pending
    BY <1>5, <2>2, ThreadAnswers DEF InjectRead
  <2>3. CASE stage' = "idle" /\ UNCHANGED <<pending, out, executed>>
    BY <1>5, <1>s, <2>3, NothingAnswered DEF InjectRead
  <2>4. QED BY <1>5, <2>1, <2>2, <2>3 DEF InjectRead, End
<1>6. CASE DispatchRead
  <2>1. /\ UNCHANGED <<sent, received, async_services_>>
        /\ stage = "dispatch" /\ stage' = "idle"
    BY <1>6 DEF DispatchRead, End
  <2>2. CASE Run /\ Written(work) /\ UNCHANGED pending
    BY <2>1, <2>2, ThreadAnswers
  <2>3. CASE (Run \/ UNCHANGED executed) /\ UNCHANGED <<pending, out>>
    BY <1>s, <2>1, <2>3, NothingAnswered DEF Run
  <2>4. CASE /\ Run /\ pending' = pending \cup {work} /\ UNCHANGED out
             /\ IsValidCmd(work.cmd) /\ ~RunsNow(work.cmd)
    BY <2>1, <2>4, Promised DEF IsValidCmd, IsAsyncCmd, RunsNow
  <2>5. QED BY <1>6, <2>2, <2>3, <2>4 DEF DispatchRead, End
<1>7. ASSUME NEW w \in pending, Continue(w) PROVE Goal
  BY <1>7, PromiseAnswers
<1>8. CASE Bind \/ ClientCloses \/ UNCHANGED vars
  BY <1>s, <1>8, NothingAnswered DEF Bind, ClientCloses, vars
<1>9. QED
  BY <1>1, <1>2, <1>3, <1>4, <1>5, <1>6, <1>7, <1>8 DEF Next, Handle, Quiet

\* So the invariant always holds.
LEMMA PipeInvariant == Spec => []PipeInv
<1>1. Init => PipeInv
  BY CommandInit
  DEF Init, PipeInv, InHand, Waiting, Answers, AnsweredAsSent, AnswersInOrder
<1>2. QED BY <1>1, PipeNext, PTL DEF Spec

\* An answer that carries a request's number is the only one, has the opcode of
\* that request's command plus one, and its service was given exactly what the
\* client sent: for any number of requests, cut into buffers anywhere, and
\* promises fulfilled in any order.
THEOREM AnsweredRight == Spec => []AnsweredAsSent
BY PipeInvariant, PTL DEF PipeInv

\* The answers of the IO thread never overtake each other.
THEOREM AnsweredInOrder == Spec => []AnswersInOrder
BY PipeInvariant, PTL DEF PipeInv

=============================================================================
