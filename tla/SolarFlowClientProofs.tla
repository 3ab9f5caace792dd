----------------------- MODULE SolarFlowClientProofs -----------------------
(* Theorems about SolarFlowClient for any number of callers, calls and       *)
(* notifications, and for devices that send anything at any time.            *)
EXTENDS SolarFlowClient, SequenceTheorems, TLAPS

-----------------------------------------------------------------------------
(* The inductive invariant behind the types: a caller inside connect() acts  *)
(* for a session that has a number.                                          *)
ConnectServes ==
    \A c \in Callers :
        pc[c] \in {"connect"} \cup Handshake => serving[c] \in Sessions

Typed == TypeOK /\ ConnectServes

(* A caller in the handshake, or a link that is up, belongs to a session.    *)
Numbered ==
    transport.link = "up" \/ (\E c \in Callers : pc[c] \in Handshake)
        => client.session \in Sessions

QueuesType == [reports : Queue, results : Queue]
TransportType == [link : {"down", "up"}, accepting : BOOLEAN,
                  stranded : BOOLEAN]
LockType == [lifecycle : Task \cup {NoTask},
             write : Callers \cup Keepalives \cup {NoTask}]
InboxType == [Sessions -> Seq(Kinds \cup {Stop})]
BudgetType == [connect : 0 .. Budget.connect, disconnect : Nat,
               write : Nat, interrupt : Nat, payload : [Kinds -> Nat]]

-----------------------------------------------------------------------------
(* The kinds of task are distinct.                                           *)
LEMMA TaskKinds ==
    /\ \A s \in Sessions : /\ Worker(s) \in Workers /\ Keepalive(s) \in Keepalives
                           /\ Worker(s)[2] = s
    /\ \A w \in Workers : /\ w \in Task /\ w[2] \in Sessions /\ w = Worker(w[2])
                          /\ w \notin Callers /\ w \notin Keepalives
                          /\ w # Notifier /\ w # NoTask
    /\ \A k \in Keepalives : /\ k \in Task /\ k \notin Callers
                             /\ k # Notifier /\ k # NoTask
    /\ Notifier \in Task /\ Notifier \notin Callers
    /\ \A c \in Callers : c \in Task /\ c # NoTask
  BY ConstantsAssumption
     DEF Task, Workers, Keepalives, Worker, Keepalive, Notifier

(* Operations on the session queues keep them queues.                        *)
LEMMA EmptyType == ASSUME NEW S PROVE <<>> \in Seq(S)
  OBVIOUS

LEMMA LeftType == ASSUME NEW q \in Queue PROVE Left(q) \in Queue
  BY EmptyType DEF Left, Queue

LEMMA ConsumedType ==
    ASSUME NEW q \in Queue,
           (IF q.detached THEN q.held ELSE q.current) # <<>>
    PROVE  Consumed(q) \in Queue
  <1> DEFINE K == Kinds \cup {Closed}
  <1>1. q.held \in Seq(K) /\ q.current \in Seq(K) /\ q.detached \in BOOLEAN
    BY DEF Queue
  <1>2. CASE q.detached
    <2>1. Tail(q.held) \in Seq(K) BY <1>1, <1>2
    <2> QED BY <1>1, <1>2, <2>1 DEF Consumed, Queue
  <1>3. CASE ~q.detached
    <2>1. Tail(q.current) \in Seq(K) BY <1>1, <1>3
    <2> QED BY <1>1, <1>3, <2>1 DEF Consumed, Queue
  <1> QED BY <1>1, <1>2, <1>3

LEMMA FreshQueuesType ==
    ASSUME queues \in QueuesType PROVE FreshQueues \in QueuesType
  <1>1. ASSUME NEW n \in {"reports", "results"}
        PROVE  Replaced(n) \in Queue
    <2>1. queues[n] \in Queue
      BY DEF QueuesType
    <2> QED BY <2>1, EmptyType DEF Replaced, Queue
  <1> QED BY <1>1 DEF FreshQueues, QueuesType

LEMMA PutType ==
    ASSUME NEW q \in Queue, NEW m \in Kinds \cup {Closed}
    PROVE  Put(q, m) \in Queue
  <1>1. Append(q.current, m) \in Seq(Kinds \cup {Closed})
    BY DEF Queue
  <1> QED BY <1>1 DEF Put, Queue

LEMMA WokenType ==
    ASSUME NEW q \in QueuesType PROVE Woken(q) \in QueuesType
  BY PutType DEF Woken, QueuesType

LEMMA ClearedType ==
    ASSUME NEW o \in ClientType
    PROVE  Cleared(o) \in ClientType /\ Disconnected(o) \in ClientType
  BY ConstantsAssumption DEF Cleared, Disconnected, ClientType

(* What a task does after a failure is a label, and never a connect label.   *)
LEMMA AfterFailureType ==
    ASSUME NEW t \in Task
    PROVE  /\ AfterFailure(t) \in {"done", "next", "idle", "raised"}
           /\ t \in Callers => AfterFailure(t) = "raised"
           /\ t \in Workers => AfterFailure(t) = "next"
  BY TaskKinds DEF AfterFailure, Task

-----------------------------------------------------------------------------
(* One lemma per group of actions: its steps keep the types.                 *)

LEMMA InitTyped == Init => Typed
  <1> SUFFICES ASSUME Init PROVE Typed
    OBVIOUS
  <1>1. client \in ClientType
    BY ConstantsAssumption DEF Init, ClientType
  <1>2. queues \in QueuesType
    BY EmptyType DEF Init, QueuesType, Queue, EmptyQueue
  <1>3. inbox \in [Sessions -> Seq(Kinds \cup {Stop})]
    BY EmptyType DEF Init
  <1>4. pc \in [Task -> Labels]
    BY DEF Init, Labels, Outcome
  <1>5. budget \in [connect : 0 .. Budget.connect, disconnect : Nat,
                    write : Nat, interrupt : Nat, payload : [Kinds -> Nat]]
    BY ConstantsAssumption DEF Init
  <1>6. ConnectServes
    BY TaskKinds DEF Init, ConnectServes, Handshake, HandshakeWait
  <1> QED
    BY <1>1, <1>2, <1>3, <1>4, <1>5, <1>6
    DEF Typed, TypeOK, Init, QueuesType

(* The parts of Typed after a step.                                          *)
LEMMA TypedNext ==
    ASSUME client' \in ClientType, transport' \in TransportType,
           queues' \in QueuesType, inbox' \in InboxType, lock' \in LockType,
           pc' \in [Task -> Labels], awaiting' \in [Task -> Task \cup {NoTask}],
           serving' \in [Task -> Sessions \cup {0}], budget' \in BudgetType,
           lost' \in [Sessions -> Nat], ConnectServes'
    PROVE  Typed'
  BY DEF Typed, TypeOK, TransportType, QueuesType, InboxType, LockType,
         BudgetType

(* The labels a step may move a task to.                                     *)
LEMMA LabelsHold ==
    /\ Outcome \cup Handshake \cup Teardown \cup Midway \subseteq Labels
    /\ {"connect", "disconnect", "write", "sending", "ack", "lost", "none",
        "run", "k_sleep", "k_write", "cancelled", "done", "killed"}
         \subseteq Labels
    /\ {"idle", "returned", "raised"} = Outcome
    /\ {"fail", "td_begin", "td_cleanup", "td_worker", "td_finish", "next",
        "abort"} = Midway
    /\ {"connecting", "subscribing", "confirming", "requesting", "pausing",
        "reading", "blespp", "info", "report"} = Handshake
    /\ {"td_keepalive", "td_stop", "td_tasks", "td_disc", "td_join", "td_abort"}
         \subseteq Teardown
    /\ Handshake \cap (Outcome \cup Midway \cup Teardown) = {}
  BY DEF Labels, Outcome, Handshake, HandshakeWait, Teardown, Midway

(* Moving a task keeps the labels, and keeps ConnectServes unless the task   *)
(* is a caller that goes into connect() without a session.                   *)
LEMMA GotoTyped ==
    ASSUME Typed, NEW t \in Task, NEW l \in Labels, Goto(t, l),
           serving' = serving,
           t \in Callers => \/ l \notin {"connect"} \cup Handshake
                            \/ serving[t] \in Sessions
    PROVE  pc' \in [Task -> Labels] /\ ConnectServes'
  BY TaskKinds DEF Typed, TypeOK, Goto, ConnectServes, Sessions

(* The parts of Typed before a step.                                         *)
LEMMA TypedNow ==
    ASSUME Typed
    PROVE  /\ client \in ClientType /\ transport \in TransportType
           /\ queues \in QueuesType /\ inbox \in InboxType
           /\ lock \in LockType /\ pc \in [Task -> Labels]
           /\ awaiting \in [Task -> Task \cup {NoTask}]
           /\ serving \in [Task -> Sessions \cup {0}]
           /\ budget \in BudgetType /\ lost \in [Sessions -> Nat]
           /\ ConnectServes
  BY DEF Typed, TypeOK, TransportType, QueuesType, InboxType, LockType,
         BudgetType

(* Giving the write lock back keeps the locks' types.                        *)
LEMMA ReleasedType ==
    ASSUME lock \in LockType, NEW t PROVE Released(lock, t) \in LockType
  BY DEF Released, LockType

(* A consumer that takes the head of its queue leaves a queue behind.        *)
LEMMA TakenType ==
    ASSUME queues \in QueuesType, NEW n \in {"reports", "results"},
           View(n) # <<>>
    PROVE  Consumed(queues[n]) \in Queue /\ Left(Consumed(queues[n])) \in Queue
  <1>1. queues[n] \in Queue
    BY DEF QueuesType
  <1>2. Consumed(queues[n]) \in Queue
    BY <1>1, ConsumedType DEF View
  <1> QED
    BY <1>2, LeftType

LEMMA ConnectTyped ==
    ASSUME Typed, NEW c \in Callers, Connecting(c)
    PROVE  Typed'
  <1>c. c \in Task
    BY TaskKinds
  <1>q. /\ client \in ClientType /\ queues \in QueuesType
        /\ transport \in TransportType /\ lock \in LockType
        /\ inbox \in InboxType /\ pc \in [Task -> Labels]
    BY TypedNow
  <1>1. CASE ConnectNoop(c)
    BY <1>1, <1>c, GotoTyped, LabelsHold
    DEF ConnectNoop, Typed, TypeOK, others
  <1>2. CASE ConnectStart(c)
    <2>s. serving[c] \in Sessions
      BY <1>2 DEF ConnectStart, At, Typed, ConnectServes
    <2>1. client' \in ClientType
      <3>1. Cleared(client) \in ClientType
        BY <1>q, ClearedType
      <3> QED
        BY <1>2, <2>s, <3>1 DEF ConnectStart, Begun, ClientType
    <2>2. queues' \in QueuesType
      BY <1>2, <1>q, FreshQueuesType DEF ConnectStart
    <2>3. pc' \in [Task -> Labels] /\ ConnectServes'
      BY <1>2, <1>c, <2>s, GotoTyped, LabelsHold DEF ConnectStart, others
    <2>4. lock' \in LockType /\ transport' \in TransportType
      BY <1>2, <1>q, <1>c DEF ConnectStart, LockType, TransportType
    <2> QED
      BY <1>2, <2>1, <2>2, <2>3, <2>4, TypedNext
      DEF ConnectStart, Typed, TypeOK, others, InboxType, BudgetType
  <1>3. CASE ConnectTransportUp(c)
    <2>s. serving[c] \in Sessions
      BY <1>3 DEF ConnectTransportUp, At, Handshake, Typed, ConnectServes
    <2>1. client' \in ClientType
      BY <1>3, <1>q, <2>s, TaskKinds DEF ConnectTransportUp, Opened, ClientType
    <2>2. inbox' \in InboxType /\ transport' \in TransportType
      BY <1>3, <1>q, <2>s, EmptyType
      DEF ConnectTransportUp, InboxType, TransportType
    <2>3. pc' \in [Task -> Labels] /\ ConnectServes'
      BY <1>3, <1>q, <1>c, <2>s, TaskKinds, LabelsHold
      DEF ConnectTransportUp, others, Typed, ConnectServes
    <2> QED
      BY <1>3, <1>q, <2>1, <2>2, <2>3, TypedNext
      DEF ConnectTransportUp, Typed, TypeOK, others, BudgetType
  <1>4. CASE ConnectSendRequest(c) \/ ConnectAwaitAnswer(c)
    <2>s. serving[c] \in Sessions
      BY <1>4 DEF ConnectSendRequest, ConnectAwaitAnswer, At, Handshake,
                  HandshakeWait, Typed, ConnectServes
    <2>1. PICK l \in Handshake \cup {"td_begin"} : Goto(c, l)
      BY <1>4 DEF ConnectSendRequest, ConnectAwaitAnswer, Handshake,
                  HandshakeWait
    <2>2. l \in Labels
      BY LabelsHold
    <2>3. pc' \in [Task -> Labels] /\ ConnectServes'
      BY <1>4, <1>c, <2>s, <2>1, <2>2, GotoTyped
      DEF ConnectSendRequest, ConnectAwaitAnswer, others
    <2> QED
      BY <1>4, <2>3
      DEF ConnectSendRequest, ConnectAwaitAnswer, Typed, TypeOK, others
  <1>5. CASE ConnectDiscard(c) \/ ConnectTakeBlespp(c) \/ ConnectTakeInfo(c)
    <2>s. serving[c] \in Sessions
      BY <1>5 DEF ConnectDiscard, ConnectTakeBlespp, ConnectTakeInfo,
                  ConnectTake, At, Handshake, HandshakeWait, Typed,
                  ConnectServes
    <2>1. PICK l \in Handshake \cup {"td_begin"} : Goto(c, l)
      BY <1>5 DEF ConnectDiscard, ConnectTakeBlespp, ConnectTakeInfo,
                  Handshake
    <2>2. l \in Labels
      BY LabelsHold
    <2>3. pc' \in [Task -> Labels] /\ ConnectServes'
      BY <1>5, <1>c, <2>s, <2>1, <2>2, GotoTyped
      DEF ConnectDiscard, ConnectTakeBlespp, ConnectTakeInfo, others
    <2>4. queues' \in QueuesType
      BY <1>5, <1>q, TakenType
      DEF ConnectDiscard, ConnectTakeBlespp, ConnectTakeInfo, ConnectTake,
          QueuesType
    <2>5. client' \in ClientType
      BY <1>5, <1>q
      DEF ConnectDiscard, ConnectTakeBlespp, ConnectTakeInfo, ClientType
    <2> QED
      BY <1>5, <1>q, <2>3, <2>4, <2>5, TypedNext
      DEF ConnectDiscard, ConnectTakeBlespp, ConnectTakeInfo, Typed, TypeOK,
          others, BudgetType
  <1>6. CASE ConnectTakeReport(c)
    <2>s. serving[c] \in Sessions
      BY <1>6 DEF ConnectTakeReport, ConnectTake, At, Handshake,
                  HandshakeWait, Typed, ConnectServes
    <2>1. client' \in ClientType
      BY <1>6, <1>q, <2>s, TaskKinds
      DEF ConnectTakeReport, Ready, Refreshed, ClientType
    <2>2. queues' \in QueuesType
      BY <1>6, <1>q, TakenType DEF ConnectTakeReport, ConnectTake, QueuesType
    <2>3. pc' \in [Task -> Labels] /\ ConnectServes'
      BY <1>6, <1>q, <1>c, <2>s, TaskKinds, LabelsHold
      DEF ConnectTakeReport, others, Typed, ConnectServes
    <2>4. lock' \in LockType
      BY <1>6, <1>q DEF ConnectTakeReport, LockType
    <2> QED
      BY <1>6, <1>q, <2>1, <2>2, <2>3, <2>4, TypedNext
      DEF ConnectTakeReport, Typed, TypeOK, others, BudgetType
  <1>7. CASE ConnectFails(c)
    <2>1. queues' \in QueuesType
      BY <1>7, <1>q, LeftType DEF ConnectFails, QueuesType
    <2>2. pc' \in [Task -> Labels] /\ ConnectServes'
      BY <1>7, <1>c, GotoTyped, LabelsHold DEF ConnectFails, others
    <2> QED
      BY <1>7, <1>q, <2>1, <2>2, TypedNext
      DEF ConnectFails, Typed, TypeOK, others, BudgetType
  <1>8. CASE ConnectRaises(c)
    <2>1. client' \in ClientType /\ queues' \in QueuesType
      BY <1>8, <1>q, ClearedType, FreshQueuesType DEF ConnectRaises
    <2>2. pc' \in [Task -> Labels] /\ ConnectServes'
      BY <1>8, <1>c, GotoTyped, LabelsHold DEF ConnectRaises, others
    <2>3. lock' \in LockType
      BY <1>8, <1>q DEF ConnectRaises, Unlocked, LockType
    <2> QED
      BY <1>8, <1>q, <2>1, <2>2, <2>3, TypedNext
      DEF ConnectRaises, Typed, TypeOK, others, BudgetType
  <1> QED
    BY <1>1, <1>2, <1>3, <1>4, <1>5, <1>6, <1>7, <1>8 DEF Connecting

LEMMA CallsTyped ==
    ASSUME Typed, NEW c \in Callers,
           \/ CallConnect(c) \/ CallDisconnect(c) \/ CallWrite(c)
           \/ Writing(c)
    PROVE  Typed'
  <1>c. c \in Task
    BY TaskKinds
  <1>q. /\ client \in ClientType /\ queues \in QueuesType /\ lock \in LockType
        /\ pc \in [Task -> Labels] /\ budget \in BudgetType
        /\ serving \in [Task -> Sessions \cup {0}] /\ ConnectServes
    BY TypedNow
  <1>1. CASE CallConnect(c)
    <2>1. Budget.connect - budget.connect + 1 \in Sessions
      BY <1>1, <1>q, ConstantsAssumption DEF CallConnect, BudgetType, Sessions
    <2>2. budget' \in BudgetType
      BY <1>1, <1>q, ConstantsAssumption DEF CallConnect, BudgetType
    <2>3. serving' \in [Task -> Sessions \cup {0}]
      BY <1>1, <1>q, <2>1 DEF CallConnect
    <2>4. pc' \in [Task -> Labels]
      BY <1>1, <1>q, LabelsHold DEF CallConnect, Goto
    <2>5. ConnectServes'
      BY <1>1, <1>q, <1>c, <2>1, TaskKinds DEF CallConnect, Goto, ConnectServes
    <2> QED
      BY <1>1, <2>2, <2>3, <2>4, <2>5, TypedNow, TypedNext DEF CallConnect
  <1>2. CASE CallDisconnect(c) \/ CallWrite(c)
    <2>1. pc' \in [Task -> Labels] /\ ConnectServes'
      BY <1>2, <1>c, GotoTyped, LabelsHold DEF CallDisconnect, CallWrite
    <2>2. budget' \in BudgetType
      BY <1>2, <1>q DEF CallDisconnect, CallWrite, BudgetType
    <2> QED
      BY <1>2, <2>1, <2>2, TypedNow, TypedNext DEF CallDisconnect, CallWrite
  <1>4. CASE WriteStart(c)
    <2>1. serving' \in [Task -> Sessions \cup {0}]
      BY <1>4, <1>q DEF WriteStart, ClientType
    <2>2. lock' \in LockType
      BY <1>4, <1>q DEF WriteStart, LockType
    <2>3. pc' \in [Task -> Labels]
      BY <1>4, <1>q, LabelsHold DEF WriteStart, Goto
    <2>4. ConnectServes'
      BY <1>4, <1>q, <1>c, TaskKinds, LabelsHold
      DEF WriteStart, Goto, ConnectServes, Handshake, HandshakeWait
    <2> QED
      BY <1>4, <2>1, <2>2, <2>3, <2>4, TypedNow, TypedNext DEF WriteStart
  <1>5. CASE WriteSent(c) \/ WriteFails(c)
    <2>1. lock' \in LockType
      BY <1>5, <1>q, ReleasedType DEF WriteSent, WriteFails
    <2>2. pc' \in [Task -> Labels] /\ ConnectServes'
      BY <1>5, <1>c, GotoTyped, LabelsHold DEF WriteSent, WriteFails, others
    <2> QED
      BY <1>5, <2>1, <2>2, TypedNow, TypedNext DEF WriteSent, WriteFails, others
  <1>6. CASE WriteTake(c) \/ WriteGivesUp(c)
    <2>1. queues' \in QueuesType
      BY <1>6, <1>q, TakenType, LeftType
      DEF WriteTake, WriteGivesUp, QueuesType
    <2>2. lock' \in LockType
      BY <1>6, <1>q, ReleasedType DEF WriteTake, WriteGivesUp
    <2>3. pc' \in [Task -> Labels] /\ ConnectServes'
      BY <1>6, <1>c, GotoTyped, LabelsHold DEF WriteTake, WriteGivesUp, others
    <2> QED
      BY <1>6, <2>1, <2>2, <2>3, TypedNow, TypedNext
      DEF WriteTake, WriteGivesUp, others
  <1> QED
    BY <1>1, <1>2, <1>4, <1>5, <1>6 DEF Writing

LEMMA DisconnectTyped ==
    ASSUME Typed, NEW t \in Task, Disconnecting(t)
    PROVE  Typed'
  <1>q. /\ client \in ClientType /\ queues \in QueuesType /\ lock \in LockType
        /\ pc \in [Task -> Labels]
    BY TypedNow
  <1>1. client' \in ClientType
    <2>1. Disconnected(client) \in ClientType
      BY <1>q, ClearedType
    <2>2. ASSUME NEW o \in ClientType, NEW b \in BOOLEAN
          PROVE  [o EXCEPT !.closing = b] \in ClientType
      BY DEF ClientType
    <2> QED
      BY <1>q, <2>1, <2>2 DEF Disconnecting, DisconnectStart, DisconnectReturns
  <1>2. queues' \in QueuesType
    BY <1>q, FreshQueuesType
    DEF Disconnecting, DisconnectStart, DisconnectReturns
  <1>3. lock' \in LockType
    BY <1>q
    DEF Disconnecting, DisconnectStart, DisconnectReturns, LockType, Unlocked,
        Released
  <1>4. PICK l \in Labels \ ({"connect"} \cup Handshake) : Goto(t, l)
    <2>1. {"td_begin", "returned", "done", "next", "idle", "raised"}
            \subseteq Labels \ ({"connect"} \cup Handshake)
      BY LabelsHold
    <2> QED
      BY <2>1, AfterFailureType
      DEF Disconnecting, DisconnectStart, DisconnectReturns
  <1>5. pc' \in [Task -> Labels] /\ ConnectServes'
    BY <1>4, GotoTyped
    DEF Disconnecting, DisconnectStart, DisconnectReturns, others
  <1> QED
    BY <1>1, <1>2, <1>3, <1>5, TypedNow, TypedNext
    DEF Disconnecting, DisconnectStart, DisconnectReturns, others

(* What a cancelled teardown leaves behind keeps the types.                  *)
LEMMA LetGoType ==
    ASSUME Typed, NEW t \in Task
    PROVE  /\ LetGo(t) \in LockType /\ NotClosing(t) \in ClientType
           /\ \A l : \A o \in CutShort(l) :
                  o \in TransportType /\ (o.link = "up" => transport.link = "up")
           /\ NotClosing(t).session = client.session
           /\ NotClosing(t).worker = client.worker
  <1>q. /\ client \in ClientType /\ lock \in LockType
        /\ transport \in TransportType
    BY TypedNow
  <1>1. LetGo(t) \in LockType
    BY <1>q DEF LetGo, Released, LockType
  <1>2. /\ NotClosing(t) \in ClientType
        /\ NotClosing(t).session = client.session
        /\ NotClosing(t).worker = client.worker
    BY <1>q DEF NotClosing, ClientType
  <1>3. ASSUME NEW l, NEW o \in CutShort(l)
        PROVE  o \in TransportType /\ (o.link = "up" => transport.link = "up")
    BY <1>q DEF CutShort, LeftUp, LinkDown, TransportType
  <1> QED
    BY <1>1, <1>2, <1>3

LEMMA CancellingTyped ==
    ASSUME Typed, NEW c \in Callers, Cancelling(c)
    PROVE  Typed'
  <1>q. c \in Task /\ lock \in LockType /\ budget \in BudgetType
    BY TypedNow, TaskKinds
  <1>1. PICK l \in {"raised", "abort"} : Goto(c, l)
    BY DEF Cancelling, CancelledInLine, TeardownCancelled, JoinCancelled
  <1>2. l \in Labels /\ l \notin {"connect"} \cup Handshake
    BY LabelsHold
  <1>3. pc' \in [Task -> Labels] /\ ConnectServes'
    BY <1>q, <1>1, <1>2, GotoTyped
    DEF Cancelling, CancelledInLine, TeardownCancelled, JoinCancelled,
        Interrupting, others
  <1>4. CASE CancelledInLine(c)
    <2>1. lock' \in LockType
      BY <1>4, <1>q, ReleasedType DEF CancelledInLine
    <2> QED
      BY <1>3, <1>4, <2>1, TypedNow, TypedNext DEF CancelledInLine, others
  <1>5. CASE TeardownCancelled(c) \/ JoinCancelled(c)
    <2>1. budget' \in BudgetType
      BY <1>5, <1>q
      DEF TeardownCancelled, JoinCancelled, Interrupting, BudgetType
    <2>2. /\ client' \in ClientType /\ transport' \in TransportType
          /\ lock' \in LockType
      BY <1>5, <1>q, LetGoType, TypedNow DEF TeardownCancelled, JoinCancelled
    <2> QED
      BY <1>3, <1>5, <2>1, <2>2, TypedNow, TypedNext
      DEF TeardownCancelled, JoinCancelled, Interrupting
  <1> QED
    BY <1>4, <1>5 DEF Cancelling

(* Cancelling a task does not move it into the handshake, nor end it.        *)
LEMMA AfterCancelType ==
    ASSUME NEW l \in Labels
    PROVE  /\ AfterCancel(l) \in Labels
           /\ AfterCancel(l) \notin {"connect"} \cup Handshake
           /\ AfterCancel(l) = "done" => l = "done"
  <1>1. AfterCancel(l) \in {"abort", "cancelled"} \cup
            ({l} \cap {"done", "killed", "td_abort"})
    BY DEF AfterCancel, Ended
  <1> QED
    BY <1>1, LabelsHold

LEMMA TearingDownTyped ==
    ASSUME Typed, NEW t \in Task, TearingDown(t)
    PROVE  Typed'
  <1>q. /\ client \in ClientType /\ transport \in TransportType
        /\ inbox \in InboxType /\ pc \in [Task -> Labels]
        /\ awaiting \in [Task -> Task \cup {NoTask}] /\ ConnectServes
    BY TypedNow
  <1>1. CASE TeardownBegin(t)
    <2>1. client' \in ClientType
      BY <1>1, <1>q DEF TeardownBegin, ClientType
    <2>2. pc' \in [Task -> Labels]
      BY <1>1, <1>q, LabelsHold DEF TeardownBegin, Goto
    <2>3. awaiting' \in [Task -> Task \cup {NoTask}]
      BY <1>1, <1>q, TaskKinds DEF TeardownBegin, ClientType
    <2>4. ConnectServes'
      BY <1>1, <1>q, TaskKinds
      DEF TeardownBegin, Goto, ConnectServes, Handshake, HandshakeWait
    <2> QED
      BY <1>1, <2>1, <2>2, <2>3, <2>4, TypedNow, TypedNext DEF TeardownBegin
  <1>2. CASE TeardownJoined(t)
    <2>1. awaiting' \in [Task -> Task \cup {NoTask}]
      BY <1>2, <1>q DEF TeardownJoined
    <2>2. pc' \in [Task -> Labels] /\ ConnectServes'
      BY <1>2, GotoTyped, LabelsHold DEF TeardownJoined
    <2> QED
      BY <1>2, <2>1, <2>2, TypedNow, TypedNext DEF TeardownJoined
  <1>3. CASE TeardownCleanup(t)
    <2>1. client' \in ClientType
      BY <1>3, <1>q DEF TeardownCleanup, ClientType
    <2>2. pc' \in [Task -> Labels] /\ ConnectServes'
      BY <1>3, GotoTyped, LabelsHold DEF TeardownCleanup, NextCleanup, others
    <2> QED
      BY <1>3, <2>1, <2>2, TypedNow, TypedNext DEF TeardownCleanup, others
  <1>4. CASE TeardownDisconnect(t)
    <2>1. transport' \in TransportType
      BY <1>4, <1>q DEF TeardownDisconnect, TransportType
    <2>2. pc' \in [Task -> Labels]
      BY <1>4, <1>q, LabelsHold DEF TeardownDisconnect
    <2>3. awaiting' \in [Task -> Task \cup {NoTask}]
      BY <1>4, <1>q DEF TeardownDisconnect
    <2>4. ConnectServes'
      BY <1>4, <1>q, TaskKinds
      DEF TeardownDisconnect, ConnectServes, Handshake, HandshakeWait
    <2> QED
      BY <1>4, <2>1, <2>2, <2>3, <2>4, TypedNow, TypedNext
      DEF TeardownDisconnect
  <1>5. CASE TeardownTasksEnded(t) \/ TeardownDisconnected(t)
    <2>1. transport' \in TransportType
      BY <1>5, <1>q
      DEF TeardownTasksEnded, TeardownDisconnected, LeftUp, LinkDown,
          TransportType
    <2>2. pc' \in [Task -> Labels] /\ ConnectServes'
      BY <1>5, GotoTyped, LabelsHold
      DEF TeardownTasksEnded, TeardownDisconnected, others
    <2> QED
      BY <1>5, <2>1, <2>2, TypedNow, TypedNext
      DEF TeardownTasksEnded, TeardownDisconnected, others
  <1>6. CASE TeardownWorker(t)
    <2>1. client' \in ClientType
      BY <1>6, <1>q DEF TeardownWorker, ForgotWorker, ClientType
    <2>2. inbox' \in InboxType
      BY <1>6, <1>q, TaskKinds DEF TeardownWorker, Told, InboxType, ClientType
    <2>3. awaiting' \in [Task -> Task \cup {NoTask}]
      BY <1>6, <1>q, TaskKinds DEF TeardownWorker, ClientType
    <2>4. pc' \in [Task -> Labels] /\ ConnectServes'
      BY <1>6, GotoTyped, LabelsHold DEF TeardownWorker
    <2> QED
      BY <1>6, <2>1, <2>2, <2>3, <2>4, TypedNow, TypedNext DEF TeardownWorker
  <1>7. CASE AbortJoin(t)
    <2>1. transport' \in TransportType
      BY <1>7, LetGoType DEF AbortJoin
    <2>2. /\ pc' \in [Task -> Labels]
          /\ \A u \in Task : pc'[u] = pc[u] \/ pc'[u] \notin {"connect"} \cup Handshake
      BY <1>7, <1>q, LabelsHold, AfterCancelType DEF AbortJoin
    <2>3. ConnectServes'
      BY <1>7, <1>q, <2>2, TaskKinds DEF AbortJoin, others, ConnectServes
    <2> QED
      BY <1>7, <2>1, <2>2, <2>3, TypedNow, TypedNext DEF AbortJoin, others
  <1>8. CASE Aborted(t)
    <2>1. PICK l \in Labels \ ({"connect"} \cup Handshake) : Goto(t, l)
      <3>1. {"killed", "done", "next", "idle", "raised"}
              \subseteq Labels \ ({"connect"} \cup Handshake)
        BY LabelsHold
      <3> QED
        BY <1>8, <3>1, AfterFailureType DEF Aborted
    <2>2. pc' \in [Task -> Labels] /\ ConnectServes'
      BY <1>8, <2>1, GotoTyped DEF Aborted
    <2>3. awaiting' \in [Task -> Task \cup {NoTask}]
      BY <1>8, <1>q DEF Aborted
    <2> QED
      BY <1>8, <2>2, <2>3, LetGoType, TypedNow, TypedNext DEF Aborted
  <1> QED
    BY <1>1, <1>2, <1>3, <1>4, <1>5, <1>6, <1>7, <1>8 DEF TearingDown

LEMMA FailingTyped ==
    ASSUME Typed, NEW t \in Task, Failing(t)
    PROVE  Typed'
  <1>q. /\ client \in ClientType /\ queues \in QueuesType /\ lock \in LockType
        /\ pc \in [Task -> Labels] /\ lost \in [Sessions -> Nat]
        /\ serving \in [Task -> Sessions \cup {0}] /\ ConnectServes
    BY TypedNow
  <1>1. CASE FailureIgnored(t) \/ FailureHandled(t)
    <2>1. lock' \in LockType
      BY <1>1, <1>q, ReleasedType DEF FailureIgnored, FailureHandled
    <2>2. pc' \in [Task -> Labels] /\ ConnectServes'
      BY <1>1, GotoTyped, LabelsHold, AfterFailureType
      DEF FailureIgnored, FailureHandled, others
    <2> QED
      BY <1>1, <2>1, <2>2, TypedNow, TypedNext
      DEF FailureIgnored, FailureHandled, others
  <1>2. CASE FailureMarked(t)
    <2>1. client' \in ClientType
      BY <1>2, <1>q DEF FailureMarked, Failed, ClientType
    <2>2. queues' \in QueuesType
      BY <1>2, <1>q, WokenType DEF FailureMarked
    <2>3. lock' \in LockType
      BY <1>2, <1>q, ReleasedType DEF FailureMarked
    <2>4. serving' \in [Task -> Sessions \cup {0}]
      BY <1>2, <1>q DEF FailureMarked, ClientType
    <2>5. pc' \in [Task -> Labels]
      BY <1>2, <1>q, LabelsHold, AfterFailureType DEF FailureMarked, Goto
    <2>6. ConnectServes'
      BY <1>2, <1>q, LabelsHold, AfterFailureType, TaskKinds
      DEF FailureMarked, Goto, ConnectServes, Handshake, HandshakeWait
    <2> QED
      BY <1>2, <2>1, <2>2, <2>3, <2>4, <2>5, <2>6, TypedNow, TypedNext
      DEF FailureMarked
  <1>3. CASE FailureNotice(t)
    <2>1. client' \in ClientType /\ queues' \in QueuesType
      BY <1>3, <1>q, ClearedType, FreshQueuesType DEF FailureNotice
    <2>2. lost' \in [Sessions -> Nat]
      <3>1. CASE serving[t] \in Sessions
        BY <1>3, <1>q, <3>1 DEF FailureNotice
      <3>2. CASE serving[t] \notin Sessions
        BY <1>3, <1>q, <3>2 DEF FailureNotice
      <3> QED
        BY <3>1, <3>2
    <2>3. pc' \in [Task -> Labels] /\ ConnectServes'
      BY <1>3, GotoTyped, LabelsHold DEF FailureNotice
    <2> QED
      BY <1>3, <2>1, <2>2, <2>3, TypedNow, TypedNext DEF FailureNotice
  <1>4. CASE CallbackDisconnects(t)
    <2>1. pc' \in [Task -> Labels] /\ ConnectServes'
      BY <1>4, GotoTyped, LabelsHold DEF CallbackDisconnects, others
    <2> QED
      BY <1>4, <2>1, TypedNow, TypedNext DEF CallbackDisconnects, others
  <1> QED
    BY <1>1, <1>2, <1>3, <1>4 DEF Failing

(* A notification that is processed keeps the client and the queues typed.   *)
LEMMA ProcessType ==
    ASSUME Typed, NEW m \in Kinds, NEW s \in Sessions \cup {0}, Process(m, s),
           m \in Reports => s \in Sessions
    PROVE  client' \in ClientType /\ queues' \in QueuesType
  <1>q. client \in ClientType /\ queues \in QueuesType
    BY TypedNow
  <1>1. client' \in ClientType
    BY <1>q DEF Process, Refreshed, ClientType
  <1>2. queues' \in QueuesType
    BY <1>q, PutType DEF Process, QueuesType
  <1> QED
    BY <1>1, <1>2

LEMMA WorkingTyped ==
    ASSUME Typed, NEW s \in Sessions, Working(s)
    PROVE  Typed'
  <1> DEFINE w == Worker(s)
             m == Head(inbox[s])
  <1>w. w \in Task /\ w \notin Callers
    BY TaskKinds
  <1>q. inbox \in InboxType
    BY TypedNow
  <1>t. /\ inbox[s] \in Seq(Kinds \cup {Stop})
        /\ inbox[s] # <<>> => /\ Tail(inbox[s]) \in Seq(Kinds \cup {Stop})
                             /\ m \in Kinds \cup {Stop}
    BY <1>q, HeadTailProperties DEF InboxType
  <1>p. ASSUME inbox[s] # <<>>, inbox' = [inbox EXCEPT ![s] = Tail(@)]
        PROVE  inbox' \in InboxType
    BY <1>q, <1>t, <1>p DEF InboxType
  <1>1. CASE WorkerStop(s) \/ WorkerFails(s) \/ WorkerWaits(s)
    <2>1. inbox' \in InboxType
      BY <1>1, <1>q, <1>p DEF WorkerStop, WorkerFails, WorkerWaits, WorkerTakes
    <2>2. pc' \in [Task -> Labels] /\ ConnectServes'
      BY <1>1, <1>w, GotoTyped, LabelsHold
      DEF WorkerStop, WorkerFails, WorkerWaits, others
    <2> QED
      BY <1>1, <2>1, <2>2, TypedNow, TypedNext
      DEF WorkerStop, WorkerFails, WorkerWaits, others
  <1>2. CASE WorkerProcess(s)
    <2>1. inbox' \in InboxType
      BY <1>2, <1>p DEF WorkerProcess, WorkerTakes
    <2>2. m \in Kinds
      BY <1>2, <1>t DEF WorkerProcess, WorkerTakes
    <2>3. client' \in ClientType /\ queues' \in QueuesType
      BY <1>2, <2>2, ProcessType DEF WorkerProcess
    <2>4. pc' \in [Task -> Labels] /\ ConnectServes'
      <3>1. PICK l \in Labels : l \in {"next", "run"} /\ Goto(w, l)
        BY <1>2, LabelsHold DEF WorkerProcess
      <3> QED
        BY <1>2, <1>w, <3>1, GotoTyped DEF WorkerProcess, others
    <2> QED
      BY <1>2, <2>1, <2>3, <2>4, TypedNow, TypedNext DEF WorkerProcess, others
  <1>3. CASE WorkerCancelled(s)
    <2>1. pc' \in [Task -> Labels] /\ ConnectServes'
      BY <1>3, <1>w, GotoTyped, LabelsHold DEF WorkerCancelled, others
    <2> QED
      BY <1>3, <1>w, <2>1, LetGoType, TypedNow, TypedNext
      DEF WorkerCancelled, others
  <1> QED
    BY <1>1, <1>2, <1>3 DEF Working

LEMMA KeepingAliveTyped ==
    ASSUME Typed, NEW s \in Sessions, KeepingAlive(s)
    PROVE  Typed'
  <1> DEFINE k == Keepalive(s)
  <1>k. k \in Task /\ k \in Keepalives /\ k \notin Callers
    BY TaskKinds
  <1>1. lock' \in LockType
    BY <1>k, TypedNow, ReleasedType
    DEF KeepingAlive, KeepaliveSend, KeepaliveSent, KeepaliveFails,
        KeepaliveCancelled, LockType
  <1>2. PICK l \in Labels : Goto(k, l)
    BY LabelsHold
    DEF KeepingAlive, KeepaliveSend, KeepaliveSent, KeepaliveFails,
        KeepaliveError, KeepaliveCancelled
  <1>3. pc' \in [Task -> Labels] /\ ConnectServes'
    BY <1>k, <1>2, GotoTyped
    DEF KeepingAlive, KeepaliveSend, KeepaliveSent, KeepaliveFails,
        KeepaliveCancelled, others
  <1> QED
    BY <1>1, <1>3, TypedNow, TypedNext
    DEF KeepingAlive, KeepaliveSend, KeepaliveSent, KeepaliveFails,
        KeepaliveCancelled, others

LEMMA NotifyTyped ==
    ASSUME Typed, Numbered, NEW m \in Kinds, NotifyQueued(m) \/ NotifyInline(m)
    PROVE  Typed'
  <1>q. /\ client \in ClientType /\ inbox \in InboxType
        /\ budget \in BudgetType
    BY TypedNow
  <1>0. budget' \in BudgetType
    <2> DEFINE paid == [budget.payload EXCEPT ![m] = @ - 1]
    <2>1. budget.payload[m] \in Nat /\ budget.payload[m] > 0
      BY <1>q DEF NotifyQueued, NotifyInline, Arrives, BudgetType
    <2>2. paid \in [Kinds -> Nat]
      BY <1>q, <2>1 DEF BudgetType
    <2>3. budget' = [budget EXCEPT !.payload = paid]
      BY <1>q DEF NotifyQueued, NotifyInline, Arrives, BudgetType
    <2> QED
      BY <1>q, <2>2, <2>3 DEF BudgetType
  <1>1. CASE NotifyQueued(m)
    <2>1. client.worker[2] \in Sessions
      BY <1>1, <1>q, TaskKinds DEF NotifyQueued, ClientType
    <2>2. inbox' \in InboxType
      BY <1>1, <1>q, <2>1 DEF NotifyQueued, InboxType
    <2>3. ConnectServes'
      BY <1>1, TypedNow DEF NotifyQueued, Arrives, ConnectServes
    <2> QED
      BY <1>0, <1>1, <2>2, <2>3, TypedNow, TypedNext DEF NotifyQueued, Arrives
  <1>2. CASE NotifyInline(m)
    <2>1. client.session \in Sessions
      BY <1>2 DEF NotifyInline, Arrives, Numbered
    <2>2. client' \in ClientType /\ queues' \in QueuesType
      BY <1>2, <2>1, TypedNow, ProcessType DEF NotifyInline
    <2>3. pc' \in [Task -> Labels] /\ ConnectServes'
      <3>1. CASE UNCHANGED pc
        BY <1>2, <3>1, TypedNow DEF NotifyInline, Arrives, ConnectServes
      <3>2. CASE Goto(Notifier, "fail")
        BY <1>2, <3>2, TaskKinds, GotoTyped, LabelsHold
        DEF NotifyInline, Arrives
      <3> QED
        BY <1>2, <3>1, <3>2 DEF NotifyInline
    <2> QED
      BY <1>0, <1>2, <2>2, <2>3, TypedNow, TypedNext DEF NotifyInline, Arrives
  <1> QED
    BY <1>1, <1>2

LEMMA LinkLossTyped ==
    ASSUME Typed, LinkLoss
    PROVE  Typed'
  <1>1. transport' \in TransportType
    BY TypedNow DEF LinkLoss, TransportType
  <1>2. ConnectServes'
    BY TypedNow DEF LinkLoss, others, ConnectServes
  <1> QED
    BY <1>1, <1>2, TypedNow, TypedNext DEF LinkLoss, others

LEMMA StutterTyped ==
    ASSUME Typed, UNCHANGED vars
    PROVE  Typed'
  <1>1. ConnectServes'
    BY TypedNow DEF vars, ConnectServes
  <1> QED
    BY <1>1, TypedNow, TypedNext DEF vars

(* The kinds of step a behaviour is made of.                                 *)
LEMMA StepKinds ==
    ASSUME [Next]_vars
    PROVE  \/ \E c \in Callers : Connecting(c)
           \/ \E c \in Callers : \/ CallConnect(c) \/ CallDisconnect(c)
                                 \/ CallWrite(c) \/ Writing(c)
           \/ \E c \in Callers : Cancelling(c)
           \/ \E t \in Task : Disconnecting(t)
           \/ \E t \in Task : TearingDown(t)
           \/ \E t \in Task : Failing(t)
           \/ \E s \in Sessions : Working(s)
           \/ \E s \in Sessions : KeepingAlive(s)
           \/ \E m \in Kinds : NotifyQueued(m) \/ NotifyInline(m)
           \/ LinkLoss
           \/ UNCHANGED vars
  BY DEF Next, Environment, Finished

LEMMA NextTyped ==
    ASSUME Typed, Numbered, [Next]_vars
    PROVE  Typed'
  BY StepKinds, ConnectTyped, CallsTyped, CancellingTyped, DisconnectTyped,
     TearingDownTyped, FailingTyped,
     WorkingTyped, KeepingAliveTyped, NotifyTyped, LinkLossTyped, StutterTyped

-----------------------------------------------------------------------------
(* Numbered: what may put a caller into the handshake, or the link up, has   *)
(* given the client its session number.                                      *)
LEMMA NumberedKept ==
    ASSUME Numbered,
           client'.session = client.session \/ client'.session \in Sessions,
           transport'.link = "up" =>
               transport.link = "up" \/ client'.session \in Sessions,
           \A c \in Callers : pc'[c] \in Handshake =>
               pc[c] \in Handshake \/ client'.session \in Sessions
    PROVE  Numbered'
  BY DEF Numbered

(* A step that moves one task, to a label outside the handshake, and leaves  *)
(* the session number alone.                                                 *)
LEMMA NumberedMoved ==
    ASSUME Typed, Numbered, NEW t \in Task, NEW l \in Labels \ Handshake,
           Goto(t, l), client'.session = client.session,
           transport'.link = "up" => transport.link = "up"
    PROVE  Numbered'
  <1>1. \A c \in Callers : pc'[c] \in Handshake => pc[c] \in Handshake
    BY TypedNow, TaskKinds DEF Goto
  <1> QED
    BY <1>1, NumberedKept

LEMMA ConnectNumbered ==
    ASSUME Typed, Numbered, NEW c \in Callers, Connecting(c)
    PROVE  Numbered'
  <1>q. /\ client \in ClientType /\ transport \in TransportType
        /\ pc \in [Task -> Labels] /\ ConnectServes /\ c \in Task
    BY TypedNow, TaskKinds
  <1>1. CASE ConnectStart(c)
    <2>1. client'.session \in Sessions
      BY <1>q, <1>1, ClearedType
      DEF ConnectStart, Begun, At, ConnectServes, ClientType
    <2> QED
      BY <2>1, NumberedKept
  <1>2. CASE ConnectTransportUp(c) \/ ConnectTakeReport(c)
             \/ ConnectSendRequest(c) \/ ConnectAwaitAnswer(c)
             \/ ConnectDiscard(c) \/ ConnectTakeBlespp(c)
             \/ ConnectTakeInfo(c) \/ ConnectFails(c)
    <2>1. pc[c] \in Handshake
      BY <1>2 DEF ConnectTransportUp, ConnectTakeReport, ConnectSendRequest,
                  ConnectAwaitAnswer, ConnectDiscard, ConnectTakeBlespp,
                  ConnectTakeInfo, ConnectFails, ConnectTake, At, Handshake,
                  HandshakeWait
    <2>2. client'.session = client.session
      BY <1>q, <1>2
      DEF ConnectTransportUp, ConnectTakeReport, ConnectSendRequest,
          ConnectAwaitAnswer, ConnectDiscard, ConnectTakeBlespp,
          ConnectTakeInfo, ConnectFails, Opened, Ready, ClientType
    <2>3. client'.session \in Sessions
      BY <2>1, <2>2 DEF Numbered
    <2> QED
      BY <2>3, NumberedKept
  <1>3. CASE ConnectNoop(c) \/ ConnectRaises(c)
    <2>1. client'.session = client.session
      BY <1>q, <1>3
      DEF ConnectNoop, ConnectRaises, Disconnected, Cleared, ClientType
    <2> QED
      BY <1>q, <1>3, <2>1, LabelsHold, NumberedMoved
      DEF ConnectNoop, ConnectRaises
  <1> QED
    BY <1>1, <1>2, <1>3 DEF Connecting

LEMMA CallsNumbered ==
    ASSUME Typed, Numbered, NEW c \in Callers,
           \/ CallConnect(c) \/ CallDisconnect(c) \/ CallWrite(c)
           \/ Writing(c)
    PROVE  Numbered'
  <1>q. client \in ClientType /\ transport \in TransportType /\ c \in Task
    BY TypedNow, TaskKinds
  <1>1. client'.session = client.session /\ transport' = transport
    BY <1>q
    DEF CallConnect, CallDisconnect, CallWrite, Writing, WriteStart,
        WriteSent, WriteFails, WriteTake, WriteGivesUp
  <1>2. PICK l \in {"connect", "disconnect", "write", "raised", "returned",
                    "sending", "ack", "fail"} : Goto(c, l)
    BY DEF CallConnect, CallDisconnect, CallWrite, Writing, WriteStart,
           WriteSent, WriteFails, WriteTake, WriteGivesUp
  <1>3. l \in Labels \ Handshake
    BY <1>2 DEF Labels, Outcome, Handshake, HandshakeWait, Teardown, Midway
  <1> QED
    BY <1>q, <1>1, <1>2, <1>3, NumberedMoved

LEMMA DisconnectNumbered ==
    ASSUME Typed, Numbered, NEW t \in Task, Disconnecting(t)
    PROVE  Numbered'
  <1>q. client \in ClientType
    BY TypedNow
  <1>1. client'.session = client.session /\ transport' = transport
    BY <1>q
    DEF Disconnecting, DisconnectStart, DisconnectReturns, Disconnected,
        Cleared, ClientType
  <1>2. PICK l \in {"done", "next", "idle", "raised", "td_begin", "returned"} :
            Goto(t, l)
    BY AfterFailureType DEF Disconnecting, DisconnectStart, DisconnectReturns
  <1>3. l \in Labels \ Handshake
    BY <1>2 DEF Labels, Outcome, Handshake, HandshakeWait, Teardown, Midway
  <1> QED
    BY <1>1, <1>2, <1>3, NumberedMoved

LEMMA CancellingNumbered ==
    ASSUME Typed, Numbered, NEW c \in Callers, Cancelling(c)
    PROVE  Numbered'
  <1>q. c \in Task
    BY TaskKinds
  <1>1. /\ client'.session = client.session
        /\ transport'.link = "up" => transport.link = "up"
    BY <1>q, LetGoType
    DEF Cancelling, CancelledInLine, TeardownCancelled, JoinCancelled
  <1>2. PICK l \in {"raised", "abort"} : Goto(c, l)
    BY DEF Cancelling, CancelledInLine, TeardownCancelled, JoinCancelled
  <1>3. l \in Labels \ Handshake
    BY <1>2, LabelsHold
  <1> QED
    BY <1>q, <1>1, <1>2, <1>3, NumberedMoved

LEMMA TearingDownNumbered ==
    ASSUME Typed, Numbered, NEW t \in Task, TearingDown(t)
    PROVE  Numbered'
  <1>q. /\ client \in ClientType /\ transport \in TransportType
        /\ pc \in [Task -> Labels]
    BY TypedNow
  <1>1. client'.session = client.session
    BY <1>q, LetGoType
    DEF TearingDown, TeardownBegin, TeardownJoined, TeardownCleanup,
        TeardownDisconnect, TeardownTasksEnded, TeardownDisconnected,
        TeardownWorker, ForgotWorker, AbortJoin, Aborted, ClientType
  <1>2. transport'.link = "up" => transport.link = "up"
    BY <1>q, LetGoType
    DEF TearingDown, TeardownBegin, TeardownJoined, TeardownCleanup,
        TeardownDisconnect, TeardownTasksEnded, TeardownDisconnected,
        TeardownWorker, AbortJoin, Aborted, TransportType, LeftUp, LinkDown
  <1>3. \A c \in Callers : pc'[c] \in Handshake => pc[c] \in Handshake
    <2>1. CASE TeardownBegin(t)
      BY <1>q, <2>1, TaskKinds
      DEF TeardownBegin, Goto, Handshake, HandshakeWait
    <2>2. CASE TeardownDisconnect(t)
      BY <1>q, <2>2, TaskKinds
      DEF TeardownDisconnect, Handshake, HandshakeWait
    <2>3. CASE TeardownJoined(t) \/ TeardownCleanup(t)
               \/ TeardownTasksEnded(t) \/ TeardownDisconnected(t)
               \/ TeardownWorker(t)
      BY <1>q, <2>3, TaskKinds
      DEF TeardownJoined, TeardownCleanup, TeardownTasksEnded,
          TeardownDisconnected, TeardownWorker, NextCleanup, Goto, Handshake,
          HandshakeWait
    <2>4. CASE AbortJoin(t)
      BY <1>q, <2>4, LabelsHold, AfterCancelType, TaskKinds DEF AbortJoin
    <2>5. CASE Aborted(t)
      BY <1>q, <2>5, AfterFailureType, LabelsHold, TaskKinds DEF Aborted, Goto
    <2> QED
      BY <2>1, <2>2, <2>3, <2>4, <2>5 DEF TearingDown
  <1> QED
    BY <1>1, <1>2, <1>3, NumberedKept

LEMMA FailingNumbered ==
    ASSUME Typed, Numbered, NEW t \in Task, Failing(t)
    PROVE  Numbered'
  <1>q. client \in ClientType
    BY TypedNow
  <1>1. client'.session = client.session /\ transport' = transport
    BY <1>q
    DEF Failing, FailureIgnored, FailureMarked, FailureNotice, FailureHandled,
        CallbackDisconnects, Failed, Disconnected, Cleared, ClientType
  <1>2. PICK l \in {"done", "next", "idle", "raised", "td_begin", "lost",
                    "disconnect"} : Goto(t, l)
    BY AfterFailureType
    DEF Failing, FailureIgnored, FailureMarked, FailureNotice, FailureHandled,
        CallbackDisconnects
  <1>3. l \in Labels \ Handshake
    BY <1>2 DEF Labels, Outcome, Handshake, HandshakeWait, Teardown, Midway
  <1> QED
    BY <1>1, <1>2, <1>3, NumberedMoved

LEMMA TasksNumbered ==
    ASSUME Typed, Numbered,
           \/ \E s \in Sessions : Working(s) \/ KeepingAlive(s)
           \/ \E m \in Kinds : NotifyQueued(m) \/ NotifyInline(m)
           \/ LinkLoss
           \/ UNCHANGED vars
    PROVE  Numbered'
  <1>q. /\ client \in ClientType /\ transport \in TransportType
        /\ pc \in [Task -> Labels]
    BY TypedNow
  <1>0. ASSUME NEW s \in Sessions, WorkerCancelled(s)
        PROVE  client'.session = client.session
    BY <1>0, LetGoType, TaskKinds DEF WorkerCancelled
  <1>1. client'.session = client.session
    BY <1>q, <1>0
    DEF Working, WorkerStop, WorkerProcess, WorkerFails, WorkerWaits,
        KeepingAlive, KeepaliveSend, KeepaliveSent, KeepaliveFails,
        KeepaliveCancelled, NotifyQueued, NotifyInline, Process, LinkLoss,
        vars, ClientType
  <1>2. transport'.link = "up" => transport.link = "up"
    BY <1>q
    DEF Working, WorkerStop, WorkerProcess, WorkerFails, WorkerWaits,
        WorkerCancelled, KeepingAlive, KeepaliveSend, KeepaliveSent,
        KeepaliveFails, KeepaliveCancelled, NotifyQueued, NotifyInline, Arrives, LinkLoss,
        vars, others, TransportType
  <1>3. \A c \in Callers : pc'[c] = pc[c]
    BY <1>q, TaskKinds
    DEF Working, WorkerStop, WorkerProcess, WorkerFails, WorkerWaits,
        WorkerCancelled, KeepingAlive, KeepaliveSend, KeepaliveSent,
        KeepaliveFails, KeepaliveError, KeepaliveCancelled, NotifyQueued, NotifyInline,
        LinkLoss, vars, others, Goto
  <1> QED
    BY <1>1, <1>2, <1>3, NumberedKept

LEMMA NextNumbered ==
    ASSUME Typed, Numbered, [Next]_vars
    PROVE  Numbered'
  BY StepKinds, ConnectNumbered, CallsNumbered, DisconnectNumbered,
     CancellingNumbered, TearingDownNumbered, FailingNumbered, TasksNumbered

LEMMA InitNumbered == Init => Numbered
  <1> SUFFICES ASSUME Init PROVE Numbered
    OBVIOUS
  <1>1. \A c \in Callers : pc[c] \notin Handshake
    BY TaskKinds DEF Init, Handshake, HandshakeWait
  <1>2. transport.link # "up"
    BY DEF Init
  <1> QED
    BY <1>1, <1>2 DEF Numbered

(* Every behaviour of the client keeps every variable in its type: locks are *)
(* owned by tasks that take them, a lost session has a number, and no queue  *)
(* ever holds the sentinel of the other sort.                                *)
THEOREM TypeCorrect == Spec => []TypeOK
  <1>1. Init => Typed /\ Numbered
    BY InitTyped, InitNumbered
  <1>2. Typed /\ Numbered /\ [Next]_vars => (Typed /\ Numbered)'
    BY NextTyped, NextNumbered
  <1>3. Typed => TypeOK
    BY DEF Typed
  <1> QED
    BY <1>1, <1>2, <1>3, PTL DEF Spec

-----------------------------------------------------------------------------
(* WorkerDrains is inductive together with Typed.  Per session:              *)
StopIsLast(q) == \A i \in 1 .. Len(q) : q[i] = Stop => i = Len(q)
NoStop(q) == \A i \in 1 .. Len(q) : q[i] # Stop

Drains(s) ==
    /\ StopIsLast(inbox[s])
    /\ pc[Worker(s)] = "done" => inbox[s] = <<>>
    /\ client.worker = Worker(s) =>
           pc[Worker(s)] # "done" /\ NoStop(inbox[s])

LEMMA WorkerDrainsDef == WorkerDrains <=> \A s \in Sessions : Drains(s)
  BY DEF WorkerDrains, Drains, StopIsLast, NoStop

(* The queue of a worker: what follows its head, and what is appended to it. *)
LEMMA TailKeeps ==
    ASSUME NEW q \in Seq(Kinds \cup {Stop}), q # <<>>
    PROVE  /\ StopIsLast(q) => StopIsLast(Tail(q))
           /\ NoStop(q) => NoStop(Tail(q))
           /\ StopIsLast(q) /\ Head(q) = Stop => Tail(q) = <<>>
           /\ NoStop(q) => Head(q) # Stop
  <1>1. Len(q) \in Nat /\ Len(q) >= 1 /\ Len(Tail(q)) = Len(q) - 1
    OBVIOUS
  <1>2. \A i \in 1 .. Len(q) - 1 : Tail(q)[i] = q[i + 1]
    OBVIOUS
  <1>3. Head(q) = q[1]
    OBVIOUS
  <1>4. Tail(q) \in Seq(Kinds \cup {Stop})
    OBVIOUS
  <1>5. ASSUME StopIsLast(q) PROVE StopIsLast(Tail(q))
    <2>1. ASSUME NEW i \in 1 .. Len(q) - 1, Tail(q)[i] = Stop
          PROVE  i = Len(q) - 1
      <3>1. i + 1 \in 1 .. Len(q) /\ q[i + 1] = Stop
        BY <1>1, <1>2, <2>1
      <3>2. i + 1 = Len(q)
        BY <1>5, <3>1 DEF StopIsLast
      <3>3. i \in Int /\ Len(q) \in Int
        BY <1>1
      <3> QED
        BY <3>2, <3>3
    <2> QED
      BY <1>1, <2>1, Zenon DEF StopIsLast
  <1>6. NoStop(q) => NoStop(Tail(q)) /\ Head(q) # Stop
    BY <1>1, <1>2, <1>3 DEF NoStop
  <1>7. ASSUME StopIsLast(q), Head(q) = Stop PROVE Tail(q) = <<>>
    <2>1. 1 \in 1 .. Len(q) /\ q[1] = Stop
      BY <1>1, <1>3, <1>7
    <2>2. Len(q) = 1
      BY <1>7, <2>1 DEF StopIsLast
    <2>3. Len(Tail(q)) = 0
      BY <1>1, <2>2
    <2> QED
      BY <1>4, <2>3, EmptySeq
  <1> QED
    BY <1>5, <1>6, <1>7

LEMMA AppendKeeps ==
    ASSUME NEW q \in Seq(Kinds \cup {Stop}), NoStop(q), NEW m \in Kinds
    PROVE  NoStop(Append(q, m)) /\ StopIsLast(Append(q, m))
  <1>1. m # Stop
    BY DEF Kinds, Reports, Acks, Hellos, Stop
  <1> QED
    BY <1>1 DEF NoStop, StopIsLast

LEMMA ToldKeeps ==
    ASSUME NEW q \in Seq(Kinds \cup {Stop}), NoStop(q)
    PROVE  StopIsLast(Told(q))
  BY DEF NoStop, StopIsLast, Told

(* Workers of different sessions are different tasks.                        *)
LEMMA WorkersDiffer ==
    \A s, u \in Sessions : Worker(s) = Worker(u) => s = u
  BY DEF Worker

(* Most steps touch neither the queues nor client.worker, and stop nobody.   *)
LEMMA DrainsKept ==
    ASSUME WorkerDrains, inbox' = inbox, client'.worker = client.worker,
           \A w \in Workers : pc'[w] = "done" => pc[w] = "done"
    PROVE  WorkerDrains'
  BY TaskKinds DEF WorkerDrains

LEMMA ConnectDrains ==
    ASSUME Typed, WorkerDrains, NEW c \in Callers, Connecting(c)
    PROVE  WorkerDrains'
  <1>q. /\ client \in ClientType /\ inbox \in InboxType
        /\ pc \in [Task -> Labels] /\ c \in Task
    BY TypedNow, TaskKinds
  <1>1. CASE ConnectTransportUp(c)
    <2> DEFINE s == serving[c]
    <2>1. s \in Sessions
      BY <1>1, TypedNow DEF ConnectTransportUp, At, Handshake, ConnectServes
    <2>2. /\ inbox'[s] = <<>>
          /\ \A u \in Sessions \ {s} : inbox'[u] = inbox[u]
      BY <1>q, <1>1, <2>1 DEF ConnectTransportUp, InboxType
    <2>3. client'.worker = Worker(s)
      BY <1>q, <1>1 DEF ConnectTransportUp, Opened, ClientType
    <2>4. /\ pc'[Worker(s)] = "run"
          /\ \A u \in Sessions \ {s} : pc'[Worker(u)] = pc[Worker(u)]
      BY <1>q, <1>1, <2>1, TaskKinds, WorkersDiffer DEF ConnectTransportUp
    <2> QED
      BY <2>1, <2>2, <2>3, <2>4, WorkersDiffer DEF WorkerDrains
  <1>2. CASE ~ConnectTransportUp(c)
    <2>1. inbox' = inbox
      BY <1>2 DEF Connecting, ConnectNoop, ConnectStart, ConnectSendRequest,
                  ConnectAwaitAnswer, ConnectDiscard, ConnectTakeBlespp,
                  ConnectTakeInfo, ConnectTakeReport, ConnectFails,
                  ConnectRaises
    <2>2. client'.worker = client.worker
      BY <1>q, <1>2
      DEF Connecting, ConnectNoop, ConnectStart, ConnectSendRequest,
          ConnectAwaitAnswer, ConnectDiscard, ConnectTakeBlespp,
          ConnectTakeInfo, ConnectTakeReport, ConnectFails, ConnectRaises,
          Begun, Cleared, Disconnected, Ready, ClientType
    <2>s. ConnectTakeReport(c) => Keepalive(serving[c]) \in Keepalives
      BY TypedNow, TaskKinds
      DEF ConnectTakeReport, ConnectTake, At, Handshake, HandshakeWait,
          ConnectServes
    <2>3. \A w \in Workers : pc'[w] = pc[w]
      BY <1>q, <1>2, <2>s, TaskKinds
      DEF Connecting, ConnectNoop, ConnectStart, ConnectSendRequest,
          ConnectAwaitAnswer, ConnectDiscard, ConnectTakeBlespp,
          ConnectTakeInfo, ConnectTakeReport, ConnectFails, ConnectRaises, Goto
    <2> QED
      BY <2>1, <2>2, <2>3, DrainsKept
  <1> QED
    BY <1>1, <1>2

LEMMA CallsDrain ==
    ASSUME Typed, WorkerDrains, NEW c \in Callers,
           \/ CallConnect(c) \/ CallDisconnect(c) \/ CallWrite(c)
           \/ Writing(c)
    PROVE  WorkerDrains'
  <1>q. client \in ClientType /\ pc \in [Task -> Labels] /\ c \in Task
    BY TypedNow, TaskKinds
  <1>1. inbox' = inbox /\ client'.worker = client.worker
    BY <1>q
    DEF CallConnect, CallDisconnect, CallWrite, Writing, WriteStart,
        WriteSent, WriteFails, WriteTake, WriteGivesUp
  <1>2. \A w \in Workers : pc'[w] = pc[w]
    BY <1>q, TaskKinds
    DEF CallConnect, CallDisconnect, CallWrite, Writing, WriteStart,
        WriteSent, WriteFails, WriteTake, WriteGivesUp, Goto
  <1> QED
    BY <1>1, <1>2, DrainsKept

LEMMA DisconnectDrains ==
    ASSUME Typed, WorkerDrains, NEW t \in Task, Disconnecting(t)
    PROVE  WorkerDrains'
  <1>q. client \in ClientType /\ pc \in [Task -> Labels]
    BY TypedNow
  <1>1. inbox' = inbox /\ client'.worker = client.worker
    BY <1>q
    DEF Disconnecting, DisconnectStart, DisconnectReturns, Disconnected,
        Cleared, ClientType
  <1>2. \A w \in Workers : pc'[w] = "done" => pc[w] = "done"
    BY <1>q, AfterFailureType, TaskKinds
    DEF Disconnecting, DisconnectStart, DisconnectReturns, Goto
  <1> QED
    BY <1>1, <1>2, DrainsKept

LEMMA CancellingDrains ==
    ASSUME Typed, WorkerDrains, NEW c \in Callers, Cancelling(c)
    PROVE  WorkerDrains'
  <1>q. c \in Task /\ pc \in [Task -> Labels]
    BY TypedNow, TaskKinds
  <1>1. inbox' = inbox /\ client'.worker = client.worker
    BY <1>q, LetGoType
    DEF Cancelling, CancelledInLine, TeardownCancelled, JoinCancelled,
        Interrupting
  <1>2. \A w \in Workers : pc'[w] = pc[w]
    BY <1>q, TaskKinds
    DEF Cancelling, CancelledInLine, TeardownCancelled, JoinCancelled, Goto
  <1> QED
    BY <1>1, <1>2, DrainsKept

LEMMA TearingDownDrains ==
    ASSUME Typed, WorkerDrains, NEW t \in Task, TearingDown(t)
    PROVE  WorkerDrains'
  <1>q. /\ client \in ClientType /\ inbox \in InboxType
        /\ pc \in [Task -> Labels]
    BY TypedNow
  <1>1. \A w \in Workers : pc'[w] = "done" => pc[w] = "done"
    <2>1. CASE TeardownBegin(t)
      BY <1>q, <2>1, TaskKinds DEF TeardownBegin, Goto
    <2>2. CASE TeardownDisconnect(t)
      BY <1>q, <2>2, TaskKinds DEF TeardownDisconnect
    <2>3. CASE TeardownJoined(t) \/ TeardownCleanup(t)
               \/ TeardownTasksEnded(t) \/ TeardownDisconnected(t)
               \/ TeardownWorker(t)
      BY <1>q, <2>3, TaskKinds
      DEF TeardownJoined, TeardownCleanup, TeardownTasksEnded,
          TeardownDisconnected, TeardownWorker, NextCleanup, Goto
    <2>4. CASE AbortJoin(t)
      BY <1>q, <2>4, AfterCancelType, TaskKinds DEF AbortJoin
    <2>5. CASE Aborted(t)
      BY <1>q, <2>5, AfterFailureType, TaskKinds DEF Aborted, Goto
    <2> QED
      BY <2>1, <2>2, <2>3, <2>4, <2>5 DEF TearingDown
  <1>2. CASE TeardownWorker(t) /\ client.worker # NoTask
    <2> DEFINE s == client.worker[2]
    <2>1. s \in Sessions /\ client.worker = Worker(s)
      BY <1>q, <1>2, TaskKinds DEF ClientType
    <2>2. NoStop(inbox[s]) /\ pc[Worker(s)] # "done"
      BY <2>1, WorkerDrainsDef DEF Drains
    <2>3. /\ inbox'[s] = Told(inbox[s])
          /\ \A u \in Sessions \ {s} : inbox'[u] = inbox[u]
      BY <1>q, <1>2, <2>1 DEF TeardownWorker, InboxType
    <2>4. client'.worker = NoTask
      BY <1>q, <1>2 DEF TeardownWorker, ForgotWorker, ClientType
    <2>5. StopIsLast(inbox'[s])
      BY <1>q, <2>1, <2>2, <2>3, ToldKeeps DEF InboxType
    <2>6. ASSUME NEW u \in Sessions PROVE Drains(u)'
      <3>1. client'.worker # Worker(u)
        BY <2>4, TaskKinds
      <3>2. CASE u = s
        BY <1>1, <2>2, <2>5, <3>1, <3>2, TaskKinds DEF Drains
      <3>3. CASE u # s
        BY <1>1, <2>3, <3>1, <3>3, TaskKinds, WorkerDrainsDef DEF Drains
      <3> QED
        BY <3>2, <3>3
    <2> QED
      BY <2>6, WorkerDrainsDef DEF WorkerDrains, Drains, StopIsLast, NoStop
  <1>3. CASE ~(TeardownWorker(t) /\ client.worker # NoTask)
    <2>1. inbox' = inbox
      BY <1>3
      DEF TearingDown, TeardownBegin, TeardownJoined, TeardownCleanup,
          TeardownDisconnect, TeardownTasksEnded, TeardownDisconnected,
          TeardownWorker, AbortJoin, Aborted, others
    <2>2. client'.worker = client.worker
      BY <1>q, <1>3, LetGoType
      DEF TearingDown, TeardownBegin, TeardownJoined, TeardownCleanup,
          TeardownDisconnect, TeardownTasksEnded, TeardownDisconnected,
          TeardownWorker, ForgotWorker, AbortJoin, Aborted, ClientType
    <2> QED
      BY <1>1, <2>1, <2>2, DrainsKept
  <1> QED
    BY <1>2, <1>3

LEMMA FailingDrains ==
    ASSUME Typed, WorkerDrains, NEW t \in Task, Failing(t)
    PROVE  WorkerDrains'
  <1>q. client \in ClientType /\ pc \in [Task -> Labels]
    BY TypedNow
  <1>1. inbox' = inbox /\ client'.worker = client.worker
    BY <1>q
    DEF Failing, FailureIgnored, FailureMarked, FailureNotice, FailureHandled,
        CallbackDisconnects, Failed, Disconnected, Cleared, ClientType
  <1>2. \A w \in Workers : pc'[w] = "done" => pc[w] = "done"
    BY <1>q, AfterFailureType, TaskKinds
    DEF Failing, FailureIgnored, FailureMarked, FailureNotice, FailureHandled,
        CallbackDisconnects, Goto
  <1> QED
    BY <1>1, <1>2, DrainsKept

LEMMA WorkingDrains ==
    ASSUME Typed, WorkerDrains, NEW s \in Sessions, Working(s)
    PROVE  WorkerDrains'
  <1> DEFINE w == Worker(s)
  <1>q. /\ client \in ClientType /\ inbox \in InboxType
        /\ pc \in [Task -> Labels] /\ w \in Workers /\ w \in Task
        /\ Drains(s) /\ inbox[s] \in Seq(Kinds \cup {Stop})
    BY TypedNow, TaskKinds, WorkerDrainsDef DEF InboxType
  <1>1. client'.worker = client.worker
    BY <1>q, LetGoType
    DEF Working, WorkerStop, WorkerProcess, WorkerFails, WorkerWaits,
        WorkerCancelled, Process, ClientType
  <1>2. \A u \in Sessions \ {s} : pc'[Worker(u)] = pc[Worker(u)]
    BY <1>q, TaskKinds, WorkersDiffer
    DEF Working, WorkerStop, WorkerProcess, WorkerFails, WorkerWaits,
        WorkerCancelled, Goto
  <1>3. \A u \in Sessions \ {s} : inbox'[u] = inbox[u]
    BY <1>q
    DEF Working, WorkerStop, WorkerProcess, WorkerFails, WorkerWaits,
        WorkerCancelled, WorkerTakes, InboxType
  <1>4. Drains(s)'
    <2>1. CASE WorkerStop(s)
      <3>1. inbox[s] # <<>> /\ Head(inbox[s]) = Stop
            /\ inbox'[s] = Tail(inbox[s])
        BY <1>q, <2>1 DEF WorkerStop, WorkerTakes, InboxType
      <3>2. inbox'[s] = <<>> /\ client.worker # w
        BY <1>q, <3>1, TailKeeps DEF Drains
      <3> QED
        BY <1>1, <3>2 DEF Drains, StopIsLast
    <2>2. CASE WorkerProcess(s) \/ WorkerFails(s)
      <3>1. inbox[s] # <<>> /\ inbox'[s] = Tail(inbox[s])
        BY <1>q, <2>2 DEF WorkerProcess, WorkerFails, WorkerTakes, InboxType
      <3>2. pc'[w] # "done"
        BY <1>q, <2>2 DEF WorkerProcess, WorkerFails, Goto
      <3> QED
        BY <1>q, <1>1, <3>1, <3>2, TailKeeps DEF Drains
    <2>3. CASE WorkerWaits(s) \/ WorkerCancelled(s)
      <3>1. inbox' = inbox /\ pc'[w] # "done"
        BY <1>q, <2>3 DEF WorkerWaits, WorkerCancelled, Goto
      <3> QED
        BY <1>q, <1>1, <3>1 DEF Drains
    <2> QED
      BY <2>1, <2>2, <2>3 DEF Working
  <1>5. ASSUME NEW u \in Sessions \ {s} PROVE Drains(u)'
    BY <1>1, <1>2, <1>3, WorkerDrainsDef DEF Drains
  <1> QED
    BY <1>4, <1>5 DEF WorkerDrains, Drains, StopIsLast, NoStop

LEMMA OthersDrain ==
    ASSUME Typed, WorkerDrains,
           \/ \E s \in Sessions : KeepingAlive(s)
           \/ \E m \in Kinds : NotifyInline(m)
           \/ LinkLoss
           \/ UNCHANGED vars
    PROVE  WorkerDrains'
  <1>q. client \in ClientType /\ pc \in [Task -> Labels]
    BY TypedNow
  <1>1. inbox' = inbox /\ client'.worker = client.worker
    BY <1>q
    DEF KeepingAlive, KeepaliveSend, KeepaliveSent, KeepaliveFails,
        KeepaliveCancelled, NotifyInline, Process, LinkLoss, vars, ClientType
  <1>2. \A w \in Workers : pc'[w] = pc[w]
    BY <1>q, TaskKinds
    DEF KeepingAlive, KeepaliveSend, KeepaliveSent, KeepaliveFails,
        KeepaliveError, KeepaliveCancelled, NotifyInline, LinkLoss, vars, Goto
  <1> QED
    BY <1>1, <1>2, DrainsKept

LEMMA NotifyQueuedDrains ==
    ASSUME Typed, WorkerDrains, NEW m \in Kinds, NotifyQueued(m)
    PROVE  WorkerDrains'
  <1> DEFINE s == client.worker[2]
  <1>q. /\ client \in ClientType /\ inbox \in InboxType
    BY TypedNow
  <1>1. s \in Sessions /\ client.worker = Worker(s)
    BY <1>q, TaskKinds DEF NotifyQueued, ClientType
  <1>2. /\ inbox'[s] = Append(inbox[s], m)
        /\ \A u \in Sessions \ {s} : inbox'[u] = inbox[u]
    BY <1>q, <1>1 DEF NotifyQueued, InboxType
  <1>3. NoStop(inbox[s]) /\ pc[Worker(s)] # "done"
    BY <1>1, WorkerDrainsDef DEF Drains
  <1>4. NoStop(inbox'[s]) /\ StopIsLast(inbox'[s])
    BY <1>q, <1>1, <1>2, <1>3, AppendKeeps DEF InboxType
  <1>5. client' = client /\ pc' = pc
    BY DEF NotifyQueued
  <1>6. ASSUME NEW u \in Sessions PROVE Drains(u)'
    <2>1. CASE u = s
      BY <1>3, <1>4, <1>5, <2>1 DEF Drains
    <2>2. CASE u # s
      BY <1>2, <1>5, <2>2, WorkerDrainsDef DEF Drains
    <2> QED
      BY <2>1, <2>2
  <1> QED
    BY <1>6 DEF WorkerDrains, Drains, StopIsLast, NoStop

(* _stop_notification_worker, whoever calls it and however often, in any     *)
(* interleaving: each worker is told to stop at most once, after everything  *)
(* that was queued for it, so that every notification that was accepted for  *)
(* a worker is consumed before it ends, and none is queued for a worker that *)
(* is stopping.                                                              *)
THEOREM WorkersDrain == Spec => []WorkerDrains
  <1> DEFINE IInv == Typed /\ Numbered /\ WorkerDrains
  <1>1. Init => IInv
    <2> SUFFICES ASSUME Init PROVE IInv
      OBVIOUS
    <2>1. Typed /\ Numbered
      BY InitTyped, InitNumbered
    <2>2. WorkerDrains
      BY TaskKinds DEF Init, WorkerDrains
    <2> QED
      BY <2>1, <2>2
  <1>2. IInv /\ [Next]_vars => IInv'
    <2> SUFFICES ASSUME IInv, [Next]_vars PROVE IInv'
      OBVIOUS
    <2>1. Typed' /\ Numbered'
      BY NextTyped, NextNumbered
    <2>2. WorkerDrains'
      BY StepKinds, ConnectDrains, CallsDrain, DisconnectDrains,
         CancellingDrains, TearingDownDrains, FailingDrains, WorkingDrains, OthersDrain, NotifyQueuedDrains
    <2> QED
      BY <2>1, <2>2
  <1> QED
    BY <1>1, <1>2, PTL DEF Spec
=============================================================================
