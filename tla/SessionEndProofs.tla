-------------------------- MODULE SessionEndProofs --------------------------
(* How a session ends as long as no call is cancelled inside its teardown:   *)
(* the link is released, a failure leaves the client DISCONNECTED, READY     *)
(* means that somebody is watching.  And, cancelled or not: who waits for an *)
(* answer of a session that fails is woken, and a disconnect() that returns  *)
(* leaves no link that is up unless somebody is taking it down.  A READY     *)
(* session has had a report.  At the end, that a client of one session keeps *)
(* to PatientSpec by itself.                                                 *)
EXTENDS LifecycleProofs

-----------------------------------------------------------------------------
(* While a caller opens the transport nobody tears it down.                  *)
OpeningInv ==
    \A c \in Callers, t \in Task : pc[c] = "connecting" => pc[t] \notin Teardown

(* No more calls are cancelled than the budget allows.                       *)
SpentInv == budget.interrupt <= Budget.interrupt

(* The invariant of a client that was not interrupted, in parts.             *)
Before == {"td_begin", "td_keepalive", "td_cleanup"}
Cleaning == AtTransport \cup {"td_worker", "td_join", "td_finish"}

(* Only keepalives are cancelled, and nobody gives up a gather().            *)
UncutInv ==
    \A t \in Task : /\ pc[t] \notin {"abort", "td_abort", "killed"}
                    /\ pc[t] = "cancelled" => t \in Keepalives

(* What the labels of connect() and of a teardown tell of the transport, and *)
(* _closing of the lock's owner.                                             *)
PlaceInv ==
    /\ \A t \in Task :
        /\ pc[t] \in Cleaning => client.cleanupDone
        /\ pc[t] \in {"td_tasks", "td_disc"} => ~transport.accepting
        /\ lock.lifecycle = t /\ client.closing => pc[t] \in Teardown
    /\ \A c \in Callers : pc[c] = "connecting" => ~client.cleanupDone
    /\ transport.stranded => client.cleanupDone /\ ~transport.accepting

(* A link that is up and no longer wanted is on its way down, or Bleak could *)
(* not take it down; a connect() may find it up.                             *)
ReleaseInv ==
    /\ transport.link = "up" /\ client.cleanupDone
           => transport.stranded \/ \E t \in Task : pc[t] \in AtTransport
    /\ transport.link = "up" /\ client.status = "DISCONNECTED"
           /\ ~client.cleanupDone
           => \/ \E t \in Task : pc[t] \in Before
              \/ \E c \in Callers : pc[c] = "connecting"

(* connect() may overwrite the status of a failed session; it then ends it.  *)
FailInv ==
    client.failure /\ client.status # "DISCONNECTED" =>
        \E c \in Callers :
            /\ lock.lifecycle = c
            /\ pc[c] \in {"pausing", "reading"} \cup Teardown

(* A notification finds no worker only when it is too late to be a failure's *)
(* first witness.                                                            *)
NotifierInv ==
    /\ client.worker = NoTask /\ transport.link = "up" /\ transport.accepting
           => ~First(client)
    /\ pc[Notifier] \in {"idle", "fail"}
    /\ pc[Notifier] = "fail" => ~First(client)

(* Until it ends, the session has its worker; once connect() has returned,   *)
(* its keepalive and an identity as well.                                    *)
Consuming == {"run", "next", "fail"}
Probing == {"k_sleep", "k_write", "fail"}
Untouched == \A t \in Task : lock.lifecycle = t => pc[t] \notin Teardown

WatchInv ==
    First(client) =>
        /\ Untouched => /\ client.worker = Worker(client.session)
                        /\ pc[client.worker] \in Consuming
        /\ lock.lifecycle = NoTask =>
               /\ client.keepalive = Keepalive(client.session)
               /\ pc[client.keepalive] \in Probing
               /\ client.identified

EndInv ==
    /\ UncutInv /\ PlaceInv /\ ReleaseInv /\ FailInv /\ NotifierInv
    /\ WatchInv

-----------------------------------------------------------------------------
LEMMA EndParts ==
    /\ Teardown = Before \cup Cleaning \cup {"abort", "td_abort"}
    /\ AtTransport = {"td_stop", "td_tasks", "td_disc"}
    /\ Before \cap Cleaning = {}
    /\ AtTransport \subseteq Cleaning
    /\ Teardown \cap (Consuming \cup Probing \cup Handshake) = {}
    /\ \A l \in {"none", "idle", "returned", "raised", "connect", "disconnect",
                 "write", "sending", "ack", "lost", "run", "next", "fail",
                 "done", "killed", "cancelled", "k_sleep", "k_write"} :
           l \notin Teardown \cup Handshake
  BY DEF Teardown, Before, Cleaning, AtTransport, Consuming, Probing,
         Handshake, HandshakeWait

(* The owner of a teardown is the lock's, or tells a failure.                *)
LEMMA TearingFor ==
    ASSUME LifeInv, NEW t \in Task, pc[t] \in Teardown
    PROVE  lock.lifecycle = t \/ client.failure
  BY DEF LifeInv, TellerInv, Telling

LEMMA InitEnd == Init => OpeningInv /\ SpentInv /\ EndInv
<1> SUFFICES ASSUME Init PROVE OpeningInv /\ SpentInv /\ EndInv
  OBVIOUS
<1>1. \A t \in Task : pc[t] \in {"idle", "none"}
  BY DEF Init
<1>2. \A t \in Task : pc[t] \notin Teardown \cup Handshake
  BY <1>1, EndParts
<1>3. /\ client.status = "DISCONNECTED" /\ ~client.failure
      /\ transport.link = "down" /\ ~transport.stranded
      /\ pc[Notifier] = "idle"
      /\ lock.lifecycle = NoTask /\ NoTask \notin Task
  BY TaskKinds, ConstantsAssumption DEF Init
<1>4. OpeningInv
  BY <1>2 DEF OpeningInv
<1>5. SpentInv
  BY ConstantsAssumption DEF Init, SpentInv
<1>6. UncutInv
  BY <1>1 DEF UncutInv
<1>7. PlaceInv
  BY <1>2, <1>3, EndParts, TaskKinds DEF PlaceInv, Handshake
<1>8. ReleaseInv /\ FailInv /\ NotifierInv /\ WatchInv
  BY <1>3 DEF ReleaseInv, FailInv, NotifierInv, WatchInv, First
<1>9. QED
  BY <1>4, <1>5, <1>6, <1>7, <1>8 DEF EndInv

-----------------------------------------------------------------------------
(* While a caller is connecting it has the lock and its session no status,   *)
(* so that no other call and no failure begins a teardown.                   *)
LEMMA NextOpening ==
    ASSUME Typed, LossInv, LifeInv, OpeningInv, [PatientNext]_vars
    PROVE  OpeningInv'
<1>1. PatientStep /\ pc \in [Task -> Labels] /\ NoTask \notin Task
  BY PatientStepKinds, TypedNow, ConstantsAssumption
<1>2. ASSUME \A c \in Callers : pc'[c] = "connecting" => pc[c] = "connecting",
             \A t \in Task : pc'[t] \in Teardown => pc[t] \in Teardown
      PROVE  OpeningInv'
  BY <1>2 DEF OpeningInv
<1>3. ASSUME \A c \in Callers : pc'[c] # "connecting" PROVE OpeningInv'
  BY <1>3 DEF OpeningInv
<1>4. CASE Outside
  BY <1>2, <1>4, TaskKinds DEF Outside, Inside, Handshake
<1>5. ASSUME NEW c \in Callers, ConnectStart(c), Quiescent PROVE OpeningInv'
  <2>1. \A t \in Task : pc[t] \notin Teardown
    BY <1>1, <1>5 DEF Quiescent, FailureHandler, ConnectStart
  <2>2. \A t \in Task : pc'[t] \notin Teardown
    BY <1>1, <1>5, <2>1, TaskKinds DEF ConnectStart, Goto, Teardown
  <2>3. QED
    BY <2>2 DEF OpeningInv
<1>6. ASSUME NEW c \in Callers,
             \/ ConnectMoves(c) \/ ConnectTransportUp(c)
             \/ ConnectTakeReport(c)
      PROVE  OpeningInv'
  <2>1. /\ pc[c] \in Handshake /\ c \in Task /\ serving[c] \in Sessions
    BY <1>6, TaskKinds, TypedNow
    DEF ConnectMoves, ConnectSendRequest, ConnectAwaitAnswer,
        ConnectDiscard, ConnectTakeBlespp, ConnectTakeInfo, ConnectFails,
        ConnectTransportUp, ConnectTakeReport, ConnectTake, At, Handshake,
        HandshakeWait, ConnectServes
  <2>2. /\ Worker(serving[c]) \notin Callers
        /\ Keepalive(serving[c]) \notin Callers
    BY <2>1, TaskKinds
  <2>3. \A d \in Callers \ {c} : pc'[d] = pc[d]
    BY <1>1, <1>6, <2>1, <2>2, TaskKinds
    DEF ConnectMoves, ConnectSendRequest, ConnectAwaitAnswer,
        ConnectDiscard, ConnectTakeBlespp, ConnectTakeInfo, ConnectFails,
        ConnectTransportUp, ConnectTakeReport, Goto
  <2>4. pc'[c] # "connecting"
    BY <1>1, <1>6, <2>1, <2>2
    DEF ConnectMoves, ConnectSendRequest, ConnectAwaitAnswer,
        ConnectDiscard, ConnectTakeBlespp, ConnectTakeInfo, ConnectFails,
        ConnectTransportUp, ConnectTakeReport, ConnectTake, At, Goto,
        HandshakeWait
  <2>5. \A d \in Callers \ {c} : pc[d] \notin Handshake
    BY <2>1, HandshakeAlone DEF LossInv, Locked
  <2>6. QED
    BY <1>3, <2>3, <2>4, <2>5 DEF Handshake
<1>7. ASSUME NEW t \in Task,
             \/ DisconnectStart(t) \/ CallEnds(t) \/ Leaving(t)
             \/ FailureMarked(t) \/ FailureNotice(t)
      PROVE  OpeningInv'
  <2>1. /\ \A u \in Task \ {t} : pc'[u] = pc[u]
        /\ pc'[t] \in {"td_begin", "lost", "returned", "done", "next", "idle",
                        "raised", "killed"}
    BY <1>7, TypedNow, AfterFailureType, LeavingParts
    DEF DisconnectStart, CallEnds, ConnectRaises, DisconnectReturns,
        FailureMarked, FailureNotice, At, Goto
  <2>2. \A c \in Callers : pc'[c] = "connecting" => pc[c] = "connecting"
    BY <2>1, TaskKinds
  <2>3. CASE DisconnectStart(t)
    <3>1. \A c \in Callers : pc[c] \notin Handshake
      BY <1>1, <2>3, TaskKinds DEF DisconnectStart, LossInv, Locked
    <3>2. QED
      BY <1>3, <2>2, <3>1 DEF Handshake
  <2>4. CASE FailureMarked(t)
    <3>1. \A c \in Callers : pc[c] # "connecting"
      BY <2>4 DEF FailureMarked, First, LifeInv, StatusInv, Progress
    <3>2. QED
      BY <1>3, <2>2, <3>1
  <2>5. CASE ~DisconnectStart(t) /\ ~FailureMarked(t)
    <3>1. pc'[t] # "td_begin"
      BY <1>1, <1>7, <2>5, AfterFailureType, LeavingParts
      DEF CallEnds, ConnectRaises, DisconnectReturns, FailureNotice, Goto
    <3>2. QED
      BY <1>2, <2>1, <2>2, <3>1, EndParts
  <2>6. QED
    BY <2>3, <2>4, <2>5
<1>8. ASSUME NEW t \in Task, TearingStep(t) PROVE OpeningInv'
  <2>1. "connecting" \notin Teardown
    BY DEF Teardown
  <2>2. QED
    BY <1>2, <1>8, <2>1 DEF TearingStep, Torn
<1>9. QED
  BY <1>1, <1>4, <1>5, <1>6, <1>7, <1>8 DEF PatientStep

-----------------------------------------------------------------------------
(* Only the cancellation of a call inside a teardown spends the budget.      *)
Interruption(c) == TeardownCancelled(c) \/ JoinCancelled(c)

LEMMA OthersSpendNothing ==
    ASSUME Typed, [Next]_vars
    PROVE  \/ budget'.interrupt = budget.interrupt
           \/ \E c \in Callers : Interruption(c)
<1>1. budget \in BudgetType
  BY TypedNow
<1>2. \/ UNCHANGED budget
      \/ \E c \in Callers : CallConnect(c) \/ CallDisconnect(c) \/ CallWrite(c)
      \/ \E m \in Kinds : NotifyQueued(m) \/ NotifyInline(m)
      \/ \E c \in Callers : Interruption(c)
  <2>1. ASSUME NEW c \in Callers, Connecting(c) \/ Writing(c)
        PROVE  UNCHANGED budget
    BY <2>1
    DEF Connecting, ConnectNoop, ConnectStart, ConnectTransportUp,
        ConnectSendRequest, ConnectAwaitAnswer, ConnectDiscard,
        ConnectTakeBlespp, ConnectTakeInfo, ConnectTakeReport, ConnectFails,
        ConnectRaises, Writing, WriteStart, WriteSent, WriteFails, WriteTake,
        WriteGivesUp, others
  <2>2. ASSUME NEW c \in Callers, Cancelling(c)
        PROVE  UNCHANGED budget \/ Interruption(c)
    BY <2>2 DEF Cancelling, CancelledInLine, Interruption, others
  <2>3. ASSUME NEW t \in Task, Disconnecting(t) \/ TearingDown(t) \/ Failing(t)
        PROVE  UNCHANGED budget
    BY <2>3
    DEF Disconnecting, DisconnectStart, DisconnectReturns, TearingDown,
        TeardownBegin, TeardownJoined, TeardownCleanup, TeardownDisconnect,
        TeardownTasksEnded, TeardownDisconnected, TeardownWorker, AbortJoin,
        Aborted, Failing, FailureIgnored, FailureMarked, FailureNotice,
        FailureHandled, CallbackDisconnects, others
  <2>4. ASSUME NEW s \in Sessions, Working(s) \/ KeepingAlive(s)
        PROVE  UNCHANGED budget
    BY <2>4
    DEF Working, WorkerStop, WorkerProcess, WorkerFails, WorkerWaits,
        WorkerCancelled, KeepingAlive, KeepaliveSend, KeepaliveSent,
        KeepaliveFails, KeepaliveCancelled, others
  <2>5. LinkLoss \/ UNCHANGED vars => UNCHANGED budget
    BY DEF LinkLoss, others, vars
  <2>6. QED
    BY <2>1, <2>2, <2>3, <2>4, <2>5, StepKinds
<1>3. QED
  BY <1>1, <1>2
  DEF CallConnect, CallDisconnect, CallWrite, NotifyQueued, NotifyInline,
      Arrives, BudgetType

LEMMA InterruptionSpends ==
    ASSUME Typed, NEW c \in Callers, Interruption(c)
    PROVE  budget'.interrupt = budget.interrupt - 1
  BY TypedNow
  DEF Interruption, TeardownCancelled, JoinCancelled, Interrupting, BudgetType

LEMMA NextSpent ==
    ASSUME Typed, SpentInv, [Next]_vars
    PROVE  /\ SpentInv'
           /\ ~Interrupted' => /\ ~Interrupted
                               /\ \A c \in Callers : ~Interruption(c)
<1>1. budget.interrupt \in Nat /\ Budget.interrupt \in Nat
  BY TypedNow, ConstantsAssumption DEF BudgetType
<1>2. QED
  BY <1>1, OthersSpendNothing, InterruptionSpends DEF SpentInv, Interrupted

-----------------------------------------------------------------------------
(* Steps outside of connect() and of every teardown, once more: they neither *)
(* open the link nor the transport's ears, cancel nobody, and leave who      *)
(* watches the session where he is.                                          *)
Aside ==
    /\ Outside
    /\ transport'.link \in {transport.link, "down"}
    /\ transport'.accepting = transport.accepting
    /\ transport'.stranded = transport.stranded
    /\ \A u \in Task : pc'[u] \in {"killed", "cancelled"} => pc'[u] = pc[u]
    /\ \/ pc'[Notifier] \in {pc[Notifier], "idle"}
       \/ /\ pc'[Notifier] = "fail" /\ client.worker = NoTask
          /\ transport.link = "up" /\ transport.accepting
    /\ First(client) =>
        /\ \A w \in Workers : client.worker = w /\ pc[w] \in Consuming
                                  => pc'[w] \in Consuming
        /\ \A k \in Keepalives : pc[k] \in Probing => pc'[k] \in Probing

LEMMA CallsAside ==
    ASSUME Typed, NEW c \in Callers,
           \/ CallConnect(c) \/ CallDisconnect(c) \/ CallWrite(c) \/ Writing(c)
           \/ ConnectNoop(c) \/ CancelledInLine(c)
    PROVE  Aside
<1>1. c \in Task /\ pc \in [Task -> Labels]
  BY TypedNow, TaskKinds
<1>2. transport' = transport
  BY DEF CallConnect, CallDisconnect, CallWrite, Writing, WriteStart,
         WriteSent, WriteFails, WriteTake, WriteGivesUp, ConnectNoop,
         CancelledInLine
<1>3. /\ \A u \in Task \ {c} : pc'[u] = pc[u]
      /\ pc'[c] \notin {"killed", "cancelled"}
  BY <1>1
  DEF CallConnect, CallDisconnect, CallWrite, Writing, WriteStart, WriteSent,
      WriteFails, WriteTake, WriteGivesUp, ConnectNoop, CancelledInLine, Goto
<1>4. c # Notifier /\ c \notin Workers /\ c \notin Keepalives
  BY TaskKinds
<1>5. QED
  BY <1>1, <1>2, <1>3, <1>4, CallsOutside, TaskKinds DEF Aside

LEMMA FailureAside ==
    ASSUME Typed, UncutInv, NotifierInv, NEW t \in Task,
           FailureIgnored(t) \/ FailureHandled(t) \/ CallbackDisconnects(t)
    PROVE  Aside
<1>1. transport' = transport /\ pc \in [Task -> Labels]
  BY TypedNow DEF FailureIgnored, FailureHandled, CallbackDisconnects
<1>2. /\ \A u \in Task \ {t} : pc'[u] = pc[u]
      /\ pc'[t] \in {AfterFailure(t), "disconnect"}
      /\ pc[t] = "fail" => ~First(client) /\ pc'[t] = AfterFailure(t)
      /\ pc[t] \in {"fail", "lost"}
  BY <1>1 DEF FailureIgnored, FailureHandled, CallbackDisconnects, Goto, At
<1>3. AfterFailure(t) \notin {"killed", "cancelled"}
  BY AfterFailureType
<1>4. AfterFailure(Notifier) = "idle"
  BY TaskKinds DEF AfterFailure
<1>5. pc'[Notifier] \in {pc[Notifier], "idle"}
  BY <1>2, <1>4, TaskKinds DEF NotifierInv
<1>6. First(client) => \A u \in Task :
          pc[u] \in Consuming \cup Probing => pc'[u] = pc[u]
  BY <1>2 DEF Consuming, Probing
<1>7. QED
  BY <1>1, <1>2, <1>3, <1>5, <1>6, FailureOutside, TaskKinds DEF Aside

LEMMA WorkingAside ==
    ASSUME Typed, LifeInv, WorkerDrains, NEW s \in Sessions,
           \/ WorkerStop(s) \/ WorkerProcess(s) \/ WorkerFails(s)
           \/ WorkerWaits(s)
    PROVE  Aside
<1> DEFINE w == Worker(s)
<1>1. /\ w \in Task /\ w \in Workers /\ pc \in [Task -> Labels]
      /\ inbox[s] \in Seq(Kinds \cup {Stop}) /\ w # Notifier
      /\ w \notin Keepalives
  BY TypedNow, TaskKinds DEF InboxType
<1>2. transport' = transport
  BY DEF WorkerStop, WorkerProcess, WorkerFails, WorkerWaits
<1>3. /\ \A u \in Task \ {w} : pc'[u] = pc[u]
      /\ pc'[w] \in {"done", "run", "next", "fail"}
  BY <1>1 DEF WorkerStop, WorkerProcess, WorkerFails, WorkerWaits, Goto
<1>4. client.worker = w => pc'[w] # "done"
  <2>1. CASE WorkerStop(s)
    <3>1. inbox[s] # <<>> /\ Head(inbox[s]) = Stop
      BY <2>1 DEF WorkerStop, WorkerTakes
    <3>2. client.worker = w => NoStop(inbox[s])
      BY DEF WorkerDrains, NoStop
    <3>3. QED
      BY <1>1, <3>1, <3>2, TailKeeps
  <2>2. CASE ~WorkerStop(s)
    BY <1>1, <2>2 DEF WorkerProcess, WorkerFails, WorkerWaits, Goto
  <2>3. QED
    BY <2>1, <2>2
<1>5. Outside
  BY WorkingOutside
<1>6. QED
  BY <1>1, <1>2, <1>3, <1>4, <1>5, TaskKinds DEF Aside, Consuming

LEMMA KeepingAliveAside ==
    ASSUME Typed, NEW s \in Sessions, KeepingAlive(s)
    PROVE  Aside
<1> DEFINE k == Keepalive(s)
<1>1. /\ k \in Task /\ k \notin Workers /\ k \in Keepalives
      /\ pc \in [Task -> Labels] /\ k # Notifier
  BY TypedNow, TaskKinds
<1>2. transport' = transport
  BY DEF KeepingAlive, KeepaliveSend, KeepaliveSent, KeepaliveFails,
         KeepaliveCancelled
<1>3. /\ \A u \in Task \ {k} : pc'[u] = pc[u]
      /\ pc'[k] \in Probing \cup {"done"}
      /\ pc'[k] = "done" => pc[k] = "cancelled"
  BY <1>1
  DEF KeepingAlive, KeepaliveSend, KeepaliveSent, KeepaliveFails,
      KeepaliveError, KeepaliveCancelled, At, Goto, Probing
<1>4. {"killed", "cancelled"} \cap (Probing \cup {"done"}) = {}
  BY DEF Probing
<1>5. "cancelled" \notin Probing
  BY DEF Probing
<1>6. QED
  BY <1>1, <1>2, <1>3, <1>4, <1>5, KeepingAliveOutside, TaskKinds DEF Aside

LEMMA OthersAside ==
    ASSUME Typed,
           \/ \E m \in Kinds : NotifyQueued(m) \/ NotifyInline(m)
           \/ LinkLoss \/ UNCHANGED vars
    PROVE  Aside
<1>1. /\ pc \in [Task -> Labels] /\ transport \in TransportType
  BY TypedNow
<1>2. /\ transport'.link \in {transport.link, "down"}
      /\ transport'.accepting = transport.accepting
      /\ transport'.stranded = transport.stranded
  BY <1>1 DEF NotifyQueued, NotifyInline, Arrives, LinkLoss, vars, TransportType
<1>3. \/ pc' = pc
      \/ /\ Goto(Notifier, "fail") /\ client.worker = NoTask
         /\ transport.link = "up" /\ transport.accepting
  BY DEF NotifyQueued, NotifyInline, Arrives, LinkLoss, vars
<1>4. /\ \A u \in Task \ {Notifier} : pc'[u] = pc[u]
      /\ \/ pc'[Notifier] = pc[Notifier]
         \/ /\ pc'[Notifier] = "fail" /\ client.worker = NoTask
            /\ transport.link = "up" /\ transport.accepting
  BY <1>1, <1>3, TaskKinds DEF Goto
<1>5. QED
  BY <1>2, <1>4, OthersOutside, TaskKinds DEF Aside

-----------------------------------------------------------------------------
(* A step of task t's teardown, when nobody cancels it.                      *)
UncutStep(t) ==
    /\ pc[t] \in Before \cup Cleaning /\ pc'[t] \in Before \cup Cleaning
    /\ \A u \in Task \ {t} :
        \/ pc'[u] = pc[u]
        \/ u = Notifier /\ pc'[u] = "idle"
        \/ u \in Keepalives /\ pc[u] \notin Teardown /\ pc'[u] = "cancelled"
    /\ transport'.link = "up" =>
           transport.link = "up" /\ (pc[t] = "td_disc" => transport'.stranded)
    /\ transport.stranded => transport'.stranded
    /\ transport'.stranded => transport.stranded \/ pc[t] = "td_disc"
    /\ transport'.accepting => transport.accepting
    /\ pc'[t] \in {"td_tasks", "td_disc"} =>
           ~transport'.accepting \/ pc[t] \in {"td_tasks", "td_disc"}
    /\ pc[t] \in {"td_stop", "td_tasks"} => pc'[t] \in {"td_tasks", "td_disc"}
    /\ pc'[t] \in Before => pc[t] \in Before
    /\ client'.cleanupDone =
           (client.cleanupDone \/ (pc[t] \in Before /\ pc'[t] \in Cleaning))
    /\ pc[t] \in Before /\ pc'[t] \in Cleaning =>
           client.cleanupDone \/ pc'[t] = "td_stop"
    /\ client'.worker = client.worker \/ pc[t] = "td_worker"

Tearing(t) ==
    \/ TeardownBegin(t) \/ TeardownJoined(t) \/ TeardownCleanup(t)
    \/ TeardownDisconnect(t) \/ TeardownTasksEnded(t)
    \/ TeardownDisconnected(t) \/ TeardownWorker(t)

LEMMA TearingUncut ==
    ASSUME Typed, LifeInv, EndInv, NEW t \in Task, Tearing(t)
    PROVE  TearingStep(t) /\ UncutStep(t)
<1>1. /\ pc \in [Task -> Labels] /\ client \in ClientType
      /\ transport \in TransportType /\ Notifier \in Task
  BY TypedNow, TaskKinds
<1>2. TearingStep(t)
  BY TearingDownSteps DEF Tearing
<1>3. t # Notifier
  <2>1. pc[t] \notin {"idle", "fail"}
    BY DEF Tearing, TeardownBegin, TeardownJoined, TeardownCleanup,
           TeardownDisconnect, TeardownTasksEnded, TeardownDisconnected,
           TeardownWorker, At
  <2>2. QED
    BY <2>1 DEF EndInv, NotifierInv
<1>4. CASE TeardownBegin(t)
  <2> DEFINE k == client.keepalive
  <2>1. /\ pc[t] = "td_begin" /\ pc'[t] \in {"td_cleanup", "td_keepalive"}
        /\ k \in Keepalives \cup {NoTask}
        /\ \A u \in Task \ {t} :
              \/ pc'[u] = pc[u]
              \/ /\ u = k /\ pc[u] \in {"k_sleep", "k_write"}
                 /\ pc'[u] = "cancelled"
    BY <1>1, <1>4, TaskKinds DEF TeardownBegin, Joins, Goto, ClientType
  <2>2. transport' = transport /\ client'.cleanupDone = client.cleanupDone
        /\ client'.worker = client.worker
    BY <1>1, <1>4 DEF TeardownBegin, ClientType
  <2>3. \A u \in Task \ {t} :
            \/ pc'[u] = pc[u]
            \/ u \in Keepalives /\ pc[u] \notin Teardown /\ pc'[u] = "cancelled"
    BY <2>1, EndParts, TaskKinds, ConstantsAssumption
  <2>4. QED
    BY <1>1, <1>2, <2>1, <2>2, <2>3
    DEF UncutStep, Before, Cleaning, AtTransport, ClientType
<1>5. CASE TeardownJoined(t)
  <2>1. /\ <<pc[t], pc'[t]>> \in {<<"td_keepalive", "td_cleanup">>,
                                  <<"td_join", "td_finish">>}
        /\ \A u \in Task \ {t} : pc'[u] = pc[u]
        /\ transport' = transport /\ client' = client
    BY <1>1, <1>5 DEF TeardownJoined, Goto
  <2>2. QED
    BY <1>1, <1>2, <2>1
    DEF UncutStep, Before, Cleaning, AtTransport, ClientType
<1>6. CASE TeardownCleanup(t)
  <2>1. /\ pc[t] = "td_cleanup" /\ \A u \in Task \ {t} : pc'[u] = pc[u]
        /\ pc'[t] = IF client.cleanupDone THEN "td_worker" ELSE "td_stop"
        /\ transport' = transport /\ client'.cleanupDone
        /\ client'.worker = client.worker
    BY <1>1, <1>6 DEF TeardownCleanup, NextCleanup, Goto, ClientType
  <2>2. QED
    BY <1>1, <1>2, <2>1
    DEF UncutStep, Before, Cleaning, AtTransport, ClientType
<1>7. CASE TeardownDisconnect(t)
  <2>1. /\ pc[t] = "td_stop" /\ pc'[t] \in {"td_tasks", "td_disc"}
        /\ \A u \in Task \ {t} :
              pc'[u] = pc[u] \/ (u = Notifier /\ pc'[u] = "idle")
        /\ transport'.link = transport.link /\ ~transport'.accepting
        /\ transport'.stranded = transport.stranded /\ client' = client
    BY <1>1, <1>3, <1>7 DEF TeardownDisconnect, At, TransportType
  <2>2. QED
    BY <1>1, <1>2, <2>1
    DEF UncutStep, Before, Cleaning, AtTransport, ClientType
<1>8. CASE TeardownTasksEnded(t) \/ TeardownDisconnected(t)
  <2>1. /\ \A u \in Task \ {t} : pc'[u] = pc[u]
        /\ transport'.accepting = transport.accepting /\ client' = client
        /\ transport.stranded => transport'.stranded
    BY <1>1, <1>8
    DEF TeardownTasksEnded, TeardownDisconnected, Goto, LeftUp, LinkDown,
        TransportType
  <2>2. \/ /\ pc[t] = "td_tasks" /\ pc'[t] = "td_disc"
           /\ transport' = transport
        \/ /\ pc[t] = "td_disc" /\ pc'[t] = "td_worker"
           /\ transport'.link = "up" =>
                  transport.link = "up" /\ transport'.stranded
    BY <1>1, <1>8
    DEF TeardownTasksEnded, TeardownDisconnected, At, Goto, LeftUp, LinkDown,
        TransportType
  <2>3. QED
    BY <1>1, <1>2, <2>1, <2>2
    DEF UncutStep, Before, Cleaning, AtTransport, ClientType
<1>9. CASE TeardownWorker(t)
  <2>1. /\ pc[t] = "td_worker" /\ pc'[t] \in {"td_finish", "td_join"}
        /\ \A u \in Task \ {t} : pc'[u] = pc[u]
        /\ transport' = transport /\ client'.cleanupDone = client.cleanupDone
    BY <1>1, <1>9 DEF TeardownWorker, ForgotWorker, Goto, ClientType
  <2>2. QED
    BY <1>1, <1>2, <2>1
    DEF UncutStep, Before, Cleaning, AtTransport, ClientType
<1>10. QED
  BY <1>4, <1>5, <1>6, <1>7, <1>8, <1>9 DEF Tearing

(* A call or a failure's teardown ends: the client is DISCONNECTED.          *)
Ending(t) == CallEnds(t) \/ FailureNotice(t)

CalmStep ==
    \/ Aside
    \/ Quiescent /\ \E c \in Callers : ConnectStart(c)
    \/ \E c \in Callers :
        ConnectMoves(c) \/ ConnectTransportUp(c) \/ ConnectTakeReport(c)
    \/ \E t \in Task : \/ DisconnectStart(t) \/ Ending(t) \/ FailureMarked(t)
                       \/ TearingStep(t) /\ UncutStep(t)

LEMMA CalmStepKinds ==
    ASSUME Typed, LossInv, LifeInv, EndInv, WorkerDrains, [PatientNext]_vars,
           \A c \in Callers : ~Interruption(c)
    PROVE  CalmStep
<1>1. [Next]_vars /\ (Opens => Quiescent \/ UNCHANGED vars)
  BY DEF PatientNext
<1>2. UncutInv /\ NotifierInv
  BY DEF EndInv
<1>3. ASSUME NEW c \in Callers, Connecting(c) PROVE CalmStep
  <2>1. CASE ConnectStart(c)
    <3>1. Opens /\ pc' # pc
      BY <2>1, ConnectStartOpens, TypedNow, TaskKinds
      DEF ConnectStart, At, Goto
    <3>2. QED
      BY <1>1, <2>1, <3>1 DEF vars, CalmStep
  <2>2. CASE ConnectNoop(c)
    BY <2>2, CallsAside DEF CalmStep
  <2>3. CASE ConnectRaises(c)
    BY <2>3, TaskKinds DEF CalmStep, Ending, CallEnds
  <2>4. QED
    BY <1>3, <2>1, <2>2, <2>3 DEF Connecting, ConnectMoves, CalmStep
<1>4. ASSUME NEW c \in Callers,
             CallConnect(c) \/ CallDisconnect(c) \/ CallWrite(c) \/ Writing(c)
      PROVE  CalmStep
  BY <1>4, CallsAside DEF CalmStep
<1>5. ASSUME NEW c \in Callers, Cancelling(c) PROVE CalmStep
  BY <1>5, CallsAside DEF Cancelling, Interruption, CalmStep
<1>6. ASSUME NEW t \in Task, Disconnecting(t) PROVE CalmStep
  BY <1>6 DEF Disconnecting, CalmStep, Ending, CallEnds
<1>7. ASSUME NEW t \in Task, TearingDown(t) PROVE CalmStep
  <2>1. Tearing(t)
    BY <1>2, <1>7 DEF TearingDown, Tearing, AbortJoin, Aborted, At, UncutInv
  <2>2. QED
    BY <2>1, TearingUncut DEF CalmStep
<1>8. ASSUME NEW t \in Task, Failing(t) PROVE CalmStep
  BY <1>2, <1>8, FailureAside DEF Failing, CalmStep, Ending
<1>9. ASSUME NEW s \in Sessions, Working(s) PROVE CalmStep
  <2>1. ~WorkerCancelled(s)
    BY <1>2, TaskKinds DEF WorkerCancelled, At, UncutInv
  <2>2. QED
    BY <1>9, <2>1, WorkingAside DEF Working, CalmStep
<1>10. ASSUME NEW s \in Sessions, KeepingAlive(s) PROVE CalmStep
  BY <1>10, KeepingAliveAside DEF CalmStep
<1>11. ASSUME \/ \E m \in Kinds : NotifyQueued(m) \/ NotifyInline(m)
              \/ LinkLoss \/ UNCHANGED vars
       PROVE  CalmStep
  BY <1>11, OthersAside DEF CalmStep
<1>12. QED
  BY <1>1, <1>3, <1>4, <1>5, <1>6, <1>7, <1>8, <1>9, <1>10, <1>11, StepKinds

-----------------------------------------------------------------------------
(* Each kind of step keeps EndInv.                                           *)
LEMMA IdleReleased ==
    ASSUME Typed, ReleaseInv, client.status = "DISCONNECTED",
           \A t \in Task : pc[t] \notin Handshake \cup Teardown
    PROVE  transport.link = "down" \/ transport.stranded
<1>1. transport.link \in {"up", "down"}
  BY TypedNow DEF TransportType
<1>2. /\ \A t \in Task : pc[t] \notin AtTransport \cup Before
      /\ \A c \in Callers : pc[c] # "connecting"
  BY EndParts, TaskKinds DEF Handshake
<1>3. QED
  BY <1>1, <1>2, TypedNow DEF ReleaseInv, ClientType

(* The session that may still fail first has a worker and a keepalive.       *)
LEMMA FirstServes ==
    ASSUME LifeInv, First(client)
    PROVE  /\ client.session \in Sessions
           /\ Worker(client.session) \in Workers
           /\ Keepalive(client.session) \in Keepalives
  BY TaskKinds DEF LifeInv, StatusInv, First

LEMMA AsideKeeps ==
    ASSUME Typed, LifeInv, EndInv, Aside PROVE EndInv'
<1>1. /\ client'.session = client.session /\ client'.failure = client.failure
      /\ client'.closing = client.closing /\ client'.worker = client.worker
      /\ client'.keepalive = client.keepalive
      /\ client'.identified = client.identified
      /\ client'.cleanupDone = client.cleanupDone
      /\ lock'.lifecycle = lock.lifecycle
  BY DEF Aside, Outside
<1>2. \A u \in Task :
        /\ pc'[u] \in Inside => pc'[u] = pc[u]
        /\ pc[u] \in Inside => pc'[u] = pc[u]
  BY DEF Aside, Outside
<1>3. client'.status = "DISCONNECTED" <=> client.status = "DISCONNECTED"
  BY DEF Aside, Outside, Refreshed
<1>4. First(client)' <=> First(client)
  BY <1>1, <1>3 DEF First
<1>5. /\ transport'.link \in {transport.link, "down"}
      /\ transport'.accepting = transport.accepting
      /\ transport'.stranded = transport.stranded
  BY DEF Aside
<1>6. UncutInv'
  <2>1. {"abort", "td_abort"} \subseteq Inside
    BY DEF Inside, Teardown
  <2>2. QED
    BY <1>2, <2>1 DEF EndInv, UncutInv, Aside
<1>7. PlaceInv'
  <2>1. /\ Cleaning \subseteq Inside /\ {"td_tasks", "td_disc"} \subseteq Inside
        /\ Teardown \subseteq Inside /\ "connecting" \in Inside
    BY EndParts DEF Inside, Handshake
  <2>2. QED
    BY <1>1, <1>2, <1>5, <2>1, TaskKinds DEF EndInv, PlaceInv
<1>8. ReleaseInv'
  <2>1. \A c \in Callers : pc[c] = "connecting" => pc'[c] = "connecting"
    BY <1>2, TaskKinds DEF Inside, Handshake
  <2>2. \A t \in Task : pc[t] \in AtTransport \cup Before => pc'[t] = pc[t]
    BY <1>2, EndParts DEF Inside
  <2>3. QED
    BY <1>1, <1>3, <1>5, <2>1, <2>2 DEF EndInv, ReleaseInv
<1>9. FailInv'
  <2>1. {"pausing", "reading"} \cup Teardown \subseteq Inside
    BY DEF Inside, Handshake
  <2>2. QED
    BY <1>1, <1>2, <1>3, <2>1, TaskKinds DEF EndInv, FailInv
<1>10. NotifierInv'
  BY <1>1, <1>4, <1>5 DEF EndInv, NotifierInv, Aside
<1>11. WatchInv'
  <2> SUFFICES ASSUME First(client) PROVE WatchInv'
    BY <1>4 DEF WatchInv
  <2>1. Untouched' => Untouched
    BY <1>1, <1>2, EndParts DEF Untouched, Inside
  <2>2. Untouched' => /\ client'.worker = Worker(client'.session)
                      /\ pc'[client'.worker] \in Consuming
    BY <1>1, <2>1, FirstServes DEF EndInv, WatchInv, Aside
  <2>3. lock'.lifecycle = NoTask =>
            /\ client'.keepalive = Keepalive(client'.session)
            /\ pc'[client'.keepalive] \in Probing /\ client'.identified
    BY <1>1, FirstServes DEF EndInv, WatchInv, Aside
  <2>4. QED
    BY <2>2, <2>3 DEF WatchInv
<1>12. QED
  BY <1>6, <1>7, <1>8, <1>9, <1>10, <1>11 DEF EndInv

LEMMA ConnectStartEnd ==
    ASSUME Typed, LossInv, LifeInv, EndInv, NEW c \in Callers,
           ConnectStart(c), Quiescent
    PROVE  EndInv'
<1>1. /\ pc[c] = "connect" /\ lock.lifecycle = NoTask
      /\ client.status = "DISCONNECTED" /\ c \in Task /\ NoTask \notin Task
      /\ pc \in [Task -> Labels] /\ c # Notifier
  BY TypedNow, TaskKinds, ConstantsAssumption DEF ConnectStart, At
<1>2. /\ client'.status = "DISCONNECTED" /\ ~client'.failure
      /\ client'.closing = client.closing /\ ~client'.cleanupDone
      /\ lock'.lifecycle = c /\ ~transport'.stranded
  BY <1>1, TypedNow
  DEF ConnectStart, Begun, Cleared, ClientType, LockType, TransportType
<1>3. /\ pc'[c] = "connecting"
      /\ \A u \in Task \ {c} : pc'[u] = pc[u]
  BY <1>1 DEF ConnectStart, Goto
<1>4. /\ \A t \in Task : pc[t] \notin Teardown
      /\ \A t \in Task : pc'[t] \notin Teardown
  BY <1>1, <1>3 DEF Quiescent, FailureHandler, Teardown
<1>5. ~client.closing
  BY <1>1 DEF LifeInv, OwnerInv
<1>6. UncutInv'
  BY <1>3 DEF EndInv, UncutInv
<1>7. PlaceInv'
  BY <1>2, <1>4, <1>5, EndParts DEF PlaceInv
<1>8. ReleaseInv' /\ FailInv' /\ WatchInv'
  BY <1>2, <1>3, <1>5 DEF ReleaseInv, FailInv, WatchInv, First
<1>9. NotifierInv'
  BY <1>1, <1>2, <1>3, TaskKinds DEF EndInv, NotifierInv, First
<1>10. QED
  BY <1>6, <1>7, <1>8, <1>9 DEF EndInv

LEMMA ConnectMovesEnd ==
    ASSUME Typed, LossInv, LifeInv, EndInv, NEW c \in Callers, ConnectMoves(c)
    PROVE  EndInv'
<1>1. /\ c \in Task /\ pc \in [Task -> Labels] /\ client \in ClientType
      /\ c \notin Workers /\ c # Notifier
  BY TypedNow, TaskKinds
<1>2. /\ lock' = lock /\ transport' = transport
      /\ client'.session = client.session /\ client'.failure = client.failure
      /\ client'.closing = client.closing /\ client'.worker = client.worker
      /\ client'.cleanupDone = client.cleanupDone
  BY <1>1
  DEF ConnectMoves, ConnectSendRequest, ConnectAwaitAnswer, ConnectDiscard,
      ConnectTakeBlespp, ConnectTakeInfo, ConnectFails, ClientType
<1>3. /\ \A u \in Task \ {c} : pc'[u] = pc[u]
      /\ pc[c] \in Handshake
      /\ pc'[c] \in (Handshake \ {"connecting"}) \cup {"td_begin"}
      /\ pc[c] \in {"pausing", "reading"} /\ client.failure
             => pc'[c] \in {"reading", "td_begin"}
  BY <1>1
  DEF ConnectMoves, ConnectSendRequest, ConnectAwaitAnswer, ConnectDiscard,
      ConnectTakeBlespp, ConnectTakeInfo, ConnectFails, ConnectTake, At, Goto,
      Handshake, HandshakeWait
<1>4. /\ lock.lifecycle = c /\ ~client.closing
      /\ \A d \in Callers \ {c} : pc[d] \notin Handshake
  BY <1>3, HandshakeAlone DEF LossInv, Locked, LifeInv, OwnerInv
<1>5. \/ client'.status = client.status
      \/ /\ pc[c] = "info" /\ pc'[c] = "pausing" /\ Turn(c)
         /\ client'.status = "PROTOCOL_READY"
         /\ client.failure \/ client.status # "DISCONNECTED"
  <2>1. CASE ConnectTakeInfo(c)
    <3>1. pc[c] = "info" /\ pc'[c] = "pausing" /\ Turn(c)
          /\ client'.status = "PROTOCOL_READY"
      BY <1>1, <2>1 DEF ConnectTakeInfo, ConnectTake, At, Goto, ClientType
    <3>2. client.failure \/ client.status # "DISCONNECTED"
      BY <3>1 DEF LifeInv, StatusInv, Progress, Unconfirmed
    <3>3. QED
      BY <3>1, <3>2
  <2>2. CASE ~ConnectTakeInfo(c)
    BY <1>1, <2>2
    DEF ConnectMoves, ConnectSendRequest, ConnectAwaitAnswer, ConnectDiscard,
        ConnectTakeBlespp, ConnectFails, ClientType
  <2>3. QED
    BY <2>1, <2>2
<1>6. First(client)' <=> First(client)
  BY <1>2, <1>5 DEF First
<1>7. /\ pc[c] \notin Teardown
      /\ pc'[c] \notin Cleaning \cup {"abort", "td_abort"}
      /\ pc'[c] \notin {"td_tasks", "td_disc"}
      /\ pc'[c] \notin {"killed", "cancelled", "connecting"}
  BY <1>3, EndParts DEF Handshake, HandshakeWait, Cleaning, AtTransport
<1>8. UncutInv'
  BY <1>3, <1>7 DEF EndInv, UncutInv
<1>9. PlaceInv'
  BY <1>2, <1>3, <1>4, <1>7, TaskKinds DEF EndInv, PlaceInv
<1>10. ReleaseInv'
  <2>1. \A u \in Task : pc[u] \in AtTransport \cup Before => pc'[u] = pc[u]
    BY <1>3, <1>7, EndParts
  <2>2. client'.status = "DISCONNECTED" => client.status = "DISCONNECTED"
    BY <1>5
  <2>3. pc[c] = "connecting" => pc'[c] \in Before
    BY <1>1
    DEF ConnectMoves, ConnectSendRequest, ConnectAwaitAnswer, ConnectDiscard,
        ConnectTakeBlespp, ConnectTakeInfo, ConnectFails, ConnectTake, At, Goto,
        HandshakeWait, Before
  <2>4. \A d \in Callers \ {c} : pc[d] # "connecting"
    BY <1>4, Zenon DEF Handshake
  <2>5. QED
    BY <1>1, <1>2, <2>1, <2>2, <2>3, <2>4 DEF EndInv, ReleaseInv
<1>11. FailInv'
  <2> SUFFICES ASSUME client.failure, client'.status # "DISCONNECTED"
               PROVE  pc'[c] \in {"pausing", "reading"} \cup Teardown
    BY <1>2, <1>4 DEF FailInv
  <2>1. CASE pc'[c] = "pausing"
    BY <2>1
  <2>2. CASE client'.status = client.status
    <3>1. pc[c] \in {"pausing", "reading"}
      BY <1>4, <1>7, <2>2 DEF EndInv, FailInv
    <3>2. QED
      BY <1>3, <3>1 DEF Teardown
  <2>3. QED
    BY <1>5, <2>1, <2>2
<1>12. NotifierInv'
  <2>1. pc'[Notifier] = pc[Notifier]
    BY <1>1, <1>3, TaskKinds
  <2>2. QED
    BY <1>2, <1>6, <2>1 DEF EndInv, NotifierInv
<1>13. WatchInv'
  <2> SUFFICES ASSUME First(client) PROVE WatchInv'
    BY <1>6 DEF WatchInv
  <2>1. Untouched
    BY <1>4, <1>7 DEF Untouched
  <2>2. /\ client.worker = Worker(client.session)
        /\ pc[client.worker] \in Consuming /\ client.worker \in Workers
    BY <2>1, FirstServes DEF EndInv, WatchInv
  <2>3. pc'[client.worker] \in Consuming
    BY <1>1, <1>3, <2>2, TaskKinds
  <2>4. lock'.lifecycle # NoTask
    BY <1>2, <1>4, TaskKinds
  <2>5. QED
    BY <1>2, <2>2, <2>3, <2>4 DEF WatchInv
<1>14. QED
  BY <1>8, <1>9, <1>10, <1>11, <1>12, <1>13 DEF EndInv

LEMMA TransportUpEnd ==
    ASSUME Typed, LossInv, LifeInv, StartInv, OpeningInv, EndInv,
           NEW c \in Callers, ConnectTransportUp(c)
    PROVE  EndInv'
<1> DEFINE s == serving[c]
           w == Worker(s)
<1>1. /\ pc[c] = "connecting" /\ c \in Task /\ s \in Sessions /\ Turn(c)
      /\ w \in Workers /\ w \in Task /\ w # c /\ w # Notifier /\ w # NoTask
      /\ c # Notifier
  BY TypedNow, TaskKinds
  DEF ConnectTransportUp, At, ConnectServes, Handshake
<1>2. /\ lock.lifecycle = c /\ client.session = s /\ ~client.failure
      /\ ~client.closing /\ ~client.cleanupDone
      /\ \A d \in Callers \ {c} : pc[d] \notin Handshake
      /\ \A t \in Task : pc[t] \notin Teardown
  BY <1>1, HandshakeAlone
  DEF LossInv, Locked, LifeInv, SessionInv, StatusInv, Progress, OwnerInv,
      Handshake, OpeningInv, EndInv, PlaceInv
<1>3. /\ client'.status = "CONNECTED" /\ client'.worker = w
      /\ client'.session = client.session /\ ~client'.failure
      /\ ~client'.closing /\ ~client'.cleanupDone /\ lock' = lock
      /\ transport'.stranded = transport.stranded
  BY <1>2, TypedNow
  DEF ConnectTransportUp, Opened, ClientType, TransportType, others
<1>4. /\ pc'[c] = "subscribing" /\ pc'[w] = "run"
      /\ \A u \in Task \ {c, w} : pc'[u] = pc[u]
  BY <1>1, TypedNow DEF ConnectTransportUp
<1>5. \A t \in Task : pc'[t] \notin Teardown
  BY <1>2, <1>4 DEF Teardown
<1>6. UncutInv'
  BY <1>4 DEF EndInv, UncutInv
<1>7. PlaceInv'
  <2>1. \A d \in Callers : pc'[d] # "connecting"
    BY <1>1, <1>2, <1>4, TaskKinds DEF Handshake
  <2>2. ~transport'.stranded
    BY <1>2, <1>3 DEF EndInv, PlaceInv
  <2>3. QED
    BY <1>3, <1>5, <2>1, <2>2, EndParts DEF PlaceInv
<1>8. ReleaseInv' /\ FailInv'
  BY <1>3 DEF ReleaseInv, FailInv
<1>9. NotifierInv'
  <2>1. pc[Notifier] # "fail"
    BY <1>1, TaskKinds DEF Turn, Midway
  <2>2. pc'[Notifier] = pc[Notifier]
    BY <1>1, <1>4, TaskKinds
  <2>3. QED
    BY <1>1, <1>3, <2>1, <2>2 DEF EndInv, NotifierInv
<1>10. WatchInv'
  BY <1>1, <1>2, <1>3, <1>4, TaskKinds DEF WatchInv, Consuming
<1>11. QED
  BY <1>6, <1>7, <1>8, <1>9, <1>10 DEF EndInv

LEMMA TakeReportEnd ==
    ASSUME Typed, LossInv, LifeInv, StartInv, EndInv,
           NEW c \in Callers, ConnectTakeReport(c)
    PROVE  EndInv'
<1> DEFINE k == Keepalive(serving[c])
<1>1. /\ pc[c] = "report" /\ c \in Task /\ serving[c] \in Sessions
      /\ k \in Keepalives /\ k \in Task /\ k # c /\ k \notin Workers
      /\ c \notin Workers /\ c # Notifier /\ k # Notifier
  BY TypedNow, TaskKinds
  DEF ConnectTakeReport, ConnectTake, At, ConnectServes, Handshake,
      HandshakeWait
<1>2. /\ lock.lifecycle = c /\ client.session = serving[c] /\ ~client.closing
      /\ \A d \in Callers \ {c} : pc[d] \notin Handshake
      /\ pc[k] = "none" /\ pc[c] \notin Teardown
  BY <1>1, HandshakeAlone
  DEF LossInv, Locked, LifeInv, SessionInv, OwnerInv, StartInv, Handshake,
      HandshakeWait, Teardown
<1>3. /\ client' = Ready(client, k)
      /\ lock' = [lock EXCEPT !.lifecycle = NoTask]
      /\ transport' = transport
  BY DEF ConnectTakeReport
<1>4. /\ pc'[c] = "returned" /\ pc'[k] = "k_sleep"
      /\ \A u \in Task \ {c, k} : pc'[u] = pc[u]
  BY <1>1, TypedNow DEF ConnectTakeReport
<1>5. /\ client'.keepalive = k /\ client'.worker = client.worker
      /\ client'.session = client.session /\ client'.failure = client.failure
      /\ client'.closing = client.closing
      /\ client'.cleanupDone = client.cleanupDone
      /\ client'.identified = client.identified
      /\ client'.status = "DISCONNECTED" <=> client.status = "DISCONNECTED"
  BY <1>3, TypedNow DEF Ready, Refreshed, ClientType
<1>6. lock'.lifecycle = NoTask /\ NoTask \notin Task
  BY <1>3, TypedNow, ConstantsAssumption DEF LockType
<1>7. First(client)' <=> First(client)
  BY <1>5 DEF First
<1>8. \A u \in Task : pc[u] \in Teardown <=> pc'[u] \in Teardown
  BY <1>2, <1>4, EndParts
<1>9. \A u \in Task : pc[u] \in Teardown => pc'[u] = pc[u]
  BY <1>2, <1>4, EndParts
<1>10. UncutInv'
  BY <1>4 DEF EndInv, UncutInv
<1>11. PlaceInv'
  <2>1. \A d \in Callers : pc'[d] # "connecting"
    BY <1>1, <1>2, <1>4, TaskKinds DEF Handshake
  <2>2. QED
    BY <1>3, <1>5, <1>6, <1>8, <1>9, <2>1, EndParts DEF EndInv, PlaceInv
<1>12. ReleaseInv'
  <2>1. \A d \in Callers : pc[d] # "connecting"
    BY <1>1, <1>2, Zenon DEF Handshake
  <2>2. QED
    BY <1>3, <1>5, <1>9, <2>1, EndParts DEF EndInv, ReleaseInv
<1>13. FailInv'
  <2>1. client.failure => client.status = "DISCONNECTED"
    BY <1>1 DEF LifeInv, StatusInv, Progress
  <2>2. QED
    BY <1>5, <2>1 DEF FailInv
<1>14. NotifierInv'
  <2>1. pc'[Notifier] = pc[Notifier]
    BY <1>1, <1>4, TaskKinds
  <2>2. QED
    BY <1>3, <1>5, <1>7, <2>1 DEF EndInv, NotifierInv
<1>15. WatchInv'
  <2> SUFFICES ASSUME First(client) PROVE WatchInv'
    BY <1>7 DEF WatchInv
  <2>1. Untouched
    BY <1>2 DEF Untouched
  <2>2. /\ client.worker = Worker(client.session)
        /\ pc[client.worker] \in Consuming /\ client.worker \in Workers
    BY <2>1, FirstServes DEF EndInv, WatchInv
  <2>3. pc'[client.worker] \in Consuming
    BY <1>1, <1>4, <2>2, TaskKinds
  <2>4. client.identified
    BY <1>1 DEF First, LifeInv, StatusInv, IdentityBeforeRequests, Handshake,
                HandshakeWait
  <2>5. QED
    BY <1>2, <1>4, <1>5, <2>2, <2>3, <2>4 DEF WatchInv, Probing
<1>16. QED
  BY <1>10, <1>11, <1>12, <1>13, <1>14, <1>15 DEF EndInv

LEMMA DisconnectStartEnd ==
    ASSUME Typed, LossInv, LifeInv, EndInv, NEW t \in Task, DisconnectStart(t)
    PROVE  EndInv'
<1>1. /\ pc[t] = "disconnect" /\ lock.lifecycle = NoTask
      /\ NoTask \notin Task /\ pc \in [Task -> Labels]
  BY TypedNow, ConstantsAssumption DEF DisconnectStart, At
<1>2. /\ lock'.lifecycle = t /\ transport' = transport
      /\ client'.session = client.session /\ client'.failure = client.failure
      /\ client'.status = client.status /\ client'.worker = client.worker
      /\ client'.cleanupDone = client.cleanupDone
  BY TypedNow DEF DisconnectStart, LockType, ClientType
<1>3. /\ pc'[t] = "td_begin" /\ t # Notifier
      /\ \A u \in Task \ {t} : pc'[u] = pc[u]
  BY <1>1 DEF DisconnectStart, Goto, EndInv, NotifierInv
<1>4. \A d \in Callers : pc[d] \notin Handshake
  BY <1>1, TaskKinds DEF LossInv, Locked
<1>5. UncutInv'
  BY <1>3 DEF EndInv, UncutInv
<1>6. PlaceInv'
  <2>1. \A d \in Callers : pc'[d] # "connecting"
    BY <1>3, <1>4, TaskKinds DEF Handshake
  <2>2. /\ "td_begin" \in Teardown \ Cleaning
        /\ {"td_tasks", "td_disc"} \subseteq Cleaning
    BY DEF Teardown, Cleaning, AtTransport
  <2>3. QED
    BY <1>2, <1>3, <2>1, <2>2 DEF EndInv, PlaceInv
<1>7. ReleaseInv'
  <2>1. \A u \in Task : pc[u] \in AtTransport \cup Before => pc'[u] = pc[u]
    BY <1>1, <1>3, EndParts
  <2>2. \A d \in Callers : pc[d] # "connecting"
    BY <1>4, Zenon DEF Handshake
  <2>3. QED
    BY <1>2, <2>1, <2>2 DEF EndInv, ReleaseInv
<1>8. FailInv'
  BY <1>1, <1>2, TaskKinds DEF EndInv, FailInv
<1>9. NotifierInv'
  BY <1>2, <1>3, TaskKinds DEF EndInv, NotifierInv, First
<1>10. WatchInv'
  <2>1. ~Untouched' /\ lock'.lifecycle # NoTask
    BY <1>1, <1>2, <1>3 DEF Untouched, Teardown
  <2>2. QED
    BY <2>1 DEF WatchInv
<1>11. QED
  BY <1>5, <1>6, <1>7, <1>8, <1>9, <1>10 DEF EndInv

LEMMA EndingEnd ==
    ASSUME Typed, LossInv, LifeInv, OpeningInv, EndInv, NEW t \in Task,
           Ending(t)
    PROVE  EndInv'
<1>1. /\ pc[t] = "td_finish" /\ client.cleanupDone /\ t # Notifier
      /\ pc \in [Task -> Labels] /\ NoTask \notin Task
  BY TypedNow, ConstantsAssumption
  DEF Ending, CallEnds, ConnectRaises, DisconnectReturns, FailureNotice,
      EndInv, PlaceInv, NotifierInv, Cleaning
<1>2. /\ client'.status = "DISCONNECTED" /\ client'.cleanupDone
      /\ transport' = transport
      /\ \/ lock'.lifecycle = NoTask
         \/ /\ lock'.lifecycle = lock.lifecycle /\ lock.lifecycle # t
            /\ client'.closing = client.closing
  BY <1>1, TypedNow
  DEF Ending, CallEnds, ConnectRaises, DisconnectReturns, FailureNotice,
      Disconnected, Cleared, Unlocked, Released, ClientType, LockType
<1>3. /\ pc'[t] \in {"lost", "returned", "done", "next", "idle", "raised"}
      /\ \A u \in Task \ {t} : pc'[u] = pc[u]
  BY <1>1, AfterFailureType
  DEF Ending, CallEnds, ConnectRaises, DisconnectReturns, FailureNotice, Goto
<1>4. UncutInv'
  BY <1>3 DEF EndInv, UncutInv
<1>5. PlaceInv'
  <2>1. \A d \in Callers : pc'[d] # "connecting"
    BY <1>1, <1>3, TaskKinds DEF OpeningInv, Teardown
  <2>2. pc'[t] \notin Cleaning \cup {"td_tasks", "td_disc"}
    BY <1>3, EndParts
  <2>3. QED
    BY <1>1, <1>2, <1>3, <2>1, <2>2 DEF EndInv, PlaceInv
<1>6. ReleaseInv'
  <2>1. \A u \in Task : pc[u] \in AtTransport => pc'[u] = pc[u]
    BY <1>1, <1>3 DEF AtTransport
  <2>2. QED
    BY <1>1, <1>2, <2>1 DEF EndInv, ReleaseInv
<1>7. FailInv' /\ WatchInv'
  BY <1>2 DEF FailInv, WatchInv, First
<1>8. NotifierInv'
  BY <1>1, <1>2, <1>3, TaskKinds DEF EndInv, NotifierInv, First
<1>9. QED
  BY <1>4, <1>5, <1>6, <1>7, <1>8 DEF EndInv

LEMMA FailureMarkedEnd ==
    ASSUME Typed, LossInv, LifeInv, EndInv, NEW t \in Task, FailureMarked(t)
    PROVE  EndInv'
<1>1. /\ pc[t] = "fail" /\ First(client) /\ pc \in [Task -> Labels]
      /\ t # Notifier /\ NoTask \notin Task
      /\ \A d \in Callers : pc[d] # "connecting"
  BY TypedNow, ConstantsAssumption
  DEF FailureMarked, EndInv, NotifierInv, LifeInv, StatusInv, Progress, First
<1>2. /\ client'.status = "DISCONNECTED" /\ transport' = transport
      /\ client'.closing = client.closing
      /\ client'.cleanupDone = client.cleanupDone
      /\ lock'.lifecycle = lock.lifecycle
  BY TypedNow DEF FailureMarked, Failed, Released, ClientType, LockType
<1>3. /\ pc'[t] \in {"td_begin", "done", "next", "idle", "raised"}
      /\ ~client.closing => pc'[t] = "td_begin"
      /\ \A u \in Task \ {t} : pc'[u] = pc[u]
  BY <1>1, AfterFailureType DEF FailureMarked, OwnsLoss, Goto
<1>4. \A u \in Task : pc[u] \in Teardown => pc'[u] = pc[u]
  BY <1>1, <1>3, EndParts
<1>5. UncutInv'
  BY <1>3 DEF EndInv, UncutInv
<1>6. PlaceInv'
  <2>1. \A d \in Callers : pc'[d] # "connecting"
    BY <1>1, <1>3, TaskKinds
  <2>2. pc'[t] \notin Cleaning \cup {"td_tasks", "td_disc"}
    BY <1>3, EndParts DEF Cleaning, AtTransport
  <2>3. QED
    BY <1>2, <1>3, <1>4, <2>1, <2>2 DEF EndInv, PlaceInv
<1>7. ReleaseInv'
  <2>1. transport.link = "up" /\ client.cleanupDone
            => transport.stranded \/ \E u \in Task : pc'[u] \in AtTransport
    BY <1>4, EndParts DEF EndInv, ReleaseInv
  <2>2. ~client.cleanupDone => \E u \in Task : pc'[u] \in Before
    <3>1. CASE ~client.closing
      BY <1>3, <3>1 DEF Before
    <3>2. CASE client.closing /\ ~client.cleanupDone
      <4>1. /\ lock.lifecycle \in Task
            /\ pc[lock.lifecycle] \in Teardown
        BY <3>2, TypedNow DEF LifeInv, OwnerInv, EndInv, PlaceInv, LockType
      <4>2. pc[lock.lifecycle] \in Before
        BY <3>2, <4>1, EndParts DEF EndInv, PlaceInv, UncutInv
      <4>3. QED
        BY <1>4, <4>1, <4>2
    <3>3. QED
      BY <3>1, <3>2
  <2>3. QED
    BY <1>2, <2>1, <2>2 DEF ReleaseInv
<1>8. FailInv' /\ WatchInv'
  BY <1>2 DEF FailInv, WatchInv, First
<1>9. NotifierInv'
  BY <1>1, <1>2, <1>3, TaskKinds DEF EndInv, NotifierInv, First
<1>10. QED
  BY <1>5, <1>6, <1>7, <1>8, <1>9 DEF EndInv

LEMMA TearingEnd ==
    ASSUME Typed, LossInv, LifeInv, OpeningInv, EndInv, NEW t \in Task,
           TearingStep(t), UncutStep(t)
    PROVE  EndInv'
<1>1. /\ client'.failure = client.failure /\ client'.status = client.status
      /\ client'.closing = client.closing
      /\ lock'.lifecycle = lock.lifecycle
  BY DEF TearingStep, TornClient
<1>2. First(client)' <=> First(client)
  BY <1>1 DEF First
<1>3. /\ pc[t] \in Teardown /\ pc'[t] \in Teardown /\ t # Notifier
      /\ pc[Notifier] \notin Teardown
  BY EndParts DEF UncutStep, EndInv, NotifierInv
<1>4. \A u \in Task \ {t} : pc[u] \in Teardown => pc'[u] = pc[u]
  BY <1>3 DEF UncutStep
<1>5. \A u \in Task \ {t} : pc'[u] \in Teardown => pc'[u] = pc[u]
  BY EndParts DEF UncutStep
<1>6. UncutInv'
  BY EndParts DEF UncutStep, EndInv, UncutInv, Before, Cleaning, AtTransport
<1>7. PlaceInv'
  <2>1. \A d \in Callers : pc'[d] # "connecting"
    <3>1. \A d \in Callers : pc[d] # "connecting"
      BY <1>3 DEF OpeningInv
    <3>2. "connecting" \notin Teardown
      BY DEF Teardown
    <3>3. QED
      BY <3>1, <3>2 DEF TearingStep
  <2>2. ASSUME NEW u \in Task, pc'[u] \in Cleaning PROVE client'.cleanupDone
    BY <1>5, <2>2, EndParts DEF UncutStep, EndInv, PlaceInv
  <2>3. ASSUME NEW u \in Task, pc'[u] \in {"td_tasks", "td_disc"}
        PROVE  ~transport'.accepting
    <3>1. {"td_tasks", "td_disc"} \subseteq Teardown
      BY DEF Teardown
    <3>2. QED
      BY <1>5, <2>3, <3>1 DEF UncutStep, EndInv, PlaceInv
  <2>4. ASSUME NEW u \in Task, lock'.lifecycle = u, client'.closing
        PROVE  pc'[u] \in Teardown
    BY <1>1, <1>3, <1>4, <2>4 DEF EndInv, PlaceInv
  <2>5. ASSUME transport'.stranded
        PROVE  client'.cleanupDone /\ ~transport'.accepting
    <3>1. client.cleanupDone /\ ~transport.accepting
      BY <2>5 DEF UncutStep, EndInv, PlaceInv, Cleaning, AtTransport
    <3>2. QED
      BY <3>1 DEF UncutStep
  <2>6. QED
    BY <2>1, <2>2, <2>3, <2>4, <2>5 DEF PlaceInv
<1>8. ReleaseInv'
  <2>1. ASSUME transport'.link = "up", client'.cleanupDone,
               ~transport'.stranded
        PROVE  \E u \in Task : pc'[u] \in AtTransport
    <3>1. transport.link = "up" /\ ~transport.stranded /\ pc[t] # "td_disc"
      BY <2>1 DEF UncutStep
    <3>2. CASE pc'[t] \in AtTransport
      BY <3>2
    <3>3. CASE pc'[t] \notin AtTransport
      <4>1. pc'[t] \notin {"td_stop", "td_tasks", "td_disc"}
        BY <3>3 DEF AtTransport
      <4>2. client.cleanupDone
        BY <2>1, <4>1 DEF UncutStep
      <4>3. PICK u \in Task : pc[u] \in AtTransport
        BY <3>1, <4>2 DEF EndInv, ReleaseInv
      <4>4. u # t
        BY <3>1, <4>1, <4>3, EndParts DEF UncutStep
      <4>5. QED
        BY <1>4, <4>3, <4>4, EndParts
    <3>4. QED
      BY <3>2, <3>3
  <2>2. ASSUME transport'.link = "up", client'.status = "DISCONNECTED",
               ~client'.cleanupDone
        PROVE  \E u \in Task : pc'[u] \in Before
    <3>1. transport.link = "up" /\ ~client.cleanupDone
      BY <2>2 DEF UncutStep
    <3>2. PICK u \in Task : pc[u] \in Before
      BY <1>1, <1>3, <2>2, <3>1 DEF EndInv, ReleaseInv, OpeningInv
    <3>3. CASE u = t
      BY <2>2, <3>2, <3>3 DEF UncutStep
    <3>4. CASE u # t
      BY <1>4, <3>2, <3>4, EndParts
    <3>5. QED
      BY <3>3, <3>4
  <2>3. QED
    BY <2>1, <2>2 DEF ReleaseInv
<1>9. FailInv'
  <2>1. \A c \in Callers : pc[c] \in {"pausing", "reading"} \cup Teardown
            => pc'[c] \in {"pausing", "reading"} \cup Teardown
    BY DEF TearingStep
  <2>2. QED
    BY <1>1, <2>1 DEF EndInv, FailInv
<1>10. NotifierInv'
  <2>1. /\ pc'[Notifier] \in {"idle", "fail"}
        /\ pc'[Notifier] = "fail" => ~First(client)'
    BY <1>2, <1>3, TaskKinds DEF UncutStep, EndInv, NotifierInv
  <2>2. ASSUME client'.worker = NoTask, transport'.link = "up",
               transport'.accepting
        PROVE  ~First(client)
    <3>1. /\ transport.link = "up" /\ transport.accepting
      BY <2>2 DEF UncutStep
    <3>2. CASE client'.worker = client.worker
      BY <2>2, <3>1, <3>2 DEF EndInv, NotifierInv
    <3>3. CASE pc[t] = "td_worker"
      <4>1. client.cleanupDone
        BY <3>3 DEF EndInv, PlaceInv, Cleaning
      <4>2. PICK u \in Task : pc[u] \in AtTransport
        BY <3>1, <4>1 DEF EndInv, PlaceInv, ReleaseInv
      <4>3. u # t /\ pc[u] \in Teardown
        BY <3>3, <4>2, EndParts
      <4>4. client.failure
        BY <1>3, <4>3, TearingFor
      <4>5. QED
        BY <4>4 DEF First
    <3>4. QED
      BY <3>2, <3>3 DEF UncutStep
  <2>3. QED
    BY <1>2, <2>1, <2>2 DEF NotifierInv
<1>11. WatchInv'
  <2> SUFFICES ASSUME First(client) PROVE WatchInv'
    BY <1>2 DEF WatchInv
  <2>1. lock.lifecycle = t
    BY <1>3, TearingFor DEF First
  <2>2. ~Untouched' /\ lock'.lifecycle # NoTask
    BY <1>1, <1>3, <2>1, ConstantsAssumption DEF Untouched
  <2>3. QED
    BY <2>2 DEF WatchInv
<1>12. QED
  BY <1>6, <1>7, <1>8, <1>9, <1>10, <1>11 DEF EndInv

LEMMA NextEnd ==
    ASSUME Inductive, WorkerDrains, OpeningInv, EndInv, [PatientNext]_vars,
           \A c \in Callers : ~Interruption(c)
    PROVE  EndInv'
<1>1. Typed /\ LossInv /\ LifeInv /\ StartInv
  BY DEF Inductive
<1>2. QED
  BY <1>1, CalmStepKinds, AsideKeeps, ConnectStartEnd, ConnectMovesEnd,
     TransportUpEnd, TakeReportEnd, DisconnectStartEnd, EndingEnd,
     FailureMarkedEnd, TearingEnd
  DEF CalmStep

-----------------------------------------------------------------------------
LEMMA PatientIsSpec == PatientSpec => Spec
<1>1. [PatientNext]_vars => [Next]_vars
  BY DEF PatientNext
<1>2. QED
  BY <1>1, PTL DEF PatientSpec, Spec

Calm == ~Interrupted => EndInv

LEMMA CalmHolds ==
    PatientSpec => [](Inductive /\ OpeningInv /\ SpentInv /\ Calm)
<1> DEFINE IInv == Inductive /\ OpeningInv /\ SpentInv /\ Calm
<1>1. Init /\ Inductive => IInv
  BY InitEnd DEF Calm
<1>2. IInv /\ WorkerDrains /\ Inductive' /\ [PatientNext]_vars => IInv'
  <2> SUFFICES ASSUME IInv, WorkerDrains, [PatientNext]_vars
               PROVE  (OpeningInv /\ SpentInv /\ Calm)'
    OBVIOUS
  <2>1. /\ Typed /\ LossInv /\ LifeInv /\ [Next]_vars
    BY DEF Inductive, PatientNext
  <2>2. OpeningInv'
    BY <2>1, NextOpening
  <2>3. SpentInv'
    BY <2>1, NextSpent
  <2>4. ASSUME ~Interrupted' PROVE EndInv'
    <3>1. ~Interrupted /\ \A c \in Callers : ~Interruption(c)
      BY <2>1, <2>4, NextSpent
    <3>2. EndInv
      BY <3>1 DEF Calm
    <3>3. QED
      BY <3>1, <3>2, NextEnd
  <2>5. QED
    BY <2>2, <2>3, <2>4 DEF Calm
<1>3. PatientSpec => []WorkerDrains
  BY PatientIsSpec, WorkersDrain
<1>4. QED
  BY <1>1, <1>2, <1>3, LifeHolds, PTL DEF PatientSpec

(* _cleanup_transport and the teardowns around it: unless a call was         *)
(* cancelled inside its teardown, the link of a client that is DISCONNECTED  *)
(* is down, or a task is taking it down.                                     *)
THEOREM LinkIsReleased == PatientSpec => []TransportReleased
<1>1. Inductive /\ Calm => TransportReleased
  BY IdleReleased DEF Inductive, Calm, EndInv, TransportReleased
<1>2. QED
  BY <1>1, CalmHolds, PTL

(* connect() and _teardown(): with the lifecycle lock free, the status READY *)
(* means a worker that consumes, a keepalive that the client can cancel, and *)
(* a known identity.                                                         *)
THEOREM ReadyMeansWatched == PatientSpec => []ReadyIsWatched
<1>1. Inductive /\ Calm => ReadyIsWatched
  <2> SUFFICES ASSUME Inductive, EndInv, client.status = "READY",
                      lock.lifecycle = NoTask
               PROVE  /\ client.identified
                      /\ client.worker # NoTask
                      /\ pc[client.worker] \in Consuming
                      /\ client.keepalive # NoTask
                      /\ pc[client.keepalive] \in Probing
    BY DEF Calm, ReadyIsWatched, Consuming, Probing
  <2>1. First(client)
    BY TaskKinds DEF EndInv, FailInv, First
  <2>2. /\ Worker(client.session) \in Workers
        /\ Keepalive(client.session) \in Keepalives
    BY <2>1, FirstServes DEF Inductive
  <2>3. Untouched
    BY ConstantsAssumption DEF Untouched
  <2>4. QED
    BY <2>1, <2>2, <2>3, TaskKinds DEF EndInv, WatchInv
<1>2. QED
  BY <1>1, CalmHolds, PTL

(* The handshake may set the status of a session that has failed meanwhile;  *)
(* connect() then ends it before it gives the lifecycle lock back.           *)
THEOREM FailureDisconnects ==
    PatientSpec => [](~Interrupted => FailedIsDisconnected)
<1>1. Inductive /\ Calm => (~Interrupted => FailedIsDisconnected)
  BY TaskKinds DEF Calm, EndInv, FailInv, FailedIsDisconnected
<1>2. QED
  BY <1>1, CalmHolds, PTL

(* A notification that finds no worker is processed by its own task, which   *)
(* transport.disconnect() would cancel: it is never the first to meet a      *)
(* failure, so that it never runs the teardown.                              *)
THEOREM NotifierHandsOver ==
    PatientSpec => [](~Interrupted => NotifierNeverTearsDown)
<1>1. Inductive /\ Calm => (~Interrupted => NotifierNeverTearsDown)
  BY EndParts DEF Calm, EndInv, NotifierInv, NotifierNeverTearsDown
<1>2. QED
  BY <1>1, CalmHolds, PTL

-----------------------------------------------------------------------------
(* Who waits for an answer.  A write that waits, or is about to, has _lock   *)
(* and was begun in a session that has been opened.                          *)
WriterInv ==
    \A c \in Callers : pc[c] \in {"sending", "ack"} =>
        lock.write = c /\ \A s \in Sessions : Fresh(s) => serving[c] # s

(* A queue is held on to by somebody who waits on it.  As long as the        *)
(* session can fail, its consumers wait on the queue that will be told; once *)
(* it has failed, theirs has been.                                           *)
Consumers == {"reports", "results"}
Closes(q) == \E i \in 1 .. Len(q) : q[i] = Closed
Hearing ==
    /\ ~client.failure
    /\ \/ client.status # "DISCONNECTED"
       \/ \E c \in Callers : pc[c] = "connecting"

QueueInv(n) ==
    /\ queues[n].detached => \E c \in Callers : pc[c] \in WaitsOn(n)
    /\ \A c \in Callers :
        pc[c] \in WaitsOn(n) /\ serving[c] = client.session =>
            /\ Hearing => ~queues[n].detached
            /\ client.failure => Closes(View(n))

WaitInv == WriterInv /\ \A n \in Consumers : QueueInv(n)

LEMMA WaitParts ==
    /\ WaitsOn("reports") = HandshakeWait /\ WaitsOn("results") = {"ack"}
    /\ HandshakeWait \subseteq Handshake \ {"connecting"}
    /\ \A n \in Consumers : WaitsOn(n) \cap (Teardown \cup Outcome) = {}
    /\ \A n \in Consumers : {"sending", "connecting", "fail", "lost"}
                                \cap WaitsOn(n) = {}
    /\ {"sending", "ack"} \cap (Teardown \cup Handshake \cup Outcome) = {}
  BY DEF WaitsOn, Consumers, Handshake, HandshakeWait, Teardown, Outcome

(* The locks see to it that one caller at a time waits on each queue.        *)
LEMMA WaitsAlone ==
    ASSUME LossInv, WriterInv, NEW n \in Consumers, NEW c \in Callers
    PROVE  /\ n = "reports" /\ lock.lifecycle = c =>
                  \A d \in Callers \ {c} : pc[d] \notin WaitsOn(n)
           /\ n = "results" /\ lock.write = c =>
                  \A d \in Callers \ {c} : pc[d] \notin WaitsOn(n)
  BY WaitParts DEF LossInv, Locked, WriterInv, Consumers

LEMMA InitWait == Init => WaitInv
<1> SUFFICES ASSUME Init PROVE WaitInv
  OBVIOUS
<1>1. \A c \in Callers : pc[c] = "idle"
  BY TaskKinds DEF Init
<1>2. \A n \in Consumers, c \in Callers : pc[c] \notin WaitsOn(n)
  BY <1>1, WaitParts DEF Outcome
<1>3. \A n \in Consumers : ~queues[n].detached
  BY DEF Init, EmptyQueue, Consumers
<1>4. WriterInv
  BY <1>1 DEF WriterInv
<1>5. QED
  BY <1>2, <1>3, <1>4 DEF WaitInv, QueueInv

-----------------------------------------------------------------------------
(* What a step does to a queue.                                              *)
LEMMA PutCloses ==
    ASSUME Typed, NEW n \in Consumers, NEW m \in Kinds \cup {Closed},
           queues'[n] = Put(queues[n], m)
    PROVE  /\ queues'[n].detached = queues[n].detached
           /\ Closes(View(n)) => Closes(View(n)')
           /\ m = Closed /\ ~queues[n].detached => Closes(View(n)')
<1> DEFINE q == queues[n]
           k == Append(q.current, m)
<1>1. q \in Queue
  BY TypedNow DEF QueuesType, Consumers
<1>2. /\ queues'[n].detached = q.detached /\ queues'[n].held = q.held
      /\ queues'[n].current = k /\ q.current \in Seq(Kinds \cup {Closed})
  BY <1>1 DEF Put, Queue
<1>3. /\ Len(k) = Len(q.current) + 1 /\ k[Len(q.current) + 1] = m
      /\ \A i \in 1 .. Len(q.current) : k[i] = q.current[i]
      /\ Len(q.current) \in Nat
  BY <1>2
<1>4. /\ Closes(q.current) => Closes(k)
      /\ m = Closed => Closes(k)
  BY <1>3 DEF Closes
<1>5. QED
  BY <1>2, <1>4 DEF View

(* Nobody waits on it, or nobody in a session that matters.                  *)
LEMMA QueueIdle ==
    ASSUME NEW n \in Consumers, ~queues'[n].detached,
           ~client'.failure \/ \A c \in Callers : pc'[c] \notin WaitsOn(n)
    PROVE  QueueInv(n)'
  BY DEF QueueInv, WaitsOn

(* Those who wait go on waiting, and nothing that was to be heard is lost.   *)
LEMMA QueueStill ==
    ASSUME NEW n \in Consumers, QueueInv(n),
           client'.session = client.session,
           client'.failure = client.failure, Hearing' => Hearing,
           queues'[n].detached = queues[n].detached,
           client.failure /\ Closes(View(n)) => Closes(View(n)'),
           \A c \in Callers :
               /\ pc'[c] \in WaitsOn(n) <=> pc[c] \in WaitsOn(n)
               /\ pc'[c] \in WaitsOn(n) => serving'[c] = serving[c]
    PROVE  QueueInv(n)'
  BY DEF QueueInv, WaitsOn

(* _reset_session: whoever waits keeps the queue he waits on.                *)
LEMMA QueueReplaced ==
    ASSUME Typed, NEW n \in Consumers, QueueInv(n), queues'[n] = Replaced(n),
           \A c \in Callers :
               /\ pc[c] \in WaitsOn(n) => pc'[c] = pc[c]
               /\ pc'[c] \in WaitsOn(n) =>
                      pc'[c] = pc[c] /\ serving'[c] = serving[c],
           ~Hearing',
           client'.failure => /\ client'.session = client.session
                              /\ client.failure
    PROVE  QueueInv(n)'
<1> DEFINE waits == \E c \in Callers : pc[c] \in WaitsOn(n)
<1>1. queues[n] \in Queue
  BY TypedNow DEF QueuesType, Consumers
<1>2. CASE queues[n].detached \/ ~waits
  <2>1. /\ queues'[n].detached = queues[n].detached
        /\ queues'[n].held = queues[n].held
    BY <1>1, <1>2 DEF Replaced, Queue
  <2>2. queues[n].detached => View(n)' = View(n)
    BY <2>1 DEF View
  <2>3. waits => queues[n].detached
    BY <1>2
  <2>4. QED
    BY <1>2, <2>1, <2>2, <2>3 DEF QueueInv, WaitsOn
<1>3. CASE ~queues[n].detached /\ waits
  <2>1. queues'[n].detached /\ View(n)' = View(n)
    BY <1>3 DEF Replaced, View
  <2>2. QED
    BY <1>3, <2>1 DEF QueueInv, WaitsOn
<1>4. QED
  BY <1>2, <1>3

-----------------------------------------------------------------------------
(* A step of task t in which nobody begins or ends a wait.                   *)
Bystander(c) ==
    /\ pc'[c] = pc[c] /\ serving'[c] = serving[c]
    /\ lock.write = c => lock'.write = c

Fed(n) ==
    \/ queues'[n] = queues[n]
    \/ \E m \in Kinds : queues'[n] = Put(queues[n], m)

Still(t) ==
    /\ \A c \in Callers \ {t} : Bystander(c)
    /\ t \in Callers => /\ pc[t] \notin HandshakeWait \cup {"ack"}
                        /\ pc'[t] \notin HandshakeWait \cup {"sending", "ack"}
    /\ client'.session = client.session /\ client'.failure = client.failure
    /\ Hearing' => Hearing
    /\ \A n \in Consumers : Fed(n)

(* What makes a write wait, or keeps it from it.                             *)
LEMMA WriterKept ==
    ASSUME WriterInv, \A s \in Sessions : Fresh(s)' => Fresh(s),
           NEW t \in Task, Typed,
           \A c \in Callers \ {t} : Bystander(c),
           t \in Callers /\ pc'[t] \in {"sending", "ack"} =>
               /\ pc[t] \in {"sending", "ack"} /\ serving'[t] = serving[t]
               /\ lock'.write = t
    PROVE  WriterInv'
  BY DEF WriterInv, Bystander

LEMMA StillKeeps ==
    ASSUME Typed, WaitInv, \A s \in Sessions : Fresh(s)' => Fresh(s),
           NEW t \in Task, Still(t)
    PROVE  WaitInv'
<1>1. WriterInv'
  BY WriterKept DEF Still, WaitInv
<1>2. ASSUME NEW n \in Consumers PROVE QueueInv(n)'
  <2>1. /\ queues'[n].detached = queues[n].detached
        /\ Closes(View(n)) => Closes(View(n)')
    <3>1. CASE queues'[n] = queues[n]
      BY <3>1 DEF View
    <3>2. CASE \E m \in Kinds : queues'[n] = Put(queues[n], m)
      BY <3>2, PutCloses
    <3>3. QED
      BY <3>1, <3>2 DEF Still, Fed
  <2>2. \A c \in Callers :
            /\ pc'[c] \in WaitsOn(n) <=> pc[c] \in WaitsOn(n)
            /\ pc'[c] \in WaitsOn(n) => serving'[c] = serving[c]
    BY DEF Still, Bystander, WaitsOn
  <2>3. QED
    BY <2>1, <2>2, QueueStill DEF Still, WaitInv
<1>3. QED
  BY <1>1, <1>2 DEF WaitInv

(* Most steps leave the queues alone, and what the client says of a failure. *)
LEMMA StillMove ==
    ASSUME NEW t \in Task, queues' = queues,
           client'.session = client.session, client'.failure = client.failure,
           client'.status = client.status,
           \A c \in Callers \ {t} : Bystander(c),
           t \in Callers => /\ pc[t] \notin HandshakeWait \cup {"ack"}
                            /\ pc'[t] \notin HandshakeWait
                                    \cup {"sending", "ack", "connecting"}
    PROVE  Still(t)
<1>1. \A n \in Consumers : Fed(n)
  BY DEF Fed
<1>2. Hearing' => Hearing
  BY DEF Hearing, Bystander
<1>3. QED
  BY <1>1, <1>2 DEF Still

LEMMA CallsStill ==
    ASSUME Typed, NEW c \in Callers,
           \/ CallConnect(c) \/ CallDisconnect(c) \/ CallWrite(c)
           \/ ConnectNoop(c) \/ CancelledInLine(c) \/ WriteFails(c)
           \/ ConnectSendRequest(c)
           \/ ConnectAwaitAnswer(c) /\ client.failure
           \/ WriteSent(c) /\ client.failure
    PROVE  Still(c)
<1>1. /\ c \in Task /\ pc \in [Task -> Labels] /\ lock \in LockType
      /\ serving \in [Task -> Sessions \cup {0}]
  BY TypedNow, TaskKinds
<1>2. queues' = queues /\ client' = client
  BY DEF CallConnect, CallDisconnect, CallWrite, ConnectNoop,
         CancelledInLine, WriteFails, ConnectSendRequest, ConnectAwaitAnswer,
         WriteSent
<1>3. /\ pc[c] \in Outcome \cup {"connect", "disconnect", "write", "sending",
                    "confirming", "pausing", "subscribing", "requesting",
                    "reading"}
      /\ pc'[c] \in Outcome \cup {"connect", "disconnect", "write", "fail",
                    "requesting", "reading", "td_begin"}
  BY <1>1
  DEF CallConnect, CallDisconnect, CallWrite, ConnectNoop, CancelledInLine,
      WriteFails, ConnectSendRequest, ConnectAwaitAnswer, WriteSent, At, Goto,
      Outcome
<1>4. \A d \in Callers \ {c} : Bystander(d)
  BY <1>1, TaskKinds
  DEF CallConnect, CallDisconnect, CallWrite, ConnectNoop, CancelledInLine,
      WriteFails, ConnectSendRequest, ConnectAwaitAnswer, WriteSent, Goto,
      Bystander, Released, LockType, others
<1>5. QED
  BY <1>1, <1>2, <1>3, <1>4, StillMove DEF Outcome, HandshakeWait

LEMMA TransportUpStill ==
    ASSUME Typed, LifeInv, NEW c \in Callers, ConnectTransportUp(c)
    PROVE  Still(c)
<1> DEFINE w == Worker(serving[c])
<1>1. /\ pc[c] = "connecting" /\ c \in Task /\ serving[c] \in Sessions
      /\ w \notin Callers /\ pc \in [Task -> Labels]
  BY TypedNow, TaskKinds
  DEF ConnectTransportUp, At, ConnectServes, Handshake
<1>2. /\ queues' = queues /\ lock' = lock /\ serving' = serving
      /\ client'.session = client.session /\ client'.failure = client.failure
  BY TypedNow DEF ConnectTransportUp, Opened, ClientType, others
<1>3. /\ pc'[c] = "subscribing"
      /\ \A d \in Callers \ {c} : pc'[d] = pc[d]
  BY <1>1, TaskKinds DEF ConnectTransportUp
<1>4. Hearing
  BY <1>1 DEF Hearing, LifeInv, StatusInv, Progress
<1>5. QED
  BY <1>1, <1>2, <1>3, <1>4 DEF Still, Bystander, Fed, HandshakeWait

LEMMA TearingStill ==
    ASSUME Typed, LifeInv, NEW t \in Task,
           \/ TearingDown(t) \/ DisconnectStart(t)
           \/ t \in Callers /\ (TeardownCancelled(t) \/ JoinCancelled(t))
    PROVE  Still(t)
<1>1. /\ pc \in [Task -> Labels] /\ lock \in LockType /\ client \in ClientType
  BY TypedNow
<1>2. /\ queues' = queues /\ serving' = serving
      /\ client'.session = client.session /\ client'.failure = client.failure
      /\ client'.status = client.status
  BY <1>1
  DEF TearingDown, TeardownBegin, TeardownJoined, TeardownCleanup,
      TeardownDisconnect, TeardownTasksEnded, TeardownDisconnected,
      TeardownWorker, AbortJoin, Aborted, DisconnectStart, TeardownCancelled,
      JoinCancelled, Interrupting, ForgotWorker, NotClosing, ClientType, others
<1>3. \A c \in Callers \ {t} : lock.write = c => lock'.write = c
  BY <1>1, TaskKinds
  DEF TearingDown, TeardownBegin, TeardownJoined, TeardownCleanup,
      TeardownDisconnect, TeardownTasksEnded, TeardownDisconnected,
      TeardownWorker, AbortJoin, Aborted, DisconnectStart, TeardownCancelled,
      JoinCancelled, LetGo, Released, LockType, others
<1>4. \A c \in Callers \ {t} : pc'[c] = pc[c]
  <2>1. CASE TeardownBegin(t)
    BY <1>1, <2>1, TaskKinds DEF TeardownBegin, Goto, ClientType
  <2>2. CASE AbortJoin(t)
    <3>1. awaiting[t] \notin Callers
      BY TaskKinds, ConstantsAssumption DEF LifeInv, JoinInv, Joinable
    <3>2. QED
      BY <1>1, <2>2, <3>1, TaskKinds DEF AbortJoin
  <2>3. CASE ~TeardownBegin(t) /\ ~AbortJoin(t)
    BY <1>1, <2>3, TaskKinds
    DEF TearingDown, TeardownJoined, TeardownCleanup, TeardownDisconnect,
        TeardownTasksEnded, TeardownDisconnected, TeardownWorker, Aborted,
        DisconnectStart, TeardownCancelled, JoinCancelled, Goto
  <2>4. QED
    BY <2>1, <2>2, <2>3
<1>5. t \in Callers =>
        /\ pc[t] \in Teardown \cup {"lost", "disconnect"}
        /\ pc'[t] \in Teardown \cup {"raised"}
  <2>1. AfterFailure(t) \in {"raised"} \/ t \notin Callers
    BY AfterFailureType
  <2>2. CASE AbortJoin(t)
    BY <1>1, <2>2, TaskKinds DEF AbortJoin, AfterCancel, Teardown
  <2>3. CASE ~AbortJoin(t)
    BY <1>1, <2>1, <2>3, TaskKinds
    DEF TearingDown, TeardownBegin, TeardownJoined, TeardownCleanup,
        TeardownDisconnect, TeardownTasksEnded, TeardownDisconnected,
        TeardownWorker, Aborted, DisconnectStart, TeardownCancelled,
        JoinCancelled, NextCleanup, At, Goto, AtTransport, Teardown
  <2>4. QED
    BY <2>2, <2>3
<1>6. QED
  BY <1>2, <1>3, <1>4, <1>5, StillMove
  DEF Bystander, Teardown, HandshakeWait

LEMMA FailureStill ==
    ASSUME Typed, NEW t \in Task,
           FailureIgnored(t) \/ FailureHandled(t) \/ CallbackDisconnects(t)
    PROVE  Still(t)
<1>1. /\ pc \in [Task -> Labels] /\ lock \in LockType
  BY TypedNow
<1>2. queues' = queues /\ serving' = serving /\ client' = client
  BY DEF FailureIgnored, FailureHandled, CallbackDisconnects, others
<1>3. /\ pc[t] \in {"fail", "lost"}
      /\ pc'[t] \in {"done", "next", "idle", "raised", "disconnect"}
      /\ \A c \in Callers \ {t} : pc'[c] = pc[c]
  BY <1>1, AfterFailureType, TaskKinds
  DEF FailureIgnored, FailureHandled, CallbackDisconnects, At, Goto
<1>4. \A c \in Callers \ {t} : lock.write = c => lock'.write = c
  BY <1>1 DEF FailureIgnored, FailureHandled, CallbackDisconnects, Released,
              LockType
<1>5. QED
  BY <1>2, <1>3, <1>4, StillMove DEF Bystander, HandshakeWait

(* _process_notification only adds to the queues.                            *)
LEMMA ProcessFeeds ==
    ASSUME Typed, NEW m \in Kinds, NEW s, Process(m, s)
    PROVE  /\ \A n \in Consumers : Fed(n)
           /\ client'.session = client.session
           /\ client'.failure = client.failure
           /\ client'.status = "DISCONNECTED" <=>
                  client.status = "DISCONNECTED"
  BY TypedNow
  DEF Process, Fed, Consumers, Refreshed, ClientType, QueuesType

LEMMA TasksStill ==
    ASSUME Typed, NEW s \in Sessions, Working(s) \/ KeepingAlive(s)
    PROVE  Still(Worker(s)) \/ Still(Keepalive(s))
<1> DEFINE w == Worker(s)
           k == Keepalive(s)
<1>1. /\ w \in Task /\ w \notin Callers /\ k \in Task /\ k \notin Callers
      /\ pc \in [Task -> Labels] /\ lock \in LockType
      /\ inbox \in InboxType
  BY TypedNow, TaskKinds
<1>2. CASE Working(s)
  <2>1. serving' = serving /\ \A c \in Callers : pc'[c] = pc[c]
    BY <1>1, <1>2, TaskKinds
    DEF Working, WorkerStop, WorkerProcess, WorkerFails, WorkerWaits,
        WorkerCancelled, Goto, others
  <2>2. \A c \in Callers : lock.write = c => lock'.write = c
    BY <1>1, <1>2
    DEF Working, WorkerStop, WorkerProcess, WorkerFails, WorkerWaits,
        WorkerCancelled, LetGo, Released, LockType, others
  <2>3. /\ client'.session = client.session
        /\ client'.failure = client.failure
        /\ client'.status = "DISCONNECTED" <=>
               client.status = "DISCONNECTED"
        /\ \A n \in Consumers : Fed(n)
    <3>1. CASE WorkerProcess(s)
      <4>1. Head(inbox[s]) \in Kinds /\ Process(Head(inbox[s]), s)
        BY <1>1, <3>1 DEF WorkerProcess, WorkerTakes, InboxType
      <4>2. QED
        BY <4>1, ProcessFeeds
    <3>2. CASE ~WorkerProcess(s)
      BY <1>2, <3>2, TypedNow
      DEF Working, WorkerStop, WorkerFails, WorkerWaits, WorkerCancelled,
          NotClosing, ClientType, Fed
    <3>3. QED
      BY <3>1, <3>2
  <2>4. Hearing' => Hearing
    BY <2>1, <2>3 DEF Hearing
  <2>5. QED
    BY <1>1, <2>1, <2>2, <2>3, <2>4 DEF Still, Bystander
<1>3. CASE KeepingAlive(s)
  <2>1. /\ serving' = serving /\ \A c \in Callers : pc'[c] = pc[c]
        /\ queues' = queues /\ client' = client
    BY <1>1, <1>3, TaskKinds
    DEF KeepingAlive, KeepaliveSend, KeepaliveSent, KeepaliveFails,
        KeepaliveError, KeepaliveCancelled, Goto, others
  <2>2. \A c \in Callers : lock.write = c => lock'.write = c
    BY <1>1, <1>3, ConstantsAssumption, TaskKinds
    DEF KeepingAlive, KeepaliveSend, KeepaliveSent, KeepaliveFails,
        KeepaliveCancelled, Released, LockType
  <2>3. QED
    BY <1>1, <2>1, <2>2, StillMove DEF Bystander
<1>4. QED
  BY <1>2, <1>3

LEMMA OthersStill ==
    ASSUME Typed,
           \/ \E m \in Kinds : NotifyQueued(m) \/ NotifyInline(m)
           \/ LinkLoss \/ UNCHANGED vars
    PROVE  Still(Notifier)
<1>1. /\ Notifier \in Task /\ Notifier \notin Callers
      /\ pc \in [Task -> Labels]
  BY TypedNow, TaskKinds
<1>2. /\ lock' = lock /\ serving' = serving
      /\ \A c \in Callers : pc'[c] = pc[c]
  BY <1>1, TaskKinds
  DEF NotifyQueued, NotifyInline, Arrives, Goto, LinkLoss, others, vars
<1>3. /\ client'.session = client.session /\ client'.failure = client.failure
      /\ client'.status = "DISCONNECTED" <=> client.status = "DISCONNECTED"
      /\ \A n \in Consumers : Fed(n)
  <2>1. CASE \E m \in Kinds : Process(m, client.session)
    BY <2>1, ProcessFeeds
  <2>2. CASE client' = client /\ queues' = queues
    BY <2>2 DEF Fed
  <2>3. QED
    BY <2>1, <2>2 DEF NotifyQueued, NotifyInline, LinkLoss, vars
<1>4. Hearing' => Hearing
  BY <1>2, <1>3 DEF Hearing
<1>5. QED
  BY <1>1, <1>2, <1>3, <1>4 DEF Still, Bystander

-----------------------------------------------------------------------------
(* A step of caller c that begins, goes on with or ends a wait on queue n,   *)
(* whose lock it has: there is no other consumer of that queue.              *)
Holds(c, n) == IF n = "reports" THEN lock.lifecycle = c ELSE lock.write = c

Turns(c, n) ==
    /\ Holds(c, n)
    /\ \A d \in Callers \ {c} : Bystander(d)
    /\ client'.session = client.session /\ client'.failure = client.failure
    /\ Hearing' => Hearing
    /\ \A m \in Consumers \ {n} :
        /\ queues'[m] = queues[m]
        /\ pc[c] \notin WaitsOn(m) /\ pc'[c] \notin WaitsOn(m)
    /\ pc'[c] \in {"sending", "ack"} =>
        /\ pc[c] \in {"sending", "ack"} /\ serving'[c] = serving[c]
        /\ lock'.write = c

LEMMA TurnKeeps ==
    ASSUME Typed, WaitInv, \A s \in Sessions : Fresh(s)' => Fresh(s),
           NEW n \in Consumers, NEW c \in Callers, Turns(c, n), QueueInv(n)'
    PROVE  WaitInv'
<1>1. WriterInv'
  BY WriterKept, TaskKinds DEF Turns, WaitInv
<1>2. ASSUME NEW m \in Consumers \ {n} PROVE QueueInv(m)'
  <2>1. View(m)' = View(m) /\ queues'[m].detached = queues[m].detached
    BY <1>2 DEF Turns, View
  <2>2. \A d \in Callers :
            /\ pc'[d] \in WaitsOn(m) <=> pc[d] \in WaitsOn(m)
            /\ pc'[d] \in WaitsOn(m) => serving'[d] = serving[d]
    BY <1>2 DEF Turns, Bystander, WaitsOn
  <2>3. QED
    BY <1>2, <2>1, <2>2, QueueStill DEF Turns, WaitInv
<1>3. QED
  BY <1>1, <1>2 DEF WaitInv

(* It begins: the queue is nobody else's, so that it waits on the one that   *)
(* the client has.                                                           *)
LEMMA BeginsWait ==
    ASSUME Typed, LossInv, WaitInv,
           NEW n \in Consumers, NEW c \in Callers, Holds(c, n),
           pc[c] \notin WaitsOn(n), ~client'.failure, queues' = queues
    PROVE  QueueInv(n)'
<1>1. \A d \in Callers : pc[d] \notin WaitsOn(n)
  BY WaitsAlone DEF Holds, WaitInv, Consumers
<1>2. ~queues[n].detached
  BY <1>1 DEF WaitInv, QueueInv
<1>3. QED
  BY <1>2, QueueIdle

(* It ends, and the queue is let go of.                                      *)
LEMMA EndsWait ==
    ASSUME Typed, LossInv, WaitInv,
           NEW n \in Consumers, NEW c \in Callers, Turns(c, n),
           pc'[c] \notin WaitsOn(n), ~queues'[n].detached
    PROVE  QueueInv(n)'
<1>1. \A d \in Callers \ {c} : pc[d] \notin WaitsOn(n)
  BY WaitsAlone DEF Turns, Holds, WaitInv, Consumers
<1>2. \A d \in Callers : pc'[d] \notin WaitsOn(n)
  BY <1>1 DEF Turns, Bystander, WaitsOn
<1>3. QED
  BY <1>2, QueueIdle DEF WaitsOn

(* It goes on, in a session that has not failed.                             *)
LEMMA WaitsOnward ==
    ASSUME Typed, WaitInv,
           NEW n \in Consumers, NEW c \in Callers, Turns(c, n),
           pc'[c] = pc[c], serving'[c] = serving[c], ~client.failure,
           queues'[n].detached = queues[n].detached
    PROVE  QueueInv(n)'
<1>1. \A d \in Callers :
          /\ pc'[d] \in WaitsOn(n) <=> pc[d] \in WaitsOn(n)
          /\ pc'[d] \in WaitsOn(n) => serving'[d] = serving[d]
  BY DEF Turns, Bystander, WaitsOn
<1>2. QED
  BY <1>1, QueueStill DEF Turns, WaitInv

LEMMA QueueLeft ==
    ASSUME NEW q \in Queue
    PROVE  /\ ~Left(q).detached /\ ~Left(Consumed(q)).detached
           /\ Consumed(q).detached = q.detached
  BY DEF Left, Consumed, Queue

(* The waits of the handshake.                                               *)
LEMMA HandshakeWaits ==
    ASSUME Typed, LossInv, LifeInv, WaitInv,
           \A s \in Sessions : Fresh(s)' => Fresh(s), NEW c \in Callers,
           \/ ConnectAwaitAnswer(c) /\ ~client.failure
           \/ ConnectDiscard(c) \/ ConnectTakeBlespp(c)
           \/ ConnectTakeInfo(c) \/ ConnectTakeReport(c) \/ ConnectFails(c)
    PROVE  WaitInv'
<1>1. /\ c \in Task /\ pc \in [Task -> Labels] /\ client \in ClientType
      /\ queues \in QueuesType
  BY TypedNow, TaskKinds
<1>2. /\ pc[c] \in Handshake
      /\ pc'[c] \in HandshakeWait \cup {"td_begin", "confirming", "pausing",
                                        "returned"}
  BY <1>1, TaskKinds
  DEF ConnectAwaitAnswer, ConnectDiscard, ConnectTakeBlespp, ConnectTakeInfo,
      ConnectTakeReport, ConnectFails, ConnectTake, At, Goto, Handshake,
      HandshakeWait
<1>3. lock.lifecycle = c
  BY <1>2 DEF LossInv, Locked
<1>4. serving[c] \in Sessions
  BY <1>2, TypedNow DEF ConnectServes
<1>5. /\ serving' = serving /\ queues'.results = queues.results
      /\ lock'.write = lock.write
      /\ client'.session = client.session /\ client'.failure = client.failure
  BY <1>1, TypedNow
  DEF ConnectAwaitAnswer, ConnectDiscard, ConnectTakeBlespp, ConnectTakeInfo,
      ConnectTakeReport, ConnectFails, Ready, ClientType, QueuesType,
      LockType, others
<1>6. \A d \in Callers \ {c} : pc'[d] = pc[d]
  BY <1>1, <1>4, TaskKinds
  DEF ConnectAwaitAnswer, ConnectDiscard, ConnectTakeBlespp, ConnectTakeInfo,
      ConnectTakeReport, ConnectFails, Goto
<1>7. Hearing' => Hearing
  <2>1. pc'[c] # "connecting"
    BY <1>2 DEF HandshakeWait
  <2>2. client'.status # "DISCONNECTED" =>
            \/ client.status # "DISCONNECTED"
            \/ ConnectTakeInfo(c)
    BY <1>1, <1>2
    DEF ConnectAwaitAnswer, ConnectDiscard, ConnectTakeBlespp,
        ConnectTakeInfo, ConnectTakeReport, ConnectFails, Ready, Refreshed,
        ClientType
  <2>3. ConnectTakeInfo(c) /\ client.status = "DISCONNECTED"
            => client.failure
    BY DEF ConnectTakeInfo, ConnectTake, At, LifeInv, StatusInv, Progress,
           Unconfirmed
  <2>4. QED
    BY <1>5, <1>6, <2>1, <2>2, <2>3 DEF Hearing
<1>8. Turns(c, "reports")
  <2>1. pc[c] # "ack" /\ pc'[c] \notin {"sending", "ack"}
    BY <1>2 DEF Handshake, HandshakeWait
  <2>2. QED
    BY <1>3, <1>5, <1>6, <1>7, <2>1, WaitParts
    DEF Turns, Holds, Bystander, Consumers
<1>9. QueueInv("reports")'
  <2>1. CASE ConnectAwaitAnswer(c) /\ ~client.failure
    <3>1. pc[c] \notin HandshakeWait /\ queues' = queues
      BY <2>1 DEF ConnectAwaitAnswer, At, HandshakeWait
    <3>2. QED
      BY <1>5, <1>8, <2>1, <3>1, BeginsWait DEF Turns, Consumers, WaitsOn
  <2>2. CASE ConnectDiscard(c)
    <3> DEFINE q == queues.reports
               raises == Head(View("reports")) = Closed \/ client.failure
    <3>1. q \in Queue
      BY <1>1 DEF QueuesType
    <3>2. CASE raises
      <4>1. ~queues'.reports.detached /\ pc'[c] = "td_begin"
        BY <1>1, <2>2, <3>1, <3>2
        DEF ConnectDiscard, Goto, Left, Consumed, Queue, QueuesType
      <4>2. QED
        BY <1>8, <4>1, EndsWait, WaitParts DEF Consumers, Teardown
    <3>3. CASE ~raises
      <4>1. /\ queues'.reports.detached = q.detached /\ ~client.failure
            /\ pc'[c] = pc[c]
        BY <1>1, <2>2, <3>1, <3>3
        DEF ConnectDiscard, ConnectTake, At, Goto, Consumed, Queue, QueuesType
      <4>2. QED
        BY <1>5, <1>8, <4>1, WaitsOnward DEF Consumers
    <3>4. QED
      BY <3>2, <3>3
  <2>3. CASE \/ ConnectTakeBlespp(c) \/ ConnectTakeInfo(c)
             \/ ConnectTakeReport(c) \/ ConnectFails(c)
    <3>1. queues.reports \in Queue
      BY <1>1 DEF QueuesType
    <3>2. ~queues'.reports.detached
      BY <1>1, <2>3, <3>1, QueueLeft
      DEF ConnectTakeBlespp, ConnectTakeInfo, ConnectTakeReport, ConnectFails,
          QueuesType
    <3>3. pc'[c] \notin HandshakeWait
      BY <1>1, <2>3, <1>4, TaskKinds
      DEF ConnectTakeBlespp, ConnectTakeInfo, ConnectTakeReport, ConnectFails,
          Goto, HandshakeWait
    <3>4. QED
      BY <1>8, <3>2, <3>3, EndsWait DEF Consumers, WaitsOn
  <2>4. QED
    BY <2>1, <2>2, <2>3
<1>10. QED
  BY <1>8, <1>9, TurnKeeps DEF Consumers

(* The wait of a write.                                                      *)
LEMMA WriteWaits ==
    ASSUME Typed, LossInv, WaitInv,
           \A s \in Sessions : Fresh(s)' => Fresh(s), NEW c \in Callers,
           \/ WriteSent(c) /\ ~client.failure
           \/ WriteTake(c) \/ WriteGivesUp(c)
    PROVE  WaitInv'
<1>1. /\ c \in Task /\ pc \in [Task -> Labels] /\ queues \in QueuesType
      /\ lock \in LockType
  BY TypedNow, TaskKinds
<1>2. /\ pc[c] \in {"sending", "ack"}
      /\ pc'[c] \in {"ack", "returned", "raised"}
  BY <1>1 DEF WriteSent, WriteTake, WriteGivesUp, At, Goto
<1>3. lock.write = c
  BY <1>2 DEF WaitInv, WriterInv
<1>4. /\ client' = client /\ serving' = serving
      /\ queues'.reports = queues.reports
      /\ pc'[c] = "ack" => lock'.write = c
  BY <1>1, <1>3 DEF WriteSent, WriteTake, WriteGivesUp, Goto, QueuesType,
                    others
<1>5. \A d \in Callers \ {c} : pc'[d] = pc[d]
  BY <1>1, TaskKinds DEF WriteSent, WriteTake, WriteGivesUp, Goto
<1>6. Hearing' => Hearing
  BY <1>2, <1>4, <1>5 DEF Hearing
<1>7. Turns(c, "results")
  <2>1. /\ pc[c] \notin HandshakeWait /\ pc'[c] \notin HandshakeWait
        /\ pc'[c] # "sending"
    BY <1>2 DEF HandshakeWait
  <2>2. \A d \in Callers \ {c} : Bystander(d)
    BY <1>3, <1>4, <1>5 DEF Bystander
  <2>3. QED
    BY <1>2, <1>3, <1>4, <1>6, <2>1, <2>2
    DEF Turns, Holds, WaitsOn, Consumers
<1>8. QueueInv("results")'
  <2>1. queues.results \in Queue
    BY <1>1 DEF QueuesType
  <2>2. CASE WriteSent(c) /\ ~client.failure
    <3>1. pc[c] = "sending" /\ queues' = queues
      BY <2>2 DEF WriteSent, At
    <3>2. QED
      BY <1>4, <1>7, <2>2, <3>1, BeginsWait DEF Turns, Consumers, WaitsOn
  <2>3. CASE WriteTake(c) /\ pc'[c] = "ack"
    <3>1. /\ ~client.failure /\ pc[c] = "ack"
          /\ queues'.results.detached = queues.results.detached
      BY <1>1, <2>1, <2>3
      DEF WriteTake, At, Goto, Consumed, Queue, QueuesType
    <3>2. QED
      BY <1>4, <1>7, <2>3, <3>1, WaitsOnward DEF Consumers
  <2>4. CASE \/ WriteGivesUp(c)
             \/ WriteTake(c) /\ pc'[c] # "ack"
    <3>1. ~queues'.results.detached /\ pc'[c] # "ack"
      BY <1>1, <2>1, <2>4, QueueLeft
      DEF WriteTake, WriteGivesUp, Goto, QueuesType
    <3>2. QED
      BY <1>7, <3>1, EndsWait DEF Consumers, WaitsOn
  <2>5. QED
    BY <2>2, <2>3, <2>4
<1>9. QED
  BY <1>7, <1>8, TurnKeeps DEF Consumers

(* set_*() gets _lock, in a session that has been opened.                    *)
LEMMA WriteStartWaits ==
    ASSUME Typed, LossInv, WaitInv,
           \A s \in Sessions : Fresh(s)' => Fresh(s),
           NEW c \in Callers, WriteStart(c)
    PROVE  WaitInv'
<1>1. /\ c \in Task /\ pc \in [Task -> Labels] /\ lock \in LockType
      /\ serving \in [Task -> Sessions \cup {0}]
  BY TypedNow, TaskKinds
<1>2. /\ pc[c] = "write" /\ lock.write = NoTask
      /\ client' = client /\ queues' = queues
      /\ serving'[c] = client.session
      /\ \A d \in Callers \ {c} : pc'[d] = pc[d] /\ serving'[d] = serving[d]
      /\ pc'[c] \in {"sending", "raised"}
      /\ pc'[c] = "sending" => lock'.write = c
  BY <1>1, TaskKinds DEF WriteStart, At, Goto, LockType
<1>3. \A d \in Callers \ {c} : Bystander(d)
  BY <1>2, TaskKinds DEF Bystander
<1>4. WriterInv'
  <2>1. ASSUME pc'[c] = "sending", NEW s \in Sessions, Fresh(s)'
        PROVE  serving'[c] # s
    BY <1>2, <2>1 DEF LossInv, Once
  <2>2. \A d \in Callers \ {c} : pc'[d] \in {"sending", "ack"} =>
            /\ lock'.write = d
            /\ \A s \in Sessions : Fresh(s)' => serving'[d] # s
    BY <1>3 DEF WaitInv, WriterInv, Bystander
  <2>3. QED
    BY <1>2, <2>1, <2>2 DEF WriterInv
<1>5. ASSUME NEW n \in Consumers PROVE QueueInv(n)'
  <2>1. Hearing' => Hearing
    BY <1>2 DEF Hearing
  <2>2. pc[c] \notin WaitsOn(n) /\ pc'[c] \notin WaitsOn(n)
    BY <1>2 DEF WaitsOn, HandshakeWait
  <2>3. QED
    BY <1>2, <2>1, <2>2, QueueStill DEF WaitInv, View, WaitsOn
<1>6. QED
  BY <1>4, <1>5 DEF WaitInv

(* A teardown ends with _reset_session: nothing is to be heard any more.     *)
LEMMA EndingWaits ==
    ASSUME Typed, OpeningInv, WaitInv,
           \A s \in Sessions : Fresh(s)' => Fresh(s),
           NEW t \in Task, CallEnds(t) \/ FailureNotice(t)
    PROVE  WaitInv'
<1>1. /\ pc \in [Task -> Labels] /\ lock \in LockType
      /\ client \in ClientType
  BY TypedNow
<1>2. /\ pc[t] = "td_finish" /\ serving' = serving
      /\ client'.status = "DISCONNECTED"
      /\ client'.session = client.session /\ client'.failure = client.failure
      /\ queues' = FreshQueues
      /\ \A c \in Callers \ {t} : pc'[c] = pc[c]
  <2>1. /\ pc[t] = "td_finish" /\ serving' = serving
        /\ queues' = FreshQueues
        /\ \A c \in Callers \ {t} : pc'[c] = pc[c]
    BY <1>1, TaskKinds
    DEF CallEnds, ConnectRaises, DisconnectReturns, FailureNotice, Goto,
        others
  <2>2. \/ client' = Disconnected(client)
        \/ client' = [Disconnected(client) EXCEPT !.closing = FALSE]
    BY DEF CallEnds, ConnectRaises, DisconnectReturns, FailureNotice
  <2>3. /\ client'.status = "DISCONNECTED"
        /\ client'.session = client.session
        /\ client'.failure = client.failure
    BY <1>1, <2>2 DEF Disconnected, Cleared, ClientType
  <2>4. QED
    BY <2>1, <2>3
<1>3. pc'[t] \in {"raised", "returned", "done", "next", "idle", "lost"}
  BY <1>1, AfterFailureType
  DEF CallEnds, ConnectRaises, DisconnectReturns, FailureNotice, Goto
<1>4. \A c \in Callers \ {t} : Bystander(c)
  <2>1. \A c \in Callers \ {t} : lock.write = c => lock'.write = c
    BY <1>1
    DEF CallEnds, ConnectRaises, DisconnectReturns, FailureNotice, Released,
        Unlocked, LockType
  <2>2. QED
    BY <1>2, <2>1 DEF Bystander
<1>5. WriterInv'
  BY <1>3, <1>4, WriterKept DEF WaitInv
<1>6. ~Hearing'
  <2>1. \A c \in Callers : pc[c] # "connecting"
    BY <1>2 DEF OpeningInv, Teardown
  <2>2. QED
    BY <1>2, <1>3, <2>1 DEF Hearing
<1>7. ASSUME NEW n \in Consumers PROVE QueueInv(n)'
  <2>1. queues'[n] = Replaced(n)
    BY <1>2 DEF FreshQueues, Consumers
  <2>2. \A c \in Callers : /\ pc[c] \in WaitsOn(n) => c # t
                           /\ pc'[c] \in WaitsOn(n) => c # t
    BY <1>2, <1>3 DEF WaitsOn, HandshakeWait
  <2>3. QED
    BY <1>2, <1>6, <2>1, <2>2, QueueReplaced DEF WaitInv
<1>8. QED
  BY <1>5, <1>7 DEF WaitInv

(* connect() opens a session that nobody has waited in.                      *)
LEMMA ConnectStartWaits ==
    ASSUME Typed, LossInv, WaitInv,
           \A s \in Sessions : Fresh(s)' => Fresh(s),
           NEW c \in Callers, ConnectStart(c)
    PROVE  WaitInv'
<1>1. /\ pc \in [Task -> Labels] /\ lock \in LockType /\ c \in Task
  BY TypedNow, TaskKinds
<1>2. /\ pc[c] = "connect" /\ lock.lifecycle = NoTask
      /\ lock'.write = lock.write /\ serving' = serving
      /\ queues' = FreshQueues
      /\ pc'[c] = "connecting"
      /\ \A d \in Callers \ {c} : pc'[d] = pc[d]
  BY <1>1, TaskKinds DEF ConnectStart, At, Goto, LockType, others
<1>3. client'.session = serving[c] /\ serving[c] \in Sessions
  BY ConnectStartOpens
<1>4. WriterInv'
  <2>1. \A d \in Callers \ {c} : Bystander(d)
    BY <1>2 DEF Bystander
  <2>2. QED
    BY <1>1, <1>2, <2>1, WriterKept DEF WaitInv
<1>5. ASSUME NEW n \in Consumers PROVE QueueInv(n)'
  <2>1. queues'[n] = Replaced(n)
    BY <1>2 DEF FreshQueues, Consumers
  <2>2. pc[c] \notin WaitsOn(n) /\ pc'[c] \notin WaitsOn(n)
    BY <1>2 DEF WaitsOn, HandshakeWait
  <2>3. ASSUME NEW d \in Callers, pc[d] \in WaitsOn(n)
        PROVE  serving[d] # serving[c]
    <3>1. CASE n = "reports"
      BY <1>2, <2>3, <3>1, WaitParts, TaskKinds DEF LossInv, Locked
    <3>2. CASE n = "results"
      <4>1. Fresh(serving[c]) /\ pc[d] = "ack"
        BY <1>2, <2>3, <3>2 DEF Fresh, Ahead, WaitsOn
      <4>2. QED
        BY <1>3, <4>1 DEF WaitInv, WriterInv
    <3>3. QED
      BY <3>1, <3>2 DEF Consumers
  <2>4. queues'[n].detached => \E d \in Callers : pc[d] \in WaitsOn(n)
    <3>1. queues[n] \in Queue
      BY TypedNow DEF QueuesType, Consumers
    <3>2. QED
      BY <2>1, <3>1 DEF Replaced, Queue, WaitInv, QueueInv
  <2>5. QED
    BY <1>2, <1>3, <2>2, <2>3, <2>4 DEF QueueInv, WaitsOn
<1>6. QED
  BY <1>4, <1>5 DEF WaitInv

(* _handle_session_failure puts the sentinel into both queues.               *)
LEMMA FailureMarkedWaits ==
    ASSUME Typed, WaitInv, \A s \in Sessions : Fresh(s)' => Fresh(s),
           NEW t \in Task, FailureMarked(t)
    PROVE  WaitInv'
<1>1. /\ pc \in [Task -> Labels] /\ lock \in LockType
      /\ client \in ClientType /\ queues \in QueuesType
      /\ serving \in [Task -> Sessions \cup {0}]
  BY TypedNow
<1>2. /\ pc[t] = "fail" /\ Hearing /\ client'.failure
      /\ client'.session = client.session
      /\ \A c \in Callers \ {t} : pc'[c] = pc[c] /\ serving'[c] = serving[c]
      /\ pc'[t] \in {"td_begin", "done", "next", "idle", "raised"}
  BY <1>1, AfterFailureType, TaskKinds
  DEF FailureMarked, Failed, First, Hearing, ClientType, Goto
<1>3. \A c \in Callers \ {t} : Bystander(c)
  <2>1. \A c \in Callers \ {t} : lock.write = c => lock'.write = c
    BY <1>1 DEF FailureMarked, Released, LockType
  <2>2. QED
    BY <1>2, <2>1 DEF Bystander
<1>4. WriterInv'
  BY <1>2, <1>3, WriterKept DEF WaitInv
<1>5. ASSUME NEW n \in Consumers PROVE QueueInv(n)'
  <2>1. queues'[n] = Put(queues[n], Closed)
    BY <1>1 DEF FailureMarked, Woken, QueuesType, Consumers
  <2>2. /\ queues'[n].detached = queues[n].detached
        /\ ~queues[n].detached => Closes(View(n)')
    BY <2>1, PutCloses
  <2>3. \A c \in Callers : /\ pc[c] \in WaitsOn(n) => c # t
                           /\ pc'[c] \in WaitsOn(n) => c # t
    BY <1>2 DEF WaitsOn, HandshakeWait
  <2>4. ~Hearing'
    BY <1>2 DEF Hearing
  <2>5. QED
    BY <1>2, <2>2, <2>3, <2>4 DEF WaitInv, QueueInv, WaitsOn
<1>6. QED
  BY <1>4, <1>5 DEF WaitInv

LEMMA NextWait ==
    ASSUME Typed, LossInv, LifeInv, OpeningInv, WaitInv, [Next]_vars
    PROVE  WaitInv'
<1>1. \A s \in Sessions : Fresh(s)' => Fresh(s)
  BY NextFresh
<1>2. ASSUME NEW c \in Callers, Connecting(c) PROVE WaitInv'
  <2>1. CASE ConnectNoop(c) \/ ConnectSendRequest(c)
    BY <1>1, <2>1, CallsStill, StillKeeps, TaskKinds
  <2>2. CASE ConnectAwaitAnswer(c) /\ client.failure
    BY <1>1, <2>2, CallsStill, StillKeeps, TaskKinds
  <2>3. CASE \/ ConnectDiscard(c) \/ ConnectTakeBlespp(c)
             \/ ConnectTakeInfo(c) \/ ConnectTakeReport(c) \/ ConnectFails(c)
             \/ ConnectAwaitAnswer(c) /\ ~client.failure
    BY <1>1, <2>3, HandshakeWaits
  <2>4. CASE ConnectStart(c)
    BY <1>1, <2>4, ConnectStartWaits
  <2>5. CASE ConnectTransportUp(c)
    BY <1>1, <2>5, TransportUpStill, StillKeeps, TaskKinds
  <2>6. CASE ConnectRaises(c)
    BY <1>1, <2>6, EndingWaits, TaskKinds DEF CallEnds
  <2>7. QED
    BY <1>2, <2>1, <2>2, <2>3, <2>4, <2>5, <2>6 DEF Connecting
<1>3. ASSUME NEW c \in Callers,
             CallConnect(c) \/ CallDisconnect(c) \/ CallWrite(c) \/ Writing(c)
      PROVE  WaitInv'
  <2>1. CASE CallConnect(c) \/ CallDisconnect(c) \/ CallWrite(c)
    BY <1>1, <2>1, CallsStill, StillKeeps, TaskKinds
  <2>2. CASE \/ WriteFails(c)
             \/ WriteSent(c) /\ client.failure
    BY <1>1, <2>2, CallsStill, StillKeeps, TaskKinds
  <2>3. CASE \/ WriteSent(c) /\ ~client.failure
             \/ WriteTake(c) \/ WriteGivesUp(c)
    BY <1>1, <2>3, WriteWaits
  <2>4. CASE WriteStart(c)
    BY <1>1, <2>4, WriteStartWaits
  <2>5. QED
    BY <1>3, <2>1, <2>2, <2>3, <2>4 DEF Writing
<1>4. ASSUME NEW c \in Callers, Cancelling(c) PROVE WaitInv'
  <2>1. CancelledInLine(c) => Still(c)
    BY CallsStill
  <2>2. QED
    BY <1>1, <1>4, <2>1, TearingStill, StillKeeps, TaskKinds DEF Cancelling
<1>5. ASSUME NEW t \in Task, Disconnecting(t) PROVE WaitInv'
  <2>1. CASE DisconnectStart(t)
    BY <1>1, <2>1, TearingStill, StillKeeps
  <2>2. CASE DisconnectReturns(t)
    BY <1>1, <2>2, EndingWaits DEF CallEnds
  <2>3. QED
    BY <1>5, <2>1, <2>2 DEF Disconnecting
<1>6. ASSUME NEW t \in Task, TearingDown(t) PROVE WaitInv'
  BY <1>1, <1>6, TearingStill, StillKeeps
<1>7. ASSUME NEW t \in Task, Failing(t) PROVE WaitInv'
  <2>1. CASE FailureMarked(t)
    BY <1>1, <2>1, FailureMarkedWaits
  <2>2. CASE FailureNotice(t)
    BY <1>1, <2>2, EndingWaits
  <2>3. CASE ~FailureMarked(t) /\ ~FailureNotice(t)
    BY <1>1, <1>7, <2>3, FailureStill, StillKeeps DEF Failing
  <2>4. QED
    BY <2>1, <2>2, <2>3
<1>8. ASSUME NEW s \in Sessions, Working(s) \/ KeepingAlive(s) PROVE WaitInv'
  BY <1>1, <1>8, TasksStill, StillKeeps, TaskKinds
<1>9. ASSUME \/ \E m \in Kinds : NotifyQueued(m) \/ NotifyInline(m)
             \/ LinkLoss \/ UNCHANGED vars
      PROVE  WaitInv'
  BY <1>1, <1>9, OthersStill, StillKeeps, TaskKinds
<1>10. QED
  BY <1>2, <1>3, <1>4, <1>5, <1>6, <1>7, <1>8, <1>9, StepKinds

LEMMA WaitHolds == PatientSpec => []WaitInv
<1>1. Init => WaitInv
  BY InitWait
<1>2. Inductive /\ OpeningInv /\ WaitInv /\ [PatientNext]_vars => WaitInv'
  <2>1. [PatientNext]_vars => [Next]_vars
    BY DEF PatientNext
  <2>2. QED
    BY <2>1, NextWait DEF Inductive
<1>3. QED
  BY <1>1, <1>2, CalmHolds, PTL DEF PatientSpec

(* _handle_session_failure and _wait_for: whoever waits for an answer of the *)
(* session that fails, in the handshake or for an acknowledgement, finds the *)
(* sentinel in the queue it waits on, also when _reset_session has put       *)
(* another queue in the client's hands since.                                *)
THEOREM WaitersAreWoken == PatientSpec => []FailureWakesWaiters
<1>1. WaitInv => FailureWakesWaiters
  BY DEF WaitInv, QueueInv, FailureWakesWaiters, Closes, Consumers
<1>2. QED
  BY <1>1, WaitHolds, PTL

-----------------------------------------------------------------------------
(* The first report.  While _reports has one in it, state has been given it; *)
(* and so has that of a session that connect() has come back from.           *)
Filed == queues.reports.current
FiledInv ==
    (\E i \in 1 .. Len(Filed) : Filed[i] \in Reports)
        => client.session \in client.applied

SettledInv ==
    First(client) /\ lock.lifecycle = NoTask
        => client.session \in client.applied

(* What a step may do to _reports without a report.                          *)
Filing ==
    \/ Filed' = Filed \/ Filed' = <<>>
    \/ Filed # <<>> /\ Filed' = Tail(Filed)
    \/ \E m \in (Kinds \cup {Closed}) \ Reports : Filed' = Append(Filed, m)

LEMMA FilingKeeps ==
    ASSUME Typed, FiledInv, Filing,
           Filed' # <<>> => /\ client'.session = client.session
                            /\ client.applied \subseteq client'.applied
    PROVE  FiledInv'
<1>1. Filed \in Seq(Kinds \cup {Closed})
  BY TypedNow DEF QueuesType, Queue, Filed
<1>2. ASSUME NEW i \in 1 .. Len(Filed'), Filed'[i] \in Reports
      PROVE  Filed' # <<>> /\ \E j \in 1 .. Len(Filed) : Filed[j] \in Reports
  <2> DEFINE old == Filed
             new == Filed'
  <2>1. new # <<>>
    BY <1>2
  <2>2. CASE new = old
    BY <1>2, <2>1, <2>2
  <2>3. CASE old # <<>> /\ new = Tail(old)
    <3>1. Len(new) = Len(old) - 1 /\ new[i] = old[i + 1] /\ i + 1 \in 1 .. Len(old)
      BY <1>1, <1>2, <2>3
    <3>2. QED
      BY <1>2, <2>1, <3>1
  <2>4. CASE \E m \in (Kinds \cup {Closed}) \ Reports : new = Append(old, m)
    <3>1. PICK m \in (Kinds \cup {Closed}) \ Reports : new = Append(old, m)
      BY <2>4
    <3>2. /\ Len(new) = Len(old) + 1 /\ new[Len(old) + 1] = m
          /\ \A j \in 1 .. Len(old) : new[j] = old[j]
          /\ Len(old) \in Nat
      BY <1>1, <3>1
    <3>3. i # Len(old) + 1
      BY <1>2, <3>1, <3>2
    <3>4. i \in 1 .. Len(old)
      BY <1>2, <3>2, <3>3
    <3>5. QED
      BY <1>2, <2>1, <3>2, <3>4
  <2>5. QED
    BY <2>1, <2>2, <2>3, <2>4 DEF Filing
<1>3. QED
  BY <1>2 DEF FiledInv

(* _process_notification: what goes to _reports is in state by then.         *)
LEMMA ProcessFiles ==
    ASSUME Typed, FiledInv, SessionIsolation', NEW m \in Kinds,
           NEW s \in Sessions \cup {0}, Process(m, s)
    PROVE  FiledInv'
<1>1. /\ client'.session = client.session
      /\ client'.applied = IF m \in Reports THEN client.applied \cup {s}
                           ELSE client.applied
      /\ Filed' = IF client.waitActive THEN Append(Filed, m) ELSE Filed
  BY TypedNow DEF Process, Put, Filed, QueuesType, Queue, ClientType
<1>2. CASE m \in Reports
  <2>1. s \in client'.applied
    BY <1>1, <1>2
  <2>2. client'.session \in client'.applied
    BY <2>1 DEF SessionIsolation
  <2>3. QED
    BY <2>2 DEF FiledInv
<1>3. CASE m \notin Reports
  <2>1. Filing
    BY <1>1, <1>3 DEF Filing
  <2>2. QED
    BY <1>1, <1>3, <2>1, FilingKeeps
<1>4. QED
  BY <1>2, <1>3

(* _reset_session: the new queue is empty.                                   *)
LEMMA FreshFiles ==
    ASSUME Typed, queues' = FreshQueues
    PROVE  Filed' = <<>>
  BY TypedNow DEF FreshQueues, Replaced, Filed, QueuesType, Queue

LEMMA NextFiled ==
    ASSUME Typed, FiledInv, SessionIsolation', [Next]_vars
    PROVE  FiledInv'
<1>1. client \in ClientType /\ queues \in QueuesType
  BY TypedNow
<1> DEFINE Held == /\ client'.session = client.session
                   /\ client.applied \subseteq client'.applied
<1>2. ASSUME NEW c \in Callers, Connecting(c) PROVE FiledInv'
  <2>1. CASE ConnectStart(c) \/ ConnectRaises(c)
    BY <2>1, FreshFiles, FilingKeeps DEF ConnectStart, ConnectRaises, Filing
  <2>2. CASE ConnectNoop(c) \/ ConnectTransportUp(c) \/ ConnectSendRequest(c)
             \/ ConnectAwaitAnswer(c)
    <3>1. Filed' = Filed /\ Held
      BY <1>1, <2>2
      DEF ConnectNoop, ConnectTransportUp, Opened, ConnectSendRequest,
          ConnectAwaitAnswer, Filed, ClientType
    <3>2. QED
      BY <3>1, FilingKeeps DEF Filing
  <2>3. CASE ConnectFails(c)
    <3>1. Filed' = Filed /\ Held
      BY <1>1, <2>3 DEF ConnectFails, Left, Filed, QueuesType, Queue
    <3>2. QED
      BY <3>1, FilingKeeps DEF Filing
  <2>4. CASE \/ ConnectDiscard(c) \/ ConnectTakeBlespp(c)
             \/ ConnectTakeInfo(c) \/ ConnectTakeReport(c)
    <3>1. Held
      BY <1>1, <2>4
      DEF ConnectDiscard, ConnectTakeBlespp, ConnectTakeInfo,
          ConnectTakeReport, Ready, ClientType
    <3>2. /\ View("reports") # <<>>
          /\ \/ queues'.reports = Consumed(queues.reports)
             \/ queues'.reports = Left(Consumed(queues.reports))
      BY <1>1, <2>4
      DEF ConnectDiscard, ConnectTakeBlespp, ConnectTakeInfo,
          ConnectTakeReport, ConnectTake, QueuesType
    <3>3. Filed' = Filed \/ (Filed # <<>> /\ Filed' = Tail(Filed))
      BY <1>1, <3>2 DEF Consumed, Left, View, Filed, QueuesType, Queue
    <3>4. QED
      BY <3>1, <3>3, FilingKeeps DEF Filing
  <2>5. QED
    BY <1>2, <2>1, <2>2, <2>3, <2>4 DEF Connecting
<1>3. ASSUME NEW c \in Callers,
             \/ CallConnect(c) \/ CallDisconnect(c) \/ CallWrite(c)
             \/ Writing(c) \/ Cancelling(c)
      PROVE  FiledInv'
  <2>1. Filed' = Filed
    BY <1>1, <1>3
    DEF CallConnect, CallDisconnect, CallWrite, Writing, WriteStart, WriteSent,
        WriteFails, WriteTake, WriteGivesUp, Cancelling, CancelledInLine,
        TeardownCancelled, JoinCancelled, Interrupting, Filed, QueuesType
  <2>2. Held
    BY <1>1, <1>3
    DEF CallConnect, CallDisconnect, CallWrite, Writing, WriteStart, WriteSent,
        WriteFails, WriteTake, WriteGivesUp, Cancelling, CancelledInLine,
        TeardownCancelled, JoinCancelled, NotClosing, ClientType
  <2>3. QED
    BY <2>1, <2>2, FilingKeeps DEF Filing
<1>4. ASSUME NEW t \in Task, Disconnecting(t) PROVE FiledInv'
  <2>1. CASE DisconnectStart(t)
    <3>1. Filed' = Filed /\ Held
      BY <1>1, <2>1 DEF DisconnectStart, Filed, ClientType
    <3>2. QED
      BY <3>1, FilingKeeps DEF Filing
  <2>2. CASE DisconnectReturns(t)
    BY <2>2, FreshFiles, FilingKeeps DEF DisconnectReturns, Filing
  <2>3. QED
    BY <1>4, <2>1, <2>2 DEF Disconnecting
<1>5. ASSUME NEW t \in Task, TearingDown(t) PROVE FiledInv'
  <2>1. Filed' = Filed /\ Held
    BY <1>1, <1>5
    DEF TearingDown, TeardownBegin, TeardownJoined, TeardownCleanup,
        TeardownDisconnect, TeardownTasksEnded, TeardownDisconnected,
        TeardownWorker, ForgotWorker, AbortJoin, Aborted, NotClosing, Filed,
        ClientType
  <2>2. QED
    BY <2>1, FilingKeeps DEF Filing
<1>6. ASSUME NEW t \in Task, Failing(t) PROVE FiledInv'
  <2>1. CASE FailureMarked(t)
    <3>1. /\ Filed' = Append(Filed, Closed) /\ Held
      BY <1>1, <2>1
      DEF FailureMarked, Failed, Woken, Put, Filed, QueuesType, Queue, ClientType
    <3>2. Closed \in (Kinds \cup {Closed}) \ Reports
      BY DEF Closed, Reports, Acks
    <3>3. QED
      BY <3>1, <3>2, FilingKeeps DEF Filing
  <2>2. CASE FailureNotice(t)
    BY <2>2, FreshFiles, FilingKeeps DEF FailureNotice, Filing
  <2>3. CASE FailureIgnored(t) \/ FailureHandled(t) \/ CallbackDisconnects(t)
    <3>1. Filed' = Filed /\ Held
      BY <1>1, <2>3
      DEF FailureIgnored, FailureHandled, CallbackDisconnects, Filed
    <3>2. QED
      BY <3>1, FilingKeeps DEF Filing
  <2>4. QED
    BY <1>6, <2>1, <2>2, <2>3 DEF Failing
<1>7. ASSUME NEW s \in Sessions, Working(s) PROVE FiledInv'
  <2>1. CASE WorkerProcess(s)
    <3>1. Head(inbox[s]) \in Kinds
      <4>1. inbox[s] \in Seq(Kinds \cup {Stop}) /\ inbox[s] # <<>>
        BY <2>1, TypedNow DEF WorkerProcess, WorkerTakes, InboxType
      <4>2. QED
        BY <2>1, <4>1 DEF WorkerProcess
    <3>2. QED
      BY <2>1, <3>1, ProcessFiles DEF WorkerProcess
  <2>2. CASE \/ WorkerStop(s) \/ WorkerFails(s) \/ WorkerWaits(s)
             \/ WorkerCancelled(s)
    <3>1. Filed' = Filed /\ Held
      BY <1>1, <2>2
      DEF WorkerStop, WorkerFails, WorkerWaits, WorkerCancelled, NotClosing,
          Filed, ClientType
    <3>2. QED
      BY <3>1, FilingKeeps DEF Filing
  <2>3. QED
    BY <1>7, <2>1, <2>2 DEF Working
<1>8. ASSUME NEW s \in Sessions, KeepingAlive(s) PROVE FiledInv'
  <2>1. Filed' = Filed /\ Held
    BY <1>1, <1>8
    DEF KeepingAlive, KeepaliveSend, KeepaliveSent, KeepaliveFails,
        KeepaliveCancelled, Filed
  <2>2. QED
    BY <2>1, FilingKeeps DEF Filing
<1>9. ASSUME NEW m \in Kinds, NotifyQueued(m) \/ NotifyInline(m)
      PROVE  FiledInv'
  <2>1. CASE queues' = queues /\ client' = client
    BY <2>1 DEF Filed, FiledInv
  <2>2. CASE Process(m, client.session)
    BY <1>1, <2>2, ProcessFiles DEF ClientType
  <2>3. QED
    BY <1>9, <2>1, <2>2 DEF NotifyQueued, NotifyInline
<1>10. ASSUME LinkLoss \/ UNCHANGED vars PROVE FiledInv'
  BY <1>10 DEF LinkLoss, vars, Filed, FiledInv
<1>11. QED
  BY <1>2, <1>3, <1>4, <1>5, <1>6, <1>7, <1>8, <1>9, <1>10, StepKinds

LEMMA ProcessGrows ==
    ASSUME Typed, NEW m, NEW s, Process(m, s)
    PROVE  client.applied \subseteq client'.applied
<1>1. client'.applied = IF m \in Reports THEN client.applied \cup {s}
                        ELSE client.applied
  BY TypedNow DEF Process, ClientType
<1>2. QED
  BY <1>1

(* What state holds of the session it keeps until the status is DISCONNECTED.*)
LEMMA AppliedGrows ==
    ASSUME Typed, [Next]_vars
    PROVE  \/ client.applied \subseteq client'.applied
           \/ client'.status = "DISCONNECTED"
<1>1. client \in ClientType
  BY TypedNow
<1> DEFINE Grows == \/ client.applied \subseteq client'.applied
                    \/ client'.status = "DISCONNECTED"
<1>2. ASSUME NEW c \in Callers, Connecting(c) PROVE Grows
  <2>1. CASE ConnectStart(c) \/ ConnectRaises(c)
    BY <1>1, <2>1
    DEF ConnectStart, Begun, ConnectRaises, Disconnected, Cleared, ClientType
  <2>2. CASE ~ConnectStart(c) /\ ~ConnectRaises(c)
    BY <1>1, <1>2, <2>2
    DEF Connecting, ConnectNoop, ConnectTransportUp, Opened, ConnectSendRequest,
        ConnectAwaitAnswer, ConnectDiscard, ConnectTakeBlespp, ConnectTakeInfo,
        ConnectTakeReport, Ready, ConnectFails, ClientType
  <2>3. QED
    BY <2>1, <2>2
<1>3. ASSUME NEW c \in Callers,
             \/ CallConnect(c) \/ CallDisconnect(c) \/ CallWrite(c)
             \/ Writing(c) \/ Cancelling(c)
      PROVE  Grows
  BY <1>1, <1>3
  DEF CallConnect, CallDisconnect, CallWrite, Writing, WriteStart, WriteSent,
      WriteFails, WriteTake, WriteGivesUp, Cancelling, CancelledInLine,
      TeardownCancelled, JoinCancelled, NotClosing, ClientType
<1>4. ASSUME NEW t \in Task, Disconnecting(t) \/ Failing(t) PROVE Grows
  BY <1>1, <1>4
  DEF Disconnecting, DisconnectStart, DisconnectReturns, Disconnected, Cleared,
      Failing, FailureIgnored, FailureMarked, Failed, FailureNotice,
      FailureHandled, CallbackDisconnects, ClientType
<1>5. ASSUME NEW t \in Task, TearingDown(t) PROVE Grows
  BY <1>1, <1>5
  DEF TearingDown, TeardownBegin, TeardownJoined, TeardownCleanup,
      TeardownDisconnect, TeardownTasksEnded, TeardownDisconnected,
      TeardownWorker, ForgotWorker, AbortJoin, Aborted, NotClosing, ClientType
<1>6. ASSUME NEW s \in Sessions, Working(s) \/ KeepingAlive(s) PROVE Grows
  <2>1. CASE WorkerProcess(s)
    BY <2>1, ProcessGrows DEF WorkerProcess
  <2>2. CASE \/ WorkerStop(s) \/ WorkerFails(s) \/ WorkerWaits(s)
             \/ WorkerCancelled(s) \/ KeepingAlive(s)
    BY <1>1, <2>2
    DEF WorkerStop, WorkerFails, WorkerWaits, WorkerCancelled, NotClosing,
        KeepingAlive, KeepaliveSend, KeepaliveSent, KeepaliveFails,
        KeepaliveCancelled, ClientType
  <2>3. QED
    BY <1>6, <2>1, <2>2 DEF Working
<1>7. ASSUME \/ \E m \in Kinds : NotifyQueued(m) \/ NotifyInline(m)
             \/ LinkLoss \/ UNCHANGED vars
      PROVE  Grows
  <2>1. client' = client \/ \E m \in Kinds : Process(m, client.session)
    BY <1>7 DEF NotifyQueued, NotifyInline, LinkLoss, vars
  <2>2. QED
    BY <2>1, ProcessGrows
<1>8. QED
  BY <1>2, <1>3, <1>4, <1>5, <1>6, <1>7, StepKinds

(* connect() comes back with a report that its own session was given: until  *)
(* the session fails, the queue it reads is the one that _reports is.        *)
LEMMA TakesReported ==
    ASSUME Typed, LifeInv, WaitInv, FiledInv, NEW c \in Callers,
           ConnectTakeReport(c), First(client)
    PROVE  client.session \in client.applied
<1>1. /\ pc[c] = "report" /\ View("reports") # <<>>
      /\ Head(View("reports")) \in Reports
  BY DEF ConnectTakeReport, ConnectTake, At, Expected
<1>2. pc[c] \in Handshake /\ pc[c] \in WaitsOn("reports")
  BY <1>1 DEF Handshake, HandshakeWait, WaitsOn
<1>3. serving[c] = client.session
  BY <1>2 DEF LifeInv, SessionInv
<1>4. Hearing
  BY DEF Hearing, First
<1>5. ~queues.reports.detached
  BY <1>2, <1>3, <1>4 DEF WaitInv, QueueInv, Consumers
<1>6. View("reports") = Filed
  BY <1>5 DEF View, Filed
<1>7. Filed \in Seq(Kinds \cup {Closed})
  BY TypedNow DEF QueuesType, Queue, Filed
<1>8. 1 \in 1 .. Len(Filed) /\ Filed[1] \in Reports
  BY <1>1, <1>6, <1>7
<1>9. QED
  BY <1>8 DEF FiledInv

LEMMA NextSettled ==
    ASSUME Inductive, WorkerDrains, EndInv, WaitInv, FiledInv, SettledInv,
           [PatientNext]_vars, \A c \in Callers : ~Interruption(c)
    PROVE  SettledInv'
<1>1. /\ Typed /\ LossInv /\ LifeInv /\ CalmStep /\ [Next]_vars
      /\ NoTask \notin Task
  BY CalmStepKinds, ConstantsAssumption DEF Inductive, PatientNext
<1> SUFFICES ASSUME First(client)', lock'.lifecycle = NoTask
             PROVE  client'.session \in client'.applied
  BY DEF SettledInv
<1>2. client.applied \subseteq client'.applied
  BY <1>1, AppliedGrows DEF First
<1>3. ASSUME client'.session = client.session, First(client),
             lock.lifecycle = NoTask
      PROVE  client'.session \in client'.applied
  BY <1>2, <1>3 DEF SettledInv
<1>4. CASE Aside
  BY <1>3, <1>4 DEF Aside, Outside, First, Refreshed
<1>5. ASSUME NEW c \in Callers,
             \/ ConnectStart(c) \/ ConnectMoves(c) \/ ConnectTransportUp(c)
      PROVE  FALSE
  <2>1. c \in Task
    BY TaskKinds
  <2>2. CASE ConnectStart(c)
    BY <1>1, <2>1, <2>2, TypedNow DEF ConnectStart, LockType
  <2>3. CASE ConnectMoves(c) \/ ConnectTransportUp(c)
    <3>1. lock' = lock /\ pc[c] \in Handshake
      BY <2>3
      DEF ConnectMoves, ConnectSendRequest, ConnectAwaitAnswer, ConnectDiscard,
          ConnectTakeBlespp, ConnectTakeInfo, ConnectFails, ConnectTransportUp,
          ConnectTake, At, Handshake, HandshakeWait
    <3>2. QED
      BY <1>1, <2>1, <3>1 DEF LossInv, Locked
  <2>4. QED
    BY <1>5, <2>2, <2>3
<1>6. ASSUME NEW c \in Callers, ConnectTakeReport(c)
      PROVE  client'.session \in client'.applied
  <2>1. /\ client'.session = client.session /\ First(client)
        /\ client'.applied = client.applied
    BY <1>1, <1>6, TypedNow
    DEF ConnectTakeReport, Ready, Refreshed, First, ClientType
  <2>2. QED
    BY <1>1, <1>6, <2>1, TakesReported
<1>7. ASSUME NEW t \in Task, DisconnectStart(t) PROVE FALSE
  BY <1>1, <1>7, TypedNow DEF DisconnectStart, LockType
<1>8. ASSUME NEW t \in Task, Ending(t) \/ FailureMarked(t) PROVE FALSE
  BY <1>1, <1>8, TypedNow
  DEF Ending, CallEnds, ConnectRaises, DisconnectReturns, FailureNotice,
      Disconnected, Cleared, FailureMarked, Failed, First, ClientType
<1>9. ASSUME NEW t \in Task, TearingStep(t)
      PROVE  client'.session \in client'.applied
  BY <1>3, <1>9 DEF TearingStep, TornClient, First
<1>10. QED
  BY <1>1, <1>4, <1>5, <1>6, <1>7, <1>8, <1>9 DEF CalmStep

(* connect(): with the lifecycle lock free, the status READY means that      *)
(* state holds a report of the session, whatever it was that made the status *)
(* READY.                                                                    *)
THEOREM ReadyMeansReported == PatientSpec => []ReadyHasReport
<1> DEFINE Settled == ~Interrupted => SettledInv
           Found == Inductive /\ Calm /\ WaitInv
<1>1. Init => FiledInv /\ Settled
  <2> SUFFICES ASSUME Init PROVE FiledInv /\ SettledInv
    OBVIOUS
  <2>1. Filed = <<>>
    BY DEF Init, EmptyQueue, Filed
  <2>2. QED
    BY <2>1 DEF Init, FiledInv, SettledInv, First
<1>2. ASSUME Found, Found', SpentInv, WorkerDrains, FiledInv, Settled,
             [PatientNext]_vars
      PROVE  FiledInv' /\ Settled'
  <2>1. Typed /\ [Next]_vars
    BY <1>2 DEF Inductive, PatientNext
  <2>2. SessionIsolation'
    BY <1>2 DEF Inductive, LifeInv, SessionInv
  <2>3. FiledInv'
    BY <1>2, <2>1, <2>2, NextFiled
  <2>4. ASSUME ~Interrupted' PROVE SettledInv'
    <3>1. ~Interrupted /\ \A c \in Callers : ~Interruption(c)
      BY <1>2, <2>1, <2>4, NextSpent
    <3>2. EndInv /\ SettledInv
      BY <1>2, <3>1 DEF Calm
    <3>3. QED
      BY <1>2, <3>1, <3>2, NextSettled
  <2>5. QED
    BY <2>3, <2>4
<1>3. Found /\ Settled => ReadyHasReport
  <2> SUFFICES ASSUME Found, Settled, client.status = "READY",
                      lock.lifecycle = NoTask, ~Interrupted
               PROVE  client.session \in client.applied
    BY DEF ReadyHasReport
  <2>1. First(client)
    BY TaskKinds DEF Calm, EndInv, FailInv, First
  <2>2. QED
    BY <2>1 DEF SettledInv
<1>4. PatientSpec => [](Found /\ SpentInv /\ WorkerDrains)
  BY CalmHolds, WaitHolds, PatientIsSpec, WorkersDrain, PTL
<1>5. QED
  BY <1>1, <1>2, <1>3, <1>4, PTL DEF PatientSpec

-----------------------------------------------------------------------------
(* What a teardown leaves of the link, cancelled or not.                     *)

(* A task past its cleanup has marked it, and the next session's begins with *)
(* the mark off.  A session has its worker until then.                       *)
MarkInv ==
    /\ \A t \in Task : pc[t] \in Cleaning => client.cleanupDone
    /\ \A c \in Callers : pc[c] = "connecting" => ~client.cleanupDone
    /\ client.worker = NoTask /\ ~client.cleanupDone =>
           /\ client.status = "DISCONNECTED"
           /\ \A c \in Callers : pc[c] \in Handshake => pc[c] = "connecting"

(* A notification's own task that disconnected from its callback and was     *)
(* cancelled by its own transport.disconnect() keeps the lifecycle lock.     *)
Orphaned == lock.lifecycle = Notifier /\ pc[Notifier] \notin Teardown

(* A link that is up though cleaned up is on its way down, or was given up.  *)
DownInv ==
    transport.link = "up" /\ client.cleanupDone =>
        transport.stranded \/ Orphaned \/ \E t \in Task : pc[t] \in AtTransport

(* The notification's own task comes to the transport only for a callback.   *)
OwnTaskInv ==
    /\ lock.lifecycle = Notifier => pc[Notifier] \in Teardown \cup {"idle", "fail"}
    /\ pc[Notifier] = "fail" => client.cleanupDone \/ ~First(client)
    /\ pc[Notifier] \in Teardown /\ lock.lifecycle # Notifier
           => client.cleanupDone
    /\ pc[Notifier] \in AtTransport => lock.lifecycle = Notifier

MarkedInv == MarkInv /\ DownInv /\ OwnTaskInv

LEMMA InitMarked == Init => MarkedInv
<1> SUFFICES ASSUME Init PROVE MarkedInv
  OBVIOUS
<1>1. \A t \in Task : pc[t] \in {"idle", "none"}
  BY DEF Init
<1>2. \A t \in Task : pc[t] \notin Teardown \cup Handshake
  BY <1>1, EndParts
<1>3. /\ client.status = "DISCONNECTED" /\ ~client.cleanupDone
      /\ pc[Notifier] = "idle" /\ lock.lifecycle = NoTask /\ NoTask \notin Task
  BY TaskKinds, ConstantsAssumption DEF Init
<1>4. MarkInv
  BY <1>2, <1>3, EndParts, TaskKinds DEF MarkInv, Handshake
<1>5. DownInv /\ OwnTaskInv
  BY <1>2, <1>3, EndParts, TaskKinds DEF DownInv, OwnTaskInv
<1>6. QED
  BY <1>4, <1>5 DEF MarkedInv

(* What keeps the link on its way down.                                      *)
LEMMA DownKept ==
    ASSUME DownInv, client'.cleanupDone => client.cleanupDone,
           transport'.link = "up" => transport.link = "up",
           transport.stranded => transport'.stranded,
           Orphaned => Orphaned',
           \A t \in Task : pc[t] \in AtTransport => pc'[t] \in AtTransport
    PROVE  DownInv'
  BY DEF DownInv

-----------------------------------------------------------------------------
(* The kinds of step, with what they do to the link.                         *)
Beside ==
    /\ Outside
    /\ transport'.link \in {transport.link, "down"}
    /\ transport'.stranded = transport.stranded
    /\ \/ pc'[Notifier] \in {pc[Notifier], "idle"}
       \/ pc[Notifier] = "lost" /\ pc'[Notifier] = "disconnect"
       \/ /\ pc[Notifier] = "idle" /\ pc'[Notifier] = "fail"
          /\ client.worker = NoTask

(* A teardown's step marks before it stops, and leaves the transport with    *)
(* the link down, or for good.                                               *)
MarkingStep(t) ==
    /\ pc[t] \in Teardown
    /\ transport'.link \in {transport.link, "down"}
    /\ transport.stranded => transport'.stranded
    /\ \A u \in Task : pc[u] \in AtTransport /\ pc'[u] \notin AtTransport =>
           \/ transport'.link = "down" \/ transport'.stranded
           \/ u = Notifier /\ pc'[u] = "idle"
    /\ client'.cleanupDone => client.cleanupDone \/ pc'[t] = "td_stop"
    /\ \A u \in Task : pc'[u] \in Cleaning =>
           pc[u] \in Cleaning \/ client'.cleanupDone
    /\ client'.worker = client.worker \/ pc[t] = "td_worker"
    /\ pc'[Notifier] \in {pc[Notifier], "idle"} \cup Teardown

EndStep ==
    \/ Beside
    \/ Quiescent /\ \E c \in Callers : ConnectStart(c)
    \/ \E c \in Callers :
        ConnectMoves(c) \/ ConnectTransportUp(c) \/ ConnectTakeReport(c)
    \/ \E t \in Task : \/ DisconnectStart(t) \/ CallEnds(t)
                       \/ TearingStep(t) /\ MarkingStep(t)
                       \/ Leaving(t)
                       \/ FailureMarked(t) \/ FailureNotice(t)

LEMMA StepsBeside ==
    ASSUME Typed, LifeInv,
           \/ \E c \in Callers : \/ CallConnect(c) \/ CallDisconnect(c)
                                 \/ CallWrite(c) \/ Writing(c)
                                 \/ ConnectNoop(c) \/ CancelledInLine(c)
           \/ \E t \in Task : \/ FailureIgnored(t) \/ FailureHandled(t)
                              \/ CallbackDisconnects(t)
           \/ \E s \in Sessions : \/ WorkerStop(s) \/ WorkerProcess(s)
                                  \/ WorkerFails(s) \/ WorkerWaits(s)
                                  \/ KeepingAlive(s)
           \/ \E m \in Kinds : NotifyQueued(m) \/ NotifyInline(m)
           \/ LinkLoss \/ UNCHANGED vars
    PROVE  Beside
<1>1. /\ pc \in [Task -> Labels] /\ transport \in TransportType
      /\ Notifier \in Task
  BY TypedNow, TaskKinds
<1>2. ASSUME NEW c \in Callers,
             \/ CallConnect(c) \/ CallDisconnect(c) \/ CallWrite(c)
             \/ Writing(c) \/ ConnectNoop(c) \/ CancelledInLine(c)
      PROVE  Beside
  <2>1. transport' = transport /\ pc'[Notifier] = pc[Notifier]
    BY <1>1, <1>2, TaskKinds
    DEF CallConnect, CallDisconnect, CallWrite, Writing, WriteStart, WriteSent,
        WriteFails, WriteTake, WriteGivesUp, ConnectNoop, CancelledInLine, Goto
  <2>2. QED
    BY <1>2, <2>1, CallsOutside DEF Beside
<1>3. ASSUME NEW t \in Task,
             FailureIgnored(t) \/ FailureHandled(t) \/ CallbackDisconnects(t)
      PROVE  Beside
  <2>1. /\ transport' = transport
        /\ \A u \in Task \ {t} : pc'[u] = pc[u]
        /\ \/ pc'[t] = AfterFailure(t)
           \/ pc[t] = "lost" /\ pc'[t] = "disconnect"
    BY <1>1, <1>3 DEF FailureIgnored, FailureHandled, CallbackDisconnects, Goto,
                      At
  <2>2. AfterFailure(Notifier) = "idle"
    BY TaskKinds DEF AfterFailure
  <2>3. QED
    BY <1>1, <1>3, <2>1, <2>2, FailureOutside DEF Beside
<1>4. ASSUME NEW s \in Sessions,
             \/ WorkerStop(s) \/ WorkerProcess(s) \/ WorkerFails(s)
             \/ WorkerWaits(s)
      PROVE  Beside
  <2>1. transport' = transport /\ pc'[Notifier] = pc[Notifier]
    BY <1>1, <1>4, TaskKinds
    DEF WorkerStop, WorkerProcess, WorkerFails, WorkerWaits, Goto
  <2>2. QED
    BY <1>4, <2>1, WorkingOutside DEF Beside
<1>5. ASSUME NEW s \in Sessions, KeepingAlive(s) PROVE Beside
  <2>1. transport' = transport /\ pc'[Notifier] = pc[Notifier]
    BY <1>1, <1>5, TaskKinds
    DEF KeepingAlive, KeepaliveSend, KeepaliveSent, KeepaliveFails,
        KeepaliveError, KeepaliveCancelled, Goto
  <2>2. QED
    BY <1>5, <2>1, KeepingAliveOutside DEF Beside
<1>6. ASSUME \/ \E m \in Kinds : NotifyQueued(m) \/ NotifyInline(m)
             \/ LinkLoss \/ UNCHANGED vars
      PROVE  Beside
  <2>1. /\ transport'.link \in {transport.link, "down"}
        /\ transport'.stranded = transport.stranded
    BY <1>1, <1>6
    DEF NotifyQueued, NotifyInline, Arrives, LinkLoss, vars, TransportType
  <2>2. \/ pc' = pc
        \/ /\ pc[Notifier] = "idle" /\ Goto(Notifier, "fail")
           /\ client.worker = NoTask
    BY <1>6 DEF NotifyQueued, NotifyInline, LinkLoss, vars
  <2>3. QED
    BY <1>1, <1>6, <2>1, <2>2, OthersOutside DEF Beside, Goto
<1>7. QED
  BY <1>2, <1>3, <1>4, <1>5, <1>6

(* A cancelled task at the transport leaves the link down, or for good.      *)
LEMMA CutShortLeaves ==
    ASSUME Typed, NEW l, NEW o \in CutShort(l)
    PROVE  /\ o.link \in {transport.link, "down"}
           /\ transport.stranded => o.stranded
           /\ l \in AtTransport => o.link = "down" \/ o.stranded
<1>1. transport \in TransportType
  BY TypedNow
<1>2. QED
  BY <1>1 DEF CutShort, LeftUp, LinkDown, AtTransport, TransportType

LEMMA TeardownMarks ==
    ASSUME Typed, LifeInv, NEW t \in Task,
           \/ TeardownBegin(t) \/ TeardownJoined(t) \/ TeardownCleanup(t)
           \/ TeardownDisconnect(t) \/ TeardownTasksEnded(t)
           \/ TeardownDisconnected(t) \/ TeardownWorker(t) \/ AbortJoin(t)
           \/ t \in Callers /\ JoinCancelled(t)
    PROVE  TearingStep(t) /\ MarkingStep(t)
<1> DEFINE Plain ==
             \/ TeardownJoined(t) \/ TeardownCleanup(t) \/ TeardownWorker(t)
             \/ t \in Callers /\ JoinCancelled(t)
<1>1. /\ pc \in [Task -> Labels] /\ client \in ClientType
      /\ transport \in TransportType /\ NoTask \notin Task
      /\ Notifier \in Task /\ TearingStep(t)
  BY TypedNow, TaskKinds, TearingDownSteps, ConstantsAssumption
<1>2. pc[t] \in Teardown
  BY DEF TeardownBegin, TeardownJoined, TeardownCleanup, TeardownDisconnect,
         TeardownTasksEnded, TeardownDisconnected, TeardownWorker, AbortJoin,
         JoinCancelled, At, Teardown
<1>3. CASE Plain
  <2>1. /\ transport' = transport
        /\ \A u \in Task \ {t} : pc'[u] = pc[u]
        /\ \/ /\ pc[t] \in {"td_keepalive", "td_join"}
              /\ pc'[t] \in {"td_finish", "td_cleanup", "abort"}
              /\ pc'[t] = "td_finish" => pc[t] = "td_join"
              /\ client' = client
           \/ /\ pc[t] = "td_cleanup" /\ client'.cleanupDone
              /\ client'.worker = client.worker
              /\ pc'[t] = IF client.cleanupDone THEN "td_worker" ELSE "td_stop"
           \/ /\ pc[t] = "td_worker" /\ pc'[t] \in {"td_finish", "td_join"}
              /\ client'.cleanupDone = client.cleanupDone
    BY <1>1, <1>3
    DEF TeardownJoined, TeardownCleanup, NextCleanup, TeardownWorker,
        ForgotWorker, JoinCancelled, Goto, ClientType
  <2>2. QED
    BY <1>1, <1>2, <2>1, EndParts
    DEF MarkingStep, Cleaning, AtTransport, Teardown
<1>4. CASE TeardownBegin(t)
  <2>1. /\ transport' = transport /\ client'.cleanupDone = client.cleanupDone
        /\ client'.worker = client.worker
        /\ pc[t] = "td_begin" /\ pc'[t] \in {"td_cleanup", "td_keepalive"}
        /\ \A u \in Task \ {t} :
              \/ pc'[u] = pc[u]
              \/ /\ u \in Keepalives /\ pc[u] \in {"k_sleep", "k_write"}
                 /\ pc'[u] = "cancelled"
    BY <1>1, <1>4, TaskKinds DEF TeardownBegin, Joins, Goto, ClientType
  <2>2. QED
    BY <1>1, <1>2, <2>1, EndParts, TaskKinds
    DEF MarkingStep, Cleaning, AtTransport, Teardown
<1>5. CASE TeardownDisconnect(t)
  <2>1. /\ transport'.link = transport.link
        /\ transport'.stranded = transport.stranded
        /\ client' = client /\ pc[t] = "td_stop"
        /\ IF t = Notifier THEN pc'[t] = "idle"
           ELSE pc'[t] \in {"td_tasks", "td_disc"}
        /\ \A u \in Task \ {t} :
              pc'[u] = IF u = Notifier THEN "idle" ELSE pc[u]
    BY <1>1, <1>5 DEF TeardownDisconnect, At, TransportType
  <2>2. \A u \in Task : pc[u] \in AtTransport => u = t
    BY <2>1 DEF LifeInv, CleanupInv, CleanupExclusive, AtTransport
  <2>3. QED
    BY <1>1, <1>2, <2>1, <2>2, EndParts
    DEF MarkingStep, Cleaning, AtTransport
<1>6. CASE TeardownTasksEnded(t) \/ TeardownDisconnected(t)
  <2>1. /\ transport'.link \in {transport.link, "down"}
        /\ transport.stranded => transport'.stranded
        /\ client' = client /\ \A u \in Task \ {t} : pc'[u] = pc[u]
    BY <1>1, <1>6
    DEF TeardownTasksEnded, TeardownDisconnected, Goto, LeftUp, LinkDown,
        TransportType
  <2>2. \/ pc[t] = "td_tasks" /\ pc'[t] = "td_disc"
        \/ /\ pc[t] = "td_disc" /\ pc'[t] = "td_worker"
           /\ transport'.link = "down" \/ transport'.stranded
    BY <1>1, <1>6
    DEF TeardownTasksEnded, TeardownDisconnected, At, Goto, LeftUp, LinkDown,
        TransportType
  <2>3. QED
    BY <1>1, <1>2, <2>1, <2>2, EndParts
    DEF MarkingStep, Cleaning, AtTransport, Teardown
<1>7. CASE AbortJoin(t)
  <2> DEFINE a == awaiting[t]
  <2>1. /\ client' = client /\ pc[t] = "abort" /\ pc'[t] = "td_abort"
        /\ \A u \in Task \ {t} :
              \/ u # a /\ pc'[u] = pc[u]
              \/ u = a /\ pc'[u] = AfterCancel(pc[u])
    BY <1>1, <1>7 DEF AbortJoin, AfterCancel
  <2>2. /\ transport'.link \in {transport.link, "down"}
        /\ transport.stranded => transport'.stranded
        /\ pc[a] \in AtTransport =>
               transport'.link = "down" \/ transport'.stranded
    BY <1>7, CutShortLeaves DEF AbortJoin
  <2>3. \A u \in Task : pc[u] \in AtTransport /\ pc'[u] \notin AtTransport =>
            transport'.link = "down" \/ transport'.stranded
    BY <2>1, <2>2 DEF AtTransport
  <2>4. \A l \in Labels : AfterCancel(l) \notin Cleaning
    BY DEF AfterCancel, Cleaning, AtTransport, Ended
  <2>5. \A u \in Task : pc'[u] \in Cleaning => pc[u] \in Cleaning
    BY <1>1, <2>1, <2>4 DEF Cleaning, AtTransport
  <2>6. a # Notifier
    BY <1>1, TaskKinds DEF LifeInv, JoinInv, Joinable
  <2>7. pc'[Notifier] \in {pc[Notifier]} \cup Teardown
    BY <1>1, <2>1, <2>6, EndParts
  <2>8. QED
    BY <1>1, <1>2, <2>1, <2>2, <2>3, <2>5, <2>7 DEF MarkingStep
<1>8. QED
  BY <1>3, <1>4, <1>5, <1>6, <1>7

LEMMA EndStepKinds ==
    ASSUME Typed, LossInv, LifeInv, [PatientNext]_vars
    PROVE  EndStep
<1>1. [Next]_vars /\ (Opens => Quiescent \/ UNCHANGED vars)
  BY DEF PatientNext
<1>2. ASSUME NEW c \in Callers, Connecting(c) PROVE EndStep
  <2>1. CASE ConnectStart(c)
    <3>1. Opens /\ pc' # pc
      BY <2>1, ConnectStartOpens, TypedNow, TaskKinds
      DEF ConnectStart, At, Goto
    <3>2. QED
      BY <1>1, <2>1, <3>1 DEF vars, EndStep
  <2>2. CASE ConnectNoop(c)
    BY <2>2, StepsBeside DEF EndStep
  <2>3. CASE ConnectRaises(c)
    BY <2>3, TaskKinds DEF EndStep, CallEnds
  <2>4. QED
    BY <1>2, <2>1, <2>2, <2>3 DEF Connecting, ConnectMoves, EndStep
<1>3. ASSUME NEW c \in Callers,
             CallConnect(c) \/ CallDisconnect(c) \/ CallWrite(c) \/ Writing(c)
      PROVE  EndStep
  BY <1>3, StepsBeside DEF EndStep
<1>4. ASSUME NEW c \in Callers, Cancelling(c) PROVE EndStep
  <2>1. CASE CancelledInLine(c)
    BY <2>1, StepsBeside DEF EndStep
  <2>2. CASE TeardownCancelled(c)
    BY <2>2, TaskKinds DEF EndStep, Leaving
  <2>3. CASE JoinCancelled(c)
    BY <2>3, TeardownMarks, TaskKinds DEF EndStep
  <2>4. QED
    BY <1>4, <2>1, <2>2, <2>3 DEF Cancelling
<1>5. ASSUME NEW t \in Task, Disconnecting(t) PROVE EndStep
  BY <1>5 DEF Disconnecting, EndStep, CallEnds
<1>6. ASSUME NEW t \in Task, TearingDown(t) PROVE EndStep
  BY <1>6, TeardownMarks DEF TearingDown, EndStep, Leaving
<1>7. ASSUME NEW t \in Task, Failing(t) PROVE EndStep
  BY <1>7, StepsBeside DEF Failing, EndStep
<1>8. ASSUME NEW s \in Sessions, Working(s) PROVE EndStep
  BY <1>8, StepsBeside, TaskKinds DEF Working, EndStep, Leaving
<1>9. ASSUME NEW s \in Sessions, KeepingAlive(s) PROVE EndStep
  BY <1>9, StepsBeside DEF EndStep
<1>10. ASSUME \/ \E m \in Kinds : NotifyQueued(m) \/ NotifyInline(m)
              \/ LinkLoss \/ UNCHANGED vars
       PROVE  EndStep
  BY <1>10, StepsBeside DEF EndStep
<1>11. QED
  BY <1>1, <1>2, <1>3, <1>4, <1>5, <1>6, <1>7, <1>8, <1>9, <1>10, StepKinds

-----------------------------------------------------------------------------
(* Each kind of step keeps the marks.                                        *)
LEMMA MarkKept ==
    ASSUME MarkInv, client'.cleanupDone = client.cleanupDone,
           client'.worker = client.worker,
           \A t \in Task : pc'[t] \in Cleaning => pc[t] \in Cleaning,
           \A c \in Callers : pc'[c] \in Handshake =>
               /\ pc[c] \in Handshake
               /\ pc'[c] = "connecting" <=> pc[c] = "connecting",
           \/ client.status # "DISCONNECTED"
           \/ client'.status = "DISCONNECTED"
           \/ \E c \in Callers : pc[c] \in Handshake \ {"connecting"}
    PROVE  MarkInv'
<1>1. "connecting" \in Handshake
  BY DEF Handshake
<1>2. QED
  BY <1>1 DEF MarkInv

LEMMA ConnectParts ==
    ASSUME Typed, LossInv, StartInv, NEW c \in Callers,
           ConnectMoves(c) \/ ConnectTransportUp(c) \/ ConnectTakeReport(c)
    PROVE  /\ pc[c] \in Handshake /\ lock.lifecycle = c
           /\ pc[Notifier] # "fail" /\ pc'[Notifier] = pc[Notifier]
           /\ client'.cleanupDone = client.cleanupDone
           /\ \A d \in Callers \ {c} : pc'[d] = pc[d]
           /\ \A d \in Callers \ {c} : pc[d] \notin Handshake
           /\ \A t \in Task : pc'[t] \in Cleaning => pc[t] \in Cleaning
           /\ \A t \in Task : pc[t] \in AtTransport => pc'[t] = pc[t]
           /\ lock'.lifecycle \in {c, NoTask}
<1> DEFINE w == Worker(serving[c])
           k == Keepalive(serving[c])
<1>1. /\ pc \in [Task -> Labels] /\ client \in ClientType /\ lock \in LockType
      /\ c \in Task /\ Notifier \in Task /\ c # Notifier
  BY TypedNow, TaskKinds
<1>2. pc[c] \in Handshake /\ Turn(c)
  BY DEF ConnectMoves, ConnectSendRequest, ConnectAwaitAnswer, ConnectDiscard,
         ConnectTakeBlespp, ConnectTakeInfo, ConnectFails, ConnectTransportUp,
         ConnectTakeReport, ConnectTake, At, Handshake, HandshakeWait
<1>3. /\ lock.lifecycle = c
      /\ \A d \in Callers \ {c} : pc[d] \notin Handshake
  BY <1>2, HandshakeAlone DEF LossInv, Locked
<1>4. pc[Notifier] # "fail"
  BY <1>1, <1>2 DEF Turn, Midway
<1>5. serving[c] \in Sessions
  BY <1>2, TypedNow DEF ConnectServes
<1>6. CASE ConnectMoves(c)
  <2>1. /\ \A u \in Task \ {c} : pc'[u] = pc[u]
        /\ pc'[c] \in Handshake \cup {"td_begin"}
        /\ client'.cleanupDone = client.cleanupDone /\ lock' = lock
    BY <1>1, <1>6
    DEF ConnectMoves, ConnectSendRequest, ConnectAwaitAnswer, ConnectDiscard,
        ConnectTakeBlespp, ConnectTakeInfo, ConnectFails, ConnectTake, At,
        Goto, ClientType, Handshake, HandshakeWait
  <2>2. QED
    BY <1>1, <1>2, <1>3, <1>4, <2>1, EndParts, TaskKinds
    DEF Before, Handshake, HandshakeWait, Cleaning, AtTransport
<1>7. CASE ConnectTransportUp(c)
  <2>1. /\ pc[c] = "connecting" /\ pc'[c] = "subscribing" /\ pc'[w] = "run"
        /\ \A u \in Task \ {c, w} : pc'[u] = pc[u]
        /\ client'.cleanupDone = client.cleanupDone /\ lock' = lock
        /\ w \in Workers
    BY <1>1, <1>5, <1>7, TaskKinds
    DEF ConnectTransportUp, Opened, At, ClientType
  <2>2. pc[w] = "none"
    BY <1>5, <2>1, TaskKinds DEF StartInv
  <2>3. QED
    BY <1>1, <1>2, <1>3, <1>4, <2>1, <2>2, TaskKinds DEF Cleaning, AtTransport
<1>8. CASE ConnectTakeReport(c)
  <2>1. /\ pc[c] = "report" /\ pc'[c] = "returned" /\ pc'[k] = "k_sleep"
        /\ \A u \in Task \ {c, k} : pc'[u] = pc[u]
        /\ client'.cleanupDone = client.cleanupDone
        /\ lock'.lifecycle = NoTask /\ k \in Keepalives
    BY <1>1, <1>5, <1>8, TaskKinds
    DEF ConnectTakeReport, ConnectTake, Ready, At, ClientType, LockType
  <2>2. pc[k] = "none"
    BY <1>2, <1>5, <2>1, TaskKinds DEF StartInv
  <2>3. QED
    BY <1>1, <1>2, <1>3, <1>4, <2>1, <2>2, TaskKinds DEF Cleaning, AtTransport
<1>9. QED
  BY <1>6, <1>7, <1>8

(* A call or a teardown that begins or ends.                                 *)
Turning(t) ==
    \/ DisconnectStart(t) \/ CallEnds(t) \/ Leaving(t)
    \/ FailureMarked(t) \/ FailureNotice(t)

LEMMA TurningParts ==
    ASSUME Typed, NEW t \in Task, Turning(t)
    PROVE  /\ client'.cleanupDone = client.cleanupDone
           /\ client'.worker = client.worker
           /\ client'.status \in {client.status, "DISCONNECTED"}
           /\ First(client)' => First(client)
           /\ \A u \in Task \ {t} : pc'[u] = pc[u]
           /\ pc'[t] \in {"td_begin", "lost", "returned", "done", "next",
                          "idle", "raised", "killed"}
           /\ lock'.lifecycle \in {lock.lifecycle, t, NoTask}
<1>1. /\ pc \in [Task -> Labels] /\ client \in ClientType /\ lock \in LockType
  BY TypedNow
<1>2. CASE DisconnectStart(t)
  BY <1>1, <1>2
  DEF DisconnectStart, At, Goto, ClientType, LockType, First
<1>3. CASE CallEnds(t)
  BY <1>1, <1>3, AfterFailureType
  DEF CallEnds, ConnectRaises, DisconnectReturns, Disconnected, Cleared,
      Released, Unlocked, Goto, ClientType, LockType, First
<1>4. CASE Leaving(t)
  BY <1>1, <1>4, LeavingParts DEF First
<1>5. CASE FailureMarked(t)
  BY <1>1, <1>5, AfterFailureType
  DEF FailureMarked, Failed, Released, Goto, ClientType, LockType, First
<1>6. CASE FailureNotice(t)
  BY <1>1, <1>6
  DEF FailureNotice, Disconnected, Cleared, Goto, ClientType, First
<1>7. QED
  BY <1>2, <1>3, <1>4, <1>5, <1>6 DEF Turning

LEMMA ConnectStartParts ==
    ASSUME Typed, LossInv, NEW c \in Callers, ConnectStart(c), Quiescent
    PROVE  /\ lock.lifecycle = NoTask /\ lock'.lifecycle = c
           /\ client'.status = "DISCONNECTED" /\ ~client'.cleanupDone
           /\ pc[Notifier] # "fail" /\ pc'[Notifier] = pc[Notifier]
           /\ pc'[c] = "connecting" /\ c # Notifier
           /\ \A t \in Task \ {c} : pc'[t] = pc[t]
           /\ \A t \in Task : pc[t] \notin Teardown /\ pc'[t] \notin Teardown
           /\ \A d \in Callers \ {c} : pc'[d] \notin Handshake
<1>1. /\ pc[c] = "connect" /\ Turn(c) /\ lock.lifecycle = NoTask
      /\ client.status = "DISCONNECTED" /\ c \in Task /\ NoTask \notin Task
      /\ pc \in [Task -> Labels] /\ c # Notifier /\ Notifier \in Task
  BY TypedNow, TaskKinds, ConstantsAssumption DEF ConnectStart, At
<1>2. /\ client'.status = "DISCONNECTED" /\ ~client'.cleanupDone
      /\ lock'.lifecycle = c
  BY <1>1, TypedNow DEF ConnectStart, Begun, Cleared, ClientType, LockType
<1>3. pc'[c] = "connecting" /\ \A t \in Task \ {c} : pc'[t] = pc[t]
  BY <1>1 DEF ConnectStart, Goto
<1>4. \A t \in Task : pc[t] \notin Teardown /\ pc'[t] \notin Teardown
  BY <1>1, <1>3 DEF Quiescent, FailureHandler, Teardown
<1>5. \A d \in Callers : pc[d] \notin Handshake
  BY <1>1, TaskKinds DEF LossInv, Locked
<1>6. QED
  BY <1>1, <1>2, <1>3, <1>4, <1>5, TaskKinds DEF Turn, Midway

LEMMA NextMark ==
    ASSUME Typed, LossInv, LifeInv, StartInv, OpeningInv, MarkInv, EndStep
    PROVE  MarkInv'
<1>1. CASE Beside
  <2>1. /\ client'.cleanupDone = client.cleanupDone
        /\ client'.worker = client.worker
        /\ client'.status \in {client.status, Refreshed(client.status)}
        /\ \A u \in Task : pc[u] \in Inside \/ pc'[u] \in Inside
               => pc'[u] = pc[u]
    BY <1>1 DEF Beside, Outside
  <2>2. Cleaning \cup Handshake \subseteq Inside
    BY EndParts DEF Inside
  <2>3. QED
    BY <2>1, <2>2, MarkKept, TaskKinds DEF Refreshed
<1>2. ASSUME NEW c \in Callers, ConnectStart(c), Quiescent PROVE MarkInv'
  BY <1>2, ConnectStartParts, EndParts DEF MarkInv
<1>3. ASSUME NEW c \in Callers, ConnectTransportUp(c) PROVE MarkInv'
  <2>1. client'.worker \in Workers /\ pc'[c] = "subscribing"
    BY <1>3, TypedNow, TaskKinds
    DEF ConnectTransportUp, Opened, ClientType, At, ConnectServes, Handshake
  <2>2. /\ \A t \in Task : pc'[t] \in Cleaning => client'.cleanupDone
        /\ \A d \in Callers : pc'[d] # "connecting"
    BY <1>3, <2>1, ConnectParts DEF MarkInv, Handshake
  <2>3. QED
    BY <2>1, <2>2, TaskKinds DEF MarkInv
<1>4. ASSUME NEW c \in Callers, ConnectMoves(c) \/ ConnectTakeReport(c)
      PROVE  MarkInv'
  <2>1. /\ pc \in [Task -> Labels] /\ client \in ClientType /\ c \in Task
        /\ serving[c] \in Sessions /\ pc[c] \in Handshake
    BY <1>4, ConnectParts, TypedNow, TaskKinds DEF ConnectServes
  <2>2. CASE ConnectMoves(c)
    <3>1. /\ pc'[c] # "connecting" /\ client'.worker = client.worker
          /\ pc[c] = "connecting" => pc'[c] = "td_begin" /\ client' = client
      BY <2>1, <2>2
      DEF ConnectMoves, ConnectSendRequest, ConnectAwaitAnswer,
          ConnectDiscard, ConnectTakeBlespp, ConnectTakeInfo, ConnectFails,
          ConnectTake, At, Goto, ClientType, HandshakeWait
    <3>2. QED
      BY <1>4, <2>1, <3>1, ConnectParts, MarkKept, EndParts DEF Before
  <2>3. CASE ConnectTakeReport(c)
    <3>1. /\ pc'[c] = "returned" /\ pc[c] = "report"
          /\ client'.worker = client.worker
      BY <2>1, <2>3, TaskKinds
      DEF ConnectTakeReport, Ready, ConnectTake, At, ClientType
    <3>2. QED
      BY <1>4, <2>1, <3>1, ConnectParts, MarkKept, EndParts
  <2>4. QED
    BY <1>4, <2>2, <2>3
<1>5. ASSUME NEW t \in Task, Turning(t) PROVE MarkInv'
  <2>1. pc'[t] \notin Cleaning \cup Handshake
    BY <1>5, TurningParts DEF Cleaning, AtTransport, Handshake, HandshakeWait
  <2>2. QED
    BY <1>5, <2>1, TurningParts, MarkKept, TaskKinds
<1>6. ASSUME NEW t \in Task, TearingStep(t), MarkingStep(t) PROVE MarkInv'
  <2>1. /\ client.cleanupDone => client'.cleanupDone
        /\ client'.status = client.status
        /\ client'.worker \in {client.worker, NoTask}
    BY <1>6 DEF TearingStep, TornClient
  <2>2. \A c \in Callers : pc'[c] \in Handshake => pc'[c] = pc[c]
    BY <1>6, HandshakeParts DEF TearingStep
  <2>3. \A u \in Task : pc'[u] \in Cleaning => client'.cleanupDone
    BY <1>6, <2>1 DEF MarkInv, MarkingStep
  <2>4. \A c \in Callers : pc'[c] # "connecting"
    BY <1>6, <2>2 DEF OpeningInv, MarkingStep, Handshake
  <2>5. client'.worker = client.worker \/ client.cleanupDone
    BY <1>6 DEF MarkInv, MarkingStep, Cleaning
  <2>6. QED
    BY <2>1, <2>2, <2>3, <2>4, <2>5 DEF MarkInv
<1>7. QED
  BY <1>1, <1>2, <1>3, <1>4, <1>5, <1>6 DEF EndStep, Turning

LEMMA NextOwnTask ==
    ASSUME Typed, LossInv, LifeInv, StartInv, MarkInv, OwnTaskInv, EndStep
    PROVE  OwnTaskInv'
<1>1. /\ Notifier \in Task /\ NoTask \notin Task /\ AtTransport \subseteq Teardown
      /\ "fail" \notin Teardown /\ "idle" \notin Teardown
  BY TaskKinds, EndParts, ConstantsAssumption
<1>2. CASE Beside
  <2>1. /\ client'.cleanupDone = client.cleanupDone
        /\ lock'.lifecycle = lock.lifecycle
        /\ First(client)' => First(client)
        /\ pc[Notifier] \in Teardown \/ pc'[Notifier] \in Teardown
               => pc'[Notifier] = pc[Notifier]
    BY <1>1, <1>2 DEF Beside, Outside, First, Refreshed, Inside
  <2>2. client.worker = NoTask => client.cleanupDone \/ ~First(client)
    BY DEF MarkInv, First
  <2>3. /\ pc'[Notifier] = "fail" => client.cleanupDone \/ ~First(client)
        /\ lock.lifecycle = Notifier =>
               pc'[Notifier] \in Teardown \cup {"idle", "fail"}
    BY <1>1, <1>2, <2>2, EndParts DEF Beside, OwnTaskInv
  <2>4. QED
    BY <1>1, <2>1, <2>3 DEF OwnTaskInv
<1>3. ASSUME NEW c \in Callers, ConnectStart(c), Quiescent PROVE OwnTaskInv'
  BY <1>1, <1>3, ConnectStartParts DEF OwnTaskInv
<1>4. ASSUME NEW c \in Callers,
             ConnectMoves(c) \/ ConnectTransportUp(c) \/ ConnectTakeReport(c)
      PROVE  OwnTaskInv'
  BY <1>1, <1>4, ConnectParts, TaskKinds DEF OwnTaskInv
<1>5. ASSUME NEW t \in Task, Turning(t), t # Notifier PROVE OwnTaskInv'
  <2>1. /\ pc'[Notifier] = pc[Notifier]
        /\ client'.cleanupDone = client.cleanupDone
        /\ First(client)' => First(client)
        /\ lock'.lifecycle = Notifier => lock.lifecycle = Notifier
    BY <1>1, <1>5, TurningParts
  <2>2. lock.lifecycle = Notifier => lock'.lifecycle = Notifier
    BY <1>1, <1>5, LeavingParts, TypedNow
    DEF Turning, DisconnectStart, CallEnds, ConnectRaises, DisconnectReturns,
        FailureMarked, FailureNotice, Released, LockType
  <2>3. QED
    BY <2>1, <2>2 DEF OwnTaskInv
<1>6. ASSUME Turning(Notifier) PROVE OwnTaskInv'
  <2>1. /\ pc'[Notifier] \in {"td_begin", "lost", "returned", "done", "next",
                              "idle", "raised", "killed"}
        /\ client'.cleanupDone = client.cleanupDone
    BY <1>1, <1>6, TurningParts
  <2>2. /\ lock'.lifecycle = Notifier => pc'[Notifier] \in {"td_begin", "idle"}
        /\ pc'[Notifier] = "td_begin" /\ lock'.lifecycle # Notifier =>
               client.cleanupDone
    <3>1. CASE DisconnectStart(Notifier)
      BY <1>1, <3>1, TypedNow DEF DisconnectStart, Goto, LockType
    <3>2. CASE CallEnds(Notifier) \/ Leaving(Notifier)
      <4>1. CASE Leaving(Notifier)
        BY <1>1, <4>1, LeavingParts, TypedNow DEF LockType
      <4>2. CASE DisconnectReturns(Notifier)
        <5>1. pc'[Notifier] \in {"returned", AfterFailure(Notifier)}
          BY <1>1, <4>2, TypedNow DEF DisconnectReturns, Goto
        <5>2. lock'.lifecycle = NoTask
          BY <4>2, TypedNow DEF DisconnectReturns, Released, Unlocked, LockType
        <5>3. QED
          BY <1>1, <5>1, <5>2, AfterFailureType
      <4>3. QED
        BY <3>2, <4>1, <4>2, TaskKinds DEF CallEnds
    <3>3. CASE FailureMarked(Notifier)
      <4>1. AfterFailure(Notifier) = "idle"
        BY TaskKinds DEF AfterFailure
      <4>2. /\ pc'[Notifier] \in {"td_begin", "idle"}
            /\ pc[Notifier] = "fail" /\ First(client)
        BY <1>1, <3>3, <4>1, TypedNow DEF FailureMarked, Goto
      <4>3. QED
        BY <4>2 DEF OwnTaskInv
    <3>4. CASE FailureNotice(Notifier)
      BY <1>1, <3>4, TypedNow DEF FailureNotice, Goto
    <3>5. QED
      BY <1>6, <3>1, <3>2, <3>3, <3>4 DEF Turning
  <2>3. pc'[Notifier] \notin AtTransport \cup {"fail"}
    BY <2>1 DEF AtTransport
  <2>4. pc'[Notifier] \in Teardown => pc'[Notifier] = "td_begin"
    BY <2>1 DEF Teardown
  <2>5. "td_begin" \in Teardown
    BY DEF Teardown
  <2>6. QED
    BY <2>1, <2>2, <2>3, <2>4, <2>5 DEF OwnTaskInv
<1>7. ASSUME NEW t \in Task, TearingStep(t), MarkingStep(t) PROVE OwnTaskInv'
  <2>1. /\ client.cleanupDone => client'.cleanupDone
        /\ client'.status = client.status /\ client'.failure = client.failure
        /\ lock'.lifecycle = lock.lifecycle
    BY <1>7 DEF TearingStep, TornClient
  <2>2. /\ pc'[Notifier] \in Teardown => pc[Notifier] \in Teardown
        /\ pc'[Notifier] \in AtTransport =>
              \/ pc[Notifier] \in AtTransport
              \/ pc[Notifier] \in Teardown /\ ~client.cleanupDone
        /\ pc'[Notifier] \in {pc[Notifier], "idle"} \cup Teardown
    BY <1>1, <1>7 DEF TearingStep, Torn, MarkingStep
  <2>3. QED
    BY <1>1, <2>1, <2>2 DEF OwnTaskInv, First
<1>8. QED
  BY <1>2, <1>3, <1>4, <1>5, <1>6, <1>7 DEF EndStep, Turning

LEMMA NextDown ==
    ASSUME Typed, LossInv, LifeInv, StartInv, MarkedInv, EndStep
    PROVE  DownInv'
<1>1. /\ Notifier \in Task /\ NoTask \notin Task /\ transport \in TransportType
      /\ AtTransport \subseteq Teardown /\ pc \in [Task -> Labels]
      /\ MarkInv /\ DownInv /\ OwnTaskInv
  BY TypedNow, TaskKinds, EndParts, ConstantsAssumption DEF MarkedInv
<1>2. Orphaned => pc[Notifier] \in {"idle", "fail"}
  BY <1>1 DEF Orphaned, OwnTaskInv
<1>3. CASE Beside
  <2>1. /\ client'.cleanupDone = client.cleanupDone
        /\ lock'.lifecycle = lock.lifecycle
        /\ \A u \in Task : pc[u] \in Teardown \/ pc'[u] \in Teardown
               => pc'[u] = pc[u]
    BY <1>3 DEF Beside, Outside, Inside
  <2>2. Orphaned => Orphaned'
    BY <1>1, <2>1 DEF Orphaned
  <2>3. /\ transport'.link = "up" => transport.link = "up"
        /\ transport.stranded => transport'.stranded
    BY <1>1, <1>3 DEF Beside
  <2>4. QED
    BY <1>1, <2>1, <2>2, <2>3, DownKept
<1>4. ASSUME NEW c \in Callers, ConnectStart(c), Quiescent PROVE DownInv'
  BY <1>4, ConnectStartParts DEF DownInv
<1>5. ASSUME NEW c \in Callers, ConnectTransportUp(c) PROVE DownInv'
  <2>1. pc[c] = "connecting" /\ client'.cleanupDone = client.cleanupDone
    BY <1>5, ConnectParts DEF ConnectTransportUp, At
  <2>2. QED
    BY <1>1, <2>1 DEF MarkInv, DownInv
<1>6. ASSUME NEW c \in Callers, ConnectMoves(c) \/ ConnectTakeReport(c)
      PROVE  DownInv'
  <2>1. transport' = transport
    BY <1>6
    DEF ConnectMoves, ConnectSendRequest, ConnectAwaitAnswer, ConnectDiscard,
        ConnectTakeBlespp, ConnectTakeInfo, ConnectFails, ConnectTakeReport
  <2>2. ~Orphaned
    BY <1>6, ConnectParts, TaskKinds DEF Orphaned
  <2>3. QED
    BY <1>1, <1>6, <2>1, <2>2, ConnectParts, DownKept
<1>7. ASSUME NEW t \in Task, Leaving(t) PROVE DownInv'
  <2>1. /\ transport'.link = "up" => transport.link = "up"
        /\ transport.stranded => transport'.stranded
        /\ pc[t] \in AtTransport =>
               transport'.stranded \/ transport'.link = "down"
    <3>1. CASE t \in Callers /\ TeardownCancelled(t)
      BY <1>1, <3>1, CutShortLeaves DEF TeardownCancelled
    <3>2. CASE Aborted(t)
      BY <3>2 DEF Aborted, At, AtTransport
    <3>3. CASE \E s \in Sessions : t = Worker(s) /\ WorkerCancelled(s)
      BY <3>3 DEF WorkerCancelled, At, AtTransport
    <3>4. QED
      BY <1>7, <3>1, <3>2, <3>3 DEF Leaving
  <2>2. /\ client'.cleanupDone = client.cleanupDone
        /\ \A u \in Task \ {t} : pc'[u] = pc[u]
        /\ lock.lifecycle = t \/ lock'.lifecycle = lock.lifecycle
        /\ pc[t] \in Teardown \cup {"lost", "cancelled"}
    BY <1>7, LeavingParts
  <2>3. Orphaned => t # Notifier
    BY <1>2, <2>2 DEF Orphaned
  <2>4. Orphaned => Orphaned'
    BY <1>1, <2>2, <2>3 DEF Orphaned
  <2>5. QED
    BY <1>1, <2>1, <2>2, <2>4 DEF DownInv
<1>8. ASSUME NEW t \in Task, Turning(t), ~Leaving(t) PROVE DownInv'
  <2>1. transport' = transport /\ pc[t] \in {"disconnect", "td_finish", "fail"}
    BY <1>8
    DEF Turning, DisconnectStart, CallEnds, ConnectRaises, DisconnectReturns,
        FailureMarked, FailureNotice, At
  <2>2. ASSUME Orphaned PROVE Orphaned'
    <3>1. CASE t = Notifier
      <4>1. FailureMarked(t) /\ client.closing
        BY <1>1, <1>2, <1>8, <2>2, <3>1, TaskKinds
        DEF Turning, DisconnectStart, CallEnds, ConnectRaises,
            DisconnectReturns, FailureMarked, FailureNotice, At, Orphaned,
            LifeInv, OwnerInv
      <4>2. AfterFailure(Notifier) = "idle"
        BY TaskKinds DEF AfterFailure
      <4>3. pc'[Notifier] = "idle" /\ lock'.lifecycle = lock.lifecycle
        BY <1>1, <3>1, <4>1, <4>2, TypedNow
        DEF FailureMarked, OwnsLoss, Released, Goto, LockType
      <4>4. QED
        BY <2>2, <4>3, EndParts DEF Orphaned
    <3>2. CASE t # Notifier
      <4>1. lock'.lifecycle = lock.lifecycle
        BY <1>1, <1>8, <2>2, <3>2, TypedNow
        DEF Turning, DisconnectStart, CallEnds, ConnectRaises,
            DisconnectReturns, FailureMarked, FailureNotice, Released,
            LockType, Orphaned
      <4>2. QED
        BY <1>1, <1>8, <2>2, <3>2, <4>1, TurningParts DEF Orphaned
    <3>3. QED
      BY <3>1, <3>2
  <2>3. \A u \in Task : pc[u] \in AtTransport => pc'[u] \in AtTransport
    BY <1>8, <2>1, TurningParts DEF AtTransport
  <2>4. QED
    BY <1>1, <1>8, <2>1, <2>2, <2>3, TurningParts, DownKept
<1>9. ASSUME NEW t \in Task, TearingStep(t), MarkingStep(t) PROVE DownInv'
  <2>1. /\ lock'.lifecycle = lock.lifecycle
        /\ pc'[Notifier] \in Teardown => pc[Notifier] \in Teardown
    BY <1>1, <1>9 DEF TearingStep, TornClient, Torn
  <2>2. Orphaned => Orphaned'
    BY <2>1 DEF Orphaned
  <2>3. SUFFICES ASSUME transport'.link = "up", client'.cleanupDone,
                        ~transport'.stranded
                 PROVE  Orphaned' \/ \E u \in Task : pc'[u] \in AtTransport
    BY DEF DownInv
  <2>4. CASE ~client.cleanupDone
    BY <1>9, <2>3, <2>4 DEF MarkingStep, AtTransport
  <2>5. ASSUME NEW u \in Task, pc[u] \in AtTransport, pc'[u] \notin AtTransport
        PROVE  Orphaned'
    <3>1. u = Notifier /\ pc'[u] = "idle"
      BY <1>9, <2>3, <2>5 DEF MarkingStep
    <3>2. QED
      BY <1>1, <2>1, <2>5, <3>1, EndParts DEF OwnTaskInv, Orphaned
  <2>6. CASE client.cleanupDone
    <3>1. transport.link = "up" /\ ~transport.stranded
      BY <1>1, <1>9, <2>3 DEF MarkingStep
    <3>2. QED
      BY <1>1, <2>2, <2>5, <2>6, <3>1 DEF DownInv
  <2>7. QED
    BY <2>4, <2>6
<1>10. QED
  BY <1>3, <1>4, <1>5, <1>6, <1>7, <1>8, <1>9 DEF EndStep, Turning

LEMMA MarkedHolds == PatientSpec => [](Inductive /\ MarkedInv)
<1>1. Inductive /\ OpeningInv /\ MarkedInv /\ [PatientNext]_vars => MarkedInv'
  <2> SUFFICES ASSUME Inductive, OpeningInv, MarkedInv, [PatientNext]_vars
               PROVE  MarkedInv'
    OBVIOUS
  <2>1. Typed /\ LossInv /\ LifeInv /\ StartInv /\ EndStep
    BY EndStepKinds DEF Inductive
  <2>2. QED
    BY <2>1, NextMark, NextOwnTask, NextDown DEF MarkedInv
<1>2. QED
  BY <1>1, InitMarked, CalmHolds, PTL DEF PatientSpec

(* Only disconnect()'s own owner of the lock returns from it.                *)
LEMMA ReturnsLocked ==
    ASSUME Typed, LossInv, LifeInv, StartInv, EndStep, NEW c \in Callers,
           pc[c] = "td_finish", pc'[c] = "returned"
    PROVE  lock.lifecycle = c
<1>1. /\ c \in Task /\ pc \in [Task -> Labels]
      /\ "td_finish" \in Teardown /\ "td_finish" \notin Handshake
      /\ "returned" \notin Teardown
  BY TypedNow, TaskKinds DEF Teardown, Handshake, HandshakeWait
<1>2. ~Beside
  BY <1>1 DEF Beside, Outside, Inside
<1>3. ASSUME NEW d \in Callers, ConnectStart(d), Quiescent PROVE FALSE
  BY <1>1, <1>3, ConnectStartParts
<1>4. ASSUME NEW d \in Callers,
             ConnectMoves(d) \/ ConnectTransportUp(d) \/ ConnectTakeReport(d)
      PROVE  FALSE
  BY <1>1, <1>4, ConnectParts
<1>5. ASSUME NEW t \in Task, Turning(t) PROVE lock.lifecycle = c
  <2>1. t = c
    BY <1>1, <1>5, TurningParts
  <2>2. CASE Leaving(c)
    BY <1>1, <2>2, LeavingParts
  <2>3. CASE CallEnds(c)
    BY <2>3 DEF CallEnds, ConnectRaises, DisconnectReturns
  <2>4. CASE FailureNotice(c)
    BY <1>1, <2>4 DEF FailureNotice, Goto
  <2>5. QED
    BY <1>5, <2>1, <2>2, <2>3, <2>4
    DEF Turning, DisconnectStart, FailureMarked, At
<1>6. ASSUME NEW t \in Task, TearingStep(t) PROVE FALSE
  BY <1>1, <1>6 DEF TearingStep
<1>7. QED
  BY <1>2, <1>3, <1>4, <1>5, <1>6 DEF EndStep, Turning

(* disconnect(): when it returns to the application the link is down, or     *)
(* another task is taking it down, however it meets the teardown of a        *)
(* failure and whatever has been cancelled; unless stop_notify() was         *)
(* cancelled in this session, which leaves the link up for good.             *)
THEOREM EndIsRelease == PatientSpec => DisconnectReleases
<1> DEFINE Releases ==
             \A c \in Callers : pc[c] = "td_finish" /\ pc'[c] = "returned" =>
                 \/ transport.link = "down" \/ transport.stranded
                 \/ \E t \in Task \ {c} : pc[t] \in Teardown
<1>1. Inductive /\ MarkedInv /\ [PatientNext]_vars => Releases
  <2> SUFFICES ASSUME Inductive, MarkedInv, [PatientNext]_vars,
                      NEW c \in Callers,
                      pc[c] = "td_finish", pc'[c] = "returned",
                      transport.link # "down", ~transport.stranded
               PROVE  \E t \in Task \ {c} : pc[t] \in Teardown
    OBVIOUS
  <2>1. /\ c # Notifier /\ c \in Task /\ Typed /\ MarkInv /\ DownInv
        /\ transport.link = "up"
    BY TypedNow, TaskKinds DEF Inductive, MarkedInv, TransportType
  <2>2. lock.lifecycle = c
    BY ReturnsLocked, EndStepKinds DEF Inductive
  <2>3. client.cleanupDone
    BY <2>1 DEF MarkInv, Cleaning
  <2>4. PICK t \in Task : pc[t] \in AtTransport
    BY <2>1, <2>2, <2>3 DEF DownInv, Orphaned
  <2>5. QED
    BY <2>4, EndParts DEF AtTransport
<1>2. QED
  BY <1>1, MarkedHolds, PTL DEF PatientSpec, DisconnectReleases

-----------------------------------------------------------------------------
(* One session, in every regime.  A client that has not opened its first     *)
(* session has nothing running but calls: connect() and disconnect() wait in *)
(* line, or one of them, with the lifecycle lock, takes down what is not     *)
(* there.                                                                    *)
Undoing == {"td_begin", "td_cleanup", "td_stop", "td_tasks", "td_disc",
            "td_worker", "td_finish"}
Early(c) ==
    \/ pc[c] \in Outcome \cup {"connect", "disconnect"}
    \/ pc[c] \in Undoing /\ lock.lifecycle = c

Unopened ==
    /\ client.status = "DISCONNECTED" /\ transport.link = "down"
    /\ client.worker = NoTask /\ client.keepalive = NoTask
    /\ pc[Notifier] = "idle"
    /\ \A u \in Workers \cup Keepalives : pc[u] = "none"
    /\ \A c \in Callers : Early(c)

UnopenedInv == client.session = 0 => Unopened

(* Only connect() names another session, and it names one of those to come.  *)
LEMMA SessionKept ==
    ASSUME Typed, [Next]_vars, \A c \in Callers : ~ConnectStart(c)
    PROVE  client'.session = client.session
<1>1. client \in ClientType
  BY TypedNow
<1>2. ASSUME NEW c \in Callers, Connecting(c)
      PROVE  client'.session = client.session
  BY <1>1, <1>2
  DEF Connecting, ConnectNoop, ConnectTransportUp, Opened, ConnectSendRequest,
      ConnectAwaitAnswer, ConnectDiscard, ConnectTakeBlespp, ConnectTakeInfo,
      ConnectTakeReport, Ready, ConnectFails, ConnectRaises, Disconnected,
      Cleared, ClientType
<1>3. ASSUME NEW c \in Callers,
             CallConnect(c) \/ CallDisconnect(c) \/ CallWrite(c) \/ Writing(c)
      PROVE  client'.session = client.session
  BY <1>3
  DEF CallConnect, CallDisconnect, CallWrite, Writing, WriteStart, WriteSent,
      WriteFails, WriteTake, WriteGivesUp
<1>4. ASSUME NEW c \in Callers, Cancelling(c)
      PROVE  client'.session = client.session
  BY <1>1, <1>4
  DEF Cancelling, CancelledInLine, TeardownCancelled, JoinCancelled, NotClosing,
      ClientType
<1>5. ASSUME NEW t \in Task, Disconnecting(t) \/ TearingDown(t) \/ Failing(t)
      PROVE  client'.session = client.session
  <2>1. CASE Disconnecting(t)
    BY <1>1, <2>1
    DEF Disconnecting, DisconnectStart, DisconnectReturns, Disconnected, Cleared,
        ClientType
  <2>2. CASE TearingDown(t)
    BY <1>1, <2>2
    DEF TearingDown, TeardownBegin, TeardownJoined, TeardownCleanup,
        TeardownDisconnect, TeardownTasksEnded, TeardownDisconnected,
        TeardownWorker, ForgotWorker, AbortJoin, Aborted, NotClosing,
        ClientType
  <2>3. CASE Failing(t)
    BY <1>1, <2>3
    DEF Failing, FailureIgnored, FailureMarked, Failed, FailureNotice,
        Disconnected, Cleared, FailureHandled, CallbackDisconnects, ClientType
  <2>4. QED
    BY <1>5, <2>1, <2>2, <2>3
<1>6. ASSUME NEW s \in Sessions, Working(s) \/ KeepingAlive(s)
      PROVE  client'.session = client.session
  BY <1>1, <1>6
  DEF Working, WorkerStop, WorkerProcess, Process, WorkerFails, WorkerWaits,
      WorkerCancelled, NotClosing, KeepingAlive, KeepaliveSend, KeepaliveSent,
      KeepaliveFails, KeepaliveCancelled, ClientType
<1>7. ASSUME \/ \E m \in Kinds : NotifyQueued(m) \/ NotifyInline(m)
             \/ LinkLoss \/ UNCHANGED vars
      PROVE  client'.session = client.session
  BY <1>1, <1>7 DEF NotifyQueued, NotifyInline, Process, LinkLoss, ClientType, vars
<1>8. QED
  BY <1>2, <1>3, <1>4, <1>5, <1>6, <1>7, StepKinds

LEMMA SessionNamed ==
    ASSUME Typed, NEW c \in Callers, ConnectStart(c)
    PROVE  client'.session \in Sessions
  BY TypedNow DEF ConnectStart, At, ConnectServes, Begun, Cleared, ClientType

(* A step of one task t changes no other task's place.                       *)
LEMMA EarlyMoves ==
    ASSUME Typed, Unopened, NEW c \in Callers, NEW l, Goto(c, l),
           lock'.lifecycle = lock.lifecycle \/ lock.lifecycle \in {NoTask, c},
           \/ l \in Outcome \cup {"connect", "disconnect"}
           \/ l \in Undoing /\ lock'.lifecycle = c,
           client'.status = "DISCONNECTED", transport'.link = "down",
           client'.worker = NoTask, client'.keepalive = NoTask
    PROVE  Unopened'
<1>1. pc \in [Task -> Labels] /\ c \in Task
  BY TypedNow, TaskKinds
<1>2. \A u \in Task \ {c} : pc'[u] = pc[u]
  BY <1>1 DEF Goto
<1>3. pc'[c] = l
  BY <1>1 DEF Goto
<1>4. ASSUME NEW d \in Callers PROVE Early(d)'
  <2>1. CASE d = c
    BY <1>3, <2>1 DEF Early
  <2>2. CASE d # c
    BY <1>2, <2>2, TaskKinds DEF Unopened, Early
  <2>3. QED
    BY <2>1, <2>2
<1>5. /\ pc'[Notifier] = "idle"
      /\ \A u \in Workers \cup Keepalives : pc'[u] = "none"
  BY <1>2, TaskKinds DEF Unopened
<1>6. QED
  BY <1>4, <1>5 DEF Unopened

(* Before the first session, no step but connect()'s own leads anywhere else. *)
LEMMA NextUnopened ==
    ASSUME Typed, Unopened, [Next]_vars, \A c \in Callers : ~ConnectStart(c)
    PROVE  Unopened'
<1>1. /\ client \in ClientType /\ transport \in TransportType
      /\ lock \in LockType /\ pc \in [Task -> Labels]
  BY TypedNow
<1>2. ASSUME NEW c \in Callers, Connecting(c) PROVE Unopened'
  <2>1. pc[c] \notin Handshake
    BY DEF Unopened, Early, Outcome, Undoing, Handshake, HandshakeWait
  <2>2. ConnectRaises(c)
    BY <1>2, <2>1
    DEF Connecting, ConnectNoop, ConnectTransportUp, ConnectSendRequest,
        ConnectAwaitAnswer, ConnectDiscard, ConnectTakeBlespp, ConnectTakeInfo,
        ConnectTakeReport, ConnectTake, ConnectFails, At, Handshake,
        HandshakeWait, Unopened
  <2>3. /\ Goto(c, "raised") /\ lock.lifecycle = c /\ transport' = transport
        /\ client' = Disconnected(client)
    BY <2>2 DEF ConnectRaises
  <2>4. /\ client'.status = "DISCONNECTED" /\ client'.worker = client.worker
        /\ client'.keepalive = client.keepalive
    BY <1>1, <2>3 DEF Disconnected, Cleared, ClientType
  <2>5. QED
    BY <2>3, <2>4, EarlyMoves DEF Unopened, Outcome
<1>3. ASSUME NEW c \in Callers,
             CallConnect(c) \/ CallDisconnect(c) \/ CallWrite(c)
      PROVE  Unopened'
  <2>1. PICK l \in Outcome \cup {"connect", "disconnect"} :
            /\ Goto(c, l) /\ UNCHANGED <<client, transport, lock>>
    BY <1>3 DEF CallConnect, CallDisconnect, CallWrite, Outcome, Unopened
  <2>2. QED
    BY <2>1, EarlyMoves DEF Unopened
<1>4. ASSUME NEW c \in Callers, Writing(c) PROVE Unopened'
  BY <1>4
  DEF Unopened, Early, Outcome, Undoing, Writing, WriteStart, WriteSent,
      WriteFails, WriteTake, WriteGivesUp, At
<1>5. ASSUME NEW c \in Callers, Cancelling(c) PROVE Unopened'
  <2>1. CASE CancelledInLine(c)
    <3>1. /\ Goto(c, "raised") /\ UNCHANGED <<client, transport>>
          /\ lock'.lifecycle = lock.lifecycle
      BY <1>1, <2>1 DEF CancelledInLine, Released, LockType
    <3>2. QED
      BY <3>1, EarlyMoves DEF Unopened, Outcome
  <2>2. CASE TeardownCancelled(c)
    <3>1. /\ Goto(c, "raised") /\ lock.lifecycle = c
          /\ transport' \in CutShort(pc[c]) /\ client' = NotClosing(c)
      BY <2>2
      DEF TeardownCancelled, AtTransport, Unopened, Early, Outcome, Undoing
    <3>2. /\ client'.status = client.status /\ client'.worker = client.worker
          /\ client'.keepalive = client.keepalive /\ transport'.link = "down"
      BY <1>1, <3>1, CutShortLeaves DEF NotClosing, Unopened, ClientType
    <3>3. QED
      BY <3>1, <3>2, EarlyMoves DEF Unopened, Outcome
  <2>3. CASE JoinCancelled(c)
    BY <2>3 DEF JoinCancelled, Unopened, Early, Outcome, Undoing
  <2>4. QED
    BY <1>5, <2>1, <2>2, <2>3 DEF Cancelling
<1>6. ASSUME NEW t \in Task, Disconnecting(t) \/ TearingDown(t) \/ Failing(t)
      PROVE  Unopened' /\ t \in Callers
  <2>1. t \in Callers
    <3>1. CASE t \notin Callers
      <4>1. pc[t] \in {"idle", "none"}
        BY <3>1 DEF Task, Unopened
      <4>2. QED
        BY <1>6, <4>1
        DEF Disconnecting, DisconnectStart, DisconnectReturns, TearingDown,
            TeardownBegin, TeardownJoined, TeardownCleanup, TeardownDisconnect,
            TeardownTasksEnded, TeardownDisconnected, TeardownWorker,
            AbortJoin, Aborted, Failing, FailureIgnored, FailureMarked,
            FailureNotice, FailureHandled, CallbackDisconnects, At
    <3>2. QED
      BY <3>1
  <2>2. ~Failing(t)
    BY <2>1
    DEF Failing, FailureIgnored, FailureMarked, FailureNotice, FailureHandled,
        CallbackDisconnects, At, Unopened, Early, Outcome, Undoing
  <2>3. CASE DisconnectStart(t)
    <3>1. /\ Goto(t, "td_begin") /\ transport' = transport
          /\ lock.lifecycle = NoTask /\ lock'.lifecycle = t
      BY <1>1, <2>3 DEF DisconnectStart, LockType
    <3>2. /\ client'.status = client.status /\ client'.worker = client.worker
          /\ client'.keepalive = client.keepalive
      BY <1>1, <2>3 DEF DisconnectStart, ClientType
    <3>3. QED
      BY <2>1, <3>1, <3>2, EarlyMoves DEF Unopened, Undoing
  <2>4. CASE DisconnectReturns(t)
    <3>1. PICK l \in Outcome : Goto(t, l)
      BY <2>1, <2>4, AfterFailureType DEF DisconnectReturns, Outcome
    <3>2. /\ transport' = transport /\ lock.lifecycle = t
          /\ client' = [Disconnected(client) EXCEPT !.closing = FALSE]
      BY <2>4 DEF DisconnectReturns
    <3>3. /\ client'.status = "DISCONNECTED" /\ client'.worker = client.worker
          /\ client'.keepalive = client.keepalive
      BY <1>1, <3>2 DEF Disconnected, Cleared, ClientType
    <3>4. QED
      BY <2>1, <3>1, <3>2, <3>3, EarlyMoves DEF Unopened
  <2>5. CASE TearingDown(t)
    <3>1. /\ pc[t] \in Undoing /\ lock.lifecycle = t
      BY <2>1, <2>5
      DEF TearingDown, TeardownBegin, TeardownJoined, TeardownCleanup,
          TeardownDisconnect, TeardownTasksEnded, TeardownDisconnected,
          TeardownWorker, AbortJoin, Aborted, At, Unopened, Early, Outcome,
          Undoing
    <3>2. /\ lock' = lock
          /\ client'.status = client.status /\ client'.worker = NoTask
          /\ client'.keepalive = NoTask /\ transport'.link = "down"
      BY <1>1, <2>5, <3>1
      DEF TearingDown, TeardownBegin, TeardownJoined, TeardownCleanup,
          TeardownDisconnect, TeardownTasksEnded, TeardownDisconnected,
          TeardownWorker, ForgotWorker, AbortJoin, Aborted, At, Undoing,
          Unopened, ClientType, TransportType, LeftUp, LinkDown
    <3>3. CASE TeardownDisconnect(t)
      <4>1. t # Notifier /\ t \in Task
        BY <2>1, TaskKinds
      <4>2. PICK l \in {"td_tasks", "td_disc"} : Goto(t, l)
        <5>1. PICK l \in {"td_tasks", "td_disc"} :
                  pc' = [pc EXCEPT ![t] = l, ![Notifier] = "idle"]
          BY <3>3, <4>1 DEF TeardownDisconnect
        <5>2. [pc EXCEPT ![t] = l][Notifier] = "idle"
          BY <1>1, <4>1, TaskKinds DEF Unopened
        <5>3. QED
          BY <1>1, <4>1, <5>1, <5>2 DEF Goto
      <4>3. QED
        BY <2>1, <3>1, <3>2, <4>2, EarlyMoves DEF Undoing, Unopened
    <3>4. CASE ~TeardownDisconnect(t)
      <4>1. PICK l \in Undoing : Goto(t, l)
        BY <2>5, <3>1, <3>4
        DEF TearingDown, TeardownBegin, TeardownJoined, TeardownCleanup,
            NextCleanup, TeardownTasksEnded, TeardownDisconnected,
            TeardownWorker, AbortJoin, Aborted, At, Joins, Undoing, Unopened
      <4>2. QED
        BY <2>1, <3>1, <3>2, <4>1, EarlyMoves DEF Unopened
    <3>5. QED
      BY <3>3, <3>4
  <2>6. QED
    BY <1>6, <2>1, <2>2, <2>3, <2>4, <2>5 DEF Disconnecting
<1>7. ASSUME NEW s \in Sessions, Working(s) \/ KeepingAlive(s) PROVE Unopened'
  <2>1. pc[Worker(s)] = "none" /\ pc[Keepalive(s)] = "none"
    BY TaskKinds DEF Unopened
  <2>2. QED
    BY <1>7, <2>1
    DEF Working, WorkerTakes, WorkerStop, WorkerProcess, WorkerFails,
        WorkerWaits, WorkerCancelled, KeepingAlive, KeepaliveSend,
        KeepaliveSent, KeepaliveFails, KeepaliveCancelled, At
<1>8. ASSUME (\E m \in Kinds : NotifyQueued(m) \/ NotifyInline(m)) \/ LinkLoss
      PROVE  Unopened'
  BY <1>8 DEF NotifyQueued, NotifyInline, Arrives, LinkLoss, Unopened
<1>9. CASE UNCHANGED vars
  BY <1>9 DEF vars, Unopened, Early
<1>10. QED
  BY <1>2, <1>3, <1>4, <1>5, <1>6, <1>7, <1>8, <1>9, StepKinds

LEMMA UnopenedHolds == Spec => [](Typed /\ UnopenedInv)
<1>1. Init => Typed /\ Numbered /\ UnopenedInv
  <2>1. Init => UnopenedInv
    <3> SUFFICES ASSUME Init PROVE Unopened
      BY DEF UnopenedInv
    <3>1. \A t \in Task : pc[t] = IF t \in Callers \cup {Notifier} THEN "idle" ELSE "none"
      BY DEF Init
    <3>2. /\ pc[Notifier] = "idle" /\ \A c \in Callers : pc[c] = "idle"
          /\ \A u \in Workers \cup Keepalives : pc[u] = "none"
      BY <3>1, TaskKinds
    <3>3. QED
      BY <3>2 DEF Init, Unopened, Early, Outcome
  <2>2. QED
    BY <2>1, InitTyped, InitNumbered
<1>2. Typed /\ Numbered /\ UnopenedInv /\ [Next]_vars
          => (Typed /\ Numbered /\ UnopenedInv)'
  <2> SUFFICES ASSUME Typed, Numbered, UnopenedInv, [Next]_vars
               PROVE  (Typed /\ Numbered /\ UnopenedInv)'
    OBVIOUS
  <2>1. Typed' /\ Numbered'
    BY NextTyped, NextNumbered
  <2>2. UnopenedInv'
    <3>1. CASE \E c \in Callers : ConnectStart(c)
      <4>1. client'.session \in Sessions
        BY <3>1, SessionNamed
      <4>2. client'.session # 0
        BY <4>1, ConstantsAssumption DEF Sessions
      <4>3. QED
        BY <4>2 DEF UnopenedInv
    <3>2. CASE \A c \in Callers : ~ConnectStart(c)
      <4>1. client'.session = client.session
        BY <3>2, SessionKept
      <4>2. client.session = 0 => Unopened'
        BY <3>2, NextUnopened DEF UnopenedInv
      <4>3. QED
        BY <4>1, <4>2 DEF UnopenedInv
    <3>3. QED
      BY <3>1, <3>2
  <2>3. QED
    BY <2>1, <2>2
<1>3. QED
  BY <1>1, <1>2, PTL DEF Spec

(* connect(): a client that opens one session opens it patiently, whatever   *)
(* is called, cancelled or fails before, meanwhile and afterwards: the       *)
(* theorems about PatientSpec hold of every behaviour of one session.        *)
THEOREM OneSessionIsPatient == Budget.connect <= 1 => (Spec => PatientSpec)
<1> SUFFICES ASSUME Budget.connect <= 1 PROVE Spec => PatientSpec
  OBVIOUS
<1>1. \A s \in Sessions : s = 1
  BY ConstantsAssumption DEF Sessions
<1>2. Typed /\ UnopenedInv /\ [Next]_vars => [PatientNext]_vars
  <2> SUFFICES ASSUME Typed, UnopenedInv, Next, Opens PROVE Quiescent
    BY DEF PatientNext
  <2>1. PICK c \in Callers : ConnectStart(c)
    BY SessionKept DEF Opens
  <2>2. client'.session = 1
    BY <1>1, <2>1, SessionNamed
  <2>3. client.session = 0
    BY <1>1, <2>2, TypedNow DEF Opens, ClientType
  <2>4. Unopened
    BY <2>3 DEF UnopenedInv
  <2>5. \A d \in Callers : ~FailureHandler(d)
    BY <2>4 DEF Unopened, Early, FailureHandler, Outcome, Undoing, Teardown
  <2>6. \A t \in Task \ Callers : ~FailureHandler(t)
    <3>1. \A t \in Task \ Callers : pc[t] \in {"idle", "none"}
      BY <2>4 DEF Unopened, Task
    <3>2. QED
      BY <3>1 DEF FailureHandler, Teardown
  <2>7. QED
    BY <2>4, <2>5, <2>6 DEF Quiescent, Unopened
<1>3. QED
  BY <1>2, UnopenedHolds, PTL DEF Spec, PatientSpec

(* And so a client of one session keeps its promises in every regime: the    *)
(* identity comes before the requests, a READY session is watched and has    *)
(* had a report, a link that nobody wants is released, a failure wakes       *)
(* whoever waits, disconnect() releases, and status and losses follow the    *)
(* contract.                                                                 *)
THEOREM OneSessionIsKept ==
    Budget.connect <= 1 =>
        (Spec => /\ []IdentityBeforeRequests /\ []ReadyIsWatched
                 /\ []ReadyHasReport /\ []TransportReleased
                 /\ []FailureWakesWaiters /\ DisconnectReleases
                 /\ ContractKept)
  BY OneSessionIsPatient, IdentityComesFirst, ReadyMeansWatched,
     ReadyMeansReported, LinkIsReleased, WaitersAreWoken, EndIsRelease,
     ClientKeepsContract, PTL
=============================================================================
