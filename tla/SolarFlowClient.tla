-------------------------- MODULE SolarFlowClient --------------------------
(* The session life cycle of solarflow_ble.SolarFlowClient: the asyncio     *)
(* tasks that share one client object and the transport they drive.         *)
(*                                                                          *)
(* A task runs without interruption from one suspending await to the next,  *)
(* so pc[t] names the await at which task t is suspended, and an action is  *)
(* the code between two awaits.  A few labels (Midway) are not awaits: they *)
(* cut a long run of code into named pieces, and while a task is at one of  *)
(* them no other task may step.                                             *)
EXTENDS Integers, Sequences

CONSTANTS
    Callers,     \* application tasks that call connect, disconnect, set_*
    Budget,      \* how many calls, cancellations and notifications of each kind
    HasTarget,   \* TRUE iff the constructor got a device_id
    CallsBack,   \* TRUE iff connection_lost_callback may await disconnect()
    NoTask       \* None, in fields and locks that hold a task

-----------------------------------------------------------------------------
(* Notification kinds.  "foreign" is a report that carries another deviceId, *)
(* "garbage" is a payload that decode_json rejects; "ack", "nack" and        *)
(* "unrelated" are reports with a writeRsp: one that approves the pending    *)
(* write, one that rejects it, one that matches neither its property nor its *)
(* message id; "stranger" is a BLESPP without a usable deviceId.             *)
Acks == {"ack", "nack", "unrelated"}
Reports == Acks \cup {"report", "foreign"}
Hellos == {"BLESPP", "stranger"}
Kinds == Reports \cup Hellos \cup {"getInfo-rsp", "read_reply", "garbage"}

Closed == "Closed"      \* the _SessionClosed sentinel of a session queue
Stop == "Stop"          \* the None sentinel of a notification queue

Sessions == 1 .. Budget.connect
Worker(s) == <<"worker", s>>
Keepalive(s) == <<"keepalive", s>>
Notifier == <<"notifier", 0>>
Workers == {Worker(s) : s \in Sessions}
Keepalives == {Keepalive(s) : s \in Sessions}
Task == Callers \cup Workers \cup Keepalives \cup {Notifier}

ASSUME ConstantsAssumption ==
    /\ Budget \in [connect : Nat, disconnect : Nat, write : Nat,
                   interrupt : Nat, payload : [Kinds -> Nat]]
    /\ HasTarget \in BOOLEAN /\ CallsBack \in BOOLEAN
    /\ Callers \cap (Workers \cup Keepalives \cup {Notifier}) = {}
    /\ NoTask \notin Task

VARIABLES
    client,     \* fields of the client object, and which session they serve
    transport,  \* the link, BleakTransport's _accept_notifications, and whether
                \* the session's transport teardown has left the link up
    queues,     \* _reports and _write_results
    inbox,      \* the notification queue of each session's worker
    lock,       \* owners of _lifecycle_lock and _lock
    pc,         \* where each task is suspended
    awaiting,   \* the task that a teardown's gather() waits for
    serving,    \* the session a connect(), write or failure handler acts for
    budget,     \* calls and notifications still to come
    lost        \* how often connection_lost_callback heard of each session

vars == <<client, transport, queues, inbox, lock, pc, awaiting, serving,
          budget, lost>>
others == <<awaiting, serving, budget, lost>>

-----------------------------------------------------------------------------
Outcome == {"idle", "returned", "raised"}
HandshakeWait == {"blespp", "info", "report"}
Handshake == {"connecting", "subscribing", "confirming", "requesting",
              "pausing", "reading"} \cup HandshakeWait
Teardown == {"td_begin", "td_keepalive", "td_cleanup", "td_stop", "td_tasks",
             "td_disc", "td_worker", "td_join", "td_finish", "abort",
             "td_abort"}
AtTransport == {"td_stop", "td_tasks", "td_disc"}     \* in _cleanup_transport
Midway == {"fail", "td_begin", "td_cleanup", "td_worker", "td_finish", "next",
           "abort"}
Labels == Outcome \cup Handshake \cup Teardown \cup Midway \cup
          {"connect", "disconnect", "write", "sending", "ack", "lost",
           "none", "run", "k_sleep", "k_write", "cancelled", "done", "killed"}
Ended == {"done", "killed"}     \* of workers and keepalives

(* The event loop is task t's: no other task is in the middle of its code.   *)
Turn(t) == \A u \in Task \ {t} : pc[u] \notin Midway
At(t, label) == pc[t] = label /\ Turn(t)
Goto(t, label) == pc' = [pc EXCEPT ![t] = label]

(* The queue a consumer reads: it holds on to the object it started waiting  *)
(* on (queues[n].held) when _reset_session has replaced it since.            *)
WaitsOn(n) == IF n = "reports" THEN HandshakeWait ELSE {"ack"}
View(n) == IF queues[n].detached THEN queues[n].held ELSE queues[n].current
Put(q, m) == [q EXCEPT !.current = Append(@, m)]
Consumed(q) == IF q.detached THEN [q EXCEPT !.held = Tail(@)]
                             ELSE [q EXCEPT !.current = Tail(@)]
Left(q) == [q EXCEPT !.held = <<>>, !.detached = FALSE]
Replaced(n) ==
    IF queues[n].detached \/ \A c \in Callers : pc[c] \notin WaitsOn(n)
    THEN [queues[n] EXCEPT !.current = <<>>]
    ELSE [current |-> <<>>, held |-> queues[n].current, detached |-> TRUE]
FreshQueues == [reports |-> Replaced("reports"), results |-> Replaced("results")]

(* _reset_session, on the fields of the client object.                       *)
ClearedMutant(o) ==           \* self.state is not replaced
    [o EXCEPT !.waitActive = FALSE, !.identified = HasTarget]
Cleared(o) == [o EXCEPT !.waitActive = FALSE, !.identified = HasTarget,
                        !.applied = {}]

(* _refresh_status *)
RefreshedMutant(status) ==    \* the test for DISCONNECTED is missing
    IF status = "CONNECTED" THEN status ELSE "READY"
Refreshed(status) == IF status = "PROTOCOL_READY" THEN "READY" ELSE status

Released(l, t) == [l EXCEPT !.write = IF @ = t THEN NoTask ELSE @]

-----------------------------------------------------------------------------
EmptyQueue == [current |-> <<>>, held |-> <<>>, detached |-> FALSE]

Init ==
    /\ client = [status |-> "DISCONNECTED", failure |-> FALSE,
                 cleanupDone |-> FALSE, closing |-> FALSE, waitActive |-> FALSE,
                 identified |-> HasTarget, keepalive |-> NoTask,
                 worker |-> NoTask, session |-> 0, applied |-> {}]
    /\ transport = [link |-> "down", accepting |-> TRUE, stranded |-> FALSE]
    /\ queues = [reports |-> EmptyQueue, results |-> EmptyQueue]
    /\ inbox = [s \in Sessions |-> <<>>]
    /\ lock = [lifecycle |-> NoTask, write |-> NoTask]
    /\ pc = [t \in Task |->
                IF t \in Callers \cup {Notifier} THEN "idle" ELSE "none"]
    /\ awaiting = [t \in Task |-> NoTask]
    /\ serving = [t \in Task |-> 0]
    /\ budget = Budget
    /\ lost = [s \in Sessions |-> 0]

-----------------------------------------------------------------------------
(* connect()                                                                 *)

(* A caller enters connect() and asks for the lifecycle lock.  The number of *)
(* the call names the session it will open, if it opens one.                 *)
CallConnect(c) ==
    /\ pc[c] \in Outcome /\ Turn(c)
    /\ budget.connect > 0
    /\ budget' = [budget EXCEPT !.connect = @ - 1]
    /\ serving' = [serving EXCEPT ![c] = Budget.connect - budget.connect + 1]
    /\ Goto(c, "connect")
    /\ UNCHANGED <<client, transport, queues, inbox, lock, awaiting, lost>>

(* "if self.connected: return" *)
ConnectNoop(c) ==
    /\ At(c, "connect") /\ lock.lifecycle = NoTask
    /\ client.status # "DISCONNECTED"
    /\ Goto(c, "returned")
    /\ UNCHANGED <<client, transport, queues, inbox, lock, others>>

BegunMutant(o, s) ==          \* _cleanup_done is not reset
    [Cleared(o) EXCEPT !.failure = FALSE, !.waitActive = TRUE, !.session = s]
Begun(o, s) == [Cleared(o) EXCEPT !.failure = FALSE, !.cleanupDone = FALSE,
                                  !.waitActive = TRUE, !.session = s]

ConnectStart(c) ==
    /\ At(c, "connect") /\ lock.lifecycle = NoTask
    /\ client.status = "DISCONNECTED"
    /\ lock' = [lock EXCEPT !.lifecycle = c]
    /\ client' = Begun(client, serving[c])
    /\ queues' = FreshQueues
    /\ transport' = [transport EXCEPT !.accepting = TRUE, !.stranded = FALSE]
    /\ Goto(c, "connecting")
    /\ UNCHANGED <<inbox, others>>

(* transport.connect() returns; the worker starts, start_notify() is called. *)
OpenedMutant(o, s) ==         \* the task is started but not kept
    [o EXCEPT !.status = "CONNECTED"]
Opened(o, s) == [o EXCEPT !.status = "CONNECTED", !.worker = Worker(s)]

ConnectTransportUp(c) ==
    LET s == serving[c] IN
    /\ At(c, "connecting")
    /\ transport' = [transport EXCEPT !.link = "up"]
    /\ client' = Opened(client, s)
    /\ inbox' = [inbox EXCEPT ![s] = <<>>]
    /\ pc' = [pc EXCEPT ![c] = "subscribing", ![Worker(s)] = "run"]
    /\ UNCHANGED <<queues, lock, others>>

(* The two requests: _build_request needs a device identity.                 *)
ConnectSendRequest(c) ==
    \E step \in {<<"confirming", "requesting">>, <<"pausing", "reading">>} :
        /\ At(c, step[1])
        /\ Goto(c, IF client.identified THEN step[2] ELSE "td_begin")
        /\ UNCHANGED <<client, transport, queues, inbox, lock, others>>

(* The three waits of the handshake begin by looking for a failed session.   *)
ConnectAwaitAnswer(c) ==
    \E step \in {<<"subscribing", "blespp">>, <<"requesting", "info">>,
                 <<"reading", "report">>} :
        /\ At(c, step[1]) /\ transport.link = "up"
        /\ Goto(c, IF client.failure THEN "td_begin" ELSE step[2])
        /\ UNCHANGED <<client, transport, queues, inbox, lock, others>>

ExpectedMutant(label) ==      \* the wait for a report takes what comes
    CASE label = "blespp" -> Hellos
      [] label = "info"   -> {"getInfo-rsp"}
      [] label = "report" -> Kinds
Expected(label) == CASE label = "blespp" -> Hellos
                     [] label = "info"   -> {"getInfo-rsp"}
                     [] label = "report" -> Reports

ConnectTake(c, label) ==
    /\ At(c, label)
    /\ View("reports") # <<>>

(* The sentinel of a failed session, and anything the wait does not accept.  *)
ConnectDiscard(c) ==
    \E label \in HandshakeWait :
        LET message == Head(View("reports"))
            raises == message = Closed \/ client.failure IN
        /\ ConnectTake(c, label)
        /\ message \notin Expected(label)
        /\ queues' = [queues EXCEPT !.reports =
                        IF raises THEN Left(Consumed(@)) ELSE Consumed(@)]
        /\ Goto(c, IF raises THEN "td_begin" ELSE label)
        /\ UNCHANGED <<client, transport, inbox, lock, others>>

(* _establish_identity, then BLESPP_OK *)
EstablishesMutant(m) ==       \* any BLESPP will do
    m \in Hellos
Establishes(m) == m = "BLESPP"

ConnectTakeBlespp(c) ==
    LET m == Head(View("reports"))
        known == Establishes(m) IN
    /\ ConnectTake(c, "blespp")
    /\ m \in Expected("blespp")
    /\ queues' = [queues EXCEPT !.reports = Left(Consumed(@))]
    /\ client' = [client EXCEPT !.identified = @ \/ m = "BLESPP"]
    /\ Goto(c, IF known THEN "confirming" ELSE "td_begin")
    /\ UNCHANGED <<transport, inbox, lock, others>>

ConnectTakeInfo(c) ==
    /\ ConnectTake(c, "info")
    /\ Head(View("reports")) \in Expected("info")
    /\ queues' = [queues EXCEPT !.reports = Left(Consumed(@))]
    /\ client' = [client EXCEPT !.status = "PROTOCOL_READY"]
    /\ Goto(c, "pausing")
    /\ UNCHANGED <<transport, inbox, lock, others>>

ReadyMutant(o, k) ==          \* the keepalive is started but not kept
    [o EXCEPT !.waitActive = FALSE, !.status = Refreshed(@)]
Ready(o, k) ==
    [o EXCEPT !.waitActive = FALSE, !.status = Refreshed(@), !.keepalive = k]

ConnectTakeReport(c) ==
    LET k == Keepalive(serving[c]) IN
    /\ ConnectTake(c, "report")
    /\ Head(View("reports")) \in Expected("report")
    /\ queues' = [queues EXCEPT !.reports = Left(Consumed(@))]
    /\ client' = Ready(client, k)
    /\ pc' = [pc EXCEPT ![c] = "returned", ![k] = "k_sleep"]
    /\ lock' = [lock EXCEPT !.lifecycle = NoTask]
    /\ UNCHANGED <<transport, inbox, others>>

(* A transport error, a timeout, or the cancellation of the calling task.    *)
ConnectFails(c) ==
    /\ pc[c] \in Handshake /\ Turn(c)
    /\ queues' = [queues EXCEPT !.reports = Left(@)]
    /\ Goto(c, "td_begin")
    /\ UNCHANGED <<client, transport, inbox, lock, others>>

-----------------------------------------------------------------------------
(* disconnect()                                                              *)

CallDisconnect(c) ==
    /\ pc[c] \in Outcome /\ Turn(c)
    /\ budget.disconnect > 0
    /\ budget' = [budget EXCEPT !.disconnect = @ - 1]
    /\ Goto(c, "disconnect")
    /\ UNCHANGED <<client, transport, queues, inbox, lock, awaiting, serving,
                   lost>>

(* The caller may be any task whose connection_lost_callback calls it.       *)
DisconnectStart(t) ==
    /\ At(t, "disconnect") /\ lock.lifecycle = NoTask
    /\ lock' = [lock EXCEPT !.lifecycle = t]
    /\ client' = [client EXCEPT !.closing = TRUE]
    /\ Goto(t, "td_begin")
    /\ UNCHANGED <<transport, queues, inbox, others>>

-----------------------------------------------------------------------------
(* _teardown(), for connect()'s except clause, disconnect() and a failure.   *)

(* Which task gather() waits for: nobody waits for itself.                   *)
JoinsMutant(t, u) ==          \* the test for current_task() is missing
    u # NoTask
Joins(t, u) == u \notin {NoTask, t}

TeardownBegin(t) ==
    LET k == client.keepalive IN
    /\ pc[t] = "td_begin"
    /\ client' = [client EXCEPT !.keepalive = NoTask]
    /\ \/ /\ ~Joins(t, k)
          /\ Goto(t, "td_cleanup")
          /\ UNCHANGED awaiting
       \/ /\ Joins(t, k)
          /\ pc' = [pc EXCEPT ![t] = "td_keepalive",
                      ![k] = IF @ \in {"k_sleep", "k_write"} THEN "cancelled"
                             ELSE @]
          /\ awaiting' = [awaiting EXCEPT ![t] = k]
    /\ UNCHANGED <<transport, queues, inbox, lock, serving, budget, lost>>

(* asyncio.gather() of the keepalive, or of the worker, returns.             *)
TeardownJoined(t) ==
    /\ pc[t] \in {"td_keepalive", "td_join"} /\ Turn(t)
    /\ pc[awaiting[t]] \in Ended
    /\ awaiting' = [awaiting EXCEPT ![t] = NoTask]
    /\ Goto(t, IF pc[t] = "td_join" THEN "td_finish" ELSE "td_cleanup")
    /\ UNCHANGED <<client, transport, queues, inbox, lock, serving, budget,
                   lost>>

(* _cleanup_transport up to the await of stop_notify() *)
NextCleanupMutant(o) ==       \* the flag is set but not tested
    "td_stop"
FailedCleanupMutant(o) ==     \* a failed session counts as cleaned up
    IF o.cleanupDone \/ o.failure THEN "td_worker" ELSE "td_stop"
NextCleanup(o) == IF o.cleanupDone THEN "td_worker" ELSE "td_stop"

TeardownCleanup(t) ==
    /\ pc[t] = "td_cleanup"
    /\ client' = [client EXCEPT !.cleanupDone = TRUE]
    /\ Goto(t, NextCleanup(client))
    /\ UNCHANGED <<transport, queues, inbox, lock, others>>

(* transport.disconnect() begins: notifications are refused from here on,    *)
(* the notification tasks in flight are cancelled, and if there are any it   *)
(* waits for them.  Run by such a task, it cancels itself and goes no        *)
(* further.                                                                  *)
TeardownDisconnect(t) ==
    /\ At(t, "td_stop")
    /\ transport' = [transport EXCEPT !.accepting = FALSE]
    /\ pc' \in IF t = Notifier THEN {[pc EXCEPT ![t] = "idle"]}
              ELSE {[pc EXCEPT ![t] = step, ![Notifier] = "idle"] :
                        step \in {"td_tasks", "td_disc"}}
    /\ awaiting' = [awaiting EXCEPT ![Notifier] = NoTask]
    /\ UNCHANGED <<client, queues, inbox, lock, serving, budget, lost>>

TeardownTasksEnded(t) ==
    /\ At(t, "td_tasks")
    /\ Goto(t, "td_disc")
    /\ UNCHANGED <<client, transport, queues, inbox, lock, others>>

(* Bleak's disconnect() ends.  If it raises, that is suppressed, and the     *)
(* link may be up still.                                                     *)
LinkDown == [transport EXCEPT !.link = "down"]
LeftUp == [transport EXCEPT !.stranded = @ \/ transport.link = "up"]

TeardownDisconnected(t) ==
    /\ At(t, "td_disc")
    /\ transport' \in {LinkDown, LeftUp}
    /\ Goto(t, "td_worker")
    /\ UNCHANGED <<client, queues, inbox, lock, others>>

(* _stop_notification_worker *)
ForgotWorkerMutant(o) ==      \* the reference is not cleared
    o
ForgotWorker(o) == [o EXCEPT !.worker = NoTask]

ToldMutant(q) ==              \* the other queues' sentinel
    Append(q, Closed)
Told(q) == Append(q, Stop)

TeardownWorker(t) ==
    LET w == client.worker IN
    /\ pc[t] = "td_worker"
    /\ client' = ForgotWorker(client)
    /\ inbox' = IF w = NoTask THEN inbox ELSE [inbox EXCEPT ![w[2]] = Told(@)]
    /\ \/ /\ ~Joins(t, w)
          /\ Goto(t, "td_finish")
          /\ UNCHANGED awaiting
       \/ /\ Joins(t, w)
          /\ Goto(t, "td_join")
          /\ awaiting' = [awaiting EXCEPT ![t] = w]
    /\ UNCHANGED <<transport, queues, lock, serving, budget, lost>>

UnlockedMutant(l) ==          \* the lifecycle lock stays taken
    l
Unlocked(l) == [l EXCEPT !.lifecycle = NoTask]

Disconnected(o) == [Cleared(o) EXCEPT !.status = "DISCONNECTED"]

ConnectRaises(c) ==
    /\ pc[c] = "td_finish" /\ lock.lifecycle = c /\ ~client.closing
    /\ client' = Disconnected(client)
    /\ queues' = FreshQueues
    /\ lock' = Unlocked(lock)
    /\ Goto(c, "raised")
    /\ UNCHANGED <<transport, inbox, others>>

(* What a task does after it has handled a failure: a keepalive ends, a      *)
(* worker takes its next payload, a notification task ends, set_* raises.    *)
AfterFailure(t) ==
    CASE t \in Keepalives -> "done"
      [] t \in Workers    -> "next"
      [] t = Notifier     -> "idle"
      [] t \in Callers    -> "raised"

(* A caller that owns _lock was in set_*(), and in its callback since.       *)
DisconnectReturns(t) ==
    /\ pc[t] = "td_finish" /\ lock.lifecycle = t /\ client.closing
    /\ client' = [Disconnected(client) EXCEPT !.closing = FALSE]
    /\ queues' = FreshQueues
    /\ lock' = Released(Unlocked(lock), t)
    /\ Goto(t, IF t \in Callers /\ lock.write # t THEN "returned"
               ELSE AfterFailure(t))
    /\ UNCHANGED <<transport, inbox, others>>

-----------------------------------------------------------------------------
(* Cancellation of a calling task, where ConnectFails and WriteGivesUp do    *)
(* not stand for it already.                                                 *)

(* It waits for one of the locks.                                            *)
CancelledInLine(c) ==
    /\ pc[c] \in {"connect", "disconnect", "write"} /\ Turn(c)
    /\ lock' = Released(lock, c)
    /\ Goto(c, "raised")
    /\ UNCHANGED <<client, transport, queues, inbox, others>>

Interrupting(c) ==
    /\ Turn(c)
    /\ budget.interrupt > 0
    /\ budget' = [budget EXCEPT !.interrupt = @ - 1]
    /\ UNCHANGED <<queues, inbox, serving, lost>>

(* What is left behind by task t when CancelledError leaves its teardown:    *)
(* no lock, and nothing else in order.                                       *)
LetGo(t) == [lifecycle |-> IF lock.lifecycle = t THEN NoTask ELSE lock.lifecycle,
             write |-> Released(lock, t).write]
NotClosing(t) == IF lock.lifecycle = t THEN [client EXCEPT !.closing = FALSE]
                 ELSE client

(* The transport when a task is cancelled at an await: Bleak's disconnect()  *)
(* may have done its work; before it, nobody will call it for this session.  *)
CutShort(label) ==
    CASE label \in {"td_stop", "td_tasks"} -> {LeftUp}
      [] label = "td_disc"                 -> {LeftUp, LinkDown}
      [] OTHER                             -> {transport}

(* It awaits the transport, or connection_lost_callback.                     *)
TeardownCancelled(c) ==
    /\ pc[c] \in AtTransport \cup {"lost"}
    /\ Interrupting(c)
    /\ transport' \in CutShort(pc[c])
    /\ client' = NotClosing(c)
    /\ lock' = LetGo(c)
    /\ Goto(c, "raised")
    /\ UNCHANGED awaiting

(* It awaits the keepalive or the worker: gather() cancels what it gathers,  *)
(* and raises once that has ended.                                           *)
JoinCancelled(c) ==
    /\ pc[c] \in {"td_keepalive", "td_join"}
    /\ Interrupting(c)
    /\ Goto(c, "abort")
    /\ UNCHANGED <<client, transport, lock, awaiting>>

AfterCancel(label) ==
    CASE label \in {"td_keepalive", "td_join"} -> "abort"
      [] label \in Ended \cup {"td_abort"}     -> label
      [] OTHER                                -> "cancelled"

AbortJoin(t) ==
    LET u == awaiting[t] IN
    /\ pc[t] = "abort"
    /\ transport' \in CutShort(pc[u])
    /\ pc' = [pc EXCEPT ![t] = "td_abort", ![u] = AfterCancel(@)]
    /\ UNCHANGED <<client, queues, inbox, lock, others>>

Aborted(t) ==
    /\ At(t, "td_abort") /\ pc[awaiting[t]] \in Ended
    /\ awaiting' = [awaiting EXCEPT ![t] = NoTask]
    /\ client' = NotClosing(t)
    /\ lock' = LetGo(t)
    /\ Goto(t, IF t \in Workers THEN "killed" ELSE AfterFailure(t))
    /\ UNCHANGED <<transport, queues, inbox, serving, budget, lost>>

-----------------------------------------------------------------------------
(* _handle_session_failure()                                                 *)

FirstMutant(o) ==             \* an earlier failure does not count
    TRUE
First(o) == ~o.failure /\ o.status # "DISCONNECTED"

FailureIgnored(t) ==
    /\ pc[t] = "fail"
    /\ ~First(client)
    /\ Goto(t, AfterFailure(t))
    /\ lock' = Released(lock, t)
    /\ UNCHANGED <<client, transport, queues, inbox, others>>

(* Record the failure and wake every consumer; a disconnect() in progress    *)
(* owns the rest.                                                            *)
FailedMutant(o) ==            \* _session_failure stays None
    [o EXCEPT !.status = "DISCONNECTED"]
Failed(o) == [o EXCEPT !.failure = TRUE, !.status = "DISCONNECTED"]

WokenMutant(q) ==             \* a pending write is not woken
    [q EXCEPT !.reports = Put(@, Closed)]
Woken(q) == [q EXCEPT !.reports = Put(@, Closed), !.results = Put(@, Closed)]

OwnsLossMutant(o) ==          \* a disconnect() in progress is not looked at
    TRUE
OwnsLoss(o) == ~o.closing

FailureMarked(t) ==
    /\ pc[t] = "fail"
    /\ First(client)
    /\ client' = Failed(client)
    /\ queues' = Woken(queues)
    /\ serving' = [serving EXCEPT ![t] = client.session]
    /\ Goto(t, IF OwnsLoss(client) THEN "td_begin" ELSE AfterFailure(t))
    /\ lock' = IF OwnsLoss(client) THEN lock ELSE Released(lock, t)
    /\ UNCHANGED <<transport, inbox, awaiting, budget, lost>>

(* The failure's teardown ends and connection_lost_callback is called.       *)
FailureNotice(t) ==
    /\ pc[t] = "td_finish" /\ lock.lifecycle # t
    /\ client' = Disconnected(client)
    /\ queues' = FreshQueues
    /\ lost' = [lost EXCEPT ![serving[t]] = @ + 1]
    /\ Goto(t, "lost")
    /\ UNCHANGED <<transport, inbox, lock, awaiting, serving, budget>>

CallbackDisconnects(t) ==
    /\ At(t, "lost") /\ CallsBack
    /\ Goto(t, "disconnect")
    /\ UNCHANGED <<client, transport, queues, inbox, lock, others>>

FailureHandled(t) ==
    /\ At(t, "lost")
    /\ Goto(t, AfterFailure(t))
    /\ lock' = Released(lock, t)
    /\ UNCHANGED <<client, transport, queues, inbox, others>>

-----------------------------------------------------------------------------
(* Notifications                                                             *)

(* decode_json and _validate_message_identity *)
Invalid(m) == m = "garbage" \/ (m = "foreign" /\ client.identified)

(* _process_notification of a valid message that arrived in session s: the   *)
(* handshake's queue, the acknowledgements' queue, the merged state, and the *)
(* status; BLESPP only goes to the handshake's queue.                        *)
Process(m, s) ==
    /\ queues' =
        [queues EXCEPT
            !.reports = IF client.waitActive THEN Put(@, m) ELSE @,
            !.results = IF m \in Acks THEN Put(@, m) ELSE @]
    /\ client' =
        [client EXCEPT
            !.applied = IF m \in Reports THEN @ \cup {s} ELSE @,
            !.status = IF m \in Hellos THEN @ ELSE Refreshed(@)]

(* The transport hands over a notification while it accepts them.            *)
Arrives(m) ==
    /\ Turn(Notifier)
    /\ transport.link = "up" /\ transport.accepting
    /\ budget.payload[m] > 0
    /\ budget' = [budget EXCEPT !.payload[m] = @ - 1]
    /\ UNCHANGED <<transport, lock, awaiting, serving, lost>>

NotifyQueued(m) ==
    /\ client.worker # NoTask
    /\ Arrives(m)
    /\ inbox' = [inbox EXCEPT ![client.worker[2]] = Append(@, m)]
    /\ UNCHANGED <<client, queues, pc>>

(* Without a worker the notification's own task processes the payload.       *)
NotifyInline(m) ==
    /\ client.worker = NoTask
    /\ Arrives(m)
    /\ \/ /\ ~Invalid(m)
          /\ Process(m, client.session)
          /\ UNCHANGED pc
       \/ /\ Invalid(m) /\ pc[Notifier] = "idle"
          /\ Goto(Notifier, "fail")
          /\ UNCHANGED <<client, queues>>
    /\ UNCHANGED inbox

(* _consume_notifications: at "run" the worker is suspended, in queue.get()  *)
(* or in the update_callback of the message it has just processed; at "next" *)
(* it goes on to its next payload without a pause.                           *)
WorkerTakes(s) ==
    /\ \/ At(Worker(s), "run")
       \/ pc[Worker(s)] = "next"
    /\ inbox[s] # <<>>
    /\ inbox' = [inbox EXCEPT ![s] = Tail(@)]

WorkerStop(s) ==
    /\ WorkerTakes(s)
    /\ Head(inbox[s]) = Stop
    /\ Goto(Worker(s), "done")
    /\ UNCHANGED <<client, transport, queues, lock, others>>

WorkerProcess(s) ==
    LET m == Head(inbox[s]) IN
    /\ WorkerTakes(s)
    /\ m # Stop /\ ~Invalid(m)
    /\ Process(m, s)
    /\ Goto(Worker(s), IF m \in Hellos THEN "next" ELSE "run")
    /\ UNCHANGED <<transport, lock, others>>

WorkerFails(s) ==
    /\ WorkerTakes(s)
    /\ Invalid(Head(inbox[s]))
    /\ Goto(Worker(s), "fail")
    /\ UNCHANGED <<client, transport, queues, lock, others>>

(* A task that joins the worker was cancelled: what the queue still holds is *)
(* not applied.                                                              *)
WorkerCancelled(s) ==
    /\ At(Worker(s), "cancelled")
    /\ client' = NotClosing(Worker(s))
    /\ lock' = LetGo(Worker(s))
    /\ Goto(Worker(s), "killed")
    /\ UNCHANGED <<transport, queues, inbox, others>>

WorkerWaits(s) ==
    /\ pc[Worker(s)] = "next" /\ inbox[s] = <<>>
    /\ Goto(Worker(s), "run")
    /\ UNCHANGED <<client, transport, queues, inbox, lock, others>>

-----------------------------------------------------------------------------
(* _keepalive()                                                              *)

(* The sleep ends and the write lock is free; _build_request needs an        *)
(* identity.                                                                 *)
KeepaliveSend(s) ==
    LET k == Keepalive(s) IN
    /\ At(k, "k_sleep") /\ lock.write = NoTask
    /\ lock' = [lock EXCEPT !.write = IF client.identified THEN k ELSE NoTask]
    /\ Goto(k, IF client.identified THEN "k_write" ELSE "fail")
    /\ UNCHANGED <<client, transport, queues, inbox, others>>

KeepaliveSent(s) ==
    LET k == Keepalive(s) IN
    /\ At(k, "k_write") /\ transport.link = "up"
    /\ lock' = Released(lock, k)
    /\ Goto(k, "k_sleep")
    /\ UNCHANGED <<client, transport, queues, inbox, others>>

KeepaliveErrorMutant(k) ==    \* the exception ends the task unheard
    Goto(k, "done")
KeepaliveError(k) == Goto(k, "fail")

KeepaliveFails(s) ==
    LET k == Keepalive(s) IN
    /\ At(k, "k_write")
    /\ lock' = Released(lock, k)
    /\ KeepaliveError(k)
    /\ UNCHANGED <<client, transport, queues, inbox, others>>

KeepaliveCancelled(s) ==
    LET k == Keepalive(s) IN
    /\ At(k, "cancelled")
    /\ lock' = Released(lock, k)
    /\ Goto(k, "done")
    /\ UNCHANGED <<client, transport, queues, inbox, others>>

-----------------------------------------------------------------------------
(* set_*(), through _request_write()                                         *)

CallWrite(c) ==
    /\ pc[c] \in Outcome /\ Turn(c)
    /\ budget.write > 0
    /\ budget' = [budget EXCEPT !.write = @ - 1]
    /\ Goto(c, IF client.status = "READY" THEN "write" ELSE "raised")
    /\ UNCHANGED <<client, transport, queues, inbox, lock, awaiting, serving,
                   lost>>

WriteStart(c) ==
    LET fails == client.failure \/ ~client.identified IN
    /\ At(c, "write") /\ lock.write = NoTask
    /\ lock' = [lock EXCEPT !.write = IF fails THEN NoTask ELSE c]
    /\ serving' = [serving EXCEPT ![c] = client.session]
    /\ Goto(c, IF fails THEN "raised" ELSE "sending")
    /\ UNCHANGED <<client, transport, queues, inbox, awaiting, budget, lost>>

WriteSent(c) ==
    /\ At(c, "sending") /\ transport.link = "up"
    /\ lock' = IF client.failure THEN Released(lock, c) ELSE lock
    /\ Goto(c, IF client.failure THEN "raised" ELSE "ack")
    /\ UNCHANGED <<client, transport, queues, inbox, others>>

WriteFails(c) ==
    /\ At(c, "sending")
    /\ Goto(c, "fail")
    /\ UNCHANGED <<client, transport, queues, inbox, lock, others>>

(* accept(): an acknowledgement ends the wait, anything unrelated does not.  *)
WriteTake(c) ==
    LET message == Head(View("results"))
        ends == message \in {Closed, "ack", "nack"} \/ client.failure IN
    /\ At(c, "ack") /\ View("results") # <<>>
    /\ queues' = [queues EXCEPT !.results =
                    IF ends THEN Left(Consumed(@)) ELSE Consumed(@)]
    /\ lock' = IF ends THEN Released(lock, c) ELSE lock
    /\ Goto(c, IF ~ends THEN "ack"
               ELSE IF message = "ack" THEN "returned" ELSE "raised")
    /\ UNCHANGED <<client, transport, inbox, others>>

(* The response timeout, or the cancellation of the calling task.            *)
WriteGivesUp(c) ==
    /\ pc[c] \in {"sending", "ack"} /\ Turn(c)
    /\ queues' = [queues EXCEPT !.results = Left(@)]
    /\ lock' = Released(lock, c)
    /\ Goto(c, "raised")
    /\ UNCHANGED <<client, transport, inbox, others>>

-----------------------------------------------------------------------------
(* The radio link drops: the client is not told.                             *)
LinkLoss ==
    /\ \A t \in Task : pc[t] \notin Midway
    /\ transport.link = "up"
    /\ transport' = [transport EXCEPT !.link = "down"]
    /\ UNCHANGED <<client, queues, inbox, lock, pc, others>>

(* Every call has ended: the program may stop here.                          *)
Finished ==
    /\ \A c \in Callers : pc[c] \in Outcome
    /\ UNCHANGED vars

-----------------------------------------------------------------------------
Connecting(c) ==
    \/ ConnectNoop(c) \/ ConnectStart(c) \/ ConnectTransportUp(c)
    \/ ConnectSendRequest(c) \/ ConnectAwaitAnswer(c) \/ ConnectDiscard(c)
    \/ ConnectTakeBlespp(c) \/ ConnectTakeInfo(c) \/ ConnectTakeReport(c)
    \/ ConnectFails(c) \/ ConnectRaises(c)

Disconnecting(t) == DisconnectStart(t) \/ DisconnectReturns(t)

Cancelling(c) == CancelledInLine(c) \/ TeardownCancelled(c) \/ JoinCancelled(c)

Writing(c) ==
    \/ WriteStart(c) \/ WriteSent(c) \/ WriteFails(c) \/ WriteTake(c)
    \/ WriteGivesUp(c)

TearingDown(t) ==
    \/ TeardownBegin(t) \/ TeardownJoined(t) \/ TeardownCleanup(t)
    \/ TeardownDisconnect(t) \/ TeardownTasksEnded(t)
    \/ TeardownDisconnected(t) \/ TeardownWorker(t)
    \/ AbortJoin(t) \/ Aborted(t)

Failing(t) ==
    \/ FailureIgnored(t) \/ FailureMarked(t) \/ FailureNotice(t)
    \/ FailureHandled(t) \/ CallbackDisconnects(t)

Working(s) ==
    \/ WorkerStop(s) \/ WorkerProcess(s) \/ WorkerFails(s) \/ WorkerWaits(s)
    \/ WorkerCancelled(s)

KeepingAlive(s) ==
    \/ KeepaliveSend(s) \/ KeepaliveSent(s) \/ KeepaliveFails(s)
    \/ KeepaliveCancelled(s)

Environment ==
    \/ \E c \in Callers : CallConnect(c) \/ CallDisconnect(c) \/ CallWrite(c)
    \/ \E m \in Kinds : NotifyQueued(m) \/ NotifyInline(m)
    \/ LinkLoss

Next ==
    \/ \E c \in Callers : Connecting(c) \/ Writing(c) \/ Cancelling(c)
    \/ \E t \in Task : Disconnecting(t) \/ TearingDown(t) \/ Failing(t)
    \/ \E s \in Sessions : Working(s) \/ KeepingAlive(s)
    \/ Environment
    \/ Finished

Spec == Init /\ [][Next]_vars

-----------------------------------------------------------------------------
(* The regime in which applications are told to reconnect: a session is      *)
(* opened only when nothing of an earlier one is still running, that is when *)
(* its failure has been handled to the end of connection_lost_callback and   *)
(* its worker has emptied its queue.                                         *)
FailureHandler(t) ==
    /\ pc[t] \in Teardown \cup {"fail", "lost"}
    /\ lock.lifecycle # t

Quiescent ==
    /\ \A t \in Task : ~FailureHandler(t)
    /\ \A w \in Workers : pc[w] \in {"none", "done", "killed"}

Opens == client'.session # client.session

PatientNext == Next /\ (Opens => Quiescent)

PatientSpec == Init /\ [][PatientNext]_vars

(* Every task that can run is run; a wait ends at the latest by its timeout; *)
(* asyncio.Lock serves its waiters in turn.                                  *)
Fairness ==
    /\ \A c \in Callers :
        /\ WF_vars(Connecting(c))
        /\ WF_vars(Writing(c)) /\ SF_vars(WriteStart(c))
    /\ \A t \in Task :
        /\ WF_vars(Disconnecting(t))
        /\ WF_vars(TearingDown(t)) /\ WF_vars(Failing(t))
    /\ \A s \in Sessions :
        /\ WF_vars(Working(s)) /\ WF_vars(KeepingAlive(s))
        /\ SF_vars(KeepaliveSend(s))

FairSpec == Spec /\ Fairness

-----------------------------------------------------------------------------
ClientType ==
    [status : {"DISCONNECTED", "CONNECTED", "PROTOCOL_READY", "READY"},
     failure : BOOLEAN, cleanupDone : BOOLEAN, closing : BOOLEAN,
     waitActive : BOOLEAN, identified : BOOLEAN,
     keepalive : Keepalives \cup {NoTask}, worker : Workers \cup {NoTask},
     session : Sessions \cup {0}, applied : SUBSET Sessions]

Queue == [current : Seq(Kinds \cup {Closed}), held : Seq(Kinds \cup {Closed}),
          detached : BOOLEAN]

(* Every variable holds a value of its type: a lock is owned by a task that  *)
(* takes it, and a queue never holds the sentinel of the other sort.         *)
TypeOK ==
    /\ client \in ClientType
    /\ transport \in [link : {"down", "up"}, accepting : BOOLEAN,
                      stranded : BOOLEAN]
    /\ queues \in [reports : Queue, results : Queue]
    /\ inbox \in [Sessions -> Seq(Kinds \cup {Stop})]
    /\ lock \in [lifecycle : Task \cup {NoTask},
                 write : Callers \cup Keepalives \cup {NoTask}]
    /\ pc \in [Task -> Labels]
    /\ awaiting \in [Task -> Task \cup {NoTask}]
    /\ serving \in [Task -> Sessions \cup {0}]
    /\ budget \in [connect : 0 .. Budget.connect, disconnect : Nat,
                   write : Nat, interrupt : Nat, payload : [Kinds -> Nat]]
    /\ lost \in [Sessions -> Nat]

(* _stop_notification_worker's promise: the sentinel is the last thing a     *)
(* worker takes, so that everything queued before it is applied, and nothing *)
(* is queued for a worker that has been told to stop or has stopped.         *)
WorkerDrains ==
    \A s \in Sessions :
        /\ \A i \in 1 .. Len(inbox[s]) : inbox[s][i] = Stop => i = Len(inbox[s])
        /\ pc[Worker(s)] = "done" => inbox[s] = <<>>
        /\ client.worker = Worker(s) =>
               /\ pc[Worker(s)] # "done"
               /\ \A i \in 1 .. Len(inbox[s]) : inbox[s][i] # Stop

(* _handle_session_failure: the application hears of the end of a session at *)
(* most once, whoever noticed it and however often.                          *)
LostOncePerSession == \A s \in Sessions : lost[s] <= 1

(* _cleanup_transport: "the first path to reach the transport performs the   *)
(* teardown and the other becomes a no-op".                                  *)
CleanupExclusive ==
    \A t, u \in Task :
        pc[t] \in AtTransport /\ pc[u] \in AtTransport => t = u

(* When the client is DISCONNECTED and nobody is opening or ending a session *)
(* the link is down, so that the device can be connected to again, or Bleak  *)
(* has been asked to take it down and could not; unless a task has been      *)
(* cancelled inside a teardown.                                              *)
Interrupted == budget.interrupt # Budget.interrupt

TransportReleased ==
    /\ client.status = "DISCONNECTED" /\ ~Interrupted
    /\ \A t \in Task : pc[t] \notin Handshake \cup Teardown
    => transport.link = "down" \/ transport.stranded

(* A consumer blocked when its session fails is woken: the sentinel is in    *)
(* the very queue object it waits on, whichever object that is by now.       *)
FailureWakesWaiters ==
    \A c \in Callers, n \in {"reports", "results"} :
        /\ client.failure
        /\ pc[c] \in WaitsOn(n)
        /\ serving[c] = client.session
        => \E i \in 1 .. Len(View(n)) : View(n)[i] = Closed

(* While nobody opens or closes the session, READY means that its worker is  *)
(* consuming, that the running keepalive is the one the client can cancel,   *)
(* and that the device's identity is known; unless a call has been cancelled *)
(* inside its teardown, which leaves the status as it was.                   *)
ReadyIsWatched ==
    client.status = "READY" /\ lock.lifecycle = NoTask /\ ~Interrupted =>
        /\ client.identified
        /\ client.worker # NoTask
        /\ pc[client.worker] \in {"run", "next", "fail"}
        /\ client.keepalive # NoTask
        /\ pc[client.keepalive] \in {"k_sleep", "k_write", "fail"}

(* While nobody opens or closes the session, READY also means that state     *)
(* holds a report of this session, even if the status was READY before it;   *)
(* with the same exception.                                                  *)
ReadyHasReport ==
    client.status = "READY" /\ lock.lifecycle = NoTask /\ ~Interrupted =>
        client.session \in client.applied

(* A keepalive that the client has no reference to is on its way out: no     *)
(* teardown could cancel it any more.  It holds until a connect() follows    *)
(* one that returned with a dead session (ConnectReturnsReady).              *)
NoStrayKeepalive ==
    \A k \in Keepalives :
        pc[k] \in {"k_sleep", "k_write"} => client.keepalive = k

(* Once connect() has returned, a failed session stays DISCONNECTED.         *)
FailedIsDisconnected ==
    client.failure /\ lock.lifecycle = NoTask => client.status = "DISCONNECTED"

(* client.state holds nothing that an earlier session reported.              *)
SessionIsolation == client.applied \subseteq {client.session}

(* Nothing past BLESPP is asked of a device whose identity is unknown, as    *)
(* long as the session has not failed under connect()'s feet.                *)
IdentityBeforeRequests ==
    \A c \in Callers :
        /\ pc[c] \in Handshake \ {"connecting", "subscribing", "blespp"}
        /\ ~client.failure
        => client.identified

(* A notification's own task never tears a session down: the transport       *)
(* teardown would cancel that very task and stop half way.                   *)
NotifierNeverTearsDown == pc[Notifier] \notin Teardown

(* A session that has left DISCONNECTED returns to it for a failure recorded *)
(* for it or while a call has the lifecycle lock: the except clause of its   *)
(* own connect(), or disconnect(), and never only because a teardown of an   *)
(* earlier session goes on, which has no lock.                               *)
SessionEndsForCause ==
    [][client.status # "DISCONNECTED" /\ client'.status = "DISCONNECTED"
        => client'.failure \/ lock.lifecycle # NoTask]_vars

(* When disconnect() returns, the link is down or another task is still      *)
(* taking it down, also when earlier teardowns were cancelled; unless the    *)
(* transport's own teardown was reached and left it up: Bleak's disconnect() *)
(* failed, or _cleanup_transport was cancelled at one of its awaits, after   *)
(* which nobody disconnects.                                                 *)
DisconnectReleases ==
    [][\A c \in Callers : pc[c] = "td_finish" /\ pc'[c] = "returned" =>
        \/ transport.link = "down" \/ transport.stranded
        \/ \E t \in Task \ {c} : pc[t] \in Teardown]_vars

(* connect() returns a session that is READY.                                *)
ConnectReturnsReady ==
    [][\A c \in Callers : pc[c] = "report" /\ pc'[c] = "returned"
        => client'.status = "READY"]_vars

(* A write that waits for its acknowledgement when disconnect() closes the   *)
(* session is woken: no wait survives the session's end asleep.              *)
CloseWakesWaiters ==
    \A c \in Callers :
        pc[c] = "ack" /\ client.status = "DISCONNECTED"
            => \E i \in 1 .. Len(View("results")) : View("results")[i] = Closed

(* disconnect() called by the application's connection_lost_callback, on a   *)
(* session that is DISCONNECTED already, does not wait for ever: whoever has *)
(* the lifecycle lock is not waiting for the very task that asks for it.     *)
CallbackMayDisconnect ==
    \A t, u \in Task :
        lock.lifecycle = t /\ awaiting[t] = u => pc[u] # "disconnect"

(* What the application sees of the session: _session_failure, until the     *)
(* next connect(), and else status; _closing tells whose the lock is.        *)
Phase == CASE client.failure -> "failed"
           [] ~client.failure /\ client.status = "READY" -> "ready"
           [] ~client.failure /\ client.status = "DISCONNECTED"
              /\ (lock.lifecycle = NoTask \/ client.closing) -> "closed"
           [] OTHER -> "open"
Call == IF lock.lifecycle = NoTask THEN "none"
        ELSE IF client.closing THEN "disconnect" ELSE "connect"
Telling(t) == pc[t] \in Teardown /\ lock.lifecycle # t

Contract == INSTANCE SessionContract
    WITH session <- client.session, phase <- Phase, call <- Call,
         due <- \E t \in Task : Telling(t),
         told <- {s \in Sessions : lost[s] > 0}

(* SolarFlowClient implements the contract, as long as a session is opened   *)
(* only when nothing of the one before is still running.                     *)
ContractKept == Contract!Spec

(* Every call returns or raises.                                             *)
CallsEnd == \A c \in Callers : pc[c] \notin Outcome ~> pc[c] \in Outcome

(* A READY session whose link has dropped does not stay READY: the keepalive *)
(* finds out although the transport says nothing.                            *)
LinkLossNoticed ==
    transport.link = "down" /\ client.status = "READY"
        ~> client.status = "DISCONNECTED"

(* A failure handler that owns the end of its session gets as far as         *)
(* connection_lost_callback.                                                 *)
FailureReported ==
    \A t \in Task :
        pc[t] \in Teardown /\ lock.lifecycle # t ~> pc[t] = "lost"
=============================================================================
