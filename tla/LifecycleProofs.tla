-------------------------- MODULE LifecycleProofs --------------------------
(* What holds of the session when it is opened only once the one before is   *)
(* completely over (PatientSpec), for any number of callers, calls,          *)
(* cancellations and notifications, and with callbacks that disconnect.      *)
EXTENDS SessionLossProofs

-----------------------------------------------------------------------------
(* The inductive invariant, in parts.                                        *)

(* Whoever has the lifecycle lock is inside disconnect(), as _closing says,  *)
(* or it is a caller inside connect() or its except clause.                  *)
OwnerInv ==
    /\ lock.lifecycle = NoTask => ~client.closing
    /\ \A t \in Task : lock.lifecycle = t /\ ~client.closing =>
           t \in Callers /\ pc[t] \in Handshake \cup Teardown
    /\ \A c \in Callers : pc[c] \in Handshake => ~client.closing

(* Only workers and keepalives that have been started are joined.            *)
Joinable(S) == {u \in S : pc[u] # "none"} \cup {NoTask}

JoinInv ==
    /\ \A t \in Task : awaiting[t] \in Joinable(Workers \cup Keepalives)
    /\ client.worker \in Joinable(Workers)
    /\ client.keepalive \in Joinable(Keepalives)

(* A task on its way to tell a failure tells that of the client's session.   *)
TellerInv ==
    \A t \in Task :
        Telling(t) => client.failure /\ serving[t] = client.session

(* The handshake and the worker that are under way are of this session, and  *)
(* so is everything in client.state.                                         *)
Alive(w) == pc[w] \notin {"none"} \cup Ended

SessionInv ==
    /\ \A c \in Callers : pc[c] \in Handshake => serving[c] = client.session
    /\ \A s \in Sessions : Alive(Worker(s)) => s = client.session
    /\ SessionIsolation

(* How far status has come in each part of the handshake.                    *)
Unconfirmed == {"subscribing", "blespp", "confirming", "requesting", "info"}
Confirmed == {"pausing", "reading", "report"}

Progress(c) ==
    /\ pc[c] = "connecting" =>
           client.status = "DISCONNECTED" /\ ~client.failure
    /\ pc[c] \in Unconfirmed => client.status \in {"CONNECTED", "DISCONNECTED"}
    /\ pc[c] \in Confirmed => client.status # "CONNECTED"
    /\ pc[c] \in Unconfirmed \cup Confirmed /\ client.status = "DISCONNECTED"
           => client.failure
    /\ pc[c] = "report" /\ client.failure => client.status = "DISCONNECTED"

StatusInv ==
    /\ client.session \notin Sessions =>
           client.status = "DISCONNECTED" /\ ~client.failure
    /\ \A c \in Callers : Progress(c)
    /\ IdentityBeforeRequests

(* One task at the transport, and it has marked that.                        *)
CleanupInv ==
    /\ \A t \in Task : pc[t] \in AtTransport => client.cleanupDone
    /\ CleanupExclusive

LifeInv ==
    OwnerInv /\ JoinInv /\ TellerInv /\ SessionInv /\ StatusInv /\ CleanupInv

(* Nothing has been started yet for a session that is still to be opened, no *)
(* worker before its link is up, and no keepalive before its connect()       *)
(* returns.                                                                  *)
StartInv ==
    \A s \in Sessions :
        /\ Fresh(s) => pc[Worker(s)] = "none" /\ pc[Keepalive(s)] = "none"
        /\ \A c \in Callers : serving[c] = s =>
            /\ pc[c] = "connecting" => pc[Worker(s)] = "none"
            /\ pc[c] \in Handshake => pc[Keepalive(s)] = "none"

-----------------------------------------------------------------------------
(* Labels of the parts of connect().                                         *)
LEMMA HandshakeParts ==
    /\ Handshake = {"connecting"} \cup Unconfirmed \cup Confirmed
    /\ "connecting" \notin Unconfirmed \cup Confirmed
    /\ Unconfirmed \cap Confirmed = {}
    /\ Handshake \ {"connecting", "subscribing", "blespp"}
         = {"confirming", "requesting", "info"} \cup Confirmed
    /\ Handshake \cap Teardown = {} /\ AtTransport \subseteq Teardown
    /\ Ended \cap (Teardown \cup Handshake) = {}
    /\ "none" \notin Teardown \cup Handshake
  BY DEF Handshake, HandshakeWait, Unconfirmed, Confirmed, Teardown,
         AtTransport, Ended

(* Elsewhere a caller has made no progress to speak of.                      *)
LEMMA ProgressAway ==
    ASSUME NEW c \in Callers
    PROVE  /\ pc[c] \notin Handshake => Progress(c)
           /\ pc'[c] \notin Handshake => Progress(c)'
  BY DEF Progress, Unconfirmed, Confirmed, Handshake, HandshakeWait

LEMMA InitLife == Init => LifeInv
<1> SUFFICES ASSUME Init PROVE LifeInv
  OBVIOUS
<1>1. \A t \in Task : pc[t] \in {"idle", "none"}
  BY DEF Init
<1>2. \A t \in Task : pc[t] \notin Teardown \cup Handshake
  BY <1>1 DEF Teardown, Handshake, HandshakeWait
<1>3. \A w \in Workers : pc[w] = "none"
  BY TaskKinds DEF Init
<1>4. NoTask \notin Task
  BY ConstantsAssumption
<1>5. OwnerInv
  BY <1>2, <1>4, TaskKinds DEF Init, OwnerInv
<1>6. JoinInv
  BY DEF Init, JoinInv, Joinable
<1>7. TellerInv
  BY <1>2 DEF TellerInv, Telling
<1>8. SessionInv
  BY <1>2, <1>3, TaskKinds DEF Init, SessionInv, Alive, SessionIsolation
<1>9. StatusInv
  BY <1>2, TaskKinds, ProgressAway DEF Init, StatusInv, IdentityBeforeRequests
<1>10. CleanupInv
  BY <1>2, HandshakeParts DEF CleanupInv, CleanupExclusive, AtTransport
<1>11. QED
  BY <1>5, <1>6, <1>7, <1>8, <1>9, <1>10 DEF LifeInv

(* Steps outside of connect() and of every teardown: the client serves its   *)
(* session as before, and no task comes into the handshake or a teardown.    *)
Inside == Handshake \cup Teardown

Outside ==
    /\ \A f \in {"session", "failure", "closing", "cleanupDone",
                 "identified"} : client'[f] = client[f]
    /\ client'.worker = client.worker /\ client'.keepalive = client.keepalive
    /\ client'.status \in {client.status, Refreshed(client.status)}
    /\ client'.applied \subseteq client.applied \cup {client.session}
    /\ lock'.lifecycle = lock.lifecycle
    /\ awaiting' = awaiting /\ lost' = lost
    /\ \A u \in Task :
        /\ pc[u] \in Inside \/ pc'[u] \in Inside
               => pc'[u] = pc[u] /\ serving'[u] = serving[u]
        /\ pc[u] # "none" <=> pc'[u] # "none"
    /\ \A w \in Workers : Alive(w)' => Alive(w)

LEMMA OutsideKeeps ==
    ASSUME Typed, LifeInv, Outside PROVE LifeInv'
<1>1. /\ client'.session = client.session /\ client'.failure = client.failure
      /\ client'.closing = client.closing
      /\ client'.cleanupDone = client.cleanupDone
      /\ client'.identified = client.identified
  BY DEF Outside
<1>2. \A u \in Task :
        /\ pc'[u] \in Inside => pc'[u] = pc[u] /\ serving'[u] = serving[u]
        /\ pc[u] \in Inside => pc'[u] = pc[u]
  BY DEF Outside
<1>3. lock'.lifecycle = lock.lifecycle
  BY DEF Outside
<1>4. OwnerInv'
  BY <1>1, <1>2, <1>3, TaskKinds DEF LifeInv, OwnerInv, Inside
<1>5. JoinInv'
  BY TaskKinds DEF LifeInv, JoinInv, Joinable, Outside, Task
<1>6. TellerInv'
  BY <1>1, <1>2, <1>3 DEF LifeInv, TellerInv, Telling, Inside
<1>7. SessionInv'
  BY <1>1, <1>2, TaskKinds
  DEF LifeInv, SessionInv, SessionIsolation, Inside, Outside
<1>8. StatusInv'
  <2>1. \A c \in Callers : pc'[c] \in Handshake => pc'[c] = pc[c]
    BY <1>2, TaskKinds DEF Inside
  <2>2. \/ client'.status = client.status
        \/ client.status = "PROTOCOL_READY" /\ client'.status = "READY"
    BY DEF Outside, Refreshed
  <2>3. client'.session \notin Sessions =>
            client'.status = "DISCONNECTED" /\ ~client'.failure
    BY <1>1, <2>2 DEF LifeInv, StatusInv
  <2>4. ASSUME NEW c \in Callers PROVE Progress(c)'
    <3>1. Progress(c)
      BY DEF LifeInv, StatusInv
    <3>2. CASE pc'[c] \in Handshake
      BY <1>1, <2>1, <2>2, <3>1, <3>2 DEF Progress, Unconfirmed, Confirmed
    <3>3. QED
      BY <3>2, ProgressAway
  <2>5. IdentityBeforeRequests'
    BY <1>1, <2>1 DEF LifeInv, StatusInv, IdentityBeforeRequests
  <2>6. QED
    BY <2>3, <2>4, <2>5 DEF StatusInv
<1>9. CleanupInv'
  BY <1>1, <1>2, HandshakeParts
  DEF LifeInv, CleanupInv, CleanupExclusive, AtTransport, Inside
<1>10. QED
  BY <1>4, <1>5, <1>6, <1>7, <1>8, <1>9 DEF LifeInv

-----------------------------------------------------------------------------
(* The steps that are outside.                                               *)

(* One task moves, between labels outside of connect() and teardowns.        *)
LEMMA OutsideMove ==
    ASSUME Typed, NEW t \in Task, NEW l, Goto(t, l), serving' = serving,
           pc[t] \notin Inside \cup {"none"}, l \notin Inside \cup {"none"},
           t \in Workers => Alive(t) \/ l \in Ended
    PROVE  /\ \A u \in Task :
                /\ pc[u] \in Inside \/ pc'[u] \in Inside
                       => pc'[u] = pc[u] /\ serving'[u] = serving[u]
                /\ pc[u] # "none" <=> pc'[u] # "none"
           /\ \A w \in Workers : Alive(w)' => Alive(w)
<1>1. /\ \A u \in Task \ {t} : pc'[u] = pc[u]
      /\ pc'[t] = l
  BY TypedNow DEF Goto
<1>2. QED
  BY <1>1, TaskKinds DEF Alive

LEMMA CallsOutside ==
    ASSUME Typed, NEW c \in Callers,
           \/ CallConnect(c) \/ CallDisconnect(c) \/ CallWrite(c) \/ Writing(c)
           \/ ConnectNoop(c) \/ CancelledInLine(c)
    PROVE  Outside
<1>1. /\ c \in Task /\ pc \in [Task -> Labels] /\ lock \in LockType
      /\ serving \in [Task -> Sessions \cup {0}] /\ client \in ClientType
  BY TypedNow, TaskKinds
<1>2. /\ client' = client /\ lock'.lifecycle = lock.lifecycle
      /\ awaiting' = awaiting /\ lost' = lost
  BY <1>1
  DEF CallConnect, CallDisconnect, CallWrite, Writing, WriteStart, WriteSent,
      WriteFails, WriteTake, WriteGivesUp, ConnectNoop, CancelledInLine,
      Released, LockType, others
<1>3. /\ \A u \in Task \ {c} : pc'[u] = pc[u] /\ serving'[u] = serving[u]
      /\ pc[c] \in Outcome \cup {"connect", "disconnect", "write", "sending",
                                 "ack"}
      /\ pc'[c] \in Outcome \cup {"connect", "disconnect", "write", "sending",
                                  "ack", "fail"}
  BY <1>1
  DEF CallConnect, CallDisconnect, CallWrite, Writing, WriteStart, WriteSent,
      WriteFails, WriteTake, WriteGivesUp, ConnectNoop, CancelledInLine, At,
      Goto, Outcome, others
<1>4. /\ pc[c] \notin Inside \cup {"none"}
      /\ pc'[c] \notin Inside \cup {"none"}
  BY <1>3 DEF Inside, Outcome, Handshake, HandshakeWait, Teardown
<1>5. \A w \in Workers : Alive(w)' => Alive(w)
  BY <1>3, TaskKinds DEF Alive
<1>6. QED
  BY <1>2, <1>3, <1>4, <1>5 DEF Outside

LEMMA FailureOutside ==
    ASSUME Typed, NEW t \in Task,
           FailureIgnored(t) \/ FailureHandled(t) \/ CallbackDisconnects(t)
    PROVE  Outside
<1>1. pc \in [Task -> Labels] /\ lock \in LockType
  BY TypedNow
<1>2. /\ client' = client /\ lock'.lifecycle = lock.lifecycle
      /\ awaiting' = awaiting /\ serving' = serving /\ lost' = lost
  BY <1>1
  DEF FailureIgnored, FailureHandled, CallbackDisconnects, Released, LockType,
      others
<1>3. PICK l \in {"disconnect", "done", "next", "idle", "raised"} : Goto(t, l)
  BY AfterFailureType
  DEF FailureIgnored, FailureHandled, CallbackDisconnects
<1>4. pc[t] \in {"fail", "lost"}
  BY DEF FailureIgnored, FailureHandled, CallbackDisconnects, At
<1>5. /\ pc[t] \notin Inside \cup {"none"} /\ l \notin Inside \cup {"none"}
      /\ Alive(t)
  BY <1>3, <1>4
  DEF Inside, Handshake, HandshakeWait, Teardown, Alive, Ended
<1>6. QED
  BY <1>2, <1>3, <1>5, OutsideMove DEF Outside

LEMMA WorkingOutside ==
    ASSUME Typed, LifeInv, NEW s \in Sessions,
           \/ WorkerStop(s) \/ WorkerProcess(s) \/ WorkerFails(s)
           \/ WorkerWaits(s)
    PROVE  Outside
<1> DEFINE w == Worker(s)
<1>1. /\ w \in Task /\ pc \in [Task -> Labels] /\ client \in ClientType
  BY TypedNow, TaskKinds
<1>2. pc[w] \in {"run", "next"}
  BY DEF WorkerStop, WorkerProcess, WorkerFails, WorkerWaits, WorkerTakes, At
<1>3. PICK l \in {"done", "run", "next", "fail"} : Goto(w, l)
  BY DEF WorkerStop, WorkerProcess, WorkerFails, WorkerWaits
<1>4. /\ pc[w] \notin Inside \cup {"none"} /\ l \notin Inside \cup {"none"}
      /\ Alive(w)
  BY <1>2, <1>3 DEF Inside, Handshake, HandshakeWait, Teardown, Alive, Ended
<1>5. s = client.session
  BY <1>4 DEF LifeInv, SessionInv
<1>6. /\ client'.session = client.session /\ client'.failure = client.failure
      /\ client'.closing = client.closing
      /\ client'.cleanupDone = client.cleanupDone
      /\ client'.identified = client.identified
      /\ client'.worker = client.worker /\ client'.keepalive = client.keepalive
      /\ client'.status \in {client.status, Refreshed(client.status)}
      /\ client'.applied \subseteq client.applied \cup {client.session}
  BY <1>1, <1>5
  DEF WorkerStop, WorkerProcess, WorkerFails, WorkerWaits, Process, ClientType
<1>7. lock' = lock /\ awaiting' = awaiting /\ serving' = serving /\ lost' = lost
  BY DEF WorkerStop, WorkerProcess, WorkerFails, WorkerWaits, others
<1>8. QED
  BY <1>1, <1>3, <1>4, <1>6, <1>7, OutsideMove DEF Outside

LEMMA KeepingAliveOutside ==
    ASSUME Typed, NEW s \in Sessions, KeepingAlive(s)
    PROVE  Outside
<1> DEFINE k == Keepalive(s)
<1>1. k \in Task /\ k \notin Workers /\ lock \in LockType
  BY TypedNow, TaskKinds
<1>2. /\ client' = client /\ lock'.lifecycle = lock.lifecycle
      /\ awaiting' = awaiting /\ serving' = serving /\ lost' = lost
  BY <1>1
  DEF KeepingAlive, KeepaliveSend, KeepaliveSent, KeepaliveFails,
      KeepaliveCancelled, Released, LockType, others
<1>3. PICK l \in {"k_write", "k_sleep", "fail", "done"} : Goto(k, l)
  BY DEF KeepingAlive, KeepaliveSend, KeepaliveSent, KeepaliveFails,
         KeepaliveError, KeepaliveCancelled
<1>4. pc[k] \in {"k_sleep", "k_write", "cancelled"}
  BY DEF KeepingAlive, KeepaliveSend, KeepaliveSent, KeepaliveFails,
         KeepaliveCancelled, At
<1>5. pc[k] \notin Inside \cup {"none"} /\ l \notin Inside \cup {"none"}
  BY <1>3, <1>4 DEF Inside, Handshake, HandshakeWait, Teardown
<1>6. QED
  BY <1>1, <1>2, <1>3, <1>5, OutsideMove DEF Outside

(* Notifications, the loss of the link, and steps in which nothing happens.  *)
LEMMA OthersOutside ==
    ASSUME Typed,
           \/ \E m \in Kinds : NotifyQueued(m) \/ NotifyInline(m)
           \/ LinkLoss \/ UNCHANGED vars
    PROVE  Outside
<1>1. /\ Notifier \in Task /\ Notifier \notin Workers
      /\ client \in ClientType /\ pc \in [Task -> Labels]
  BY TypedNow, TaskKinds
<1>2. /\ client'.session = client.session /\ client'.failure = client.failure
      /\ client'.closing = client.closing
      /\ client'.cleanupDone = client.cleanupDone
      /\ client'.identified = client.identified
      /\ client'.worker = client.worker /\ client'.keepalive = client.keepalive
      /\ client'.status \in {client.status, Refreshed(client.status)}
      /\ client'.applied \subseteq client.applied \cup {client.session}
  BY <1>1
  DEF NotifyQueued, NotifyInline, Process, LinkLoss, ClientType, vars
<1>3. lock' = lock /\ awaiting' = awaiting /\ serving' = serving /\ lost' = lost
  BY DEF NotifyQueued, NotifyInline, Arrives, LinkLoss, others, vars
<1>4. \/ pc' = pc
      \/ pc[Notifier] = "idle" /\ Goto(Notifier, "fail")
  BY DEF NotifyQueued, NotifyInline, LinkLoss, vars
<1>5. CASE pc' = pc
  BY <1>2, <1>3, <1>5 DEF Outside, Alive
<1>6. CASE pc[Notifier] = "idle" /\ Goto(Notifier, "fail")
  <2>1. "idle" \notin Inside \cup {"none"} /\ "fail" \notin Inside \cup {"none"}
    BY DEF Inside, Handshake, HandshakeWait, Teardown
  <2>2. QED
    BY <1>1, <1>2, <1>3, <1>6, <2>1, OutsideMove DEF Outside
<1>7. QED
  BY <1>4, <1>5, <1>6

-----------------------------------------------------------------------------
(* connect(), from the first await to the last.                              *)

(* The caller in the handshake has the lock: no other is in it.              *)
LEMMA HandshakeAlone ==
    ASSUME LossInv, NEW c \in Callers, lock.lifecycle = c
    PROVE  \A d \in Callers \ {c} : pc[d] \notin Handshake
  BY DEF LossInv, Locked

ConnectMoves(c) ==
    \/ ConnectSendRequest(c) \/ ConnectAwaitAnswer(c) \/ ConnectDiscard(c)
    \/ ConnectTakeBlespp(c) \/ ConnectTakeInfo(c) \/ ConnectFails(c)

LEMMA ConnectMovesLife ==
    ASSUME Typed, LossInv, LifeInv, NEW c \in Callers, ConnectMoves(c)
    PROVE  LifeInv'
<1>1. /\ c \in Task /\ pc \in [Task -> Labels] /\ client \in ClientType
      /\ c \notin Workers
  BY TypedNow, TaskKinds
<1>2. /\ lock' = lock /\ awaiting' = awaiting /\ serving' = serving
      /\ client'.session = client.session /\ client'.failure = client.failure
      /\ client'.closing = client.closing /\ client'.worker = client.worker
      /\ client'.keepalive = client.keepalive
      /\ client'.cleanupDone = client.cleanupDone
      /\ client'.applied = client.applied
  BY <1>1
  DEF ConnectMoves, ConnectSendRequest, ConnectAwaitAnswer, ConnectDiscard,
      ConnectTakeBlespp, ConnectTakeInfo, ConnectFails, ClientType, others
<1>3. /\ \A u \in Task \ {c} : pc'[u] = pc[u]
      /\ pc[c] \in Handshake /\ pc'[c] \in Handshake \cup {"td_begin"}
  BY <1>1
  DEF ConnectMoves, ConnectSendRequest, ConnectAwaitAnswer, ConnectDiscard,
      ConnectTakeBlespp, ConnectTakeInfo, ConnectFails, ConnectTake, At, Goto,
      Handshake, HandshakeWait
<1>4. /\ lock.lifecycle = c
      /\ \A d \in Callers \ {c} : pc[d] \notin Handshake
  BY <1>3, HandshakeAlone DEF LossInv, Locked
<1>5. OwnerInv'
  BY <1>1, <1>2, <1>3, HandshakeParts, TaskKinds
  DEF LifeInv, OwnerInv, Teardown
<1>6. JoinInv'
  <2>1. \A u \in Task : pc[u] # "none" => pc'[u] # "none"
    BY <1>3, HandshakeParts
  <2>2. QED
    BY <1>2, <2>1, TaskKinds DEF LifeInv, JoinInv, Joinable, Task
<1>7. TellerInv'
  BY <1>2, <1>3, <1>4 DEF LifeInv, TellerInv, Telling
<1>8. SessionInv'
  BY <1>1, <1>2, <1>3, TaskKinds
  DEF LifeInv, SessionInv, SessionIsolation, Alive
<1>9. StatusInv'
  <2>1. Progress(c) /\ client.status \in {"DISCONNECTED", "CONNECTED",
                                         "PROTOCOL_READY", "READY"}
    BY <1>1 DEF LifeInv, StatusInv, ClientType
  <2>2. CASE ConnectTakeInfo(c)
    <3>1. /\ pc[c] = "info" /\ pc'[c] = "pausing"
          /\ client'.status = "PROTOCOL_READY"
          /\ client'.identified = client.identified
      BY <1>1, <2>2 DEF ConnectTakeInfo, ConnectTake, At, Goto, ClientType
    <3>2. serving[c] \in Sessions /\ client.session = serving[c]
      BY <1>3, TypedNow DEF LifeInv, SessionInv, ConnectServes
    <3>3. \A d \in Callers : Progress(d)'
      BY <1>3, <1>4, <3>1, ProgressAway, TaskKinds
      DEF Progress, Unconfirmed, Confirmed
    <3>4. IdentityBeforeRequests'
      BY <1>2, <1>3, <1>4, <3>1, TaskKinds
      DEF LifeInv, StatusInv, IdentityBeforeRequests, Handshake, HandshakeWait
    <3>5. QED
      BY <1>2, <3>2, <3>3, <3>4 DEF StatusInv
  <2>3. CASE ~ConnectTakeInfo(c)
    <3>1. client'.status = client.status
      BY <1>1, <2>3
      DEF ConnectMoves, ConnectSendRequest, ConnectAwaitAnswer, ConnectDiscard,
          ConnectTakeBlespp, ConnectFails, ClientType
    <3>2. \/ pc'[c] = "td_begin"
          \/ /\ pc'[c] = pc[c] /\ client'.identified = client.identified
          \/ /\ <<pc[c], pc'[c]>> \in {<<"subscribing", "blespp">>,
                                       <<"requesting", "info">>,
                                       <<"reading", "report">>}
             /\ ~client.failure /\ client'.identified = client.identified
          \/ /\ <<pc[c], pc'[c]>> \in {<<"blespp", "confirming">>,
                                       <<"confirming", "requesting">>,
                                       <<"pausing", "reading">>}
             /\ client'.identified
      <4>1. CASE ConnectSendRequest(c)
        BY <1>1, <4>1 DEF ConnectSendRequest, At, Goto
      <4>2. CASE ConnectAwaitAnswer(c)
        BY <1>1, <4>2 DEF ConnectAwaitAnswer, At, Goto
      <4>3. CASE ConnectDiscard(c)
        BY <1>1, <4>3 DEF ConnectDiscard, ConnectTake, At, Goto
      <4>4. CASE ConnectTakeBlespp(c)
        <5>1. /\ pc[c] = "blespp"
              /\ pc'[c] = "confirming" => Establishes(Head(View("reports")))
              /\ pc'[c] \in {"confirming", "td_begin"}
          BY <1>1, <4>4 DEF ConnectTakeBlespp, ConnectTake, At, Goto
        <5>2. Establishes(Head(View("reports"))) => client'.identified
          BY <1>1, <4>4 DEF ConnectTakeBlespp, Establishes, ClientType
        <5>3. QED
          BY <5>1, <5>2
      <4>5. CASE ConnectFails(c)
        BY <1>1, <4>5 DEF ConnectFails, Goto
      <4>6. QED
        BY <2>3, <4>1, <4>2, <4>3, <4>4, <4>5 DEF ConnectMoves
    <3>3. Progress(c)'
      BY <1>2, <2>1, <3>1, <3>2 DEF Progress, Unconfirmed, Confirmed
    <3>4. \A d \in Callers \ {c} : Progress(d)'
      BY <1>3, <1>4, ProgressAway, TaskKinds
    <3>5. IdentityBeforeRequests'
      BY <1>2, <1>3, <1>4, <3>2, TaskKinds
      DEF LifeInv, StatusInv, IdentityBeforeRequests, Handshake, HandshakeWait
    <3>6. QED
      BY <1>2, <3>1, <3>3, <3>4, <3>5 DEF LifeInv, StatusInv
  <2>4. QED
    BY <2>2, <2>3
<1>10. CleanupInv'
  BY <1>2, <1>3 DEF LifeInv, CleanupInv, CleanupExclusive, AtTransport,
                    Handshake, HandshakeWait
<1>11. QED
  BY <1>5, <1>6, <1>7, <1>8, <1>9, <1>10 DEF LifeInv

LEMMA TransportUpLife ==
    ASSUME Typed, LossInv, LifeInv, NEW c \in Callers, ConnectTransportUp(c)
    PROVE  LifeInv'
<1> DEFINE s == serving[c]
           w == Worker(s)
<1>1. /\ pc[c] = "connecting" /\ c \in Task /\ s \in Sessions
      /\ w \in Workers /\ w \in Task /\ w # c
  BY TypedNow, TaskKinds
  DEF ConnectTransportUp, At, ConnectServes, Handshake
<1>2. /\ lock.lifecycle = c /\ client.session = s /\ ~client.failure
      /\ \A d \in Callers \ {c} : pc[d] \notin Handshake
  BY <1>1, HandshakeAlone
  DEF LossInv, Locked, LifeInv, SessionInv, StatusInv, Progress, Handshake
<1>3. /\ client' = [client EXCEPT !.status = "CONNECTED", !.worker = w]
      /\ lock' = lock /\ awaiting' = awaiting /\ serving' = serving
  BY DEF ConnectTransportUp, Opened, others
<1>4. /\ pc'[c] = "subscribing" /\ pc'[w] = "run"
      /\ \A u \in Task \ {c, w} : pc'[u] = pc[u]
  BY <1>1, TypedNow DEF ConnectTransportUp
<1>5. /\ client'.status = "CONNECTED" /\ client'.worker = w
      /\ client'.session = client.session /\ client'.failure = client.failure
      /\ client'.closing = client.closing
      /\ client'.keepalive = client.keepalive
      /\ client'.cleanupDone = client.cleanupDone
      /\ client'.applied = client.applied
  BY <1>3, TypedNow DEF ClientType
<1>6. OwnerInv'
  BY <1>1, <1>2, <1>3, <1>4, <1>5, TaskKinds
  DEF LifeInv, OwnerInv, Handshake
<1>7. JoinInv'
  <2>1. \A u \in Task : pc[u] # "none" => pc'[u] # "none"
    BY <1>4
  <2>2. QED
    BY <1>1, <1>3, <1>4, <1>5, <2>1, TaskKinds
    DEF LifeInv, JoinInv, Joinable, Task
<1>8. TellerInv'
  BY <1>2, <1>3, <1>4, <1>5 DEF LifeInv, TellerInv, Telling, Teardown
<1>9. SessionInv'
  <2>1. \A v \in Workers \ {w} : Alive(v)' => Alive(v)
    BY <1>1, <1>4, TaskKinds DEF Alive
  <2>2. \A r \in Sessions : Worker(r) = w => r = s
    BY DEF Worker
  <2>3. QED
    BY <1>1, <1>2, <1>3, <1>4, <1>5, <2>1, <2>2, TaskKinds
    DEF LifeInv, SessionInv, SessionIsolation
<1>10. StatusInv'
  <2>1. Progress(c)'
    BY <1>4, <1>5 DEF Progress, Unconfirmed, Confirmed
  <2>2. \A d \in Callers \ {c} : Progress(d)'
    BY <1>1, <1>2, <1>4, ProgressAway, TaskKinds
  <2>3. IdentityBeforeRequests'
    BY <1>1, <1>2, <1>4, TaskKinds
    DEF IdentityBeforeRequests, Handshake, HandshakeWait
  <2>4. QED
    BY <1>1, <1>2, <1>5, <2>1, <2>2, <2>3 DEF StatusInv
<1>11. CleanupInv'
  BY <1>4, <1>5 DEF LifeInv, CleanupInv, CleanupExclusive, AtTransport
<1>12. QED
  BY <1>6, <1>7, <1>8, <1>9, <1>10, <1>11 DEF LifeInv

LEMMA TakeReportLife ==
    ASSUME Typed, LossInv, LifeInv, NEW c \in Callers, ConnectTakeReport(c)
    PROVE  LifeInv'
<1> DEFINE k == Keepalive(serving[c])
<1>1. /\ pc[c] = "report" /\ c \in Task /\ serving[c] \in Sessions
      /\ k \in Keepalives /\ k \in Task /\ k # c /\ k \notin Workers
  BY TypedNow, TaskKinds
  DEF ConnectTakeReport, ConnectTake, At, ConnectServes, Handshake,
      HandshakeWait
<1>2. /\ lock.lifecycle = c /\ client.session \in Sessions /\ ~client.closing
      /\ \A d \in Callers \ {c} : pc[d] \notin Handshake
  BY <1>1, HandshakeAlone
  DEF LossInv, Locked, LifeInv, SessionInv, OwnerInv, Handshake, HandshakeWait
<1>3. /\ client' = Ready(client, k)
      /\ lock' = [lock EXCEPT !.lifecycle = NoTask]
      /\ awaiting' = awaiting /\ serving' = serving
  BY DEF ConnectTakeReport, others
<1>4. /\ pc'[c] = "returned" /\ pc'[k] = "k_sleep"
      /\ \A u \in Task \ {c, k} : pc'[u] = pc[u]
  BY <1>1, TypedNow DEF ConnectTakeReport
<1>5. /\ client'.keepalive = k /\ client'.worker = client.worker
      /\ client'.session = client.session /\ client'.failure = client.failure
      /\ client'.closing = client.closing
      /\ client'.cleanupDone = client.cleanupDone
      /\ client'.applied = client.applied
  BY <1>3, TypedNow DEF Ready, ClientType
<1>6. lock'.lifecycle = NoTask /\ NoTask \notin Task
  BY <1>3, TypedNow, ConstantsAssumption DEF LockType
<1>7. \A d \in Callers : pc'[d] \notin Handshake
  BY <1>1, <1>2, <1>4, TaskKinds DEF Handshake, HandshakeWait
<1>8. OwnerInv'
  BY <1>2, <1>5, <1>6, <1>7 DEF OwnerInv
<1>9. JoinInv'
  <2>1. \A u \in Task : pc[u] # "none" => pc'[u] # "none"
    BY <1>4
  <2>2. QED
    BY <1>1, <1>3, <1>4, <1>5, <2>1, TaskKinds
    DEF LifeInv, JoinInv, Joinable, Task
<1>10. TellerInv'
  BY <1>2, <1>3, <1>4, <1>5 DEF LifeInv, TellerInv, Telling, Teardown
<1>11. SessionInv'
  <2>1. \A w \in Workers : Alive(w)' => Alive(w)
    BY <1>1, <1>4, TaskKinds DEF Alive
  <2>2. QED
    BY <1>5, <1>7, <2>1, TaskKinds DEF LifeInv, SessionInv, SessionIsolation
<1>12. StatusInv'
  BY <1>2, <1>5, <1>7, ProgressAway DEF StatusInv, IdentityBeforeRequests
<1>13. CleanupInv'
  BY <1>4, <1>5 DEF LifeInv, CleanupInv, CleanupExclusive, AtTransport
<1>14. QED
  BY <1>8, <1>9, <1>10, <1>11, <1>12, <1>13 DEF LifeInv

(* connect() opens a session, with nothing of the one before still running.  *)
LEMMA ConnectStartOpens ==
    ASSUME Typed, LossInv, NEW c \in Callers, ConnectStart(c)
    PROVE  /\ client'.session = serving[c] /\ Opens
           /\ serving[c] \in Sessions
<1>1. pc[c] = "connect" /\ serving[c] \in Sessions
  BY TypedNow DEF ConnectStart, At, ConnectServes
<1>2. client'.session = serving[c]
  BY TypedNow DEF ConnectStart, Begun, Cleared, ClientType
<1>3. Ahead(c, serving[c]) /\ Once(serving[c])
  BY <1>1 DEF LossInv, Ahead
<1>4. QED
  BY <1>1, <1>2, <1>3 DEF Once, Fresh, Opens

LEMMA ConnectStartLife ==
    ASSUME Typed, LossInv, LifeInv, NEW c \in Callers, ConnectStart(c),
           Quiescent
    PROVE  LifeInv'
<1>1. /\ pc[c] = "connect" /\ lock.lifecycle = NoTask
      /\ client.status = "DISCONNECTED"
      /\ c \in Task /\ c \notin Workers /\ NoTask \notin Task
  BY TaskKinds, ConstantsAssumption DEF ConnectStart, At
<1>2. /\ client' = Begun(client, serving[c])
      /\ lock' = [lock EXCEPT !.lifecycle = c]
      /\ awaiting' = awaiting /\ serving' = serving
  BY DEF ConnectStart, others
<1>3. /\ client'.session = serving[c] /\ serving[c] \in Sessions
      /\ client'.worker = client.worker /\ client'.keepalive = client.keepalive
      /\ client'.closing = client.closing /\ ~client'.failure
      /\ client'.status = "DISCONNECTED" /\ client'.applied = {}
      /\ lock'.lifecycle = c
  BY <1>1, <1>2, ConnectStartOpens, TypedNow
  DEF Begun, Cleared, ClientType, LockType
<1>4. /\ pc'[c] = "connecting"
      /\ \A u \in Task \ {c} : pc'[u] = pc[u]
  BY <1>1, TypedNow DEF ConnectStart, Goto
<1>5. /\ \A u \in Task : pc[u] \notin Teardown
      /\ \A w \in Workers : ~Alive(w)
  BY <1>1 DEF Quiescent, FailureHandler, Alive, Ended
<1>6. \A d \in Callers : pc[d] \notin Handshake
  BY <1>1, TaskKinds DEF LossInv, Locked
<1>7. /\ \A u \in Task : pc'[u] \notin Teardown
      /\ \A d \in Callers \ {c} : pc'[d] \notin Handshake
  BY <1>4, <1>5, <1>6, TaskKinds DEF Teardown
<1>8. OwnerInv'
  BY <1>1, <1>3, <1>4, <1>7 DEF LifeInv, OwnerInv, Handshake
<1>9. JoinInv'
  <2>1. \A u \in Task : pc[u] # "none" => pc'[u] # "none"
    BY <1>4
  <2>2. QED
    BY <1>2, <1>3, <2>1, TaskKinds DEF LifeInv, JoinInv, Joinable, Task
<1>10. TellerInv'
  BY <1>7 DEF TellerInv, Telling
<1>11. SessionInv'
  <2>1. \A w \in Workers : ~Alive(w)'
    BY <1>1, <1>4, <1>5, TaskKinds DEF Alive
  <2>2. QED
    BY <1>2, <1>3, <1>7, <2>1, TaskKinds DEF SessionInv, SessionIsolation
<1>12. StatusInv'
  <2>1. Progress(c)'
    BY <1>3, <1>4 DEF Progress, Unconfirmed, Confirmed
  <2>2. IdentityBeforeRequests'
    BY <1>4, <1>7 DEF IdentityBeforeRequests
  <2>3. QED
    BY <1>3, <1>7, <2>1, <2>2, ProgressAway DEF StatusInv
<1>13. CleanupInv'
  BY <1>7 DEF CleanupInv, CleanupExclusive, AtTransport, Teardown
<1>14. QED
  BY <1>8, <1>9, <1>10, <1>11, <1>12, <1>13 DEF LifeInv

(* The calls end: connect() in its except clause, disconnect() when it       *)
(* returns.                                                                  *)
CallEnds(t) == (t \in Callers /\ ConnectRaises(t)) \/ DisconnectReturns(t)

LEMMA CallEndsLife ==
    ASSUME Typed, LossInv, LifeInv, NEW t \in Task,
           CallEnds(t)
    PROVE  LifeInv'
<1>1. /\ pc[t] = "td_finish" /\ lock.lifecycle = t /\ NoTask \notin Task
      /\ client \in ClientType
  BY TypedNow, ConstantsAssumption
  DEF CallEnds, ConnectRaises, DisconnectReturns
<1>2. /\ client'.session = client.session /\ client'.failure = client.failure
      /\ client'.status = "DISCONNECTED" /\ ~client'.closing
      /\ client'.worker = client.worker /\ client'.keepalive = client.keepalive
      /\ client'.cleanupDone = client.cleanupDone /\ client'.applied = {}
  BY <1>1
  DEF CallEnds, ConnectRaises, DisconnectReturns, Disconnected, Cleared,
      ClientType
<1>3. /\ lock'.lifecycle = NoTask
      /\ awaiting' = awaiting /\ serving' = serving
  BY TypedNow
  DEF CallEnds, ConnectRaises, DisconnectReturns, Unlocked, Released,
      LockType, others
<1>4. /\ pc'[t] \in {"returned", "done", "next", "idle", "raised"}
      /\ \A u \in Task \ {t} : pc'[u] = pc[u]
  BY TypedNow, AfterFailureType
  DEF CallEnds, ConnectRaises, DisconnectReturns, Goto
<1>5. \A d \in Callers : pc'[d] \notin Handshake
  BY <1>1, <1>4, TaskKinds DEF LossInv, Locked, Handshake, HandshakeWait
<1>6. OwnerInv'
  BY <1>1, <1>2, <1>3, <1>5 DEF OwnerInv
<1>7. JoinInv'
  <2>1. \A u \in Task : pc[u] # "none" => pc'[u] # "none"
    BY <1>4
  <2>2. QED
    BY <1>2, <1>3, <2>1, TaskKinds DEF LifeInv, JoinInv, Joinable, Task
<1>8. TellerInv'
  BY <1>1, <1>2, <1>3, <1>4 DEF LifeInv, TellerInv, Telling, Teardown
<1>9. SessionInv'
  <2>1. \A w \in Workers : Alive(w)' => Alive(w)
    BY <1>1, <1>4, TaskKinds DEF Alive, Ended
  <2>2. QED
    BY <1>2, <1>5, <2>1, TaskKinds DEF LifeInv, SessionInv, SessionIsolation
<1>10. StatusInv'
  BY <1>2, <1>5, ProgressAway DEF LifeInv, StatusInv, IdentityBeforeRequests
<1>11. CleanupInv'
  BY <1>2, <1>4 DEF LifeInv, CleanupInv, CleanupExclusive, AtTransport
<1>12. QED
  BY <1>6, <1>7, <1>8, <1>9, <1>10, <1>11 DEF LifeInv

LEMMA DisconnectStartLife ==
    ASSUME Typed, LossInv, LifeInv, NEW t \in Task, DisconnectStart(t)
    PROVE  LifeInv'
<1>1. /\ pc[t] = "disconnect" /\ lock.lifecycle = NoTask
      /\ NoTask \notin Task
  BY ConstantsAssumption DEF DisconnectStart, At
<1>2. /\ client' = [client EXCEPT !.closing = TRUE]
      /\ lock'.lifecycle = t
      /\ awaiting' = awaiting /\ serving' = serving
  BY TypedNow DEF DisconnectStart, LockType, others
<1>3. /\ client'.session = client.session /\ client'.failure = client.failure
      /\ client'.status = client.status /\ client'.closing
      /\ client'.worker = client.worker /\ client'.keepalive = client.keepalive
      /\ client'.cleanupDone = client.cleanupDone
      /\ client'.applied = client.applied
  BY <1>2, TypedNow DEF ClientType
<1>4. /\ pc'[t] = "td_begin"
      /\ \A u \in Task \ {t} : pc'[u] = pc[u]
  BY TypedNow DEF DisconnectStart, Goto
<1>5. \A d \in Callers : pc'[d] \notin Handshake
  BY <1>1, <1>4, TaskKinds DEF LossInv, Locked, Handshake, HandshakeWait
<1>6. OwnerInv'
  BY <1>1, <1>2, <1>3, <1>5 DEF OwnerInv
<1>7. JoinInv'
  <2>1. \A u \in Task : pc[u] # "none" => pc'[u] # "none"
    BY <1>4
  <2>2. QED
    BY <1>2, <1>3, <2>1, TaskKinds DEF LifeInv, JoinInv, Joinable, Task
<1>8. TellerInv'
  BY <1>1, <1>2, <1>3, <1>4 DEF LifeInv, TellerInv, Telling
<1>9. SessionInv'
  <2>1. \A w \in Workers : Alive(w)' => Alive(w)
    BY <1>1, <1>4, TaskKinds DEF Alive, Ended
  <2>2. QED
    BY <1>3, <1>5, <2>1, TaskKinds DEF LifeInv, SessionInv, SessionIsolation
<1>10. StatusInv'
  BY <1>3, <1>5, ProgressAway DEF LifeInv, StatusInv, IdentityBeforeRequests
<1>11. CleanupInv'
  BY <1>3, <1>4 DEF LifeInv, CleanupInv, CleanupExclusive, AtTransport
<1>12. QED
  BY <1>6, <1>7, <1>8, <1>9, <1>10, <1>11 DEF LifeInv

-----------------------------------------------------------------------------
(* Teardowns.                                                                *)

(* A step of a teardown: it brings no task into a teardown, moves no other   *)
(* caller, and comes to the transport only where nobody has cleaned up.      *)
TornClient ==
    /\ client'.session = client.session /\ client'.failure = client.failure
    /\ client'.closing = client.closing /\ client'.status = client.status
    /\ client'.identified = client.identified
    /\ client'.applied = client.applied
    /\ client'.worker \in {client.worker, NoTask}
    /\ client'.keepalive \in {client.keepalive, NoTask}
    /\ client.cleanupDone => client'.cleanupDone
    /\ lock'.lifecycle = lock.lifecycle
    /\ serving' = serving /\ lost' = lost

Torn(t, u) ==
    /\ u # Notifier => (pc[u] # "none" <=> pc'[u] # "none")
    /\ pc'[u] \in Teardown => pc[u] \in Teardown
    /\ pc'[u] \in AtTransport =>
           /\ client'.cleanupDone
           /\ pc[u] \in AtTransport \/ (u = t /\ ~client.cleanupDone)

TearingStep(t) ==
    /\ TornClient
    /\ \A u \in Task : awaiting'[u] \in {awaiting[u], NoTask,
                                         client.keepalive, client.worker}
    /\ \A u \in Task : Torn(t, u)
    /\ \A c \in Callers : pc'[c] # pc[c] =>
            pc[c] \in Teardown /\ pc'[c] \in Teardown
    /\ \A w \in Workers : Alive(w)' => Alive(w)

LEMMA TearingKeeps ==
    ASSUME LifeInv, NEW t \in Task, TearingStep(t) PROVE LifeInv'
<1>1. /\ client'.session = client.session /\ client'.failure = client.failure
      /\ client'.closing = client.closing /\ client'.status = client.status
      /\ client'.identified = client.identified
      /\ client'.applied = client.applied
      /\ lock'.lifecycle = lock.lifecycle /\ serving' = serving
  BY DEF TearingStep, TornClient
<1>2. \A c \in Callers :
        /\ pc'[c] \in Handshake => pc'[c] = pc[c]
        /\ pc[c] \in Handshake \cup Teardown =>
               pc'[c] \in Handshake \cup Teardown
  BY HandshakeParts DEF TearingStep
<1>3. OwnerInv'
  BY <1>1, <1>2, TaskKinds DEF LifeInv, OwnerInv
<1>4. JoinInv'
  BY TaskKinds
  DEF LifeInv, JoinInv, Joinable, TearingStep, TornClient, Torn, Task
<1>5. TellerInv'
  BY <1>1 DEF LifeInv, TellerInv, Telling, TearingStep, Torn
<1>6. SessionInv'
  BY <1>1, <1>2, TaskKinds
  DEF LifeInv, SessionInv, SessionIsolation, TearingStep
<1>7. StatusInv'
  <2>1. ASSUME NEW c \in Callers PROVE Progress(c)'
    <3>1. Progress(c)
      BY DEF LifeInv, StatusInv
    <3>2. CASE pc'[c] \in Handshake
      BY <1>1, <1>2, <3>1, <3>2 DEF Progress
    <3>3. QED
      BY <3>2, ProgressAway
  <2>2. IdentityBeforeRequests'
    BY <1>1, <1>2 DEF LifeInv, StatusInv, IdentityBeforeRequests
  <2>3. QED
    BY <1>1, <2>1, <2>2 DEF LifeInv, StatusInv
<1>8. CleanupInv'
  <2>1. /\ \A u \in Task : pc[u] \in AtTransport => client.cleanupDone
        /\ \A u, v \in Task :
              pc[u] \in AtTransport /\ pc[v] \in AtTransport => u = v
    BY DEF LifeInv, CleanupInv, CleanupExclusive, AtTransport
  <2>2. \A u, v \in Task :
            pc'[u] \in AtTransport /\ pc'[v] \in AtTransport => u = v
    BY <2>1 DEF TearingStep, Torn
  <2>3. QED
    BY <2>2 DEF CleanupInv, CleanupExclusive, AtTransport, TearingStep,
                  Torn
<1>9. QED
  BY <1>3, <1>4, <1>5, <1>6, <1>7, <1>8 DEF LifeInv

LEMMA TearingDownSteps ==
    ASSUME Typed, LifeInv, NEW t \in Task,
           \/ TeardownBegin(t) \/ TeardownJoined(t) \/ TeardownCleanup(t)
           \/ TeardownDisconnect(t) \/ TeardownTasksEnded(t)
           \/ TeardownDisconnected(t) \/ TeardownWorker(t) \/ AbortJoin(t)
           \/ t \in Callers /\ JoinCancelled(t)
    PROVE  TearingStep(t)
<1> DEFINE Tearing ==
             \/ TeardownJoined(t) \/ TeardownCleanup(t)
             \/ TeardownTasksEnded(t) \/ TeardownDisconnected(t)
             \/ TeardownWorker(t)
             \/ t \in Callers /\ JoinCancelled(t)
<1>1. /\ pc \in [Task -> Labels] /\ client \in ClientType
      /\ awaiting \in [Task -> Task \cup {NoTask}] /\ Notifier \in Task
      /\ NoTask \notin Task
  BY TypedNow, TaskKinds, ConstantsAssumption
<1>2. TornClient
  BY <1>1
  DEF TeardownBegin, TeardownJoined, TeardownCleanup, TeardownDisconnect,
      TeardownTasksEnded, TeardownDisconnected, TeardownWorker, AbortJoin,
      JoinCancelled, Interrupting, ForgotWorker, ClientType, TornClient, others
<1>3. client.cleanupDone => client'.cleanupDone
  BY <1>2 DEF TornClient
<1>4. \A u \in Task : awaiting'[u] \in {awaiting[u], NoTask, client.keepalive,
                                        client.worker}
  BY <1>1
  DEF TeardownBegin, TeardownJoined, TeardownCleanup, TeardownDisconnect,
      TeardownTasksEnded, TeardownDisconnected, TeardownWorker, AbortJoin,
      JoinCancelled, others
<1>5. pc[t] \in Teardown
  BY DEF TeardownBegin, TeardownJoined, TeardownCleanup, TeardownDisconnect,
         TeardownTasksEnded, TeardownDisconnected, TeardownWorker, AbortJoin,
         JoinCancelled, At, Teardown
<1>6. CASE Tearing
  <2>1. \A u \in Task \ {t} : pc'[u] = pc[u]
    BY <1>1, <1>6
    DEF TeardownJoined, TeardownCleanup, TeardownTasksEnded,
        TeardownDisconnected, TeardownWorker, JoinCancelled, Goto
  <2>2. pc'[t] \in Teardown
    BY <1>1, <1>6
    DEF TeardownJoined, TeardownCleanup, NextCleanup, TeardownTasksEnded,
        TeardownDisconnected, TeardownWorker, JoinCancelled, Goto, Teardown
  <2>3. pc'[t] \in AtTransport =>
            client'.cleanupDone /\ (pc[t] \in AtTransport \/ ~client.cleanupDone)
    <3>1. CASE TeardownCleanup(t)
      BY <1>1, <3>1
      DEF TeardownCleanup, NextCleanup, Goto, AtTransport, ClientType
    <3>2. CASE TeardownTasksEnded(t)
      <4>1. pc[t] \in AtTransport /\ client' = client
        BY <3>2 DEF TeardownTasksEnded, At, AtTransport
      <4>2. QED
        BY <4>1 DEF LifeInv, CleanupInv
    <3>3. CASE ~TeardownCleanup(t) /\ ~TeardownTasksEnded(t)
      BY <1>1, <1>6, <3>3
      DEF TeardownJoined, TeardownDisconnected, TeardownWorker, JoinCancelled,
          Goto, AtTransport
    <3>4. QED
      BY <3>1, <3>2, <3>3
  <2>4. \A u \in Task : pc'[u] \in AtTransport /\ u # t =>
                            pc[u] \in AtTransport /\ client.cleanupDone
    BY <2>1 DEF LifeInv, CleanupInv
  <2>5. \A w \in Workers : Alive(w)' => Alive(w)
    BY <1>5, <2>1, TaskKinds DEF Alive, Ended, Teardown
  <2>6. \A u \in Task : Torn(t, u)
    BY <1>3, <1>5, <2>1, <2>2, <2>3, <2>4, HandshakeParts DEF Torn
  <2>7. \A c \in Callers : pc'[c] # pc[c] =>
            pc[c] \in Teardown /\ pc'[c] \in Teardown
    BY <1>5, <2>1, <2>2, TaskKinds
  <2>8. QED
    BY <1>2, <1>4, <2>5, <2>6, <2>7 DEF TearingStep
<1>7. CASE TeardownBegin(t)
  <2> DEFINE k == client.keepalive
  <2>1. /\ pc'[t] \in {"td_cleanup", "td_keepalive"}
        /\ k \in Keepalives \cup {NoTask}
        /\ k \in Keepalives => pc[k] # "none"
        /\ \A u \in Task \ {t} :
              \/ pc'[u] = pc[u]
              \/ u = k /\ k \in Keepalives /\ pc'[u] = "cancelled"
    BY <1>1, <1>7, TaskKinds
    DEF TeardownBegin, Joins, Goto, ClientType, LifeInv, JoinInv, Joinable
  <2>2. pc'[t] \in Teardown /\ pc'[t] \notin AtTransport
    BY <2>1 DEF Teardown, AtTransport
  <2>3. "cancelled" \notin Teardown \cup AtTransport \cup {"none"}
    BY DEF Teardown, AtTransport
  <2>4. \A u \in Task : pc'[u] \in AtTransport => client.cleanupDone /\ u # t
    BY <2>1, <2>2, <2>3 DEF LifeInv, CleanupInv
  <2>5. \A u \in Task : Torn(t, u)
    BY <1>3, <1>5, <2>1, <2>2, <2>3, <2>4, HandshakeParts DEF Torn
  <2>6. \A c \in Callers : pc'[c] # pc[c] =>
            pc[c] \in Teardown /\ pc'[c] \in Teardown
    BY <1>5, <2>1, <2>2, TaskKinds
  <2>7. \A w \in Workers : Alive(w)' => Alive(w)
    BY <1>5, <2>1, TaskKinds DEF Alive, Ended, Teardown
  <2>8. QED
    BY <1>2, <1>4, <2>5, <2>6, <2>7 DEF TearingStep
<1>8. CASE TeardownDisconnect(t)
  <2>1. /\ pc[t] = "td_stop" /\ pc'[t] \in {"td_tasks", "td_disc", "idle"}
        /\ pc'[t] = "idle" => t = Notifier
        /\ \A u \in Task \ {t} :
              pc'[u] = pc[u] \/ (u = Notifier /\ pc'[u] = "idle")
    BY <1>1, <1>8 DEF TeardownDisconnect, At
  <2>2. /\ {"td_tasks", "td_disc"} \subseteq Teardown
        /\ "td_stop" \in AtTransport
        /\ "idle" \notin Teardown \cup AtTransport \cup {"none"}
    BY DEF Teardown, AtTransport
  <2>3. \A u \in Task : pc'[u] \in AtTransport =>
                            pc[u] \in AtTransport /\ client.cleanupDone
    BY <2>1, <2>2 DEF LifeInv, CleanupInv
  <2>4. \A u \in Task : Torn(t, u)
    BY <1>3, <1>5, <2>1, <2>2, <2>3, HandshakeParts DEF Torn
  <2>5. \A c \in Callers : pc'[c] # pc[c] =>
            pc[c] \in Teardown /\ pc'[c] \in Teardown
    BY <1>1, <1>5, <2>1, <2>2, TaskKinds
  <2>6. \A w \in Workers : Alive(w)' => Alive(w)
    BY <1>1, <1>5, <2>1, TaskKinds DEF Alive, Ended, Teardown
  <2>7. QED
    BY <1>2, <1>4, <2>4, <2>5, <2>6 DEF TearingStep
<1>9. CASE AbortJoin(t)
  <2> DEFINE a == awaiting[t]
  <2>1. a \in Joinable(Workers \cup Keepalives)
    BY DEF LifeInv, JoinInv
  <2>2. /\ pc'[t] = "td_abort"
        /\ \A u \in Task \ {t} :
              \/ pc'[u] = pc[u]
              \/ u = a /\ pc'[u] = AfterCancel(pc[u])
    BY <1>1, <1>9 DEF AbortJoin, AfterCancel
  <2>3. \A l \in Labels :
          /\ AfterCancel(l) \in Ended <=> l \in Ended
          /\ AfterCancel(l) \in Teardown => l \in Teardown
          /\ AfterCancel(l) \notin AtTransport \cup {"none"}
    BY DEF AfterCancel, Ended, Teardown, AtTransport
  <2>4. "td_abort" \in Teardown \ AtTransport
    BY DEF Teardown, AtTransport
  <2>5. \A u \in Task : pc'[u] \in AtTransport =>
                            pc[u] \in AtTransport /\ client.cleanupDone
    BY <1>1, <2>2, <2>3, <2>4 DEF LifeInv, CleanupInv
  <2>6. \A u \in Task : Torn(t, u)
    BY <1>1, <1>3, <1>5, <2>1, <2>2, <2>3, <2>4, <2>5, HandshakeParts
    DEF Torn, Joinable
  <2>7. \A c \in Callers : pc'[c] # pc[c] =>
            pc[c] \in Teardown /\ pc'[c] \in Teardown
    BY <1>1, <1>5, <2>1, <2>2, <2>4, TaskKinds DEF Joinable
  <2>8. \A w \in Workers : Alive(w)' => Alive(w)
    BY <1>1, <1>5, <2>1, <2>2, <2>3, TaskKinds
    DEF Alive, Joinable, Ended, Teardown
  <2>9. QED
    BY <1>2, <1>4, <2>6, <2>7, <2>8 DEF TearingStep
<1>10. QED
  BY <1>6, <1>7, <1>8, <1>9

(* A cancelled task lets go of what it has.                                  *)
Leaving(t) ==
    \/ t \in Callers /\ TeardownCancelled(t)
    \/ Aborted(t)
    \/ \E s \in Sessions : t = Worker(s) /\ WorkerCancelled(s)

(* What it is, and what is left of the client and the locks.                 *)
LEMMA LeavingParts ==
    ASSUME Typed, NEW t \in Task, Leaving(t)
    PROVE  /\ serving' = serving /\ lost' = lost
           /\ client'.session = client.session
           /\ client'.failure = client.failure
           /\ client'.status = client.status
           /\ client'.worker = client.worker
           /\ client'.keepalive = client.keepalive
           /\ client'.identified = client.identified
           /\ client'.cleanupDone = client.cleanupDone
           /\ client'.applied = client.applied
           /\ client'.closing = (client.closing /\ lock.lifecycle # t)
           /\ lock'.lifecycle = IF lock.lifecycle = t THEN NoTask
                                ELSE lock.lifecycle
           /\ pc[t] \in Teardown \cup {"lost", "cancelled"}
           /\ pc'[t] \in {"raised", "killed", "done", "next", "idle"}
           /\ t \in Workers => pc'[t] = "killed"
           /\ \A u \in Task \ {t} : pc'[u] = pc[u]
<1>1. client' = NotClosing(t) /\ lock' = LetGo(t) /\ serving' = serving
      /\ lost' = lost
  BY DEF Leaving, TeardownCancelled, Aborted, WorkerCancelled, Interrupting,
         others
<1>2. /\ pc[t] \in Teardown \cup {"lost", "cancelled"}
      /\ pc'[t] \in {"raised", "killed", "done", "next", "idle"}
      /\ t \in Workers => pc'[t] = "killed"
      /\ \A u \in Task \ {t} : pc'[u] = pc[u]
  BY TypedNow, AfterFailureType, TaskKinds
  DEF Leaving, TeardownCancelled, Aborted, WorkerCancelled, Goto, At,
      AtTransport, Teardown
<1>3. QED
  BY <1>1, <1>2, TypedNow DEF NotClosing, LetGo, ClientType, LockType

LEMMA LeavingLife ==
    ASSUME Typed, LossInv, LifeInv, NEW t \in Task, Leaving(t)
    PROVE  LifeInv'
<1>1. /\ NoTask \notin Task /\ awaiting \in [Task -> Task \cup {NoTask}]
  BY TypedNow, ConstantsAssumption
<1>2. serving' = serving
  BY LeavingParts
<1>3. /\ client'.session = client.session /\ client'.failure = client.failure
      /\ client'.status = client.status
      /\ client'.worker = client.worker /\ client'.keepalive = client.keepalive
      /\ client'.identified = client.identified
      /\ client'.cleanupDone = client.cleanupDone
      /\ client'.applied = client.applied
      /\ client'.closing = (client.closing /\ lock.lifecycle # t)
      /\ lock'.lifecycle = IF lock.lifecycle = t THEN NoTask
                           ELSE lock.lifecycle
  BY LeavingParts
<1>4. \A u \in Task : awaiting'[u] \in {awaiting[u], NoTask}
  BY <1>1
  DEF Leaving, TeardownCancelled, Aborted, WorkerCancelled, Interrupting,
      others
<1>5. /\ pc[t] \in Teardown \cup {"lost", "cancelled"}
      /\ pc'[t] \in {"raised", "killed", "done", "next", "idle"}
      /\ t \in Workers => pc'[t] = "killed"
      /\ \A u \in Task \ {t} : pc'[u] = pc[u]
  BY LeavingParts
<1>6. /\ pc[t] \notin Handshake
      /\ pc'[t] \notin Handshake \cup Teardown \cup {"none"}
  BY <1>5 DEF Handshake, HandshakeWait, Teardown
<1>7. OwnerInv'
  <2>1. lock'.lifecycle = NoTask => ~client'.closing
    BY <1>1, <1>3 DEF LifeInv, OwnerInv
  <2>2. ASSUME NEW u \in Task, lock'.lifecycle = u, ~client'.closing
        PROVE  u \in Callers /\ pc'[u] \in Handshake \cup Teardown
    <3>1. lock.lifecycle = u /\ u # t /\ ~client.closing
      BY <1>1, <1>3, <2>2
    <3>2. QED
      BY <1>5, <3>1 DEF LifeInv, OwnerInv
  <2>3. \A c \in Callers : pc'[c] \in Handshake => ~client'.closing
    BY <1>3, <1>5, <1>6, TaskKinds DEF LifeInv, OwnerInv
  <2>4. QED
    BY <2>1, <2>2, <2>3 DEF OwnerInv
<1>8. JoinInv'
  <2>1. \A u \in Task : pc[u] # "none" => pc'[u] # "none"
    BY <1>5
  <2>2. QED
    BY <1>3, <1>4, <2>1, TaskKinds DEF LifeInv, JoinInv, Joinable, Task
<1>9. TellerInv'
  BY <1>2, <1>3, <1>5, <1>6 DEF LifeInv, TellerInv, Telling
<1>10. SessionInv'
  <2>1. \A w \in Workers : Alive(w)' => Alive(w)
    BY <1>5, TaskKinds DEF Alive, Ended
  <2>2. QED
    BY <1>2, <1>3, <1>5, <1>6, <2>1, TaskKinds
    DEF LifeInv, SessionInv, SessionIsolation
<1>11. StatusInv'
  <2>1. ASSUME NEW c \in Callers PROVE Progress(c)'
    BY <1>3, <1>5, <1>6, ProgressAway, TaskKinds
    DEF LifeInv, StatusInv, Progress
  <2>2. IdentityBeforeRequests'
    BY <1>3, <1>5, <1>6, TaskKinds
    DEF LifeInv, StatusInv, IdentityBeforeRequests
  <2>3. QED
    BY <1>3, <2>1, <2>2 DEF LifeInv, StatusInv
<1>12. CleanupInv'
  BY <1>3, <1>5, <1>6, HandshakeParts
  DEF LifeInv, CleanupInv, CleanupExclusive, AtTransport
<1>13. QED
  BY <1>7, <1>8, <1>9, <1>10, <1>11, <1>12 DEF LifeInv

-----------------------------------------------------------------------------
(* Failures.                                                                 *)
LEMMA FailureMarkedLife ==
    ASSUME Typed, LossInv, LifeInv, NEW t \in Task, FailureMarked(t)
    PROVE  LifeInv'
<1>1. /\ pc[t] = "fail" /\ ~client.failure
      /\ client.status # "DISCONNECTED"
      /\ client' = [client EXCEPT !.failure = TRUE,
                                  !.status = "DISCONNECTED"]
      /\ serving' = [serving EXCEPT ![t] = client.session]
      /\ awaiting' = awaiting
  BY DEF FailureMarked, First, Failed
<1>2. /\ client'.session = client.session /\ client'.failure
      /\ client'.status = "DISCONNECTED" /\ client'.closing = client.closing
      /\ client'.worker = client.worker /\ client'.keepalive = client.keepalive
      /\ client'.cleanupDone = client.cleanupDone
      /\ client'.applied = client.applied
  BY <1>1, TypedNow DEF ClientType
<1>3. lock'.lifecycle = lock.lifecycle
  BY TypedNow DEF FailureMarked, Released, LockType
<1>4. /\ pc'[t] \in {"td_begin", "done", "next", "idle", "raised"}
      /\ \A u \in Task \ {t} : pc'[u] = pc[u]
  BY TypedNow, AfterFailureType DEF FailureMarked, Goto
<1>5. /\ serving'[t] = client.session
      /\ \A u \in Task \ {t} : serving'[u] = serving[u]
  BY <1>1, TypedNow
<1>6. pc[t] \notin Handshake \cup Teardown /\ pc'[t] \notin Handshake
  BY <1>1, <1>4 DEF Handshake, HandshakeWait, Teardown
<1>7. client.session \in Sessions
  BY <1>1 DEF LifeInv, StatusInv
<1>8. OwnerInv'
  BY <1>2, <1>3, <1>4, <1>6, TaskKinds DEF LifeInv, OwnerInv
<1>9. JoinInv'
  <2>1. \A u \in Task : pc[u] # "none" => pc'[u] # "none"
    BY <1>4
  <2>2. QED
    BY <1>1, <1>2, <2>1, TaskKinds DEF LifeInv, JoinInv, Joinable, Task
<1>10. TellerInv'
  <2>1. \A u \in Task : ~Telling(u)
    BY <1>1 DEF LifeInv, TellerInv
  <2>2. \A u \in Task \ {t} : ~Telling(u)'
    BY <1>3, <1>4, <2>1 DEF Telling
  <2>3. QED
    BY <1>2, <1>5, <2>2 DEF TellerInv
<1>11. SessionInv'
  <2>1. \A w \in Workers : Alive(w)' => Alive(w)
    BY <1>1, <1>4, TaskKinds DEF Alive, Ended
  <2>2. QED
    BY <1>2, <1>4, <1>5, <1>6, <2>1, TaskKinds
    DEF LifeInv, SessionInv, SessionIsolation
<1>12. StatusInv'
  <2>1. ASSUME NEW c \in Callers PROVE Progress(c)'
    <3>1. CASE pc'[c] \in Handshake
      <4>1. pc'[c] = pc[c] /\ Progress(c)
        BY <1>4, <1>6, <3>1, TaskKinds DEF LifeInv, StatusInv
      <4>2. pc[c] # "connecting"
        BY <1>1, <4>1 DEF Progress
      <4>3. QED
        BY <1>2, <4>1, <4>2 DEF Progress
    <3>2. QED
      BY <3>1, ProgressAway
  <2>2. QED
    BY <1>2, <1>7, <2>1 DEF StatusInv, IdentityBeforeRequests
<1>13. CleanupInv'
  BY <1>2, <1>4 DEF LifeInv, CleanupInv, CleanupExclusive, AtTransport
<1>14. QED
  BY <1>8, <1>9, <1>10, <1>11, <1>12, <1>13 DEF LifeInv

LEMMA FailureNoticeLife ==
    ASSUME Typed, LossInv, LifeInv, NEW t \in Task, FailureNotice(t)
    PROVE  LifeInv'
<1>1. /\ pc[t] = "td_finish" /\ lock.lifecycle # t
      /\ client' = Disconnected(client) /\ lock' = lock
      /\ serving' = serving /\ awaiting' = awaiting
  BY DEF FailureNotice
<1>2. client.failure
  BY <1>1 DEF LifeInv, TellerInv, Telling, Teardown
<1>3. /\ client'.session = client.session /\ client'.failure
      /\ client'.status = "DISCONNECTED" /\ client'.closing = client.closing
      /\ client'.worker = client.worker /\ client'.keepalive = client.keepalive
      /\ client'.cleanupDone = client.cleanupDone /\ client'.applied = {}
  BY <1>1, <1>2, TypedNow DEF Disconnected, Cleared, ClientType
<1>4. /\ pc'[t] = "lost"
      /\ \A u \in Task \ {t} : pc'[u] = pc[u]
  BY TypedNow DEF FailureNotice, Goto
<1>5. /\ pc[t] \notin Handshake
      /\ pc'[t] \notin Handshake \cup Teardown \cup {"none"}
  BY <1>1, <1>4 DEF Handshake, HandshakeWait, Teardown
<1>6. client.session \in Sessions
  BY <1>2 DEF LifeInv, StatusInv
<1>7. OwnerInv'
  BY <1>1, <1>3, <1>4, <1>5, TaskKinds DEF LifeInv, OwnerInv
<1>8. JoinInv'
  <2>1. \A u \in Task : pc[u] # "none" => pc'[u] # "none"
    BY <1>4
  <2>2. QED
    BY <1>1, <1>3, <2>1, TaskKinds DEF LifeInv, JoinInv, Joinable, Task
<1>9. TellerInv'
  BY <1>1, <1>2, <1>3, <1>4, <1>5 DEF LifeInv, TellerInv, Telling
<1>10. SessionInv'
  <2>1. \A w \in Workers : Alive(w)' => Alive(w)
    BY <1>1, <1>4, TaskKinds DEF Alive, Ended
  <2>2. QED
    BY <1>1, <1>3, <1>4, <1>5, <2>1, TaskKinds
    DEF LifeInv, SessionInv, SessionIsolation
<1>11. StatusInv'
  <2>1. ASSUME NEW c \in Callers PROVE Progress(c)'
    <3>1. CASE pc'[c] \in Handshake
      <4>1. pc'[c] = pc[c] /\ Progress(c)
        BY <1>4, <1>5, <3>1, TaskKinds DEF LifeInv, StatusInv
      <4>2. pc[c] # "connecting"
        BY <1>2, <4>1 DEF Progress
      <4>3. QED
        BY <1>3, <4>1, <4>2 DEF Progress
    <3>2. QED
      BY <3>1, ProgressAway
  <2>2. QED
    BY <1>3, <1>6, <2>1 DEF StatusInv, IdentityBeforeRequests
<1>12. CleanupInv'
  BY <1>3, <1>4 DEF LifeInv, CleanupInv, CleanupExclusive, AtTransport
<1>13. QED
  BY <1>7, <1>8, <1>9, <1>10, <1>11, <1>12 DEF LifeInv

-----------------------------------------------------------------------------
(* The kinds of step a patient application's behaviour is made of.           *)
PatientStep ==
    \/ Outside
    \/ Quiescent /\ \E c \in Callers : ConnectStart(c)
    \/ \E c \in Callers :
        ConnectMoves(c) \/ ConnectTransportUp(c) \/ ConnectTakeReport(c)
    \/ \E t \in Task : \/ DisconnectStart(t) \/ CallEnds(t)
                      \/ TearingStep(t) \/ Leaving(t)
                      \/ FailureMarked(t) \/ FailureNotice(t)

LEMMA PatientStepKinds ==
    ASSUME Typed, LossInv, LifeInv, [PatientNext]_vars
    PROVE  PatientStep
<1>1. [Next]_vars /\ (Opens => Quiescent \/ UNCHANGED vars)
  BY DEF PatientNext
<1>2. ASSUME NEW c \in Callers, Connecting(c) PROVE PatientStep
  <2>1. CASE ConnectStart(c)
    <3>1. Opens /\ pc' # pc
      BY <2>1, ConnectStartOpens, TypedNow, TaskKinds
      DEF ConnectStart, At, Goto
    <3>2. QED
      BY <1>1, <2>1, <3>1 DEF vars, PatientStep
  <2>2. CASE ConnectNoop(c)
    BY <2>2, CallsOutside DEF PatientStep
  <2>3. CASE ConnectRaises(c)
    BY <2>3, TaskKinds DEF PatientStep, CallEnds
  <2>4. QED
    BY <1>2, <2>1, <2>2, <2>3 DEF Connecting, ConnectMoves, PatientStep
<1>3. ASSUME NEW c \in Callers,
             CallConnect(c) \/ CallDisconnect(c) \/ CallWrite(c) \/ Writing(c)
      PROVE  PatientStep
  BY <1>3, CallsOutside DEF PatientStep
<1>4. ASSUME NEW c \in Callers, Cancelling(c) PROVE PatientStep
  <2>1. CASE CancelledInLine(c)
    BY <2>1, CallsOutside DEF PatientStep
  <2>2. CASE TeardownCancelled(c)
    BY <2>2, TaskKinds DEF PatientStep, Leaving
  <2>3. CASE JoinCancelled(c)
    BY <2>3, TearingDownSteps, TaskKinds DEF PatientStep
  <2>4. QED
    BY <1>4, <2>1, <2>2, <2>3 DEF Cancelling
<1>5. ASSUME NEW t \in Task, Disconnecting(t) PROVE PatientStep
  BY <1>5 DEF Disconnecting, PatientStep, CallEnds
<1>6. ASSUME NEW t \in Task, TearingDown(t) PROVE PatientStep
  <2>1. CASE Aborted(t)
    BY <2>1 DEF PatientStep, Leaving
  <2>2. CASE ~Aborted(t)
    BY <1>6, <2>2, TearingDownSteps DEF TearingDown, PatientStep
  <2>3. QED
    BY <2>1, <2>2
<1>7. ASSUME NEW t \in Task, Failing(t) PROVE PatientStep
  <2>1. CASE FailureMarked(t) \/ FailureNotice(t)
    BY <2>1 DEF PatientStep
  <2>2. CASE ~(FailureMarked(t) \/ FailureNotice(t))
    BY <1>7, <2>2, FailureOutside DEF Failing, PatientStep
  <2>3. QED
    BY <2>1, <2>2
<1>8. ASSUME NEW s \in Sessions, Working(s) PROVE PatientStep
  <2>1. CASE WorkerCancelled(s)
    BY <2>1, TaskKinds DEF PatientStep, Leaving
  <2>2. CASE ~WorkerCancelled(s)
    BY <1>8, <2>2, WorkingOutside DEF Working, PatientStep
  <2>3. QED
    BY <2>1, <2>2
<1>9. ASSUME NEW s \in Sessions, KeepingAlive(s) PROVE PatientStep
  BY <1>9, KeepingAliveOutside DEF PatientStep
<1>10. ASSUME \/ \E m \in Kinds : NotifyQueued(m) \/ NotifyInline(m)
              \/ LinkLoss \/ UNCHANGED vars
       PROVE  PatientStep
  BY <1>10, OthersOutside DEF PatientStep
<1>11. QED
  BY <1>1, <1>2, <1>3, <1>4, <1>5, <1>6, <1>7, <1>8, <1>9, <1>10, StepKinds

LEMMA NextLife ==
    ASSUME Typed, LossInv, LifeInv, [PatientNext]_vars
    PROVE  LifeInv'
  BY PatientStepKinds, OutsideKeeps, ConnectStartLife, ConnectMovesLife,
     TransportUpLife, TakeReportLife, DisconnectStartLife, CallEndsLife,
     TearingKeeps, LeavingLife, FailureMarkedLife, FailureNoticeLife
  DEF PatientStep

(* A step that starts no task and brings nobody into the handshake.          *)
LEMMA StartKept ==
    ASSUME StartInv, \A s \in Sessions : Fresh(s)' => Fresh(s),
           \A u \in Workers \cup Keepalives : pc[u] = "none" => pc'[u] = "none",
           \A c \in Callers : pc'[c] \in Handshake =>
               /\ pc[c] \in Handshake /\ serving'[c] = serving[c]
               /\ pc'[c] = "connecting" => pc[c] = "connecting"
    PROVE  StartInv'
  BY TaskKinds DEF StartInv, Handshake

LEMMA InitStart == Init => StartInv
  BY TaskKinds DEF Init, StartInv, Handshake, HandshakeWait

LEMMA NextStart ==
    ASSUME Typed, LossInv, LifeInv, StartInv, [PatientNext]_vars
    PROVE  StartInv'
<1>1. /\ PatientStep
      /\ \A s \in Sessions : Fresh(s)' => Fresh(s)
  BY PatientStepKinds, NextFresh DEF PatientNext
<1>2. CASE Outside
  BY <1>1, <1>2, StartKept, TaskKinds DEF Outside, Inside
<1>3. ASSUME NEW c \in Callers, ConnectStart(c) PROVE StartInv'
  <2> DEFINE r == serving[c]
  <2>1. /\ pc[c] = "connect" /\ lock.lifecycle = NoTask
        /\ pc'[c] = "connecting" /\ serving' = serving
        /\ \A u \in Task \ {c} : pc'[u] = pc[u]
        /\ r \in Sessions /\ NoTask \notin Task
    BY <1>3, ConnectStartOpens, TypedNow, TaskKinds, ConstantsAssumption
    DEF ConnectStart, At, Goto, others
  <2>2. \A d \in Callers \ {c} : pc'[d] \notin Handshake
    BY <2>1, TaskKinds DEF LossInv, Locked
  <2>3. Fresh(r)
    BY <2>1 DEF Fresh, Ahead
  <2>4. \A u \in Workers \cup Keepalives : pc'[u] = pc[u]
    BY <2>1, TaskKinds
  <2>5. QED
    BY <1>1, <2>1, <2>2, <2>3, <2>4, TaskKinds DEF StartInv, Handshake
<1>4. ASSUME NEW c \in Callers, ConnectMoves(c) PROVE StartInv'
  <2>1. /\ serving' = serving /\ \A u \in Task \ {c} : pc'[u] = pc[u]
        /\ pc[c] \in Handshake
        /\ pc'[c] = "connecting" => pc[c] = "connecting"
    BY <1>4, TypedNow
    DEF ConnectMoves, ConnectSendRequest, ConnectAwaitAnswer, ConnectDiscard,
        ConnectTakeBlespp, ConnectTakeInfo, ConnectFails, ConnectTake, At,
        Goto, Handshake, HandshakeWait, others
  <2>2. QED
    BY <1>1, <2>1, StartKept, TaskKinds
<1>5. ASSUME NEW c \in Callers, ConnectTransportUp(c) PROVE StartInv'
  <2> DEFINE w == Worker(serving[c])
  <2>1. /\ pc[c] = "connecting" /\ c \in Task /\ serving[c] \in Sessions
        /\ w \in Workers /\ w \in Task /\ w # c
    BY <1>5, TypedNow, TaskKinds
    DEF ConnectTransportUp, At, ConnectServes, Handshake
  <2>2. /\ pc'[c] = "subscribing" /\ serving' = serving
        /\ \A u \in Task \ {c, w} : pc'[u] = pc[u]
    BY <1>5, <2>1, TypedNow DEF ConnectTransportUp, others
  <2>3. /\ lock.lifecycle = c /\ client.session = serving[c]
        /\ \A d \in Callers \ {c} : pc[d] \notin Handshake
    BY <2>1, HandshakeAlone
    DEF LossInv, Locked, LifeInv, SessionInv, Handshake
  <2>4. ~Fresh(serving[c])
    BY <2>1, <2>3 DEF LossInv, Once
  <2>5. \A s \in Sessions : Worker(s) = w => s = serving[c]
    BY DEF Worker
  <2>6. \A k \in Keepalives : pc'[k] = pc[k]
    BY <2>1, <2>2, TaskKinds
  <2>7. \A s \in Sessions : s # serving[c] => pc'[Worker(s)] = pc[Worker(s)]
    BY <2>1, <2>2, <2>5, TaskKinds
  <2>8. \A d \in Callers \ {c} : pc'[d] \notin Handshake
    BY <2>1, <2>2, <2>3, TaskKinds
  <2>9. QED
    BY <1>1, <2>1, <2>2, <2>4, <2>6, <2>7, <2>8, TaskKinds
    DEF StartInv, Handshake
<1>6. ASSUME NEW c \in Callers, ConnectTakeReport(c) PROVE StartInv'
  <2> DEFINE k == Keepalive(serving[c])
  <2>1. /\ pc[c] = "report" /\ c \in Task /\ serving[c] \in Sessions
        /\ k \in Keepalives /\ k \in Task /\ k # c /\ k \notin Workers
    BY <1>6, TypedNow, TaskKinds
    DEF ConnectTakeReport, ConnectTake, At, ConnectServes, Handshake,
        HandshakeWait
  <2>2. /\ pc'[c] = "returned"
        /\ \A u \in Task \ {c, k} : pc'[u] = pc[u]
    BY <1>6, <2>1, TypedNow DEF ConnectTakeReport
  <2>3. /\ lock.lifecycle = c /\ client.session = serving[c]
        /\ \A d \in Callers \ {c} : pc[d] \notin Handshake
    BY <2>1, HandshakeAlone
    DEF LossInv, Locked, LifeInv, SessionInv, Handshake, HandshakeWait
  <2>4. ~Fresh(serving[c])
    BY <2>1, <2>3 DEF LossInv, Once
  <2>5. \A s \in Sessions : Keepalive(s) = k => s = serving[c]
    BY DEF Keepalive
  <2>6. \A w \in Workers : pc'[w] = pc[w]
    BY <2>1, <2>2, TaskKinds
  <2>7. \A s \in Sessions : s # serving[c] =>
                              pc'[Keepalive(s)] = pc[Keepalive(s)]
    BY <2>1, <2>2, <2>5, TaskKinds
  <2>8. \A d \in Callers : pc'[d] \notin Handshake
    BY <2>1, <2>2, <2>3, TaskKinds DEF Handshake, HandshakeWait
  <2>9. QED
    BY <1>1, <2>4, <2>6, <2>7, <2>8, TaskKinds DEF StartInv, Handshake
<1>7. ASSUME NEW t \in Task,
             \/ DisconnectStart(t) \/ CallEnds(t) \/ Leaving(t)
             \/ FailureMarked(t) \/ FailureNotice(t)
      PROVE  StartInv'
  <2>1. /\ \A u \in Task \ {t} : /\ pc'[u] = pc[u]
                                 /\ serving'[u] = serving[u]
        /\ pc[t] \in Teardown \cup {"disconnect", "fail", "lost", "cancelled"}
        /\ pc'[t] \in {"td_begin", "lost", "returned", "done", "next", "idle",
                        "raised", "killed"}
    BY <1>7, TypedNow, AfterFailureType, LeavingParts
    DEF DisconnectStart, CallEnds, ConnectRaises, DisconnectReturns,
        FailureMarked, FailureNotice, At, Goto, Teardown, others
  <2>2. pc[t] # "none" /\ pc'[t] \notin Handshake
    BY <2>1 DEF Teardown, Handshake, HandshakeWait
  <2>3. QED
    BY <1>1, <2>1, <2>2, StartKept, TaskKinds
<1>8. ASSUME NEW t \in Task, TearingStep(t) PROVE StartInv'
  <2>1. \A c \in Callers : pc'[c] \in Handshake => pc'[c] = pc[c]
    BY <1>8, HandshakeParts DEF TearingStep
  <2>2. \A u \in Workers \cup Keepalives : pc[u] = "none" => pc'[u] = "none"
    BY <1>8, TaskKinds DEF TearingStep, Torn
  <2>3. serving' = serving
    BY <1>8 DEF TearingStep, TornClient
  <2>4. QED
    BY <1>1, <2>1, <2>2, <2>3, StartKept
<1>9. QED
  BY <1>1, <1>2, <1>3, <1>4, <1>5, <1>6, <1>7, <1>8 DEF PatientStep

Inductive == Typed /\ Numbered /\ LossInv /\ LifeInv /\ StartInv

LEMMA LifeHolds == PatientSpec => []Inductive
<1>1. Init => Inductive
  BY InitTyped, InitNumbered, InitLoss, InitLife, InitStart DEF Inductive
<1>2. Inductive /\ [PatientNext]_vars => Inductive'
  <2>1. [PatientNext]_vars => [Next]_vars
    BY DEF PatientNext
  <2>2. QED
    BY <2>1, NextTyped, NextNumbered, NextLoss, NextLife, NextStart
    DEF Inductive
<1>3. QED
  BY <1>1, <1>2, PTL DEF PatientSpec

(* _cleanup_transport: of a teardown of connect(), one of disconnect() and   *)
(* one of a failure, however they overlap, one is at the transport.          *)
THEOREM OneAtTheTransport == PatientSpec => []CleanupExclusive
<1>1. Inductive => CleanupExclusive
  BY DEF Inductive, LifeInv, CleanupInv
<1>2. QED
  BY <1>1, LifeHolds, PTL

(* _reset_session with the workers' queues: what client.state shows was      *)
(* reported in the session that is open, or the last one that was.           *)
THEOREM StateIsOfTheSession == PatientSpec => []SessionIsolation
<1>1. Inductive => SessionIsolation
  BY DEF Inductive, LifeInv, SessionInv
<1>2. QED
  BY <1>1, LifeHolds, PTL

(* The handshake of connect(): the requests after BLESPP go to a device      *)
(* whose identity is known, unless the session has failed meanwhile.         *)
THEOREM IdentityComesFirst == PatientSpec => []IdentityBeforeRequests
<1>1. Inductive => IdentityBeforeRequests
  BY DEF Inductive, LifeInv, StatusInv
<1>2. QED
  BY <1>1, LifeHolds, PTL

(* _handle_session_failure, the except clause of connect() and disconnect()  *)
(* are the only ways back to DISCONNECTED: what happens to a session that is *)
(* not DISCONNECTED is recorded as its failure, or is done by a call that    *)
(* has the lifecycle lock.                                                   *)
THEOREM EndsForCause == PatientSpec => SessionEndsForCause
<1> DEFINE Caused ==
             client.status # "DISCONNECTED" /\ client'.status = "DISCONNECTED"
                 => client'.failure \/ lock.lifecycle # NoTask
<1>1. Inductive /\ [PatientNext]_vars => [Caused]_vars
  <2> SUFFICES ASSUME Inductive, [PatientNext]_vars PROVE Caused
    OBVIOUS
  <2>1. /\ Typed /\ LossInv /\ LifeInv /\ PatientStep
        /\ \A t \in Task : t # NoTask
    BY PatientStepKinds, ConstantsAssumption DEF Inductive
  <2>2. CASE Outside
    BY <2>2 DEF Outside, Refreshed
  <2>3. ASSUME NEW c \in Callers,
               \/ ConnectMoves(c) \/ ConnectTransportUp(c)
               \/ ConnectTakeReport(c)
        PROVE  Caused
    <3>1. pc[c] \in Handshake
      BY <2>3
      DEF ConnectMoves, ConnectSendRequest, ConnectAwaitAnswer,
          ConnectDiscard, ConnectTakeBlespp, ConnectTakeInfo, ConnectFails,
          ConnectTransportUp, ConnectTakeReport, ConnectTake, At, Handshake,
          HandshakeWait
    <3>2. QED
      BY <2>1, <3>1, TaskKinds DEF LossInv, Locked
  <2>4. ASSUME NEW c \in Callers, ConnectStart(c) PROVE Caused
    BY <2>4 DEF ConnectStart
  <2>5. ASSUME NEW t \in Task, DisconnectStart(t) PROVE Caused
    BY <2>1, <2>5, TypedNow DEF DisconnectStart, ClientType
  <2>6. ASSUME NEW t \in Task, CallEnds(t) PROVE Caused
    BY <2>1, <2>6 DEF CallEnds, ConnectRaises, DisconnectReturns
  <2>7. ASSUME NEW t \in Task, TearingStep(t) \/ Leaving(t) PROVE Caused
    BY <2>1, <2>7, LeavingParts DEF TearingStep, TornClient
  <2>8. ASSUME NEW t \in Task, FailureMarked(t) PROVE Caused
    BY <2>1, <2>8, TypedNow DEF FailureMarked, Failed, ClientType
  <2>9. ASSUME NEW t \in Task, FailureNotice(t) PROVE Caused
    <3>1. client.failure
      BY <2>1, <2>9
      DEF FailureNotice, LifeInv, TellerInv, Telling, Teardown
    <3>2. QED
      BY <2>1, <2>9, <3>1, TypedNow
      DEF FailureNotice, Disconnected, Cleared, ClientType
  <2>10. QED
    BY <2>1, <2>2, <2>3, <2>4, <2>5, <2>6, <2>7, <2>8, <2>9 DEF PatientStep
<1>2. QED
  BY <1>1, LifeHolds, PTL DEF PatientSpec, SessionEndsForCause

-----------------------------------------------------------------------------
(* SolarFlowClient implements SessionContract for applications that open a   *)
(* session only once the one before is completely over.  First, the state of *)
(* the contract.                                                             *)
Due == \E t \in Task : Telling(t)
Heard == {s \in Sessions : lost[s] > 0}

LEMMA PhaseCases ==
    /\ client.failure => Phase = "failed"
    /\ ~client.failure /\ client.status = "READY" => Phase = "ready"
    /\ ~client.failure /\ client.status = "DISCONNECTED"
         /\ (lock.lifecycle = NoTask \/ client.closing) => Phase = "closed"
    /\ ~client.failure /\ client.status # "READY"
         /\ (client.status = "DISCONNECTED" =>
                lock.lifecycle # NoTask /\ ~client.closing) => Phase = "open"
  BY DEF Phase

LEMMA PhaseCasesNext ==
    /\ client'.failure => Phase' = "failed"
    /\ ~client'.failure /\ client'.status = "READY" => Phase' = "ready"
    /\ ~client'.failure /\ client'.status = "DISCONNECTED"
         /\ (lock'.lifecycle = NoTask \/ client'.closing) => Phase' = "closed"
    /\ ~client'.failure /\ client'.status # "READY"
         /\ (client'.status = "DISCONNECTED" =>
                lock'.lifecycle # NoTask /\ ~client'.closing) => Phase' = "open"
  BY DEF Phase

(* A step of the contract, or one it does not see.                           *)
Seen == [Contract!Next]_(Contract!vars)

LEMMA Unseen ==
    ASSUME client'.session = client.session, Phase' = Phase, Call' = Call,
           Due' = Due, lost' = lost
    PROVE  Seen
  BY DEF Seen, Contract!vars, Due

LEMMA InitSeen == Init => Contract!Init
<1> SUFFICES ASSUME Init PROVE Contract!Init
  OBVIOUS
<1>1. \A t \in Task : pc[t] \in {"idle", "none"}
  BY DEF Init
<1>2. \A t \in Task : ~Telling(t)
  BY <1>1 DEF Telling, Teardown
<1>3. Phase = "closed" /\ Call = "none"
  BY DEF Init, Phase, Call
<1>4. {s \in Sessions : lost[s] > 0} = {}
  BY DEF Init
<1>5. QED
  BY <1>2, <1>3, <1>4 DEF Contract!Init, Init

LEMMA OutsideSeen ==
    ASSUME Typed, LifeInv, Outside PROVE Seen
<1>1. /\ client'.session = client.session /\ client'.failure = client.failure
      /\ client'.closing = client.closing /\ lost' = lost
      /\ lock'.lifecycle = lock.lifecycle
  BY DEF Outside
<1>2. \A t \in Task : Telling(t)' <=> Telling(t)
  BY <1>1 DEF Outside, Inside, Telling
<1>3. Due' = Due /\ Call' = Call
  BY <1>1, <1>2 DEF Due, Call
<1>4. CASE client.failure \/ client'.status = client.status
  <2>1. Phase' = Phase
    BY <1>1, <1>4, PhaseCases, PhaseCasesNext DEF Phase
  <2>2. QED
    BY <1>1, <1>3, <2>1, Unseen
<1>5. CASE ~client.failure /\ client.status = "PROTOCOL_READY"
           /\ client'.status = "READY"
  <2>1. Phase = "open" /\ Phase' = "ready"
    BY <1>1, <1>5, PhaseCases, PhaseCasesNext
  <2>2. Contract!Establish
    BY <1>1, <1>3, <2>1 DEF Contract!Establish, Due
  <2>3. QED
    BY <2>2 DEF Seen, Contract!Next
<1>6. QED
  BY <1>4, <1>5 DEF Outside, Refreshed

LEMMA ConnectStartSeen ==
    ASSUME Typed, LossInv, LifeInv, Quiescent,
           NEW c \in Callers, ConnectStart(c)
    PROVE  Seen
<1> DEFINE s == serving[c]
<1>1. /\ pc[c] = "connect" /\ lock.lifecycle = NoTask
      /\ client.status = "DISCONNECTED" /\ ~client.closing
      /\ c \in Task /\ NoTask \notin Task
  BY TaskKinds, ConstantsAssumption DEF ConnectStart, At, LifeInv, OwnerInv
<1>2. /\ client'.session = s /\ s \in Sessions /\ ~client'.failure
      /\ client'.status = "DISCONNECTED" /\ ~client'.closing
      /\ lock'.lifecycle = c /\ lost' = lost
  BY <1>1, ConnectStartOpens, TypedNow
  DEF ConnectStart, Begun, Cleared, ClientType, LockType, others
<1>3. \A u \in Task : pc[u] \notin Teardown /\ pc'[u] \notin Teardown
  <2>1. \A u \in Task : pc[u] \notin Teardown
    BY <1>1 DEF Quiescent, FailureHandler
  <2>2. QED
    BY <2>1, TypedNow DEF ConnectStart, Goto, Teardown
<1>4. ~Due /\ ~Due'
  BY <1>3 DEF Due, Telling
<1>5. Phase \in {"closed", "failed"} /\ Call = "none"
  BY <1>1, PhaseCases DEF Call
<1>6. Phase' = "open" /\ Call' = "connect"
  BY <1>1, <1>2, PhaseCasesNext DEF Call
<1>7. s \notin {r \in Sessions : lost[r] > 0}
  <2>1. Ahead(c, s) /\ Once(s)
    BY <1>1, <1>2 DEF Ahead, LossInv
  <2>2. lost[s] = 0
    BY <2>1 DEF Once, Fresh, Unheard
  <2>3. QED
    BY <2>2
<1>8. Contract!Connect(s)
  BY <1>2, <1>4, <1>5, <1>6, <1>7 DEF Contract!Connect, Due
<1>9. QED
  BY <1>2, <1>8 DEF Seen, Contract!Next

(* A step of a caller with the lock, that was and is in no failure's         *)
(* teardown, leaves what is due to others.                                   *)
LEMMA OthersDue ==
    ASSUME NEW t \in Task, ~Telling(t), ~Telling(t)',
           \A u \in Task \ {t} : Telling(u)' <=> Telling(u)
    PROVE  Due' = Due
  BY DEF Due

LEMMA HandshakeSeen ==
    ASSUME Typed, LossInv, LifeInv, StartInv, NEW c \in Callers,
           \/ ConnectMoves(c) \/ ConnectTransportUp(c) \/ ConnectTakeReport(c)
    PROVE  Seen
<1>1. /\ c \in Task /\ c # NoTask
      /\ pc \in [Task -> Labels] /\ client \in ClientType /\ lock \in LockType
  BY TypedNow, TaskKinds
<1>2. pc[c] \in Handshake
  BY DEF ConnectMoves, ConnectSendRequest, ConnectAwaitAnswer, ConnectDiscard,
         ConnectTakeBlespp, ConnectTakeInfo, ConnectFails, ConnectTransportUp,
         ConnectTakeReport, ConnectTake, At, Handshake, HandshakeWait
<1>3. /\ lock.lifecycle = c /\ ~client.closing /\ Progress(c)
      /\ pc[c] \notin Teardown
  BY <1>2, HandshakeParts DEF LossInv, Locked, LifeInv, OwnerInv, StatusInv
<1>4. /\ client'.session = client.session /\ client'.failure = client.failure
      /\ client'.closing = client.closing /\ lost' = lost
  BY <1>1
  DEF ConnectMoves, ConnectSendRequest, ConnectAwaitAnswer, ConnectDiscard,
      ConnectTakeBlespp, ConnectTakeInfo, ConnectFails, ConnectTransportUp,
      ConnectTakeReport, Opened, Ready, ClientType, others
<1>5. serving[c] \in Sessions
  BY <1>2, TypedNow DEF ConnectServes
<1>6. Call = "connect"
  BY <1>1, <1>3 DEF Call
<1>7. CASE ConnectMoves(c) \/ ConnectTransportUp(c)
  <2>1. lock' = lock /\ pc'[c] \in Handshake \cup {"td_begin"}
    BY <1>1, <1>7
    DEF ConnectMoves, ConnectSendRequest, ConnectAwaitAnswer, ConnectDiscard,
        ConnectTakeBlespp, ConnectTakeInfo, ConnectFails, ConnectTransportUp,
        ConnectTake, At, Goto, Handshake, HandshakeWait, others
  <2>2. \A u \in Task \ {c} : Telling(u)' <=> Telling(u)
    <3>1. CASE ConnectMoves(c)
      <4>1. \A u \in Task \ {c} : pc'[u] = pc[u]
        BY <1>1, <3>1
        DEF ConnectMoves, ConnectSendRequest, ConnectAwaitAnswer,
            ConnectDiscard, ConnectTakeBlespp, ConnectTakeInfo, ConnectFails,
            Goto
      <4>2. QED
        BY <2>1, <4>1 DEF Telling
    <3>2. CASE ConnectTransportUp(c)
      <4>1. /\ pc[c] = "connecting" /\ pc[Worker(serving[c])] = "none"
            /\ \A u \in Task \ {c} :
                  pc'[u] = IF u = Worker(serving[c]) THEN "run" ELSE pc[u]
        BY <1>1, <1>5, <3>2 DEF ConnectTransportUp, At, StartInv
      <4>2. QED
        BY <2>1, <4>1 DEF Telling, Teardown
    <3>3. QED
      BY <1>7, <3>1, <3>2
  <2>3. Due' = Due
    BY <1>1, <1>3, <2>1, <2>2, OthersDue DEF Telling
  <2>4. Call' = Call
    BY <1>4, <2>1 DEF Call
  <2>5. Phase' = Phase
    <3>1. CASE client.failure
      BY <1>4, <3>1, PhaseCases, PhaseCasesNext
    <3>2. CASE ~client.failure /\ client'.status = client.status
      BY <1>4, <2>1, <3>2 DEF Phase
    <3>3. CASE ~client.failure /\ client'.status # client.status
      <4>1. /\ client.status \in {"DISCONNECTED", "CONNECTED"}
            /\ client'.status \in {"CONNECTED", "PROTOCOL_READY"}
        <5>1. CASE ConnectTakeInfo(c)
          BY <1>1, <1>3, <5>1
          DEF ConnectTakeInfo, ConnectTake, At, ClientType, Progress,
              Unconfirmed
        <5>2. CASE ConnectTransportUp(c)
          BY <1>1, <1>3, <5>2
          DEF ConnectTransportUp, At, Opened, ClientType, Progress
        <5>3. CASE ~ConnectTakeInfo(c) /\ ~ConnectTransportUp(c)
          BY <1>1, <1>7, <3>3, <5>3
          DEF ConnectMoves, ConnectSendRequest, ConnectAwaitAnswer,
              ConnectDiscard, ConnectTakeBlespp, ConnectFails, ClientType
        <5>4. QED
          BY <5>1, <5>2, <5>3
      <4>2. QED
        BY <1>1, <1>3, <1>4, <2>1, <3>3, <4>1, PhaseCases, PhaseCasesNext
    <3>4. QED
      BY <3>1, <3>2, <3>3
  <2>6. QED
    BY <1>4, <2>3, <2>4, <2>5, Unseen
<1>8. CASE ConnectTakeReport(c)
  <2> DEFINE k == Keepalive(serving[c])
  <2>1. /\ pc[c] = "report" /\ lock'.lifecycle = NoTask
        /\ client'.status = Refreshed(client.status)
    BY <1>1, <1>8
    DEF ConnectTakeReport, ConnectTake, At, Ready, ClientType, LockType
  <2>2. /\ k \in Task /\ k # c /\ pc[k] = "none"
    BY <1>2, <1>5, TaskKinds DEF StartInv
  <2>3. /\ pc'[c] = "returned" /\ pc'[k] = "k_sleep"
        /\ \A u \in Task \ {c, k} : pc'[u] = pc[u]
    BY <1>1, <1>8, <2>2 DEF ConnectTakeReport
  <2>4. \A u \in Task \ {c} : Telling(u)' <=> Telling(u)
    BY <1>3, <2>1, <2>2, <2>3, ConstantsAssumption DEF Telling, Teardown
  <2>5. Due' = Due
    BY <1>1, <1>3, <2>3, <2>4, OthersDue DEF Telling, Teardown
  <2>6. Call' = "none"
    BY <2>1 DEF Call
  <2>7. CASE client.failure \/ client.status = "READY"
    <3>1. Phase' = Phase
      BY <1>4, <2>1, <2>7, PhaseCases, PhaseCasesNext DEF Refreshed
    <3>2. Contract!End
      BY <1>4, <1>6, <2>5, <2>6, <3>1 DEF Contract!End, Due
    <3>3. QED
      BY <3>2 DEF Seen, Contract!Next
  <2>8. CASE ~client.failure /\ client.status # "READY"
    <3>1. client.status = "PROTOCOL_READY"
      BY <1>1, <1>3, <2>1, <2>8 DEF Progress, Confirmed, ClientType
    <3>2. Phase = "open" /\ Phase' = "ready"
      BY <1>4, <2>1, <2>8, <3>1, PhaseCases, PhaseCasesNext DEF Refreshed
    <3>3. Contract!Establish
      BY <1>4, <2>5, <2>6, <3>2 DEF Contract!Establish, Due
    <3>4. QED
      BY <3>3 DEF Seen, Contract!Next
  <2>9. QED
    BY <2>7, <2>8
<1>9. QED
  BY <1>7, <1>8

LEMMA DisconnectStartSeen ==
    ASSUME Typed, LossInv, LifeInv, NEW t \in Task, DisconnectStart(t)
    PROVE  Seen
<1>1. /\ pc[t] = "disconnect" /\ lock.lifecycle = NoTask /\ t # NoTask
      /\ lock'.lifecycle = t /\ lost' = lost
  BY TypedNow, ConstantsAssumption DEF DisconnectStart, At, LockType, others
<1>2. /\ client'.session = client.session /\ client'.failure = client.failure
      /\ client'.status = client.status /\ client'.closing
      /\ ~client.closing
  BY <1>1, TypedNow DEF DisconnectStart, ClientType, LifeInv, OwnerInv
<1>3. \A u \in Task \ {t} : pc'[u] = pc[u]
  BY TypedNow DEF DisconnectStart, Goto
<1>4. Due' = Due
  <2>1. ~Telling(t) /\ ~Telling(t)'
    BY <1>1 DEF Telling, Teardown
  <2>2. \A u \in Task \ {t} : Telling(u)' <=> Telling(u)
    BY <1>1, <1>3, ConstantsAssumption DEF Telling
  <2>3. QED
    BY <2>1, <2>2, OthersDue
<1>5. Call = "none" /\ Call' = "disconnect"
  BY <1>1, <1>2 DEF Call
<1>6. Phase' = Phase
  BY <1>1, <1>2, PhaseCases, PhaseCasesNext
<1>7. Contract!Disconnect
  BY <1>1, <1>2, <1>4, <1>5, <1>6 DEF Contract!Disconnect, Due
<1>8. QED
  BY <1>7 DEF Seen, Contract!Next

LEMMA CallEndsSeen ==
    ASSUME Typed, LossInv, LifeInv, NEW t \in Task, CallEnds(t)
    PROVE  Seen
<1>1. /\ pc[t] = "td_finish" /\ lock.lifecycle = t /\ t # NoTask
      /\ lost' = lost /\ lock'.lifecycle = NoTask
  BY TypedNow, ConstantsAssumption
  DEF CallEnds, ConnectRaises, DisconnectReturns, Unlocked, Released,
      LockType, others
<1>2. /\ client'.session = client.session /\ client'.failure = client.failure
      /\ client'.status = "DISCONNECTED"
  BY TypedNow
  DEF CallEnds, ConnectRaises, DisconnectReturns, Disconnected, Cleared,
      ClientType
<1>3. /\ pc'[t] \in {"returned", "done", "next", "idle", "raised"}
      /\ \A u \in Task \ {t} : pc'[u] = pc[u]
  BY TypedNow, AfterFailureType
  DEF CallEnds, ConnectRaises, DisconnectReturns, Goto
<1>4. Due' = Due
  <2>1. ~Telling(t) /\ ~Telling(t)'
    BY <1>1, <1>3 DEF Telling, Teardown
  <2>2. \A u \in Task \ {t} : Telling(u)' <=> Telling(u)
    BY <1>1, <1>3, ConstantsAssumption DEF Telling
  <2>3. QED
    BY <2>1, <2>2, OthersDue
<1>5. Call # "none" /\ Call' = "none"
  BY <1>1 DEF Call
<1>6. Phase' \in IF Phase = "failed" THEN {Phase} ELSE {Phase, "closed"}
  BY <1>1, <1>2, PhaseCases, PhaseCasesNext
<1>7. Contract!End
  BY <1>1, <1>2, <1>4, <1>5, <1>6 DEF Contract!End, Due
<1>8. QED
  BY <1>7 DEF Seen, Contract!Next

(* A step of which the contract sees at most that nobody is going to tell    *)
(* any more.                                                                 *)
LEMMA AtMostDropped ==
    ASSUME client'.session = client.session, Phase' = Phase, Call' = Call,
           lost' = lost, \A u \in Task : Telling(u)' => Telling(u)
    PROVE  Seen
<1>1. CASE Due' = Due
  BY <1>1, Unseen
<1>2. CASE Due /\ ~Due'
  <2>1. Contract!Drop
    BY <1>2 DEF Contract!Drop, Due
  <2>2. QED
    BY <2>1 DEF Seen, Contract!Next
<1>3. Due' => Due
  BY DEF Due
<1>4. QED
  BY <1>1, <1>2, <1>3 DEF Due

LEMMA TearingSeen ==
    ASSUME NEW t \in Task, TearingStep(t) PROVE Seen
<1>1. /\ client'.session = client.session /\ client'.failure = client.failure
      /\ client'.status = client.status /\ client'.closing = client.closing
      /\ lock'.lifecycle = lock.lifecycle /\ lost' = lost
  BY DEF TearingStep, TornClient
<1>2. Phase' = Phase /\ Call' = Call
  BY <1>1 DEF Phase, Call
<1>3. \A u \in Task : Telling(u)' => Telling(u)
  BY <1>1 DEF TearingStep, Torn, Telling
<1>4. QED
  BY <1>1, <1>2, <1>3, AtMostDropped

LEMMA LeavingSeen ==
    ASSUME Typed, LossInv, LifeInv, NEW t \in Task, Leaving(t)
    PROVE  Seen
<1>1. /\ client'.session = client.session /\ client'.failure = client.failure
      /\ client'.status = client.status /\ lost' = lost
      /\ client'.closing = (client.closing /\ lock.lifecycle # t)
      /\ lock'.lifecycle = IF lock.lifecycle = t THEN NoTask
                           ELSE lock.lifecycle
      /\ pc'[t] \in {"raised", "killed", "done", "next", "idle"}
      /\ \A u \in Task \ {t} : pc'[u] = pc[u]
  BY LeavingParts
<1>2. t # NoTask /\ NoTask \notin Task
  BY ConstantsAssumption
<1>3. ~Telling(t)'
  BY <1>1 DEF Telling, Teardown
<1>4. CASE lock.lifecycle = t
  <2>1. ~Telling(t) /\ \A u \in Task \ {t} : Telling(u)' <=> Telling(u)
    BY <1>1, <1>2, <1>4 DEF Telling
  <2>2. Due' = Due
    BY <1>3, <2>1, OthersDue
  <2>3. Call # "none" /\ Call' = "none"
    BY <1>1, <1>2, <1>4 DEF Call
  <2>4. Phase' \in IF Phase = "failed" THEN {Phase} ELSE {Phase, "closed"}
    BY <1>1, <1>2, <1>4 DEF Phase
  <2>5. Contract!End
    BY <1>1, <2>2, <2>3, <2>4 DEF Contract!End, Due
  <2>6. QED
    BY <2>5 DEF Seen, Contract!Next
<1>5. CASE lock.lifecycle # t
  <2>1. lock'.lifecycle = lock.lifecycle /\ (client'.closing <=> client.closing)
    BY <1>1, <1>5
  <2>2. Phase' = Phase /\ Call' = Call
    BY <1>1, <2>1 DEF Phase, Call
  <2>3. \A u \in Task : Telling(u)' => Telling(u)
    BY <1>1, <1>3, <2>1 DEF Telling
  <2>4. QED
    BY <1>1, <2>2, <2>3, AtMostDropped
<1>6. QED
  BY <1>4, <1>5

LEMMA FailureMarkedSeen ==
    ASSUME Typed, LossInv, LifeInv, NEW t \in Task, FailureMarked(t)
    PROVE  Seen
<1>1. /\ pc[t] = "fail" /\ ~client.failure
      /\ client.status # "DISCONNECTED" /\ t # NoTask
  BY ConstantsAssumption DEF FailureMarked, First
<1>2. /\ client'.session = client.session /\ client'.failure
      /\ client'.closing = client.closing /\ lost' = lost
      /\ lock'.lifecycle = lock.lifecycle
  BY TypedNow DEF FailureMarked, Failed, Released, ClientType, LockType
<1>3. Phase \in {"open", "ready"} /\ Phase' = "failed" /\ Call' = Call
  BY <1>1, <1>2, PhaseCases, PhaseCasesNext DEF Call
<1>4. Due' = (Call # "disconnect")
  <2>1. CASE client.closing
    <3>1. Call = "disconnect"
      BY <2>1 DEF Call, LifeInv, OwnerInv
    <3>2. /\ pc'[t] \in {"done", "next", "idle", "raised"}
          /\ \A u \in Task \ {t} : pc'[u] = pc[u]
      BY <2>1, TypedNow, AfterFailureType DEF FailureMarked, OwnsLoss, Goto
    <3>3. \A u \in Task : ~Telling(u)
      BY <1>1 DEF LifeInv, TellerInv
    <3>4. ~Due'
      BY <1>2, <3>2, <3>3 DEF Due, Telling, Teardown
    <3>5. QED
      BY <3>1, <3>4 DEF Due
  <2>2. CASE ~client.closing
    <3>1. Call # "disconnect"
      BY <2>2 DEF Call
    <3>2. pc'[t] = "td_begin"
      BY <2>2, TypedNow DEF FailureMarked, OwnsLoss, Goto
    <3>3. lock.lifecycle # t
      BY <1>1, <2>2
      DEF LifeInv, OwnerInv, Handshake, HandshakeWait, Teardown
    <3>4. Due'
      BY <1>2, <3>2, <3>3 DEF Due, Telling, Teardown
    <3>5. QED
      BY <3>1, <3>4 DEF Due
  <2>3. QED
    BY <2>1, <2>2
<1>5. Contract!Fail
  BY <1>2, <1>3, <1>4 DEF Contract!Fail, Due
<1>6. QED
  BY <1>5 DEF Seen, Contract!Next

LEMMA FailureNoticeSeen ==
    ASSUME Typed, LossInv, LifeInv, NEW t \in Task, FailureNotice(t)
    PROVE  Seen
<1> DEFINE s == client.session
<1>1. /\ pc[t] = "td_finish" /\ lock.lifecycle # t /\ lock' = lock
      /\ lost' = [lost EXCEPT ![serving[t]] = @ + 1]
  BY DEF FailureNotice
<1>2. Telling(t)
  BY <1>1 DEF Telling, Teardown
<1>3. /\ client.failure /\ serving[t] = s /\ s \in Sessions
  BY <1>2 DEF LifeInv, TellerInv, StatusInv
<1>4. /\ client'.session = s /\ client'.failure
      /\ client'.closing = client.closing
  BY <1>3, TypedNow DEF FailureNotice, Disconnected, Cleared, ClientType
<1>5. /\ pc'[t] = "lost" /\ \A u \in Task \ {t} : pc'[u] = pc[u]
  BY TypedNow DEF FailureNotice, Goto
<1>6. lost[s] = 0 /\ \A u \in Task : Telling(u) => u = t
  <2>1. Once(s) /\ Tells(t, s)
    BY <1>2, <1>3 DEF LossInv, Tells
  <2>2. \A u \in Task : Telling(u) => Tells(u, s)
    BY DEF LifeInv, TellerInv, Tells
  <2>3. QED
    BY <2>1, <2>2 DEF Once
<1>7. {r \in Sessions : lost'[r] > 0} = {r \in Sessions : lost[r] > 0} \cup {s}
  BY <1>1, <1>3, <1>6, TypedNow
<1>8. Due /\ ~Due'
  BY <1>1, <1>2, <1>5, <1>6 DEF Due, Telling, Teardown
<1>9. Phase = "failed" /\ Phase' = "failed" /\ Call' = Call
  BY <1>1, <1>3, <1>4, PhaseCases, PhaseCasesNext DEF Call
<1>10. s \notin {r \in Sessions : lost[r] > 0}
  BY <1>6
<1>11. Contract!Tell
  BY <1>4, <1>7, <1>8, <1>9, <1>10 DEF Contract!Tell, Due
<1>12. QED
  BY <1>11 DEF Seen, Contract!Next

-----------------------------------------------------------------------------
(* Every call, failure and cancellation of SolarFlowClient, in any order,    *)
(* does to the session what the contract allows or what it cannot see: a     *)
(* failure is told once, before the next session, unless disconnect() closes *)
(* that session or the teller is cancelled.                                  *)
THEOREM ClientKeepsContract == PatientSpec => ContractKept
<1>1. Inductive /\ [PatientNext]_vars => [Contract!Next]_(Contract!vars)
  <2> SUFFICES ASSUME Inductive, [PatientNext]_vars PROVE Seen
    BY DEF Seen
  <2>1. PatientStep /\ Typed /\ LossInv /\ LifeInv /\ StartInv
    BY PatientStepKinds DEF Inductive
  <2>2. QED
    BY <2>1, OutsideSeen, ConnectStartSeen, HandshakeSeen, DisconnectStartSeen,
       CallEndsSeen, TearingSeen, LeavingSeen, FailureMarkedSeen,
       FailureNoticeSeen
    DEF PatientStep
<1>2. QED
  BY <1>1, InitSeen, LifeHolds, PTL
  DEF PatientSpec, ContractKept, Contract!Spec
=============================================================================
