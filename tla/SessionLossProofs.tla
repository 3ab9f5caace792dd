------------------------- MODULE SessionLossProofs -------------------------
(* Whoever meets the failure of a session, and whenever the application      *)
(* connects again: connection_lost_callback hears of a session once.  And of *)
(* one session no keepalive is left behind.                                  *)
EXTENDS SolarFlowClientProofs

(* Task t is on its way to tell the application that session s has failed.   *)
Tells(t, s) == Telling(t) /\ serving[t] = s
Unheard(s) == lost[s] = 0 /\ \A t \in Task : ~Tells(t, s)

(* Sessions still to be opened: those of calls that wait for the lifecycle   *)
(* lock, and those of calls to come.                                         *)
Called == Budget.connect - budget.connect
Ahead(c, s) == pc[c] = "connect" /\ serving[c] = s
Fresh(s) == s > Called \/ \E c \in Callers : Ahead(c, s)

(* The inductive invariant.  A caller in the handshake has the lifecycle     *)
(* lock, so that its own teardown is no failure's.  Of each session: at most *)
(* one task tells it, and tells what nobody has heard; nobody has or will,   *)
(* as long as the client serves it and has recorded no failure, or before it *)
(* is opened, which one call does.                                           *)
Locked == \A c \in Callers : pc[c] \in Handshake => lock.lifecycle = c

Once(s) ==
    /\ lost[s] <= 1
    /\ \A t \in Task : Tells(t, s) => lost[s] = 0
    /\ \A t, u \in Task : Tells(t, s) /\ Tells(u, s) => t = u
    /\ client.session = s /\ ~client.failure => Unheard(s)
    /\ Fresh(s) => client.session # s /\ Unheard(s)
    /\ \A c, d \in Callers : Ahead(c, s) /\ Ahead(d, s) => c = d
    /\ \A c \in Callers : Ahead(c, s) => s <= Called

LossInv == Locked /\ \A s \in Sessions : Once(s)

LEMMA InitLoss == Init => LossInv
<1> SUFFICES ASSUME Init PROVE LossInv
  OBVIOUS
<1>1. \A t \in Task : pc[t] \in {"idle", "none"}
  BY DEF Init
<1>2. \A t \in Task : pc[t] \notin Teardown \cup Handshake \cup {"connect"}
  BY <1>1 DEF Teardown, Handshake, HandshakeWait
<1>3. \A s \in Sessions : lost[s] = 0 /\ client.session # s
  BY ConstantsAssumption DEF Init, Sessions
<1>4. Locked
  BY <1>2, TaskKinds DEF Locked
<1>5. ASSUME NEW s \in Sessions PROVE Once(s)
  BY <1>2, <1>3, TaskKinds DEF Once, Unheard, Tells, Telling, Ahead
<1>6. QED
  BY <1>4, <1>5 DEF LossInv

(* A step of task t that does not disturb task u.                            *)
Undisturbed(u) ==
    /\ serving'[u] = serving[u]
    /\ pc'[u] \in Teardown => pc[u] \in Teardown
    /\ pc'[u] \in Handshake => pc[u] \in Handshake
    /\ pc'[u] = "connect" => pc[u] = "connect"
    /\ lock.lifecycle = u => lock'.lifecycle = u

(* A step that records no failure, tells none and opens no session keeps the *)
(* invariant if it brings no task into a failure's teardown.                 *)
LEMMA LossKept ==
    ASSUME LossInv, NEW t \in Task,
           client'.session = client.session, client'.failure = client.failure,
           lost' = lost, budget'.connect = budget.connect,
           \A u \in Task \ {t} : Undisturbed(u),
           pc'[t] # "connect",
           pc'[t] \in Handshake => lock'.lifecycle = t,
           pc'[t] \in Teardown => \/ lock'.lifecycle = t
                                  \/ Telling(t) /\ serving'[t] = serving[t]
    PROVE  LossInv'
<1>1. \A u \in Task : Telling(u)' => Telling(u) /\ serving'[u] = serving[u]
  BY DEF Undisturbed, Telling
<1>2. \A c \in Callers : pc'[c] = "connect" =>
          pc[c] = "connect" /\ serving'[c] = serving[c]
  BY TaskKinds DEF Undisturbed
<1>3. Locked'
  BY TaskKinds DEF LossInv, Locked, Undisturbed
<1>4. ASSUME NEW s \in Sessions PROVE Once(s)'
  <2>1. /\ \A u \in Task : Tells(u, s)' => Tells(u, s)
        /\ \A c \in Callers : Ahead(c, s)' => Ahead(c, s)
        /\ Called' = Called
    BY <1>1, <1>2 DEF Tells, Ahead, Called
  <2>2. (Unheard(s) => Unheard(s)') /\ (Fresh(s)' => Fresh(s))
    BY <2>1 DEF Unheard, Fresh
  <2>3. Once(s)
    BY DEF LossInv
  <2>4. QED
    BY <2>1, <2>2, <2>3 DEF Once
<1>5. QED
  BY <1>3, <1>4 DEF LossInv

(* connect() opens the session of its call: nobody has heard of that one.    *)
LEMMA ConnectStartLoss ==
    ASSUME Typed, LossInv, NEW c \in Callers, ConnectStart(c)
    PROVE  LossInv'
<1>1. /\ pc[c] = "connect" /\ lock.lifecycle = NoTask /\ lock'.lifecycle = c
      /\ pc' = [pc EXCEPT ![c] = "connecting"]
      /\ client'.session = serving[c] /\ ~client'.failure
      /\ lost' = lost /\ serving' = serving /\ budget' = budget
  BY TypedNow
  DEF ConnectStart, At, Goto, Begun, Cleared, ClientType, LockType, others
<1>2. c \in Task /\ c # NoTask /\ NoTask \notin Task
  BY TaskKinds, ConstantsAssumption
<1>3. pc \in [Task -> Labels]
  BY TypedNow
<1>4. \A u \in Task : Telling(u)' => Telling(u)
  BY <1>1, <1>2, <1>3 DEF Telling, Teardown
<1>5. Locked'
  BY <1>1, <1>2, <1>3, TaskKinds DEF LossInv, Locked
<1>6. ASSUME NEW s \in Sessions PROVE Once(s)'
  <2>1. Once(s)
    BY DEF LossInv
  <2>2. /\ \A u \in Task : Tells(u, s)' => Tells(u, s)
        /\ \A d \in Callers : Ahead(d, s)' => Ahead(d, s) /\ d # c
        /\ Called' = Called
    BY <1>1, <1>3, <1>4, <1>2, TaskKinds DEF Tells, Ahead, Called
  <2>3. (Unheard(s) => Unheard(s)') /\ (Fresh(s)' => Fresh(s))
    BY <1>1, <2>2 DEF Unheard, Fresh
  <2>4. serving[c] = s => Ahead(c, s)
    BY <1>1 DEF Ahead
  <2>5. CASE serving[c] = s
    <3>1. Fresh(s) /\ s <= Called
      BY <2>1, <2>4, <2>5 DEF Once, Fresh
    <3>2. ~Fresh(s)'
      <4>1. \A d \in Callers : ~Ahead(d, s)'
        BY <2>1, <2>2, <2>4, <2>5 DEF Once
      <4>2. ~(s > Called)
        BY <3>1, TypedNow, ConstantsAssumption DEF Called, BudgetType, Sessions
      <4>3. QED
        BY <2>2, <4>1, <4>2 DEF Fresh
    <3>3. QED
      BY <1>1, <2>1, <2>2, <2>3, <3>1, <3>2 DEF Once
  <2>6. CASE serving[c] # s
    BY <1>1, <2>1, <2>2, <2>3, <2>6 DEF Once
  <2>7. QED
    BY <2>5, <2>6
<1>7. QED
  BY <1>5, <1>6 DEF LossInv

LEMMA ConnectLoss ==
    ASSUME Typed, LossInv, NEW c \in Callers, Connecting(c)
    PROVE  LossInv'
<1>1. /\ c \in Task /\ c # NoTask
      /\ client \in ClientType /\ lock \in LockType /\ pc \in [Task -> Labels]
  BY TypedNow, TaskKinds
<1>2. pc[c] \in Handshake => lock.lifecycle = c
  BY DEF LossInv, Locked
<1>3. CASE ConnectStart(c)
  BY <1>3, ConnectStartLoss
<1>4. CASE ~ConnectStart(c)
  <2>1. /\ client'.session = client.session /\ client'.failure = client.failure
        /\ lost' = lost /\ budget' = budget /\ serving' = serving
    BY <1>1, <1>4
    DEF Connecting, ConnectNoop, ConnectTransportUp, ConnectSendRequest,
        ConnectAwaitAnswer, ConnectDiscard, ConnectTakeBlespp, ConnectTakeInfo,
        ConnectTakeReport, ConnectFails, ConnectRaises, Opened, Ready,
        Disconnected, Cleared, ClientType, others
  <2>2. \/ lock' = lock
        \/ lock.lifecycle = c /\ lock'.lifecycle = NoTask /\ pc'[c] \in Outcome
    BY <1>1, <1>2, <1>4
    DEF Connecting, ConnectNoop, ConnectTransportUp, ConnectSendRequest,
        ConnectAwaitAnswer, ConnectDiscard, ConnectTakeBlespp, ConnectTakeInfo,
        ConnectTakeReport, ConnectTake, At, Handshake, HandshakeWait,
        ConnectFails, ConnectRaises, Unlocked, LockType, Goto, Outcome,
        Keepalive, others
  <2>3. /\ \A u \in Task \ {c} : pc'[u] \in {pc[u], "run", "k_sleep"}
        /\ \/ pc'[c] \in Outcome
           \/ pc[c] \in Handshake /\ pc'[c] \in Handshake \cup {"td_begin"}
    BY <1>1, <1>4
    DEF Connecting, ConnectNoop, ConnectTransportUp, ConnectSendRequest,
        ConnectAwaitAnswer, ConnectDiscard, ConnectTakeBlespp, ConnectTakeInfo,
        ConnectTakeReport, ConnectTake, At, Handshake, HandshakeWait,
        ConnectFails, ConnectRaises, Goto, Outcome
  <2>4. \A u \in Task \ {c} : Undisturbed(u)
    BY <1>1, <2>1, <2>2, <2>3
    DEF Undisturbed, Teardown, Handshake, HandshakeWait
  <2>5. /\ pc'[c] # "connect"
        /\ pc'[c] \in Handshake => lock'.lifecycle = c
        /\ pc'[c] \in Teardown => lock'.lifecycle = c
    BY <1>2, <2>2, <2>3 DEF Outcome, Handshake, HandshakeWait, Teardown
  <2>6. QED
    BY <1>1, <2>1, <2>4, <2>5, LossKept
<1>5. QED
  BY <1>3, <1>4

(* A call of connect() takes the next number.                                *)
LEMMA CallConnectLoss ==
    ASSUME Typed, LossInv, NEW c \in Callers, CallConnect(c)
    PROVE  LossInv'
<1>1. /\ pc[c] \in Outcome /\ pc' = [pc EXCEPT ![c] = "connect"]
      /\ budget.connect \in Nat /\ budget.connect > 0
      /\ budget'.connect = budget.connect - 1
      /\ serving' = [serving EXCEPT ![c] = Called + 1]
      /\ client' = client /\ lost' = lost /\ lock' = lock
  BY TypedNow, ConstantsAssumption
  DEF CallConnect, Goto, BudgetType, Called
<1>2. /\ c \in Task /\ pc \in [Task -> Labels]
      /\ serving \in [Task -> Sessions \cup {0}]
  BY TypedNow, TaskKinds
<1>3. /\ Called \in Nat /\ Called' = Called + 1
  BY <1>1, TypedNow, ConstantsAssumption DEF Called, BudgetType
<1>4. \A u \in Task : Telling(u)' => Telling(u) /\ u # c
  BY <1>1, <1>2 DEF Telling, Teardown, Outcome
<1>5. Locked'
  BY <1>1, <1>2, TaskKinds DEF LossInv, Locked, Handshake, HandshakeWait
<1>6. ASSUME NEW s \in Sessions PROVE Once(s)'
  <2>1. Once(s) /\ s \in Nat
    BY DEF LossInv, Sessions
  <2>2. \A u \in Task : Tells(u, s)' => Tells(u, s)
    BY <1>1, <1>2, <1>4 DEF Tells
  <2>3. Unheard(s) => Unheard(s)'
    BY <1>1, <2>2 DEF Unheard
  <2>4. \A d \in Callers :
            Ahead(d, s)' => (Ahead(d, s) /\ d # c) \/ (d = c /\ s = Called + 1)
    BY <1>1, <1>2, TaskKinds DEF Ahead
  <2>5. Fresh(s)' => Fresh(s)
    BY <1>3, <2>1, <2>4 DEF Fresh
  <2>6. \A d \in Callers : Ahead(d, s) => s <= Called
    BY <2>1 DEF Once
  <2>7. \A d \in Callers : Ahead(d, s)' => s <= Called'
    BY <1>3, <2>1, <2>4, <2>6
  <2>8. \A d, e \in Callers : Ahead(d, s)' /\ Ahead(e, s)' => d = e
    BY <1>3, <2>1, <2>4, <2>6 DEF Once
  <2>9. QED
    BY <1>1, <2>1, <2>2, <2>3, <2>5, <2>7, <2>8 DEF Once
<1>7. QED
  BY <1>5, <1>6 DEF LossInv

LEMMA CallsLoss ==
    ASSUME Typed, LossInv, NEW c \in Callers,
           CallDisconnect(c) \/ CallWrite(c) \/ Writing(c)
    PROVE  LossInv'
<1>1. /\ c \in Task /\ pc \in [Task -> Labels]
      /\ serving \in [Task -> Sessions \cup {0}]
      /\ budget \in BudgetType /\ lock \in LockType
  BY TypedNow, TaskKinds
<1>2. /\ client' = client /\ lost' = lost /\ budget'.connect = budget.connect
      /\ lock'.lifecycle = lock.lifecycle
  BY <1>1
  DEF CallDisconnect, CallWrite, Writing, WriteStart, WriteSent, WriteFails,
      WriteTake, WriteGivesUp, Released, LockType, BudgetType, others
<1>3. /\ \A u \in Task \ {c} : pc'[u] = pc[u] /\ serving'[u] = serving[u]
      /\ pc'[c] \in Outcome \cup
                       {"disconnect", "write", "sending", "ack", "fail"}
  BY <1>1
  DEF CallDisconnect, CallWrite, Writing, WriteStart, WriteSent, WriteFails,
      WriteTake, WriteGivesUp, Goto, Outcome, others
<1>4. \A u \in Task \ {c} : Undisturbed(u)
  BY <1>2, <1>3 DEF Undisturbed
<1>5. pc'[c] \notin Handshake \cup Teardown \cup {"connect"}
  BY <1>3 DEF Outcome, Handshake, HandshakeWait, Teardown
<1>6. QED
  BY <1>1, <1>2, <1>4, <1>5, LossKept

LEMMA DisconnectLoss ==
    ASSUME Typed, LossInv, NEW t \in Task, Disconnecting(t)
    PROVE  LossInv'
<1>1. /\ pc \in [Task -> Labels] /\ client \in ClientType /\ lock \in LockType
      /\ NoTask \notin Task
  BY TypedNow, ConstantsAssumption
<1>2. /\ client'.session = client.session /\ client'.failure = client.failure
      /\ lost' = lost /\ serving' = serving /\ budget' = budget
  BY <1>1
  DEF Disconnecting, DisconnectStart, DisconnectReturns, Disconnected, Cleared,
      ClientType, others
<1>3. /\ \A u \in Task \ {t} : pc'[u] = pc[u]
      /\ \/ /\ pc'[t] = "td_begin"
            /\ lock.lifecycle = NoTask /\ lock'.lifecycle = t
         \/ /\ pc'[t] \in {"returned", "done", "next", "idle", "raised"}
            /\ lock.lifecycle = t
  BY <1>1, AfterFailureType
  DEF Disconnecting, DisconnectStart, DisconnectReturns, At, Goto, LockType
<1>4. \A u \in Task \ {t} : Undisturbed(u)
  BY <1>1, <1>2, <1>3 DEF Undisturbed
<1>5. /\ pc'[t] \notin Handshake \cup {"connect"}
      /\ pc'[t] \in Teardown => lock'.lifecycle = t
  BY <1>3 DEF Handshake, HandshakeWait, Teardown
<1>6. QED
  BY <1>2, <1>4, <1>5, LossKept

LEMMA CancellingLoss ==
    ASSUME Typed, LossInv, NEW c \in Callers, Cancelling(c)
    PROVE  LossInv'
<1>1. /\ c \in Task /\ pc \in [Task -> Labels] /\ client \in ClientType
      /\ lock \in LockType /\ budget \in BudgetType /\ NoTask \notin Task
  BY TypedNow, TaskKinds, ConstantsAssumption
<1>2. /\ client'.session = client.session /\ client'.failure = client.failure
      /\ lost' = lost /\ serving' = serving /\ budget'.connect = budget.connect
  BY <1>1
  DEF Cancelling, CancelledInLine, TeardownCancelled, JoinCancelled,
      Interrupting, NotClosing, ClientType, BudgetType, others
<1>3. /\ \A u \in Task \ {c} : pc'[u] = pc[u]
      /\ \/ pc'[c] = "raised"
         \/ pc'[c] = "abort" /\ pc[c] \in Teardown /\ lock' = lock
  BY <1>1
  DEF Cancelling, CancelledInLine, TeardownCancelled, JoinCancelled, Goto,
      Teardown
<1>4. \A u \in Task \ {c} : lock.lifecycle = u => lock'.lifecycle = u
  BY <1>1
  DEF Cancelling, CancelledInLine, TeardownCancelled, JoinCancelled, LetGo,
      Released, LockType
<1>5. \A u \in Task \ {c} : Undisturbed(u)
  BY <1>2, <1>3, <1>4 DEF Undisturbed
<1>6. /\ pc'[c] \notin Handshake \cup {"connect"}
      /\ pc'[c] \in Teardown => lock'.lifecycle = c \/ Telling(c)
  BY <1>3 DEF Handshake, HandshakeWait, Teardown, Telling
<1>7. QED
  BY <1>1, <1>2, <1>5, <1>6, LossKept

LEMMA TearingDownLoss ==
    ASSUME Typed, LossInv, NEW t \in Task, TearingDown(t)
    PROVE  LossInv'
<1>1. /\ pc \in [Task -> Labels] /\ client \in ClientType
      /\ lock \in LockType /\ NoTask \notin Task
  BY TypedNow, ConstantsAssumption
<1>2. /\ client'.session = client.session /\ client'.failure = client.failure
      /\ lost' = lost /\ serving' = serving /\ budget' = budget
  BY <1>1
  DEF TearingDown, TeardownBegin, TeardownJoined, TeardownCleanup,
      TeardownDisconnect, TeardownTasksEnded, TeardownDisconnected,
      TeardownWorker, AbortJoin, Aborted, ForgotWorker, NotClosing, ClientType,
      others
<1>3. CASE Aborted(t)
  <2>1. /\ \A u \in Task \ {t} : pc'[u] = pc[u]
        /\ pc'[t] \in {"killed", "done", "next", "idle", "raised"}
    BY <1>1, <1>3, AfterFailureType DEF Aborted, Goto
  <2>2. \A u \in Task \ {t} : lock.lifecycle = u => lock'.lifecycle = u
    BY <1>1, <1>3 DEF Aborted, LetGo, LockType
  <2>3. \A u \in Task \ {t} : Undisturbed(u)
    BY <1>2, <2>1, <2>2 DEF Undisturbed
  <2>4. pc'[t] \notin Handshake \cup Teardown \cup {"connect"}
    BY <2>1 DEF Handshake, HandshakeWait, Teardown
  <2>5. QED
    BY <1>2, <2>3, <2>4, LossKept
<1>4. CASE ~Aborted(t)
  <2>1. lock' = lock /\ pc[t] \in Teardown
    BY <1>4
    DEF TearingDown, TeardownBegin, TeardownJoined, TeardownCleanup,
        TeardownDisconnect, TeardownTasksEnded, TeardownDisconnected,
        TeardownWorker, AbortJoin, At, Teardown, others
  <2>2. pc'[t] \in Teardown \cup {"idle", "cancelled"} \cup Ended
    BY <1>1, <1>4, <2>1
    DEF TearingDown, TeardownBegin, TeardownJoined, TeardownCleanup,
        NextCleanup, TeardownDisconnect, TeardownTasksEnded,
        TeardownDisconnected, TeardownWorker, AbortJoin, AfterCancel, At, Goto,
        Teardown, Ended
  <2>3. \A u \in Task \ {t} :
            \/ pc'[u] \in {pc[u], "cancelled", "idle"}
            \/ pc'[u] = "abort" /\ pc[u] \in Teardown
    BY <1>1, <1>4
    DEF TearingDown, TeardownBegin, TeardownJoined, TeardownCleanup,
        TeardownDisconnect, TeardownTasksEnded, TeardownDisconnected,
        TeardownWorker, AbortJoin, AfterCancel, At, Goto, Teardown, Ended
  <2>4. \A u \in Task \ {t} : Undisturbed(u)
    BY <1>2, <2>1, <2>3 DEF Undisturbed, Teardown, Handshake, HandshakeWait
  <2>5. /\ pc'[t] \notin Handshake \cup {"connect"}
        /\ pc'[t] \in Teardown => lock'.lifecycle = t \/ Telling(t)
    BY <2>1, <2>2 DEF Handshake, HandshakeWait, Teardown, Ended, Telling
  <2>6. QED
    BY <1>2, <2>4, <2>5, LossKept
<1>5. QED
  BY <1>3, <1>4

(* The failure of the client's session, of which nobody has heard, gets its  *)
(* one teller.                                                               *)
LEMMA FailureMarkedLoss ==
    ASSUME Typed, LossInv, NEW t \in Task, FailureMarked(t)
    PROVE  LossInv'
<1>1. /\ pc \in [Task -> Labels] /\ client \in ClientType /\ lock \in LockType
      /\ serving \in [Task -> Sessions \cup {0}]
  BY TypedNow
<1>2. /\ pc[t] = "fail" /\ ~client.failure
      /\ client'.session = client.session /\ client'.failure
      /\ serving' = [serving EXCEPT ![t] = client.session]
      /\ lost' = lost /\ budget' = budget
      /\ lock'.lifecycle = lock.lifecycle
  BY <1>1 DEF FailureMarked, First, Failed, Released, ClientType, LockType
<1>3. /\ \A u \in Task \ {t} : pc'[u] = pc[u] /\ serving'[u] = serving[u]
      /\ pc'[t] \in {"td_begin", "done", "next", "idle", "raised"}
      /\ serving'[t] = client.session
  BY <1>1, <1>2, AfterFailureType DEF FailureMarked, Goto
<1>4. ~Telling(t) /\ pc'[t] \notin Handshake \cup {"connect"}
  BY <1>2, <1>3 DEF Telling, Teardown, Handshake, HandshakeWait
<1>5. \A u \in Task \ {t} : Telling(u)' => Telling(u)
  BY <1>2, <1>3 DEF Telling
<1>6. Locked'
  BY <1>2, <1>3, <1>4, TaskKinds DEF LossInv, Locked
<1>7. ASSUME NEW s \in Sessions PROVE Once(s)'
  <2>1. Once(s)
    BY DEF LossInv
  <2>2. /\ \A u \in Task \ {t} : Tells(u, s)' => Tells(u, s)
        /\ Tells(t, s)' => client.session = s
    BY <1>3, <1>5 DEF Tells
  <2>3. /\ \A c \in Callers : Ahead(c, s)' => Ahead(c, s)
        /\ Called' = Called
    BY <1>2, <1>3, <1>4, TaskKinds DEF Ahead, Called
  <2>4. Fresh(s)' => Fresh(s)
    BY <2>3 DEF Fresh
  <2>5. CASE client.session = s
    <3>1. Unheard(s) /\ ~Fresh(s)
      BY <1>2, <2>1, <2>5 DEF Once
    <3>2. \A u \in Task : Tells(u, s)' => u = t
      BY <2>2, <3>1 DEF Unheard
    <3>3. QED
      BY <1>2, <2>1, <2>3, <2>4, <3>1, <3>2 DEF Once, Unheard
  <2>6. CASE client.session # s
    <3>1. \A u \in Task : Tells(u, s)' => Tells(u, s)
      BY <2>2, <2>6
    <3>2. Unheard(s) => Unheard(s)'
      BY <1>2, <3>1 DEF Unheard
    <3>3. QED
      BY <1>2, <2>1, <2>3, <2>4, <2>6, <3>1, <3>2 DEF Once
  <2>7. QED
    BY <2>5, <2>6
<1>8. QED
  BY <1>6, <1>7 DEF LossInv

(* The one teller of a session tells it, and no longer has to.               *)
LEMMA FailureNoticeLoss ==
    ASSUME Typed, LossInv, NEW t \in Task, FailureNotice(t)
    PROVE  LossInv'
<1>1. /\ pc \in [Task -> Labels] /\ client \in ClientType
      /\ lost \in [Sessions -> Nat]
  BY TypedNow
<1>2. /\ client'.session = client.session /\ client'.failure = client.failure
      /\ serving' = serving /\ budget' = budget /\ lock' = lock
      /\ lost' = [lost EXCEPT ![serving[t]] = @ + 1]
  BY <1>1 DEF FailureNotice, Disconnected, Cleared, ClientType
<1>3. /\ \A u \in Task \ {t} : pc'[u] = pc[u]
      /\ pc'[t] = "lost"
  BY <1>1 DEF FailureNotice, Goto
<1>4. Telling(t)
  BY DEF FailureNotice, Telling, Teardown
<1>5. \A u \in Task : Telling(u)' => Telling(u) /\ u # t
  BY <1>2, <1>3 DEF Telling, Teardown
<1>6. Locked'
  BY <1>2, <1>3, TaskKinds DEF LossInv, Locked, Handshake, HandshakeWait
<1>7. ASSUME NEW s \in Sessions PROVE Once(s)'
  <2>1. Once(s)
    BY DEF LossInv
  <2>2. \A u \in Task : Tells(u, s)' => Tells(u, s) /\ u # t
    BY <1>2, <1>5 DEF Tells
  <2>3. /\ \A c \in Callers : Ahead(c, s)' => Ahead(c, s)
        /\ Called' = Called
    BY <1>2, <1>3, TaskKinds DEF Ahead, Called
  <2>4. Fresh(s)' => Fresh(s)
    BY <2>3 DEF Fresh
  <2>5. CASE serving[t] = s
    <3>1. Tells(t, s)
      BY <1>4, <2>5 DEF Tells
    <3>2. ~Unheard(s) /\ lost'[s] = 1
      BY <1>1, <1>2, <2>1, <2>5, <3>1 DEF Once, Unheard
    <3>3. \A u \in Task : ~Tells(u, s)'
      BY <2>1, <2>2, <3>1 DEF Once
    <3>4. QED
      BY <1>2, <2>1, <2>3, <2>4, <3>2, <3>3 DEF Once
  <2>6. CASE serving[t] # s
    <3>1. lost'[s] = lost[s]
      BY <1>1, <1>2, <2>6
    <3>2. Unheard(s) => Unheard(s)'
      BY <2>2, <3>1 DEF Unheard
    <3>3. QED
      BY <1>2, <2>1, <2>2, <2>3, <2>4, <3>1, <3>2 DEF Once
  <2>7. QED
    BY <2>5, <2>6
<1>8. QED
  BY <1>6, <1>7 DEF LossInv

LEMMA FailingLoss ==
    ASSUME Typed, LossInv, NEW t \in Task, Failing(t)
    PROVE  LossInv'
<1>1. CASE FailureMarked(t) \/ FailureNotice(t)
  BY <1>1, FailureMarkedLoss, FailureNoticeLoss
<1>2. CASE FailureIgnored(t) \/ FailureHandled(t) \/ CallbackDisconnects(t)
  <2>1. /\ pc \in [Task -> Labels] /\ lock \in LockType
    BY TypedNow
  <2>2. /\ client' = client /\ lost' = lost /\ serving' = serving
        /\ budget' = budget /\ lock'.lifecycle = lock.lifecycle
    BY <1>2, <2>1
    DEF FailureIgnored, FailureHandled, CallbackDisconnects, Released,
        LockType, others
  <2>3. /\ \A u \in Task \ {t} : pc'[u] = pc[u]
        /\ pc'[t] \in {"disconnect", "done", "next", "idle", "raised"}
    BY <1>2, <2>1, AfterFailureType
    DEF FailureIgnored, FailureHandled, CallbackDisconnects, Goto
  <2>4. \A u \in Task \ {t} : Undisturbed(u)
    BY <2>2, <2>3 DEF Undisturbed
  <2>5. pc'[t] \notin Handshake \cup Teardown \cup {"connect"}
    BY <2>3 DEF Handshake, HandshakeWait, Teardown
  <2>6. QED
    BY <2>2, <2>4, <2>5, LossKept
<1>3. QED
  BY <1>1, <1>2 DEF Failing

LEMMA WorkingLoss ==
    ASSUME Typed, LossInv, NEW s \in Sessions, Working(s)
    PROVE  LossInv'
<1> DEFINE w == Worker(s)
<1>1. /\ w \in Task /\ pc \in [Task -> Labels] /\ client \in ClientType
      /\ lock \in LockType
  BY TypedNow, TaskKinds
<1>2. /\ client'.session = client.session /\ client'.failure = client.failure
      /\ lost' = lost /\ serving' = serving /\ budget' = budget
  BY <1>1
  DEF Working, WorkerStop, WorkerProcess, WorkerFails, WorkerWaits,
      WorkerCancelled, Process, NotClosing, ClientType, others
<1>3. /\ \A u \in Task \ {w} : pc'[u] = pc[u]
      /\ pc'[w] \in {"done", "killed", "run", "next", "fail"}
  BY <1>1
  DEF Working, WorkerStop, WorkerProcess, WorkerFails, WorkerWaits,
      WorkerCancelled, Goto
<1>4. \A u \in Task \ {w} : lock.lifecycle = u => lock'.lifecycle = u
  BY <1>1
  DEF Working, WorkerStop, WorkerProcess, WorkerFails, WorkerWaits,
      WorkerCancelled, LetGo, LockType
<1>5. \A u \in Task \ {w} : Undisturbed(u)
  BY <1>2, <1>3, <1>4 DEF Undisturbed
<1>6. pc'[w] \notin Handshake \cup Teardown \cup {"connect"}
  BY <1>3 DEF Handshake, HandshakeWait, Teardown
<1>7. QED
  BY <1>1, <1>2, <1>5, <1>6, LossKept

LEMMA KeepingAliveLoss ==
    ASSUME Typed, LossInv, NEW s \in Sessions, KeepingAlive(s)
    PROVE  LossInv'
<1> DEFINE k == Keepalive(s)
<1>1. k \in Task /\ pc \in [Task -> Labels] /\ lock \in LockType
  BY TypedNow, TaskKinds
<1>2. /\ client' = client /\ lost' = lost /\ serving' = serving
      /\ budget' = budget /\ lock'.lifecycle = lock.lifecycle
  BY <1>1
  DEF KeepingAlive, KeepaliveSend, KeepaliveSent, KeepaliveFails,
      KeepaliveCancelled, Released, LockType, others
<1>3. /\ \A u \in Task \ {k} : pc'[u] = pc[u]
      /\ pc'[k] \in {"k_write", "k_sleep", "fail", "done"}
  BY <1>1
  DEF KeepingAlive, KeepaliveSend, KeepaliveSent, KeepaliveFails,
      KeepaliveError, KeepaliveCancelled, Goto
<1>4. \A u \in Task \ {k} : Undisturbed(u)
  BY <1>2, <1>3 DEF Undisturbed
<1>5. pc'[k] \notin Handshake \cup Teardown \cup {"connect"}
  BY <1>3 DEF Handshake, HandshakeWait, Teardown
<1>6. QED
  BY <1>1, <1>2, <1>4, <1>5, LossKept

(* Notifications, the loss of the link, and steps in which nothing happens.  *)
LEMMA OutsideLoss ==
    ASSUME Typed, LossInv,
           \/ \E m \in Kinds : NotifyQueued(m) \/ NotifyInline(m)
           \/ LinkLoss \/ UNCHANGED vars
    PROVE  LossInv'
<1>1. /\ Notifier \in Task /\ pc \in [Task -> Labels] /\ client \in ClientType
      /\ budget \in BudgetType
  BY TypedNow, TaskKinds
<1>2. /\ client'.session = client.session /\ client'.failure = client.failure
      /\ lost' = lost /\ serving' = serving /\ budget'.connect = budget.connect
      /\ lock' = lock
  BY <1>1
  DEF NotifyQueued, NotifyInline, Arrives, Process, LinkLoss, ClientType,
      BudgetType, others, vars
<1>3. pc' = pc \/ Goto(Notifier, "fail")
  BY DEF NotifyQueued, NotifyInline, LinkLoss, vars
<1>4. CASE pc' = pc
  <2>1. \A t \in Task : Telling(t)' = Telling(t)
    BY <1>2, <1>4 DEF Telling
  <2>2. Locked'
    BY <1>2, <1>4 DEF LossInv, Locked
  <2>3. ASSUME NEW s \in Sessions PROVE Once(s)'
    <3>1. /\ \A t \in Task : Tells(t, s)' = Tells(t, s)
          /\ \A c \in Callers : Ahead(c, s)' = Ahead(c, s)
          /\ Called' = Called
      BY <1>2, <1>4, <2>1 DEF Tells, Ahead, Called
    <3>2. Unheard(s)' = Unheard(s) /\ Fresh(s)' = Fresh(s)
      BY <1>2, <3>1 DEF Unheard, Fresh
    <3>3. QED
      BY <1>2, <3>1, <3>2 DEF LossInv, Once
  <2>4. QED
    BY <2>2, <2>3 DEF LossInv
<1>5. CASE Goto(Notifier, "fail")
  <2>1. /\ \A u \in Task \ {Notifier} : pc'[u] = pc[u]
        /\ pc'[Notifier] = "fail"
    BY <1>1, <1>5 DEF Goto
  <2>2. \A u \in Task \ {Notifier} : Undisturbed(u)
    BY <1>2, <2>1 DEF Undisturbed
  <2>3. pc'[Notifier] \notin Handshake \cup Teardown \cup {"connect"}
    BY <2>1 DEF Handshake, HandshakeWait, Teardown
  <2>4. QED
    BY <1>1, <1>2, <2>2, <2>3, LossKept
<1>6. QED
  BY <1>3, <1>4, <1>5

(* The sessions still to be opened only become fewer.                        *)
LEMMA FreshKept ==
    ASSUME budget'.connect = budget.connect,
           \A c \in Callers : pc'[c] = "connect" =>
               pc[c] = "connect" /\ serving'[c] = serving[c]
    PROVE  \A s \in Sessions : Fresh(s)' => Fresh(s)
  BY DEF Fresh, Ahead, Called

LEMMA NextFresh ==
    ASSUME Typed, [Next]_vars
    PROVE  \A s \in Sessions : Fresh(s)' => Fresh(s)
<1>1. /\ pc \in [Task -> Labels] /\ budget \in BudgetType
      /\ serving \in [Task -> Sessions \cup {0}]
  BY TypedNow
<1>2. ASSUME NEW c \in Callers, CallConnect(c)
      PROVE  \A s \in Sessions : Fresh(s)' => Fresh(s)
  <2>1. /\ pc' = [pc EXCEPT ![c] = "connect"]
        /\ budget.connect \in Nat /\ budget'.connect = budget.connect - 1
        /\ serving' = [serving EXCEPT ![c] = Called + 1]
    BY <1>1, <1>2, ConstantsAssumption
    DEF CallConnect, Goto, BudgetType, Called
  <2>2. /\ Called \in Nat /\ Called' = Called + 1
    BY <1>1, <2>1, ConstantsAssumption DEF Called, BudgetType
  <2>3. ASSUME NEW s \in Sessions, Fresh(s)' PROVE Fresh(s)
    <3>1. s \in Nat
      BY DEF Sessions
    <3>2. \A d \in Callers : Ahead(d, s)' => Ahead(d, s) \/ s = Called + 1
      BY <1>1, <2>1, TaskKinds DEF Ahead
    <3>3. QED
      BY <2>2, <2>3, <3>1, <3>2 DEF Fresh
  <2>4. QED
    BY <2>3
<1>3. ASSUME NEW c \in Callers,
             CallDisconnect(c) \/ CallWrite(c) \/ Writing(c)
      PROVE  \A s \in Sessions : Fresh(s)' => Fresh(s)
  <2>1. budget'.connect = budget.connect
    BY <1>1, <1>3
    DEF CallDisconnect, CallWrite, Writing, WriteStart, WriteSent, WriteFails,
        WriteTake, WriteGivesUp, BudgetType, others
  <2>2. \A d \in Callers : pc'[d] = "connect" =>
            pc[d] = "connect" /\ serving'[d] = serving[d]
    BY <1>1, <1>3, TaskKinds
    DEF CallDisconnect, CallWrite, Writing, WriteStart, WriteSent, WriteFails,
        WriteTake, WriteGivesUp, Goto, others
  <2>3. QED
    BY <2>1, <2>2, FreshKept
<1>4. ASSUME NEW c \in Callers, Connecting(c)
      PROVE  \A s \in Sessions : Fresh(s)' => Fresh(s)
  <2>1. budget' = budget /\ serving' = serving
    BY <1>4
    DEF Connecting, ConnectNoop, ConnectStart, ConnectTransportUp,
        ConnectSendRequest, ConnectAwaitAnswer, ConnectDiscard,
        ConnectTakeBlespp, ConnectTakeInfo, ConnectTakeReport, ConnectFails,
        ConnectRaises, others
  <2>2. \A d \in Callers : pc'[d] = "connect" => pc[d] = "connect"
    BY <1>1, <1>4, TaskKinds
    DEF Connecting, ConnectNoop, ConnectStart, ConnectTransportUp,
        ConnectSendRequest, ConnectAwaitAnswer, ConnectDiscard,
        ConnectTakeBlespp, ConnectTakeInfo, ConnectTakeReport, ConnectTake, At,
        ConnectFails, ConnectRaises, Goto, HandshakeWait
  <2>3. QED
    BY <2>1, <2>2, FreshKept
<1>5. ASSUME NEW c \in Callers, Cancelling(c)
      PROVE  \A s \in Sessions : Fresh(s)' => Fresh(s)
  <2>1. /\ budget'.connect = budget.connect /\ serving' = serving
        /\ \A d \in Callers : pc'[d] = "connect" => pc[d] = "connect"
    BY <1>1, <1>5, TaskKinds
    DEF Cancelling, CancelledInLine, TeardownCancelled, JoinCancelled,
        Interrupting, Goto, BudgetType, others
  <2>2. QED
    BY <2>1, FreshKept
<1>6. ASSUME NEW t \in Task, Disconnecting(t) \/ TearingDown(t)
      PROVE  \A s \in Sessions : Fresh(s)' => Fresh(s)
  <2>1. budget' = budget /\ serving' = serving
    BY <1>6
    DEF Disconnecting, DisconnectStart, DisconnectReturns, TearingDown,
        TeardownBegin, TeardownJoined, TeardownCleanup, TeardownDisconnect,
        TeardownTasksEnded, TeardownDisconnected, TeardownWorker, AbortJoin,
        Aborted, others
  <2>2. AfterFailure(t) # "connect"
    BY AfterFailureType
  <2>3. \A d \in Callers : pc'[d] = "connect" => pc[d] = "connect"
    BY <1>1, <1>6, <2>2, TaskKinds
    DEF Disconnecting, DisconnectStart, DisconnectReturns, TearingDown,
        TeardownBegin, TeardownJoined, TeardownCleanup, NextCleanup,
        TeardownDisconnect, TeardownTasksEnded, TeardownDisconnected,
        TeardownWorker, AbortJoin, AfterCancel, Ended, Aborted, Goto
  <2>4. QED
    BY <2>1, <2>3, FreshKept
<1>7. ASSUME NEW t \in Task, Failing(t)
      PROVE  \A s \in Sessions : Fresh(s)' => Fresh(s)
  <2>1. AfterFailure(t) # "connect"
    BY AfterFailureType
  <2>2. /\ budget' = budget
        /\ \A d \in Callers : pc'[d] = "connect" =>
               pc[d] = "connect" /\ serving'[d] = serving[d]
    BY <1>1, <1>7, <2>1, TaskKinds
    DEF Failing, FailureIgnored, FailureMarked, FailureNotice, FailureHandled,
        CallbackDisconnects, Goto, others
  <2>3. QED
    BY <2>2, FreshKept
<1>8. ASSUME NEW s \in Sessions, Working(s) \/ KeepingAlive(s)
      PROVE  \A r \in Sessions : Fresh(r)' => Fresh(r)
  <2>1. /\ budget' = budget /\ serving' = serving
        /\ \A d \in Callers : pc'[d] = pc[d]
    BY <1>1, <1>8, TaskKinds
    DEF Working, WorkerStop, WorkerProcess, WorkerFails, WorkerWaits,
        WorkerCancelled, KeepingAlive, KeepaliveSend, KeepaliveSent,
        KeepaliveFails, KeepaliveError, KeepaliveCancelled, Goto, others
  <2>2. QED
    BY <2>1, FreshKept
<1>9. ASSUME \/ \E m \in Kinds : NotifyQueued(m) \/ NotifyInline(m)
             \/ LinkLoss \/ UNCHANGED vars
      PROVE  \A s \in Sessions : Fresh(s)' => Fresh(s)
  <2>1. /\ budget'.connect = budget.connect /\ serving' = serving
        /\ \A d \in Callers : pc'[d] = pc[d]
    BY <1>1, <1>9, TaskKinds
    DEF NotifyQueued, NotifyInline, Arrives, LinkLoss, Goto, BudgetType,
        others, vars
  <2>2. QED
    BY <2>1, FreshKept
<1>10. QED
  BY <1>2, <1>3, <1>4, <1>5, <1>6, <1>7, <1>8, <1>9, StepKinds

LEMMA NextLoss ==
    ASSUME Typed, LossInv, [Next]_vars
    PROVE  LossInv'
  BY StepKinds, ConnectLoss, CallConnectLoss, CallsLoss, CancellingLoss,
     DisconnectLoss, TearingDownLoss, FailingLoss, WorkingLoss,
     KeepingAliveLoss, OutsideLoss

(* _handle_session_failure, whoever calls it, however often and whatever     *)
(* else is under way, a disconnect() or the connect() that opens the next    *)
(* session included: connection_lost_callback is called at most once for     *)
(* each session.                                                             *)
THEOREM LossHeardOnce == Spec => []LostOncePerSession
<1> DEFINE IInv == Typed /\ Numbered /\ LossInv
<1>1. Init => IInv
  BY InitTyped, InitNumbered, InitLoss
<1>2. IInv /\ [Next]_vars => IInv'
  BY NextTyped, NextNumbered, NextLoss
<1>3. IInv => LostOncePerSession
  BY DEF LossInv, Once, LostOncePerSession
<1>4. QED
  BY <1>1, <1>2, <1>3, PTL DEF Spec

-----------------------------------------------------------------------------
(* Keepalives.                                                               *)
Awake == {"k_sleep", "k_write"}

(* A keepalive that goes on writing is the one that disconnect() cancels,    *)
(* unless another session has got its own since.                             *)
ReplacedInv ==
    \A k \in Keepalives : pc[k] \in Awake =>
        \/ client.keepalive = k
        \/ \E j \in Keepalives \ {k} : pc[j] # "none"

LEMMA ReplacedKept ==
    ASSUME ReplacedInv, client'.keepalive = client.keepalive,
           \A k \in Keepalives : /\ pc'[k] \in Awake => pc[k] \in Awake
                                 /\ pc[k] # "none" => pc'[k] # "none"
    PROVE  ReplacedInv'
  BY DEF ReplacedInv

(* Task t alone moves, and not to where a keepalive writes or has not begun. *)
LEMMA OneMoves ==
    ASSUME Typed, ReplacedInv, client'.keepalive = client.keepalive,
           NEW t \in Task, NEW l, Goto(t, l), l # "none",
           t \in Keepalives /\ l \in Awake => pc[t] \in Awake
    PROVE  ReplacedInv'
<1>1. \A u \in Task \ {t} : pc'[u] = pc[u] /\ pc'[t] = l
  BY TypedNow DEF Goto
<1>2. QED
  BY <1>1, TypedNow, TaskKinds, ReplacedKept DEF Goto

LEMMA NextReplaced ==
    ASSUME Typed, ReplacedInv, [Next]_vars
    PROVE  ReplacedInv'
<1>1. /\ pc \in [Task -> Labels] /\ client \in ClientType
      /\ awaiting \in [Task -> Task \cup {NoTask}] /\ NoTask \notin Task
      /\ "none" \notin Awake
  BY TypedNow, ConstantsAssumption DEF Awake
<1>2. ASSUME NEW c \in Callers, Connecting(c) PROVE ReplacedInv'
  <2>1. CASE ConnectTakeReport(c)
    <3> DEFINE k == Keepalive(serving[c])
    <3>1. /\ k \in Keepalives /\ client'.keepalive = k /\ pc'[k] = "k_sleep"
          /\ \A u \in Keepalives \ {k} : pc'[u] = pc[u]
      BY <1>1, <2>1, TypedNow, TaskKinds
      DEF ConnectTakeReport, ConnectTake, Ready, At, ConnectServes, Handshake,
          HandshakeWait, ClientType
    <3>2. QED
      BY <3>1 DEF ReplacedInv
  <2>2. CASE ConnectTransportUp(c)
    <3>1. /\ client'.keepalive = client.keepalive
          /\ \A k \in Keepalives : pc'[k] = pc[k]
      BY <1>1, <2>2, TypedNow, TaskKinds
      DEF ConnectTransportUp, Opened, At, ConnectServes, Handshake, ClientType
    <3>2. QED
      BY <3>1, ReplacedKept
  <2>3. CASE ~ConnectTakeReport(c) /\ ~ConnectTransportUp(c)
    <3>1. client'.keepalive = client.keepalive
      BY <1>1, <1>2, <2>3
      DEF Connecting, ConnectNoop, ConnectStart, Begun, Cleared,
          ConnectSendRequest, ConnectAwaitAnswer, ConnectDiscard,
          ConnectTakeBlespp, ConnectTakeInfo, ConnectFails, ConnectRaises,
          Disconnected, ClientType
    <3>2. PICK l : Goto(c, l)
      BY <1>2, <2>3
      DEF Connecting, ConnectNoop, ConnectStart,
          ConnectSendRequest, ConnectAwaitAnswer, ConnectDiscard,
          ConnectTakeBlespp, ConnectTakeInfo, ConnectFails, ConnectRaises
    <3>3. \A k \in Keepalives : pc'[k] = pc[k]
      BY <1>1, <3>2, TaskKinds DEF Goto
    <3>4. QED
      BY <3>1, <3>3, ReplacedKept
  <2>4. QED
    BY <2>1, <2>2, <2>3
<1>3. ASSUME NEW c \in Callers,
             \/ CallConnect(c) \/ CallDisconnect(c) \/ CallWrite(c)
             \/ Writing(c) \/ Cancelling(c)
      PROVE  ReplacedInv'
  <2>1. /\ client'.keepalive = client.keepalive
        /\ \A k \in Keepalives : pc'[k] = pc[k]
    BY <1>1, <1>3, TaskKinds
    DEF CallConnect, CallDisconnect, CallWrite, Writing, WriteStart, WriteSent,
        WriteFails, WriteTake, WriteGivesUp, Cancelling, CancelledInLine,
        TeardownCancelled, JoinCancelled, NotClosing, Goto, ClientType
  <2>2. QED
    BY <2>1, ReplacedKept
<1>4. ASSUME NEW t \in Task, Disconnecting(t) \/ Failing(t)
      PROVE  ReplacedInv'
  <2>1. client'.keepalive = client.keepalive
    BY <1>1, <1>4
    DEF Disconnecting, DisconnectStart, DisconnectReturns, Disconnected,
        Cleared, Failing, FailureIgnored, FailureMarked, Failed, FailureNotice,
        FailureHandled, CallbackDisconnects, ClientType
  <2>2. PICK l \in {"td_begin", "returned", "lost", "disconnect", "done",
                    "next", "idle", "raised"} : Goto(t, l)
    BY <1>4, AfterFailureType
    DEF Disconnecting, DisconnectStart, DisconnectReturns, Failing,
        FailureIgnored, FailureMarked, FailureNotice, FailureHandled,
        CallbackDisconnects
  <2>3. QED
    BY <2>1, <2>2, OneMoves DEF Awake
<1>5. ASSUME NEW t \in Task, TearingDown(t) PROVE ReplacedInv'
  <2>1. CASE TeardownBegin(t)
    <3> DEFINE k == client.keepalive
    <3>1. k \in Keepalives \cup {NoTask}
      BY <1>1 DEF ClientType
    <3>2. CASE Goto(t, "td_cleanup") /\ ~Joins(t, k)
      <4>1. client'.keepalive = NoTask /\ k \in {NoTask, t}
        BY <1>1, <2>1, <3>2 DEF TeardownBegin, Joins, ClientType
      <4>2. \A u \in Keepalives : /\ pc'[u] \in Awake => pc[u] \in Awake /\ u # k
                                  /\ pc[u] # "none" => pc'[u] # "none"
        BY <1>1, <3>2, <4>1, TaskKinds DEF Goto, Awake
      <4>3. QED
        BY <4>2 DEF ReplacedInv
    <3>3. CASE Joins(t, k)
      <4>1. /\ k \in Keepalives /\ k # t /\ k \in Task
            /\ pc' = [pc EXCEPT ![t] = "td_keepalive",
                          ![k] = IF @ \in {"k_sleep", "k_write"}
                                 THEN "cancelled" ELSE @]
        BY <2>1, <3>1, <3>3, TaskKinds DEF TeardownBegin, Joins
      <4>2. /\ pc'[t] = "td_keepalive"
            /\ pc'[k] = IF pc[k] \in Awake THEN "cancelled" ELSE pc[k]
            /\ \A u \in Task \ {t, k} : pc'[u] = pc[u]
        BY <1>1, <4>1 DEF Awake
      <4>3. \A u \in Keepalives : /\ pc'[u] \in Awake => pc[u] \in Awake /\ u # k
                                  /\ pc[u] # "none" => pc'[u] # "none"
        <5> SUFFICES ASSUME NEW u \in Keepalives
                     PROVE  /\ pc'[u] \in Awake => pc[u] \in Awake /\ u # k
                            /\ pc[u] # "none" => pc'[u] # "none"
          OBVIOUS
        <5>1. CASE u = t
          BY <4>1, <4>2, <5>1 DEF Awake
        <5>2. CASE u = k
          BY <4>1, <4>2, <5>2 DEF Awake
        <5>3. CASE u \notin {t, k}
          BY <4>2, <5>3, TaskKinds
        <5>4. QED
          BY <5>1, <5>2, <5>3
      <4>4. QED
        BY <2>1, <4>3 DEF ReplacedInv
    <3>4. QED
      BY <2>1, <3>2, <3>3 DEF TeardownBegin
  <2>2. CASE TeardownDisconnect(t)
    <3>1. /\ client' = client /\ pc'[t] \notin Awake \cup {"none"}
          /\ \A u \in Task \ {t} : pc'[u] = pc[u] \/ u = Notifier
      BY <1>1, <2>2, TaskKinds DEF TeardownDisconnect, Awake
    <3>2. QED
      BY <3>1, TaskKinds, ReplacedKept
  <2>3. CASE AbortJoin(t)
    <3>1. /\ client' = client /\ pc'[t] \notin Awake \cup {"none"}
          /\ \A u \in Task \ {t} :
                pc'[u] = pc[u] \/ pc'[u] = AfterCancel(pc[u])
      BY <1>1, <2>3 DEF AbortJoin, AfterCancel, Awake
    <3>2. \A l \in Labels : AfterCancel(l) \notin Awake \cup {"none"}
      BY DEF AfterCancel, Ended, Awake
    <3>3. QED
      BY <1>1, <3>1, <3>2, TaskKinds, ReplacedKept
  <2>4. CASE ~TeardownBegin(t) /\ ~TeardownDisconnect(t) /\ ~AbortJoin(t)
    <3>1. client'.keepalive = client.keepalive
      BY <1>1, <1>5, <2>4
      DEF TearingDown, TeardownJoined, TeardownCleanup, TeardownTasksEnded,
          TeardownDisconnected, TeardownWorker, ForgotWorker, Aborted,
          NotClosing, ClientType
    <3>2. PICK l \in {"td_finish", "td_cleanup", "td_worker", "td_stop",
                      "td_disc", "td_join", "killed", "done", "next", "idle",
                      "raised"} :
                 Goto(t, l)
      BY <1>5, <2>4, AfterFailureType
      DEF TearingDown, TeardownJoined, TeardownCleanup, NextCleanup,
          TeardownTasksEnded, TeardownDisconnected, TeardownWorker, Aborted
    <3>3. QED
      BY <3>1, <3>2, OneMoves DEF Awake
  <2>5. QED
    BY <2>1, <2>2, <2>3, <2>4
<1>6. ASSUME NEW s \in Sessions, Working(s) PROVE ReplacedInv'
  <2>1. client'.keepalive = client.keepalive
    <3>1. CASE WorkerProcess(s)
      BY <1>1, <3>1 DEF WorkerProcess, Process, ClientType
    <3>2. QED
      BY <1>1, <1>6, <3>1
      DEF Working, WorkerStop, WorkerFails, WorkerWaits, WorkerCancelled,
          NotClosing, ClientType
  <2>2. PICK l : Goto(Worker(s), l)
    BY <1>6
    DEF Working, WorkerStop, WorkerProcess, WorkerFails, WorkerWaits,
        WorkerCancelled
  <2>3. \A k \in Keepalives : pc'[k] = pc[k]
    BY <1>1, <2>2, TaskKinds DEF Goto
  <2>4. QED
    BY <2>1, <2>3, ReplacedKept
<1>7. ASSUME NEW s \in Sessions, KeepingAlive(s) PROVE ReplacedInv'
  <2> DEFINE k == Keepalive(s)
  <2>1. k \in Task /\ client' = client
    BY <1>7, TaskKinds
    DEF KeepingAlive, KeepaliveSend, KeepaliveSent, KeepaliveFails,
        KeepaliveCancelled
  <2>2. PICK l \in {"k_sleep", "k_write", "fail", "done"} :
            Goto(k, l) /\ (l \in Awake => pc[k] \in Awake)
    BY <1>7
    DEF KeepingAlive, KeepaliveSend, KeepaliveSent, KeepaliveFails,
        KeepaliveError, KeepaliveCancelled, At, Awake
  <2>3. QED
    BY <2>1, <2>2, OneMoves
<1>8. ASSUME \/ \E m \in Kinds : NotifyQueued(m) \/ NotifyInline(m)
             \/ LinkLoss \/ UNCHANGED vars
      PROVE  ReplacedInv'
  <2>1. client'.keepalive = client.keepalive
    BY <1>1, <1>8
    DEF NotifyQueued, NotifyInline, Process, LinkLoss, ClientType, vars
  <2>2. \A k \in Keepalives : pc'[k] = pc[k]
    BY <1>1, <1>8, TaskKinds DEF NotifyQueued, NotifyInline, LinkLoss, Goto, vars
  <2>3. QED
    BY <2>1, <2>2, ReplacedKept
<1>9. QED
  BY <1>2, <1>3, <1>4, <1>5, <1>6, <1>7, <1>8, StepKinds

LEMMA ReplacedHolds == Spec => []ReplacedInv
<1>1. Init => ReplacedInv
  BY TaskKinds DEF Init, ReplacedInv, Awake
<1>2. Typed /\ ReplacedInv /\ [Next]_vars => ReplacedInv'
  BY NextReplaced
<1>3. Spec => []Typed
  <2>1. Init => Typed /\ Numbered
    BY InitTyped, InitNumbered
  <2>2. Typed /\ Numbered /\ [Next]_vars => (Typed /\ Numbered)'
    BY NextTyped, NextNumbered
  <2>3. QED
    BY <2>1, <2>2, PTL DEF Spec
<1>4. QED
  BY <1>1, <1>2, <1>3, PTL DEF Spec

(* disconnect(), connect() and the failure handler cancel the keepalive that *)
(* _keepalive_task names.  With one session no other is left writing,        *)
(* whatever happens to the session and whichever tasks end it; so it takes   *)
(* a second session to leave one behind.                                     *)
THEOREM NoStrayInOneSession ==
    Budget.connect <= 1 => (Spec => []NoStrayKeepalive)
<1> SUFFICES ASSUME Budget.connect <= 1 PROVE Spec => []NoStrayKeepalive
  OBVIOUS
<1>1. \A s, r \in Sessions : s = r
  BY ConstantsAssumption DEF Sessions
<1>2. \A j, k \in Keepalives : j = k
  BY <1>1 DEF Keepalives, Keepalive
<1>3. ReplacedInv => NoStrayKeepalive
  BY <1>2 DEF ReplacedInv, NoStrayKeepalive, Awake
<1>4. QED
  BY <1>3, ReplacedHolds, PTL
=============================================================================
