---------------------------- MODULE ControlWrite ----------------------------
(* The control calls of SolarFlowClient (set_input_limit ... set_ac_mode):   *)
(* how _request_write serializes them, numbers them and recognizes their     *)
(* acknowledgements.  SolarFlowClient models the session in detail; here it  *)
(* is reduced to what a control call can see of it.                          *)
EXTENDS Integers, SequencesExt

CONSTANTS
    Callers,       \* application tasks
    Properties,    \* the settings: inputLimit, outputLimit, ...
    Reserved,      \* BLESPP_OK_MESSAGE_ID
    FullReports,   \* TRUE iff status reports carry a writeRsp and all the
                   \* settings, as captured from hardware in
                   \* tests/fixtures/solarflow_reports.jsonl
    Resends,       \* TRUE iff the application writes a setting again in a
                   \* session that has not read the answer to the last write
    Budget         \* how many control calls, keepalive reads, status reports
                   \* with a writeRsp, and sessions

ASSUME ControlAssumption ==
    /\ Reserved \in Nat
    /\ "keepalive" \notin Callers
    /\ FullReports \in BOOLEAN /\ Resends \in BOOLEAN
    /\ Budget \in [calls : Nat, reads : Nat, reports : Nat, sessions : Nat]

VARIABLES
    session,    \* status, and whether _session_failure is set
    lock,       \* _lock: its owner and the tasks that wait for it, in order
    call,       \* the last control call of each caller
    keepalive,  \* what the keepalive of the session is at
    results,    \* _write_results; the object a waiter holds once replaced
    nextId,     \* _message_id
    air,        \* requests the device has received and not dealt with
    verdict,    \* what the device has made of each caller's last call
    unanswered, \* settings written in this session by calls that are over
                \* and have not read the answer to their own request
    budget

vars == <<session, lock, call, keepalive, results, nextId, air, verdict,
          unanswered, budget>>

-----------------------------------------------------------------------------
Ended == {"idle", "returned", "rejected", "raised"}
Active == {"locking", "sending", "waiting"}

Closed == [rsp |-> "closed", names |-> {}, id |-> 0]

(* What a status report says.  Its messageId, of the device's own counting,  *)
(* makes no difference, as the report names every setting.                   *)
Status == [rsp |-> "ok", names |-> Properties, id |-> 0]

Read(id) == [by |-> "keepalive", property |-> "getAll", id |-> id]

(* _next_message_id *)
FreshMutant(n) ==             \* the id of BLESPP_OK is not skipped
    n
Fresh(n) == IF n = Reserved THEN n + 1 ELSE n

(* correlated in accept(): the answer names the setting or echoes the id.    *)
CorrelatedMutant(m, p, id) == \* any writeRsp will do
    TRUE
Correlated(m, p, id) == p \in m.names \/ m.id = id

View == IF results.detached THEN results.held ELSE results.current
Rest == IF results.detached THEN [results EXCEPT !.held = Tail(@)]
                            ELSE [results EXCEPT !.current = Tail(@)]
Left(q) == [q EXCEPT !.held = <<>>, !.detached = FALSE]

(* _reset_session, after the last messages have been put for a waiter.       *)
Replaced(last) ==
    IF results.detached \/ \A c \in Callers : call[c].phase # "waiting"
    THEN [results EXCEPT !.current = <<>>]
    ELSE [current |-> <<>>, held |-> results.current \o last,
          detached |-> TRUE]

HeadOfLine(task) == lock # <<>> /\ Head(lock) = task
LeavesLine(task) ==
    \E i \in 1 .. Len(lock) : lock[i] = task /\ lock' = RemoveAt(lock, i)

Granted(c) == call[c].phase = "locking" /\ HeadOfLine(c)
KeepaliveGranted == keepalive = "locking" /\ HeadOfLine("keepalive")

(* The call ends and the lock goes to the next in line.                      *)
Ends(c, phase) ==
    /\ call' = [call EXCEPT ![c].phase = phase]
    /\ lock' = Tail(lock)

(* The request is numbered and handed to the transport.                      *)
Transmit(c, p) ==
    LET id == Fresh(nextId) IN
    /\ call' = [call EXCEPT ![c] = [phase |-> "sending", property |-> p,
                                    id |-> id]]
    /\ nextId' = id + 1
    /\ air' = IF session.status = "DISCONNECTED" THEN air
              ELSE Append(air, [by |-> c, property |-> p, id |-> id])

-----------------------------------------------------------------------------
Init ==
    /\ session = [status |-> "DISCONNECTED", failed |-> FALSE]
    /\ lock = <<>>
    /\ call \in [Callers -> [phase : {"idle"}, property : Properties, id : {0}]]
    /\ keepalive = "asleep"
    /\ results = [current |-> <<>>, held |-> <<>>, detached |-> FALSE]
    /\ nextId = 1
    /\ air = <<>>
    /\ verdict = [c \in Callers |-> "none"]
    /\ unanswered = {}
    /\ budget = Budget

(* A call while the session is not READY raises at once and changes nothing. *)
Contested(p) ==
    \/ p \in unanswered
    \/ \E d \in Callers : call[d].phase \in Active /\ call[d].property = p

Called(c, p) ==
    /\ call[c].phase \in Ended
    /\ Contested(p) => Resends
    /\ session.status = "READY"
    /\ budget.calls > 0
    /\ budget' = [budget EXCEPT !.calls = @ - 1]
    /\ verdict' = [verdict EXCEPT ![c] = "none"]
    /\ lock' = Append(lock, c)
    /\ UNCHANGED <<session, keepalive, results, unanswered>>

CallAtOnceMutant(c, p) ==     \* without _lock
    /\ Called(c, p)
    /\ Transmit(c, p)
CallAtOnce(c, p) ==
    /\ Called(c, p) /\ lock = <<>>
    /\ Transmit(c, p)

CallQueued(c, p) ==
    /\ Called(c, p) /\ lock # <<>>
    /\ call' = [call EXCEPT ![c] = [phase |-> "locking", property |-> p,
                                    id |-> 0]]
    /\ UNCHANGED <<nextId, air>>

(* The lock is granted; readiness is not looked at again, a failure is.      *)
WriteStart(c) ==
    /\ Granted(c)
    /\ ~session.failed
    /\ Transmit(c, call[c].property)
    /\ UNCHANGED <<session, lock, keepalive, results, verdict, unanswered,
                   budget>>

(* A failed session, or one that does not know the device's identity yet.    *)
WriteRefused(c) ==
    /\ Granted(c)
    /\ session.failed \/ session.status # "READY"
    /\ Ends(c, "raised")
    /\ UNCHANGED <<session, keepalive, results, nextId, air, verdict,
                   unanswered, budget>>

(* The wait begins by looking at the failure.                                *)
WriteSent(c) ==
    /\ call[c].phase = "sending"
    /\ \/ session.failed /\ Ends(c, "raised")
       \/ /\ ~session.failed
          /\ call' = [call EXCEPT ![c].phase = "waiting"]
          /\ UNCHANGED lock
    /\ UNCHANGED <<session, keepalive, results, nextId, air, verdict,
                   unanswered, budget>>

(* The wait takes one message of the queue.                                  *)
TakeSentinel(c) ==
    /\ call[c].phase = "waiting" /\ View # <<>>
    /\ Head(View) = Closed
    /\ Ends(c, "raised")
    /\ results' = Left(Rest)
    /\ UNCHANGED <<session, keepalive, nextId, air, verdict, unanswered,
                   budget>>

TakeAnswer(c) ==
    LET m == Head(View) IN
    /\ call[c].phase = "waiting" /\ View # <<>>
    /\ m # Closed /\ Correlated(m, call[c].property, call[c].id)
    /\ Ends(c, IF m.rsp = "ok" THEN "returned" ELSE "rejected")
    /\ results' = Left(Rest)
    /\ unanswered' = IF m.id = call[c].id THEN unanswered
                     ELSE unanswered \cup {call[c].property}
    /\ UNCHANGED <<session, keepalive, nextId, air, verdict, budget>>

TakeUnrelated(c) ==
    LET m == Head(View) IN
    /\ call[c].phase = "waiting" /\ View # <<>>
    /\ m # Closed /\ ~Correlated(m, call[c].property, call[c].id)
    /\ \/ /\ session.failed
          /\ Ends(c, "raised")
          /\ results' = Left(Rest)
       \/ /\ ~session.failed
          /\ results' = Rest
          /\ UNCHANGED <<call, lock>>
    /\ UNCHANGED <<session, keepalive, nextId, air, verdict, unanswered,
                   budget>>

(* The response timeout, or the cancellation of the calling task.            *)
GiveUp(c) ==
    /\ call[c].phase \in {"sending", "waiting"}
    /\ Ends(c, "raised")
    /\ results' = Left(results)
    /\ unanswered' = unanswered \cup {call[c].property}
    /\ UNCHANGED <<session, keepalive, nextId, air, verdict, budget>>

CancelledInLineMutant(c) ==   \* the waiter's place in the line is kept
    /\ call[c].phase = "locking"
    /\ call' = [call EXCEPT ![c].phase = "raised"]
    /\ UNCHANGED <<session, lock, keepalive, results, nextId, air, verdict,
                   unanswered, budget>>
CancelledInLine(c) ==
    /\ call[c].phase = "locking"
    /\ call' = [call EXCEPT ![c].phase = "raised"]
    /\ LeavesLine(c)
    /\ UNCHANGED <<session, keepalive, results, nextId, air, verdict,
                   unanswered, budget>>

-----------------------------------------------------------------------------
(* The session, as SolarFlowClient models it.                                *)

Lost == /\ air' = <<>>
        /\ unanswered' = {}

(* _handle_session_failure by any task: the waiter is woken, then the queues *)
(* are replaced.                                                             *)
Fails ==
    /\ session' = [status |-> "DISCONNECTED", failed |-> TRUE]
    /\ results' = Replaced(<<Closed>>)
    /\ Lost

FailsOnce ==
    IF session.status = "DISCONNECTED"
    THEN UNCHANGED <<session, results, air, unanswered>>
    ELSE Fails

SessionFails ==
    /\ session.status # "DISCONNECTED"
    /\ Fails
    /\ UNCHANGED <<lock, call, keepalive, nextId, verdict, budget>>

(* The transport's write raises.                                             *)
SendFails(c) ==
    /\ call[c].phase = "sending"
    /\ Ends(c, "raised")
    /\ FailsOnce
    /\ UNCHANGED <<keepalive, nextId, verdict, budget>>

(* disconnect(), and the start of connect().  Each takes several turns of    *)
(* the event loop, a task that has been granted the lock needs only one.     *)
NobodyGranted == ~KeepaliveGranted /\ \A c \in Callers : ~Granted(c)

SessionCloses ==
    /\ NobodyGranted
    /\ session.status # "DISCONNECTED"
    /\ session' = [session EXCEPT !.status = "DISCONNECTED"]
    /\ results' = Replaced(<<>>)
    /\ Lost
    /\ UNCHANGED <<lock, call, keepalive, nextId, verdict, budget>>

SessionOpens ==
    /\ NobodyGranted
    /\ session.status = "DISCONNECTED"
    /\ budget.sessions > 0
    /\ budget' = [budget EXCEPT !.sessions = @ - 1]
    /\ session' = [status |-> "CONNECTED", failed |-> FALSE]
    /\ results' = Replaced(<<>>)
    /\ Lost
    /\ UNCHANGED <<lock, call, keepalive, nextId, verdict>>

(* The two requests of the handshake.                                        *)

SessionReady ==
    LET getInfo == Fresh(nextId)
        read == Fresh(getInfo + 1) IN
    /\ session.status = "CONNECTED"
    /\ session' = [session EXCEPT !.status = "READY"]
    /\ nextId' = read + 1
    /\ air' = Append(air, Read(read))
    /\ UNCHANGED <<lock, call, keepalive, results, verdict, unanswered, budget>>

-----------------------------------------------------------------------------
(* The keepalive, which stands in the line of _lock like any caller.         *)
Asks ==
    LET id == Fresh(nextId) IN
    /\ keepalive' = "writing"
    /\ nextId' = id + 1
    /\ air' = IF session.status = "DISCONNECTED" THEN air
              ELSE Append(air, Read(id))

(* It sleeps again, and the lock goes to the next in line.                   *)
Sleeps ==
    /\ keepalive' = "asleep"
    /\ lock' = Tail(lock)

KeepaliveWakes ==
    /\ keepalive = "asleep" /\ session.status = "READY"
    /\ budget.reads > 0
    /\ budget' = [budget EXCEPT !.reads = @ - 1]
    /\ lock' = Append(lock, "keepalive")
    /\ \/ lock = <<>> /\ Asks
       \/ /\ lock # <<>>
          /\ keepalive' = "locking"
          /\ UNCHANGED <<nextId, air>>
    /\ UNCHANGED <<session, call, results, verdict, unanswered>>

KeepaliveStart ==
    /\ KeepaliveGranted
    /\ Asks
    /\ UNCHANGED <<session, lock, call, results, verdict, unanswered, budget>>

KeepaliveSent ==
    /\ keepalive = "writing"
    /\ Sleeps
    /\ UNCHANGED <<session, call, results, nextId, air, verdict, unanswered,
                   budget>>

(* Its write raises, or there is no identity to put into the request.        *)
KeepaliveFails ==
    /\ \/ keepalive = "writing"
       \/ KeepaliveGranted /\ session.status # "READY"
    /\ Sleeps
    /\ FailsOnce
    /\ UNCHANGED <<call, nextId, verdict, budget>>

(* It is cancelled by the teardown of its session, whenever that comes.      *)
KeepaliveCancelled ==
    /\ keepalive # "asleep"
    /\ keepalive' = "asleep"
    /\ LeavesLine("keepalive")
    /\ UNCHANGED <<session, call, results, nextId, air, verdict, unanswered,
                   budget>>

-----------------------------------------------------------------------------
(* The device deals with its requests in order.  It accepts or rejects a     *)
(* write, and the answer, which names the setting and echoes the id, arrives *)
(* or is lost; _apply_message puts every writeRsp into _write_results,       *)
(* whether anybody waits or not.                                             *)
Answer(r, rsp) == [rsp |-> rsp, names |-> {r.property}, id |-> r.id]

Arrives(m) == results' = [results EXCEPT !.current = Append(@, m)]

DeviceDecides ==
    LET r == Head(air) IN
    /\ air # <<>> /\ r.by \in Callers
    /\ air' = Tail(air)
    /\ \E v \in {"accepted", "rejected"} :
        /\ verdict' = IF call[r.by].id = r.id THEN [verdict EXCEPT ![r.by] = v]
                      ELSE verdict
        /\ \/ Arrives(Answer(r, IF v = "accepted" THEN "ok" ELSE "error"))
           \/ UNCHANGED results
    /\ UNCHANGED <<session, lock, call, keepalive, nextId, unanswered, budget>>

(* A status report, asked for by a read or not.                              *)
DeviceReports ==
    /\ FullReports /\ session.status # "DISCONNECTED"
    /\ budget.reports > 0
    /\ budget' = [budget EXCEPT !.reports = @ - 1]
    /\ Arrives(Status)
    /\ UNCHANGED <<session, lock, call, keepalive, nextId, air, verdict,
                   unanswered>>

(* A read, or a request that never reaches the device.                       *)
DeviceMisses ==
    /\ air # <<>>
    /\ air' = Tail(air)
    /\ UNCHANGED <<session, lock, call, keepalive, results, nextId, verdict,
                   unanswered, budget>>

Finished ==
    /\ \A c \in Callers : call[c].phase \in Ended
    /\ UNCHANGED vars

-----------------------------------------------------------------------------
Writing(c) ==
    \/ WriteStart(c) \/ WriteRefused(c) \/ WriteSent(c) \/ SendFails(c)
    \/ TakeSentinel(c) \/ TakeAnswer(c) \/ TakeUnrelated(c)
    \/ GiveUp(c) \/ CancelledInLine(c)

Next ==
    \/ \E c \in Callers, p \in Properties : CallAtOnce(c, p) \/ CallQueued(c, p)
    \/ \E c \in Callers : Writing(c)
    \/ SessionFails \/ SessionCloses \/ SessionOpens \/ SessionReady
    \/ KeepaliveWakes \/ KeepaliveStart \/ KeepaliveSent \/ KeepaliveFails
    \/ KeepaliveCancelled
    \/ DeviceDecides \/ DeviceReports \/ DeviceMisses
    \/ Finished

Spec == Init /\ [][Next]_vars

-----------------------------------------------------------------------------
Asked == Properties \cup {"getAll"}
Message == [rsp : {"ok", "error", "closed"}, names : SUBSET Asked, id : Nat]
Request == [by : Callers \cup {"keepalive"}, property : Asked, id : Nat]
Call == [phase : Ended \cup Active, property : Properties, id : Nat]
Results == [current : Seq(Message), held : Seq(Message), detached : BOOLEAN]

NobodyTwice == \A i, j \in 1 .. Len(lock) : lock[i] = lock[j] => i = j

TypeOK ==
    /\ session \in [status : {"DISCONNECTED", "CONNECTED", "READY"},
                    failed : BOOLEAN]
    /\ lock \in Seq(Callers \cup {"keepalive"})
    /\ NobodyTwice
    /\ call \in [Callers -> Call]
    /\ keepalive \in {"asleep", "locking", "writing"}
    /\ results \in Results
    /\ nextId \in Nat
    /\ air \in Seq(Request)
    /\ verdict \in [Callers -> {"none", "accepted", "rejected"}]
    /\ unanswered \subseteq Properties
    /\ budget \in [calls : Nat, reads : Nat, reports : Nat, sessions : Nat]

(* _next_message_id: no request that the device may still answer carries the *)
(* id of BLESPP_OK or the id of another request, or an id not yet given.     *)
IdsFresh ==
    /\ \A i \in 1 .. Len(air) : air[i].id < nextId /\ air[i].id # Reserved
    /\ \A i, j \in 1 .. Len(air) : air[i].id = air[j].id => i = j

(* _lock: a call that has sent its request, and the keepalive that sends     *)
(* one, own the lock until they end, so no two requests are being written    *)
(* and nobody else reads _write_results.                                     *)
WritesSerialized ==
    /\ \A c \in Callers :
        call[c].phase \in {"sending", "waiting"} => HeadOfLine(c)
    /\ keepalive = "writing" => HeadOfLine("keepalive")

(* What the application is told of a setting is what the device made of it,  *)
(* but for the calls that return while a status report lies unread.          *)
Outcome(c) ==
    LET phase == call[c].phase IN
    IF phase \in Active THEN "asked"
    ELSE IF phase = "returned" THEN "returned"
    ELSE IF phase = "rejected" THEN "command error"
    ELSE "open"

StatusUnread == Status \in ToSet(results.current) \cup ToSet(results.held)

Contract == INSTANCE SettingContract
                WITH outcome <- [c \in Callers |-> Outcome(c)],
                     unread <- StatusUnread

ContractKept == Contract!Spec

(* CHANGELOG.md: "Write acknowledgements are correlated with their request,  *)
(* so a late writeRsp from an earlier timed-out write no longer satisfies    *)
(* the wait."                                                                *)
LateAnswersIgnored ==
    [][\A c \in Callers :
        call[c].phase = "waiting" /\ call'[c].phase = "returned"
            => Head(View).id = call[c].id]_vars

(* A control call that returns has been accepted by the device.              *)
ReturnedMeansAccepted ==
    [][\A c \in Callers :
        call[c].phase = "waiting" /\ call'[c].phase = "returned"
            => verdict[c] = "accepted"]_vars
=============================================================================
