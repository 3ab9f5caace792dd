-------------------------- MODULE ScriptRunProofs --------------------------
(* Proofs about a run of the developer scripts, for every request, whatever  *)
(* the scanners report, however often Ctrl-C is pressed and wherever the     *)
(* session fails: the scripts work on the device they were asked for, leave  *)
(* nothing behind, and the diagnostic's exit code tells the truth.           *)
EXTENDS ScriptRun, DiagnosticControlsProofs

-----------------------------------------------------------------------------
LEMMA RequestType ==
    ASSUME request \in Requests
    PROVE  /\ script \in {"controls", "monitor", "handshake", "passive", "list"}
           /\ request.cli \in Asking /\ request.config \in Asking
  BY ScriptAssumption DEF script

(* A pass of the scan returns what its target describes.                     *)
LEMMA FoundFits ==
    ASSUME NEW target, NEW seen, NEW d \in Found(target, seen)
    PROVE  IF target.address # {}
           THEN upper[d.address] \in {upper[a] : a \in target.address}
           ELSE Parsed(d.data) # {} /\ target.identifier \subseteq Parsed(d.data)
<1>1. CASE d \in Lookup(target, seen)
  BY <1>1 DEF Lookup, HasAddress
<1>2. CASE d \in Match(target, seen)
  BY <1>2 DEF Match, HasAddress
<1>3. QED
  BY <1>1, <1>2 DEF Found

(* The command line comes before the configuration file.                     *)
LEMMA TargetIs ==
    ASSUME request \in Requests
    PROVE  LET asked == IF /\ script \in Diagnostic
                           /\ request.cli.address = {} /\ request.cli.identifier = {}
                        THEN request.config ELSE request.cli
           IN /\ Target.address = asked.address
              /\ asked.address = {} => Target = asked
<1>1. request.cli \in Asking /\ request.config \in Asking
  BY RequestType
<1>2. QED
  BY <1>1 DEF Target, Merged, Asking

(* The scripts never use another device than the one that was asked for.     *)
THEOREM RightDevice == Spec => []FoundIsTarget
<1> DEFINE IInv == request \in Requests /\ FoundIsTarget
<1>1. Init => IInv
  BY DEF Init, FoundIsTarget
<1>2. IInv /\ [Next]_vars => IInv'
  <2> SUFFICES ASSUME IInv, [Next]_vars PROVE IInv'
    OBVIOUS
  <2>1. UNCHANGED request /\ (UNCHANGED found \/ ScanFinds)
    BY DEF Next, Step, Script, vars, run, scan, client, rest, SetUp, Listed,
       DeadlinePasses, ScanFinds, ScanTimesOut, Connects, Subscribes,
       ConnectReturns, ConnectReturnsDead, ConnectFails, UseEnds, Unlistens,
       Unsubscribed, Dropped, Disconnects, Fails, Disconnected,
       PassiveDisconnected, RunControls, ControlsEnd, Releases, Stopped,
       Advertised, GivesUpEarly, UseInterrupted, DisconnectInterrupted,
       ControlsInterrupted, StopInterrupted, WorkerFails, KeepaliveFails,
       SetterFindsLoss, ProductArrives, DeviceActs, Hears, Captures,
       PassiveCaptures, LinkLost, Over
  <2>2. CASE UNCHANGED found
    BY <2>1, <2>2 DEF FoundIsTarget, script
  <2>3. CASE ScanFinds
    <3>1. PICK d \in Found(Target, air) : found' = {d}
      BY <2>3 DEF ScanFinds
    <3>2. QED
      BY <2>1, <3>1, FoundFits, TargetIs DEF FoundIsTarget, script
  <2>4. QED
    BY <2>1, <2>2, <2>3
<1>3. IInv => FoundIsTarget
  OBVIOUS
<1>4. QED
  BY <1>1, <1>2, <1>3, PTL DEF Spec

-----------------------------------------------------------------------------
(* The control suite inside the script is the one the proofs are about.      *)
LEMMA SuiteSteps == [Next]_vars => [SuiteNext]_suite
<1> SUFFICES ASSUME Next PROVE SuiteNext \/ UNCHANGED suite
  BY DEF vars
<1>1. CASE \/ RunControls \/ ControlsInterrupted \/ ProductArrives
           \/ DeviceActs \/ ConnectReturns
  BY <1>1 DEF RunControls, ControlsInterrupted, ProductArrives, DeviceActs, ConnectReturns,
     SuiteNext
<1>2. CASE ~(RunControls \/ ControlsInterrupted \/ ProductArrives \/ DeviceActs
            \/ ConnectReturns)
  BY <1>2 DEF Next, Step, Script, SetUp, Listed,
       DeadlinePasses, ScanFinds, ScanTimesOut, Connects, Subscribes,
       ConnectReturnsDead, ConnectFails, UseEnds, Unlistens,
       Unsubscribed, Dropped, Disconnects, Fails, Disconnected,
       PassiveDisconnected, ControlsEnd, Releases, Stopped,
       Advertised, GivesUpEarly, UseInterrupted, DisconnectInterrupted,
       StopInterrupted, WorkerFails, KeepaliveFails,
       SetterFindsLoss, Hears, Captures, PassiveCaptures,
       LinkLost, Over
<1>3. QED
  BY <1>1, <1>2

LEMMA SuiteInside == Spec => []SuiteInv
<1>1. Init => SuiteInv
  BY SuiteInvInit DEF Init
<1>2. SuiteInv /\ [Next]_vars => SuiteInv'
  BY SuiteSteps, SuiteInvNext
<1>3. QED
  BY <1>1, <1>2, PTL DEF Spec

-----------------------------------------------------------------------------
(* The inductive invariant of the releases.  A teardown that has reached the *)
(* transport has silenced it; one that was cut short was met by Ctrl-C; a    *)
(* script that is past disconnect() has a session that is torn down, unless  *)
(* by Ctrl-C or by the keepalive; and only then is the capture closed.       *)
Transport ==
    /\ session = "none" /\ script # "passive" =>
          ble.link = "down" /\ ~ble.subscribed /\ ~ble.client /\ tasks = 0
    /\ script \notin Clients => session = "none" /\ tasks = 0
    /\ session \in {"dropping", "closed"} => ~ble.accepting /\ tasks = 0
    /\ session = "closed" => CtrlC \/ ~ble.client
    /\ session = "stranded" => CtrlC

Owned ==
    /\ session \in {"none", "opening", "open", "closed", "stranded"} \cup Closing
    /\ owner \in {"main", "worker", "keepalive"}
    /\ owner = "keepalive" => session \notin {"none", "opening", "open"}

Placed ==
    /\ at \in {"setup", "scan", "list", "connect"} => session = "none"
    /\ script = "list" => at \in {"setup", "list", "release", "stop", "over"}
    /\ at \in {"release", "stop", "over"} /\ script \in Clients /\ ~CtrlC
          /\ owner # "keepalive" => session \in {"none", "closed"}

Held ==
    /\ "file" \notin held => at \in {"stop", "over"}
    /\ at = "over" /\ (script \in Diagnostic \/ ~CtrlC) => held = {}

RInv ==
    /\ request \in Requests /\ interrupts \in 0 .. MaxInterrupts
    /\ TransportType
    /\ Transport /\ Owned /\ Placed /\ Held /\ NothingSpilled

LEMMA InitRInv == Init => RInv
  BY ScriptAssumption, RequestType DEF Init, RInv, TransportInit, TransportType,
     Transport, Owned, Placed, Held, NothingSpilled, CtrlC, Closing

(* What the transport does to itself.                                        *)
LEMMA TransportSteps ==
    ASSUME TransportType
    PROVE  /\ Connect => TransportType'
           /\ StartNotify => TransportType'
           /\ StopNotifyAndRefuse => /\ TransportType' /\ ~ble'.accepting
                                     /\ tasks' = 0
           /\ Drop => /\ TransportType' /\ ~ble'.client
                      /\ UNCHANGED tasks /\ ble'.accepting = ble.accepting
           /\ Notified => /\ TransportType' /\ UNCHANGED ble
                          /\ ble.subscribed /\ ble.accepting
           /\ TaskRuns => TransportType' /\ UNCHANGED ble /\ tasks # 0
           /\ LinkDown => /\ TransportType' /\ UNCHANGED tasks
                          /\ ble'.link = "down" /\ ~ble'.subscribed
                          /\ ble'.client = ble.client
                          /\ ble'.accepting = ble.accepting
<1> USE ScriptAssumption DEF TransportType
<1>1. Connect => TransportType'
  BY DEF Connect, Live
<1>2. StartNotify => TransportType'
  BY DEF StartNotify, Live
<1>3. StopNotifyAndRefuse => /\ TransportType' /\ ~ble'.accepting
                             /\ tasks' = 0
  <2> SUFFICES ASSUME StopNotifyAndRefuse
               PROVE  TransportType' /\ ~ble'.accepting /\ tasks' = 0
    OBVIOUS
  <2>1. PICK still \in BOOLEAN :
            ble' = Refusing([ble EXCEPT !.subscribed = still])
    BY DEF StopNotifyAndRefuse
  <2> DEFINE unsubscribed == [ble EXCEPT !.subscribed = still]
  <2>2. unsubscribed \in [client : BOOLEAN, link : {"down", "up"},
                          subscribed : BOOLEAN, accepting : BOOLEAN]
    OBVIOUS
  <2> HIDE DEF unsubscribed
  <2>3. ble' = [unsubscribed EXCEPT !.accepting = FALSE]
    BY <2>1 DEF Refusing, unsubscribed
  <2>4. /\ ble' \in [client : BOOLEAN, link : {"down", "up"},
                     subscribed : BOOLEAN, accepting : BOOLEAN]
        /\ ble'.accepting = FALSE
    BY <2>2, <2>3
  <2>5. tasks' = 0 /\ tasks' \in 0 .. MaxTasks
    BY DEF StopNotifyAndRefuse
  <2>6. QED
    BY <2>4, <2>5
<1>4. Drop => /\ TransportType' /\ ~ble'.client
              /\ UNCHANGED tasks /\ ble'.accepting = ble.accepting
  BY DEF Drop
<1>5. Notified => /\ TransportType' /\ UNCHANGED ble
                  /\ ble.subscribed /\ ble.accepting
  BY DEF Notified
<1>6. TaskRuns => TransportType' /\ UNCHANGED ble /\ tasks # 0
  BY DEF TaskRuns
<1>7. LinkDown => /\ TransportType' /\ UNCHANGED tasks
                  /\ ble'.link = "down" /\ ~ble'.subscribed
                  /\ ble'.client = ble.client
                  /\ ble'.accepting = ble.accepting
  BY DEF LinkDown
<1>8. QED
  BY <1>1, <1>2, <1>3, <1>4, <1>5, <1>6, <1>7

LEMMA EarlyRInv ==
    ASSUME RInv, SetUp \/ Listed \/ Advertised \/ DeadlinePasses \/ ScanFinds
                 \/ ScanTimesOut \/ GivesUpEarly
    PROVE  RInv'
<1> USE DEF RInv, Transport, Owned, Placed, Held, NothingSpilled, CtrlC, Closing,
        TransportType
<1>1. /\ UNCHANGED <<request, held, spilled, session, owner, transport>>
      /\ at \in {"setup", "scan", "list", "connect"}
      /\ interrupts' \in 0 .. interrupts
      /\ at' \in {"setup", "scan", "list", "connect", "release"}
      /\ script = "list" => at' \in {"setup", "list", "release"}
  BY DEF SetUp, Listed, Advertised, DeadlinePasses, ScanFinds, ScanTimesOut,
     GivesUpEarly, Raise, Interrupted, client, rest, run
<1>2. QED
  BY <1>1, ScriptAssumption DEF transport, script

LEMMA ConnectingRInv ==
    ASSUME RInv, Connects \/ Subscribes \/ ConnectReturns \/ ConnectReturnsDead
                 \/ ConnectFails
    PROVE  RInv'
<1> USE DEF RInv, Transport, Owned, Placed, Held, NothingSpilled, CtrlC, Closing
<1>1. CASE Connects
  <2>1. /\ TransportType' /\ UNCHANGED tasks
        /\ UNCHANGED <<request, interrupts, held, spilled, owner>>
        /\ at = "connect" /\ at' = "subscribe"
        /\ session' = IF script \in Clients THEN "opening" ELSE session
    BY <1>1, TransportSteps DEF Connects, Connect, rest
  <2>2. QED
    BY <2>1, RequestType DEF script, Clients, Diagnostic
<1>2. CASE Subscribes
  <2>1. /\ TransportType' /\ UNCHANGED tasks
        /\ ble'.accepting = ble.accepting /\ ble'.client = ble.client
        /\ UNCHANGED <<request, interrupts, held, spilled, owner, session>>
        /\ at = "subscribe" /\ at' \in {"handshake", "use"}
        /\ ble.link = "up"
    BY <1>2, TransportSteps DEF Subscribes, StartNotify, TransportType, rest, Live
  <2>2. QED
    BY <2>1, RequestType DEF script, Clients, Diagnostic
<1>3. CASE ConnectReturns \/ ConnectReturnsDead \/ ConnectFails
  <2>1. /\ UNCHANGED <<request, held, spilled, owner, ble, tasks>>
        /\ at \in {"subscribe", "handshake"}
        /\ at' \in {"controls", "use", "disconnect"}
        /\ interrupts' \in 0 .. interrupts
        /\ UNCHANGED session \/ (session = "opening" /\ session' = "open")
    BY <1>3 DEF ConnectReturns, ConnectReturnsDead, ConnectFails, Raise, Interrupted,
       client, rest, transport
  <2>2. QED
    BY <2>1, ScriptAssumption DEF script, TransportType
<1>4. QED
  BY <1>1, <1>2, <1>3

(* Somebody begins the teardown.                                             *)
LEMMA FailsRInv ==
    ASSUME RInv, NEW task \in {"main", "worker", "keepalive"}, Fails(task)
    PROVE  RInv'
<1>1. /\ UNCHANGED <<request, interrupts, held, spilled, at, ble, tasks>>
      /\ session \in {"opening", "open"} /\ session' = "unsubscribing"
      /\ owner' = task
  BY DEF Fails, transport, run, rest
<1>2. QED
  BY <1>1 DEF RInv, Transport, Owned, Placed, Held, NothingSpilled, CtrlC, Closing,
     TransportType, script

LEMMA TeardownRInv ==
    ASSUME RInv, Unsubscribed \/ Dropped \/ Disconnected
    PROVE  RInv'
<1> USE DEF RInv, Transport, Owned, Placed, Held, NothingSpilled, CtrlC, Closing
<1>1. CASE Unsubscribed
  <2>1. /\ TransportType' /\ ~ble'.accepting /\ tasks' = 0
        /\ UNCHANGED <<request, interrupts, held, spilled, owner, at>>
        /\ session = "unsubscribing" /\ session' = "dropping"
    BY <1>1, TransportSteps DEF Unsubscribed, rest, run
  <2>2. QED
    BY <2>1 DEF script
<1>2. CASE Dropped
  <2>1. /\ TransportType' /\ ~ble'.client /\ UNCHANGED tasks
        /\ ble'.accepting = ble.accepting
        /\ UNCHANGED <<request, interrupts, held, spilled, owner, at>>
        /\ session = "dropping" /\ session' = "closed"
    BY <1>2, TransportSteps DEF Dropped, rest, run
  <2>2. QED
    BY <2>1 DEF script
<1>3. CASE Disconnected
  <2>1. /\ UNCHANGED <<request, interrupts, held, spilled, owner, session, ble, tasks>>
        /\ at = "disconnect" /\ at' = "release"
        /\ session \in {"none", "closed", "stranded"} \/ owner = "keepalive"
    BY <1>3 DEF Disconnected, Waits, rest, client, transport
  <2>2. QED
    BY <2>1 DEF script, TransportType
<1>4. QED
  BY <1>1, <1>2, <1>3

(* Ctrl-C in disconnect(): what was cut short was met by it.                 *)
LEMMA InterruptedRInv ==
    ASSUME RInv, DisconnectInterrupted \/ ControlsInterrupted
    PROVE  RInv'
<1> USE DEF RInv, Transport, Owned, Placed, Held, NothingSpilled, CtrlC, Closing
<1>1. /\ UNCHANGED <<request, held, spilled, owner>>
      /\ interrupts' \in 0 .. MaxInterrupts /\ interrupts' < MaxInterrupts
      /\ \/ at = "disconnect" /\ at' = "release"
         \/ at = "controls" /\ at' = at
  BY ScriptAssumption DEF DisconnectInterrupted, ControlsInterrupted, Interrupted,
     Raise, run
<1>2. CASE UNCHANGED <<session, transport>>
  BY <1>1, <1>2 DEF script, transport, TransportType
<1>3. CASE session = "unsubscribing" /\ session' = "stranded" /\ UNCHANGED transport
  BY <1>1, <1>3 DEF script, transport, TransportType
<1>4. CASE session = "dropping" /\ session' = "closed" /\ (Drop \/ UNCHANGED transport)
  <2>1. TransportType' /\ ble'.accepting = ble.accepting /\ UNCHANGED tasks
    BY <1>4, TransportSteps DEF transport, TransportType
  <2>2. QED
    BY <1>1, <1>4, <2>1 DEF script
<1>5. CASE script \notin Clients /\ Drop /\ UNCHANGED session
  <2>1. TransportType' /\ UNCHANGED tasks
    BY <1>5, TransportSteps
  <2>2. script = "passive"
    BY <1>1, <1>5, RequestType DEF Clients, Diagnostic, ControlsInterrupted,
       DisconnectInterrupted
  <2>3. QED
    BY <1>1, <1>5, <2>1, <2>2 DEF script
<1>6. QED
  BY <1>2, <1>3, <1>4, <1>5 DEF DisconnectInterrupted, ControlsInterrupted, CutShort

(* What the session, the transport and what is held do not notice.           *)
LEMMA QuietRInv ==
    ASSUME RInv, UseEnds \/ UseInterrupted \/ RunControls \/ ProductArrives \/ DeviceActs
                 \/ ControlsEnd \/ Over
    PROVE  RInv'
<1> USE DEF RInv, Transport, Owned, Placed, Held, NothingSpilled, CtrlC, Closing
<1>1. /\ UNCHANGED <<request, held, spilled, owner, session, ble, tasks>>
      /\ interrupts' \in 0 .. interrupts
      /\ \/ UNCHANGED at
         \/ /\ at \in {"use", "unlisten", "controls"}
            /\ at' \in {"use", "unlisten", "disconnect"}
  BY DEF UseEnds, UseInterrupted, RunControls, ProductArrives, DeviceActs, ControlsEnd, Over,
     Raise, Interrupted, client, rest, transport, run
<1>2. QED
  BY <1>1, ScriptAssumption DEF script, TransportType

LEMMA PassiveRInv ==
    ASSUME RInv, Unlistens \/ PassiveDisconnected \/ PassiveCaptures
    PROVE  RInv'
<1> USE DEF RInv, Transport, Owned, Placed, Held, NothingSpilled, CtrlC, Closing
<1>1. CASE Unlistens
  <2>1. /\ TransportType' /\ UNCHANGED tasks
        /\ ble'.client = ble.client /\ ble'.link = ble.link
        /\ ble'.accepting = ble.accepting
        /\ ~ble.subscribed => ~ble'.subscribed
        /\ UNCHANGED <<request, interrupts, held, spilled, owner, session>>
        /\ at = "unlisten" /\ at' = "disconnect"
    BY <1>1 DEF Unlistens, TransportType, Raise, rest
  <2>2. QED
    BY <2>1 DEF script
<1>2. CASE PassiveDisconnected
  <2>1. /\ TransportType' /\ UNCHANGED tasks
        /\ UNCHANGED <<request, interrupts, held, spilled, owner, session>>
        /\ at = "disconnect" /\ at' = "release" /\ script \notin Clients
    BY <1>2, TransportSteps DEF PassiveDisconnected, rest
  <2>2. QED
    BY <2>1, RequestType DEF script, Clients, Diagnostic
<1>3. CASE PassiveCaptures
  <2>1. /\ UNCHANGED <<request, interrupts, held, owner, session, ble, tasks, at>>
        /\ script \notin Clients /\ ble.subscribed
    BY <1>3 DEF PassiveCaptures, client, run, transport
  <2>2. script = "passive"
    BY <2>1, RequestType DEF Clients, Diagnostic
  <2>3. QED
    BY <2>1, <2>2 DEF script, TransportType
<1>4. QED
  BY <1>1, <1>2, <1>3

LEMMA ReleaseRInv ==
    ASSUME RInv, Releases \/ Stopped \/ StopInterrupted
    PROVE  RInv'
<1> USE DEF RInv, Transport, Owned, Placed, Held, NothingSpilled, CtrlC, Closing
<1>1. /\ UNCHANGED <<request, spilled, owner, session, ble, tasks>>
      /\ interrupts' \in 0 .. interrupts
      /\ \/ at = "release" /\ at' = "stop"
         \/ /\ at = "stop" /\ at' = "over"
            /\ \/ held' = {}
               \/ interrupts' < interrupts /\ script \notin Diagnostic
  BY ScriptAssumption DEF Releases, Stopped, StopInterrupted, Raise, Interrupted,
     client, transport
<1>2. QED
  BY <1>1, ScriptAssumption DEF script, TransportType

(* Notifications and the loss of the link.                                   *)
LEMMA RadioRInv ==
    ASSUME RInv, Hears \/ Captures \/ LinkLost
    PROVE  RInv'
<1> USE DEF RInv, Transport, Owned, Placed, Held, NothingSpilled, CtrlC, Closing
<1>1. CASE Hears
  <2>1. /\ TransportType' /\ UNCHANGED ble /\ ble.subscribed /\ ble.accepting
        /\ UNCHANGED <<request, interrupts, held, spilled, owner, session, at>>
        /\ script \in Clients
    BY <1>1, TransportSteps DEF Hears, rest, run
  <2>2. QED
    BY <2>1 DEF script, Clients, Diagnostic
<1>2. CASE Captures
  <2>1. /\ TransportType' /\ UNCHANGED ble /\ tasks # 0
        /\ tasks = 0 => tasks' = 0
        /\ UNCHANGED <<request, interrupts, held, owner, session, at>>
        /\ spilled' = (spilled \/ (script \notin Diagnostic /\ "file" \notin held))
    BY <1>2, TransportSteps DEF Captures, run
  <2>2. QED
    BY <2>1 DEF script, Clients, Diagnostic
<1>3. CASE LinkLost
  <2>1. /\ TransportType' /\ UNCHANGED tasks
        /\ ble'.link = "down" /\ ~ble'.subscribed
        /\ ble'.client = ble.client /\ ble'.accepting = ble.accepting
        /\ UNCHANGED <<request, interrupts, held, spilled, owner, session, at>>
    BY <1>3, TransportSteps DEF LinkLost, rest, run
  <2>2. QED
    BY <2>1 DEF script
<1>4. QED
  BY <1>1, <1>2, <1>3

LEMMA NextRInv == RInv /\ [Next]_vars => RInv'
<1> SUFFICES ASSUME RInv, [Next]_vars PROVE RInv'
  OBVIOUS
<1>1. CASE UNCHANGED vars
  BY <1>1 DEF vars, run, client, rest, transport, RInv, Transport, Owned, Placed,
     Held, NothingSpilled, CtrlC, TransportType, script
<1>2. CASE WorkerFails \/ KeepaliveFails \/ SetterFindsLoss \/ Disconnects
  BY <1>2, FailsRInv DEF WorkerFails, KeepaliveFails, SetterFindsLoss, Disconnects
<1>3. CASE Step
  BY <1>2, <1>3, EarlyRInv, ConnectingRInv, TeardownRInv, InterruptedRInv,
     QuietRInv, PassiveRInv, ReleaseRInv, RadioRInv DEF Step, Script
<1>4. QED
  BY <1>1, <1>3 DEF Next

LEMMA Releasing == Spec => []RInv
  BY InitRInv, NextRInv, PTL DEF Spec

(* Whatever fails on the way, a script that ends has released what it held   *)
(* and forgotten its Bleak client, save for Ctrl-C and a failing keepalive.  *)
THEOREM ScriptsRelease == Spec => []NothingLeft
<1>1. RInv => NothingLeft
  BY DEF RInv, Transport, Placed, Held, NothingLeft, Clients, Diagnostic
<1>2. QED
  BY <1>1, Releasing, PTL

(* The probe's capture is not written to once it is closed, save for Ctrl-C, *)
(* a failing keepalive and the passive capture.                              *)
THEOREM CaptureClosedLast == Spec => []NothingSpilled
<1>1. RInv => NothingSpilled
  BY DEF RInv
<1>2. QED
  BY <1>1, Releasing, PTL

-----------------------------------------------------------------------------
(* What the types of the session, the transport and the suite leave open.    *)
Scanned ==
    /\ air \subseteq Devices /\ late \in BOOLEAN /\ found \subseteq Devices

Reached ==
    /\ at \in {"setup", "list", "scan", "connect", "subscribe", "handshake",
              "controls", "use", "unlisten", "disconnect", "release", "stop", "over"}
    /\ code \in {"ok", "raised"}
    /\ held \subseteq {"file", "proxy", "radio"} /\ spilled \in BOOLEAN

LEMMA ScannedNext == Scanned /\ [Next]_vars => Scanned'
<1> SUFFICES ASSUME Scanned, [Next]_vars PROVE Scanned'
  OBVIOUS
<1>1. \/ UNCHANGED scan
      \/ Advertised
      \/ DeadlinePasses
      \/ ScanFinds
      \/ air' = {} /\ late' = FALSE /\ UNCHANGED found
  BY DEF Next, Step, Script, vars, SetUp, Listed, ScanTimesOut, GivesUpEarly,
     Connects, Subscribes, ConnectReturns, ConnectReturnsDead, ConnectFails,
     UseEnds, Unlistens, Unsubscribed, Dropped, Disconnects, Fails, Disconnected,
     PassiveDisconnected, RunControls, ControlsEnd, Releases, Stopped,
     UseInterrupted, DisconnectInterrupted, ControlsInterrupted,
     StopInterrupted, WorkerFails, KeepaliveFails, SetterFindsLoss,
     ProductArrives, DeviceActs, Hears, Captures, PassiveCaptures, LinkLost, Over
<1>2. CASE ScanFinds
  <2>1. Found(Target, air) \subseteq air
    BY DEF Found, Lookup, Match
  <2>2. QED
    BY <1>2, <2>1 DEF ScanFinds, Scanned
<1>3. QED
  BY <1>1, <1>2 DEF Scanned, scan, Advertised, DeadlinePasses

LEMMA ReachedNext == Reached /\ [Next]_vars => Reached'
<1> SUFFICES ASSUME Reached, [Next]_vars PROVE Reached'
  OBVIOUS
<1> USE DEF Reached, run, rest, Raise
<1>1. CASE \/ SetUp \/ Listed \/ DeadlinePasses \/ ScanFinds \/ ScanTimesOut
           \/ Connects \/ Subscribes \/ Advertised \/ GivesUpEarly
  BY <1>1 DEF SetUp, Listed, DeadlinePasses, ScanFinds, ScanTimesOut, Connects,
     Subscribes, Advertised, GivesUpEarly
<1>2. CASE \/ ConnectReturns \/ ConnectReturnsDead \/ ConnectFails \/ UseEnds
           \/ Unlistens \/ Unsubscribed \/ Dropped \/ Disconnected
           \/ PassiveDisconnected
  BY <1>2 DEF ConnectReturns, ConnectReturnsDead, ConnectFails, UseEnds,
     Unlistens, Unsubscribed, Dropped, Disconnected, PassiveDisconnected
<1>3. CASE \/ Releases \/ Stopped \/ UseInterrupted \/ DisconnectInterrupted
           \/ StopInterrupted \/ RunControls \/ ControlsInterrupted
           \/ ProductArrives \/ DeviceActs \/ ControlsEnd
  BY <1>3 DEF Releases, Stopped, UseInterrupted, DisconnectInterrupted,
     StopInterrupted, RunControls, ControlsInterrupted, ProductArrives,
     DeviceActs, ControlsEnd
<1>4. CASE \/ Disconnects \/ WorkerFails \/ KeepaliveFails \/ SetterFindsLoss
           \/ Hears \/ Captures \/ PassiveCaptures \/ LinkLost \/ Over
  BY <1>4 DEF Disconnects, WorkerFails, KeepaliveFails, SetterFindsLoss, Fails,
     Hears, Captures, PassiveCaptures, LinkLost, Over
<1>5. CASE UNCHANGED vars
  BY <1>5 DEF vars
<1>6. QED
  BY <1>1, <1>2, <1>3, <1>4, <1>5 DEF Next, Step, Script

(* Type correctness of a run: the script never leaves the awaits of run()    *)
(* and run_probe(), and the transport, the suite and the session inside keep *)
(* their own types.                                                          *)
THEOREM ScriptTypeCorrect == Spec => []TypeOK
<1> DEFINE Open == Scanned /\ Reached /\ reachable \in BOOLEAN
<1>1. Init => Open
  BY DEF Init, Scanned, Reached
<1>2. Open /\ [Next]_vars => Open'
  <2> SUFFICES ASSUME Open, [Next]_vars PROVE Open'
    OBVIOUS
  <2>1. reachable' \in BOOLEAN
    BY DEF Next, vars
  <2>2. QED
    BY <2>1, ScannedNext, ReachedNext
<1>3. RInv /\ SuiteInv /\ Open => TypeOK
  BY DEF RInv, Owned, SuiteInv, Scanned, Reached, TypeOK
<1>4. QED
  BY <1>1, <1>2, <1>3, Releasing, SuiteInside, PTL DEF Spec

-----------------------------------------------------------------------------
(* The exit code.  Outside of the suite nothing has been changed, or         *)
(* everything is restored, or the script will end with an exception.         *)
Told ==
    /\ at # "controls" /\ code = "ok" => phase = "idle" \/ (phase = "done" /\ ~raised)
    /\ phase = "cancelled" => raised

(* Every other step leaves the suite alone, and the exit code of a script    *)
(* that leaves the suite otherwise is an exception's.                        *)
LEMMA OtherSteps ==
    ASSUME Step, ~(RunControls \/ ControlsInterrupted \/ ProductArrives \/ DeviceActs
                   \/ ConnectReturns \/ ControlsEnd)
    PROVE  /\ UNCHANGED suite
           /\ code' = "raised" \/ (UNCHANGED code /\ (at' = at \/ at # "controls"))
<1> USE DEF run, Raise
<1>1. CASE \/ SetUp \/ Listed \/ DeadlinePasses \/ ScanFinds \/ ScanTimesOut
           \/ Connects \/ Subscribes \/ Advertised \/ GivesUpEarly
  BY <1>1 DEF SetUp, Listed, DeadlinePasses, ScanFinds, ScanTimesOut, Connects,
     Subscribes, Advertised, GivesUpEarly
<1>2. CASE \/ ConnectReturnsDead \/ ConnectFails \/ UseEnds \/ Unlistens
           \/ Unsubscribed \/ Dropped \/ Disconnects \/ Disconnected
           \/ PassiveDisconnected
  BY <1>2 DEF ConnectReturnsDead, ConnectFails, UseEnds, Unlistens, Unsubscribed,
     Dropped, Disconnects, Fails, Disconnected, PassiveDisconnected
<1>3. CASE \/ Releases \/ Stopped \/ UseInterrupted \/ DisconnectInterrupted
           \/ StopInterrupted
  BY <1>3 DEF Releases, Stopped, UseInterrupted, DisconnectInterrupted,
     StopInterrupted
<1>4. CASE \/ WorkerFails \/ KeepaliveFails \/ SetterFindsLoss \/ Hears \/ Captures
           \/ PassiveCaptures \/ LinkLost \/ Over
  BY <1>4 DEF WorkerFails, KeepaliveFails, SetterFindsLoss, Fails, Hears, Captures,
     PassiveCaptures, LinkLost, Over
<1>5. QED
  BY <1>1, <1>2, <1>3, <1>4 DEF Step, Script

LEMMA ToldNext == Told /\ [Next]_vars => Told'
<1> SUFFICES ASSUME Told, [Next]_vars PROVE Told'
  OBVIOUS
<1> USE DEF Told
<1>1. CASE UNCHANGED vars
  BY <1>1 DEF vars, run, suite, inputs
<1>2. CASE ConnectReturns
  <2>1. /\ at = "handshake" /\ UNCHANGED code
        /\ \/ at' = "controls" /\ Begin
           \/ at' = "use" /\ UNCHANGED suite
    BY <1>2 DEF ConnectReturns
  <2>2. QED
    BY <2>1 DEF Begin, suite, inputs
<1>3. CASE RunControls \/ ControlsInterrupted \/ ProductArrives
  <2>1. /\ at = "controls" /\ at' = at
        /\ \/ Apply \/ AllApplied \/ RestoreSkip \/ Restore \/ RestoreFails
           \/ RestoreCancelled \/ Finish \/ ProductReported
    BY <1>3 DEF RunControls, ControlsInterrupted, ProductArrives, run
  <2>2. /\ phase' = "idle" => phase = "idle"
        /\ phase' = "cancelled" => raised' \/ (phase = "cancelled" /\ UNCHANGED raised)
    BY <2>1 DEF Apply, AllApplied, RestoreSkip, Restore, RestoreFails,
       RestoreCancelled, Restoring, Finish, ProductReported, inputs
  <2>3. QED
    BY <2>1, <2>2
<1>4. CASE ControlsEnd \/ DeviceActs
  BY <1>4 DEF ControlsEnd, DeviceActs, Obeys, Ignores, run, Raise, suite, inputs
<1>5. CASE Step /\ ~(RunControls \/ ControlsInterrupted \/ ProductArrives \/ DeviceActs
                    \/ ConnectReturns \/ ControlsEnd)
  BY <1>5, OtherSteps DEF suite, inputs
<1>6. QED
  BY <1>1, <1>2, <1>3, <1>4, <1>5 DEF Next

(* run() and run_controls() together: when the diagnostic reports success,   *)
(* every setting it knew is back, or has no request before it but the one to *)
(* put it back, or the device did not obey that one though its setter        *)
(* returned; whatever happened to the session.                               *)
THEOREM SuccessMeansRestored == Spec => []ExitMeansRestored
<1>1. Init => Told
  BY DEF Init, SuiteInit, Told
<1>2. Told /\ SuiteInv => ExitMeansRestored
  <2> SUFFICES ASSUME Told, SuiteInv, at = "over", code = "ok",
                      NEW s \in Settings, known[s] # None
               PROVE  Back(s)
    BY DEF ExitMeansRestored
  <2>1. phase = "idle" \/ (phase = "done" /\ failed = {})
    BY DEF Told, SuiteInv, Consistent
  <2>2. CASE phase = "idle"
    BY <2>2 DEF SuiteInv, Consistent, Back
  <2>3. CASE phase = "done" /\ failed = {}
    BY <2>3, AccountedFor DEF ChangesAccounted
  <2>4. QED
    BY <2>1, <2>2, <2>3
<1>3. QED
  BY <1>1, <1>2, ToldNext, SuiteInside, PTL DEF Spec

(* The suite's own promises hold in every run of the script around it.       *)
THEOREM ScriptsAccount == Spec => []ChangesAccounted
  BY SuiteInside, AccountedFor, PTL

THEOREM ScriptsRestore == Spec => []SilentMeansRestored
<1>1. SuiteInv => SilentMeansRestored
  BY AccountedFor DEF SuiteInv, Consistent, ChangesAccounted, SilentMeansRestored
<1>2. QED
  BY <1>1, SuiteInside, PTL
=============================================================================
