----------------------------- MODULE ScriptRun -----------------------------
(* One run of a developer script: run() of client_diagnostic.py or           *)
(* run_probe() of probe_solarflow.py, from the scan for the device to the    *)
(* release of what the script holds, over a BleakTransport, with the         *)
(* diagnostic's control suite inside.  The client is reduced to who tears    *)
(* its session down, and how far; SolarFlowClient has the rest.              *)
EXTENDS DiagnosticControls, Discovery, BleakTransport

CONSTANTS
    Requests,       \* [script, cli, config]: what the scripts are asked to do
    MaxInterrupts   \* how often Ctrl-C is pressed

Asking == [address : SUBSET DOMAIN upper, identifier : SUBSET Seq(0 .. 255)]

ASSUME ScriptAssumption ==
    /\ Requests \subseteq
           [script : {"controls", "monitor", "handshake", "passive", "list"},
            cli : Asking, config : Asking]
    /\ MaxInterrupts \in Nat /\ MaxTasks \in Nat

VARIABLES
    request,
    at,             \* the await the script is in
    air,            \* what the scanners report; nothing once the scan is over
    late,           \* the scan's deadline has passed
    found,          \* the device that was found
    session,        \* the client's session and how far its teardown is
    owner,          \* the task in that teardown
    held,           \* what the script has to release
    interrupts,     \* Ctrl-C still to come
    spilled,        \* a notification came for a capture that was closed
    code            \* how the script ends

script == request.script
run == <<at, code>>
scan == <<air, late, found>>
client == <<session, owner, transport>>
rest == <<request, held, interrupts, spilled>>
vars == <<run, scan, client, rest, suite, reachable>>

Diagnostic == {"controls", "monitor"}      \* client_diagnostic.py
Clients == Diagnostic \cup {"handshake"}   \* the scripts that use the client
Closing == {"unsubscribing", "dropping"}

Target ==
    IF script \in Diagnostic THEN Merged(request.cli, request.config)
    ELSE request.cli

Init ==
    /\ request \in {r \in Requests : r.script \in Diagnostic =>
                                         Valid(Merged(r.cli, r.config))}
    /\ at = "setup" /\ code = "ok"
    /\ air = {} /\ late = FALSE /\ found = {}
    /\ session = "none" /\ owner = "main"
    /\ TransportInit
    /\ held = {"file", "proxy", "radio"}
    /\ interrupts = MaxInterrupts
    /\ spilled = FALSE
    /\ SuiteInit /\ reachable = FALSE

Raise(next) == at' = next /\ code' = "raised"
Interrupted == interrupts > 0 /\ interrupts' = interrupts - 1

-----------------------------------------------------------------------------
(* The radio and the proxy are up; the probe may only list advertisements.   *)
SetUp ==
    /\ at = "setup"
    /\ at' = IF script = "list" THEN "list" ELSE "scan"
    /\ UNCHANGED <<code, scan, client, rest, suite>>

Listed ==
    /\ at = "list"
    /\ at' = "release"
    /\ UNCHANGED <<code, scan, client, rest, suite>>

Advertised ==
    /\ at = "scan"
    /\ air' \in SUBSET Devices
    /\ UNCHANGED <<late, found, run, client, rest, suite>>

DeadlinePasses ==
    /\ at = "scan"
    /\ late' = TRUE
    /\ UNCHANGED <<air, found, run, client, rest, suite>>

(* A pass of scan_for_target; the deadline counts after the pass only.       *)
ScanFinds ==
    /\ at = "scan"
    /\ \E d \in Found(Target, air) : found' = {d}
    /\ at' = "connect"
    /\ air' = {} /\ late' = FALSE
    /\ UNCHANGED <<code, client, rest, suite>>

ScanTimesOut ==
    /\ at = "scan" /\ late
    /\ Found(Target, air) = {}
    /\ Raise("release")
    /\ air' = {} /\ late' = FALSE
    /\ UNCHANGED <<found, client, rest, suite>>

(* An exception before there is a link.                                      *)
GivesUpEarly ==
    /\ at \in {"setup", "scan", "list", "connect"}
    /\ Interrupted \/ (at \in {"setup", "connect"} /\ UNCHANGED interrupts)
    /\ Raise("release")
    /\ air' = {} /\ late' = FALSE
    /\ UNCHANGED <<found, client, request, held, spilled, suite>>

-----------------------------------------------------------------------------
Connects ==
    /\ at = "connect"
    /\ Connect
    /\ session' = IF script \in Clients THEN "opening" ELSE session
    /\ at' = "subscribe"
    /\ UNCHANGED <<owner, code, scan, rest, suite>>

Subscribes ==
    /\ at = "subscribe"
    /\ StartNotify
    /\ at' = IF script \in Clients THEN "handshake" ELSE "use"
    /\ UNCHANGED <<session, owner, code, scan, rest, suite>>

(* client.connect() returns, if need be with a session that has failed: then *)
(* the diagnostic gives up and the probe goes on.                            *)
ConnectReturns ==
    /\ at = "handshake" /\ session = "opening"
    /\ session' = "open"
    /\ at' = IF script = "controls" THEN "controls" ELSE "use"
    /\ IF script = "controls" THEN Begin ELSE UNCHANGED suite
    /\ UNCHANGED <<owner, transport, code, scan, rest>>

ConnectReturnsDead ==
    /\ at = "handshake" /\ session # "opening"
    /\ IF script \in Diagnostic THEN Raise("disconnect")
       ELSE (at' = "use" /\ UNCHANGED code)
    /\ UNCHANGED <<scan, client, rest, suite>>

(* An exception between the link and the use of it.  The client's teardown   *)
(* in connect() and the disconnect() after it are one to the script.         *)
ConnectFails ==
    /\ at \in {"subscribe", "handshake"}
    /\ Interrupted \/ UNCHANGED interrupts
    /\ Raise("disconnect")
    /\ UNCHANGED <<scan, client, request, held, spilled, suite>>

(* The sleep of --duration or --capture-seconds, then the passive capture's  *)
(* stop_notify().                                                            *)
UseEnds ==
    /\ at = "use"
    /\ at' = IF script \in Clients THEN "disconnect" ELSE "unlisten"
    /\ UNCHANGED <<code, scan, client, rest, suite>>

UseInterrupted ==
    /\ at \in {"use", "unlisten"}
    /\ Interrupted
    /\ Raise("disconnect")
    /\ UNCHANGED <<scan, client, request, held, spilled, suite>>

Unlistens ==
    /\ at = "unlisten"
    /\ \/ /\ ble' = [ble EXCEPT !.subscribed = FALSE]
          /\ at' = "disconnect" /\ UNCHANGED code
       \/ Raise("disconnect") /\ UNCHANGED ble
    /\ UNCHANGED <<tasks, session, owner, scan, rest, suite>>

-----------------------------------------------------------------------------
(* The client's session.  A teardown belongs to the task that began it: the  *)
(* worker, on an invalid payload; the keepalive, whose write failed; or the  *)
(* script's own, in a setter whose write failed, connect() or disconnect().  *)
Fails(task) ==
    /\ session \in {"opening", "open"}
    /\ session' = "unsubscribing" /\ owner' = task
    /\ UNCHANGED <<transport, run, scan, rest, suite>>

WorkerFails == at # "over" /\ ble.subscribed /\ Fails("worker")
KeepaliveFails == at \in {"controls", "use"} /\ session = "open" /\ Fails("keepalive")

Unsubscribed ==
    /\ at # "over" /\ session = "unsubscribing"
    /\ session' = "dropping"
    /\ StopNotifyAndRefuse
    /\ UNCHANGED <<owner, run, scan, rest, suite>>

Dropped ==
    /\ at # "over" /\ session = "dropping"
    /\ session' = "closed"
    /\ Drop
    /\ UNCHANGED <<owner, run, scan, rest, suite>>

(* A cancellation meets the teardown.  Before the transport's disconnect()   *)
(* nobody will call it again; inside it, the Bleak client is forgotten       *)
(* unless the notification tasks were still being awaited.                   *)
CutShort ==
    \/ /\ session = "unsubscribing" /\ session' = "stranded"
       /\ UNCHANGED transport
    \/ /\ session = "dropping" /\ session' = "closed"
       /\ Drop \/ UNCHANGED transport
    \/ /\ session \notin Closing
       /\ UNCHANGED <<session, transport>>

Disconnects ==
    /\ at = "disconnect" /\ script \in Clients
    /\ Fails("main")

(* disconnect() waits for a teardown of its own or of the worker, whom it    *)
(* joins, and for no other.                                                  *)
WaitsMutant ==                \* the worker is not joined
    session \in Closing /\ owner = "main"
Waits == session \in Closing /\ owner # "keepalive"

Disconnected ==
    /\ at = "disconnect" /\ script \in Clients
    /\ session \notin {"opening", "open"} /\ ~Waits
    /\ at' = "release"
    /\ UNCHANGED <<code, scan, client, rest, suite>>

PassiveDisconnected ==
    /\ at = "disconnect" /\ script \notin Clients
    /\ Drop
    /\ at' = "release"
    /\ UNCHANGED <<code, session, owner, scan, rest, suite>>

DisconnectInterrupted ==
    /\ at = "disconnect"
    /\ session \in Closing => Waits
    /\ Interrupted
    /\ Raise("release")
    /\ IF script \in Clients THEN CutShort ELSE (Drop /\ UNCHANGED session)
    /\ UNCHANGED <<owner, scan, request, held, spilled, suite>>

-----------------------------------------------------------------------------
(* The control suite: a setter whose write fails tears the session down.     *)
Busy == session \in Closing /\ owner = "main"

SetterPending ==
    \/ /\ phase = "applying" /\ plan # {}
    \/ /\ phase = "restoring" /\ applied # <<>> /\ Head(applied).restore # None

SetterFindsLoss == at = "controls" /\ SetterPending /\ Fails("main")

RunControls ==
    /\ at = "controls" /\ ~Busy
    /\ \/ Apply \/ AllApplied
       \/ RestoreSkip \/ Restore \/ RestoreFails \/ Finish
    /\ UNCHANGED <<run, scan, client, rest>>

ControlsInterrupted ==
    /\ at = "controls"
    /\ Interrupted
    /\ (Apply /\ raised') \/ RestoreCancelled
    /\ IF Busy THEN CutShort ELSE UNCHANGED <<session, transport>>
    /\ UNCHANGED <<owner, run, scan, request, held, spilled>>

(* The device deals with its requests when it likes, also after the script.  *)
DeviceActs ==
    /\ Obeys \/ Ignores
    /\ UNCHANGED <<run, scan, client, rest>>

ProductArrives ==
    /\ at = "controls" /\ session = "open"
    /\ ProductReported
    /\ UNCHANGED <<run, scan, client, rest>>

ControlsEndMutant ==          \* what run_controls raises is not passed on
    /\ at = "controls" /\ phase \in {"done", "cancelled"}
    /\ at' = "use" /\ UNCHANGED code
    /\ UNCHANGED <<scan, client, rest, suite>>

ControlsEnd ==
    /\ at = "controls" /\ phase \in {"done", "cancelled"}
    /\ IF raised THEN Raise("disconnect") ELSE (at' = "use" /\ UNCHANGED code)
    /\ UNCHANGED <<scan, client, rest, suite>>

-----------------------------------------------------------------------------
(* The probe closes its capture first and suppresses what the others raise;  *)
(* the diagnostic's nested finally clauses close its file last.              *)
Releases ==
    /\ at = "release"
    /\ held' = held \ (IF script \in Diagnostic THEN {"proxy"} ELSE {"file", "proxy"})
    /\ at' = "stop"
    /\ UNCHANGED <<code, request, interrupts, spilled, scan, client, suite>>

Stopped ==
    /\ at = "stop"
    /\ held' = {}
    /\ at' = "over"
    /\ UNCHANGED code \/ (script \in Diagnostic /\ code' = "raised")
    /\ UNCHANGED <<request, interrupts, spilled, scan, client, suite>>

(* A cancellation is no Exception: the probe does not get to the radio.      *)
StopInterrupted ==
    /\ at = "stop"
    /\ Interrupted
    /\ held' = IF script \in Diagnostic THEN {} ELSE held
    /\ Raise("over")
    /\ UNCHANGED <<request, spilled, scan, client, suite>>

-----------------------------------------------------------------------------
(* Notifications, until the event loop stops with the script.  The probe's   *)
(* capture is not written to once it is closed: the write raises; the        *)
(* diagnostic's writer then ignores what it is given.                        *)
Hears ==
    /\ at # "over" /\ script \in Clients
    /\ Notified
    /\ UNCHANGED <<session, owner, run, scan, rest, suite>>

Captures ==
    /\ at # "over"
    /\ TaskRuns
    /\ spilled' = (spilled \/ (script \notin Diagnostic /\ "file" \notin held))
    /\ UNCHANGED <<session, owner, run, scan, request, held, interrupts, suite>>

PassiveCaptures ==
    /\ at # "over" /\ script \notin Clients
    /\ ble.subscribed /\ "file" \notin held
    /\ spilled' = TRUE
    /\ UNCHANGED <<client, run, scan, request, held, interrupts, suite>>

LinkLost ==
    /\ at # "over"
    /\ LinkDown
    /\ UNCHANGED <<session, owner, run, scan, rest, suite>>

Over == at = "over" /\ UNCHANGED <<run, scan, client, rest, suite>>

Script ==
    \/ SetUp \/ Listed \/ DeadlinePasses \/ ScanFinds \/ ScanTimesOut
    \/ Connects \/ Subscribes \/ ConnectReturns \/ ConnectReturnsDead \/ ConnectFails
    \/ UseEnds \/ Unlistens \/ Unsubscribed \/ Dropped
    \/ Disconnects \/ Disconnected \/ PassiveDisconnected
    \/ RunControls \/ ControlsEnd \/ Releases \/ Stopped

Step ==
    \/ Script
    \/ Advertised \/ GivesUpEarly \/ UseInterrupted \/ DisconnectInterrupted
    \/ ControlsInterrupted \/ StopInterrupted
    \/ WorkerFails \/ KeepaliveFails \/ SetterFindsLoss \/ ProductArrives
    \/ DeviceActs
    \/ Hears \/ Captures \/ PassiveCaptures \/ LinkLost
    \/ Over

(* The setters reach the device through an open session and a live link.     *)
Next == Step /\ reachable' = (session' = "open" /\ Live')

Spec == Init /\ [][Next]_vars

-----------------------------------------------------------------------------
TypeOK ==
    /\ request \in Requests
    /\ at \in {"setup", "list", "scan", "connect", "subscribe", "handshake",
              "controls", "use", "unlisten", "disconnect", "release", "stop", "over"}
    /\ code \in {"ok", "raised"}
    /\ air \subseteq Devices /\ late \in BOOLEAN
    /\ found \subseteq Devices
    /\ session \in {"none", "opening", "open", "closed", "stranded"} \cup Closing
    /\ owner \in {"main", "worker", "keepalive"}
    /\ TransportType
    /\ held \subseteq {"file", "proxy", "radio"}
    /\ interrupts \in 0 .. MaxInterrupts
    /\ spilled \in BOOLEAN
    /\ SuiteType /\ reachable \in BOOLEAN

CtrlC == interrupts < MaxInterrupts

(* Each script works on the device it was asked for: by address or by        *)
(* identifier, the command line before the configuration file, and never on  *)
(* another vendor's device that merely answers.                              *)
FoundIsTarget ==
    \A d \in found :
        LET asked == IF /\ script \in Diagnostic
                        /\ request.cli.address = {} /\ request.cli.identifier = {}
                     THEN request.config ELSE request.cli
        IN IF asked.address # {}
           THEN upper[d.address] \in {upper[a] : a \in asked.address}
           ELSE Parsed(d.data) # {} /\ asked.identifier \subseteq Parsed(d.data)

(* Whatever fails on the way, a script that ends has released what it held   *)
(* and forgotten its Bleak client.  Ctrl-C may keep the probe from its       *)
(* radio, and either from the client; so may a keepalive that fails: the     *)
(* disconnect() of the client does not wait for its teardown.                *)
NothingLeft ==
    at = "over" =>
        /\ script \in Diagnostic \/ ~CtrlC => held = {}
        /\ script \in Clients /\ ~CtrlC /\ owner # "keepalive" => ~ble.client

(* No notification finds the probe's capture closed, with the exceptions     *)
(* above and but for the passive capture, whose disconnect may fail.         *)
NothingSpilled ==
    spilled => CtrlC \/ owner = "keepalive" \/ script = "passive"

(* The diagnostic reports success only if every setting it knew is back, or  *)
(* about to be, whatever became of the session under the control suite.  A   *)
(* restoration that a stale writeRsp acknowledged, and that the device then  *)
(* did not obey, is what it cannot know of.                                  *)
ExitMeansRestored ==
    at = "over" /\ code = "ok" =>
        \A s \in Settings : known[s] = None \/ Back(s)

=============================================================================
