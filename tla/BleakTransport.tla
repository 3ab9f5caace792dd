--------------------------- MODULE BleakTransport ---------------------------
(* transport.BleakTransport over one Bleak client: what its methods do to    *)
(* the adapter between two awaits.                                           *)
EXTENDS Integers

CONSTANT MaxTasks   \* how many notification callbacks the model keeps in flight

VARIABLES
    ble,    \* _client (is there one?), the link under it and its subscription,
            \* and _accept_notifications
    tasks   \* _notification_tasks

transport == <<ble, tasks>>

TransportType ==
    /\ ble \in [client : BOOLEAN, link : {"down", "up"}, subscribed : BOOLEAN,
                accepting : BOOLEAN]
    /\ tasks \in 0 .. MaxTasks

TransportInit ==
    /\ ble = [client |-> FALSE, link |-> "down", subscribed |-> FALSE,
              accepting |-> TRUE]
    /\ tasks = 0

Live == ble.client /\ ble.link = "up"

(* establish_connection() returns, unless a live connection is reused.       *)
Connect ==
    /\ ble' = [ble EXCEPT !.accepting = TRUE, !.client = TRUE, !.link = "up",
                          !.subscribed = @ /\ Live]
    /\ UNCHANGED tasks

StartNotify ==
    /\ Live
    /\ ble' = [ble EXCEPT !.subscribed = TRUE]
    /\ UNCHANGED tasks

(* disconnect() up to the await of the Bleak client: nothing is accepted any *)
(* more and what is in flight is cancelled.  The unsubscription before it    *)
(* was skipped, done, or failed.                                             *)
RefusingMutant(o) ==          \* _accept_notifications is left alone
    o
Refusing(o) == [o EXCEPT !.accepting = FALSE]

StopNotifyAndRefuse ==
    /\ \E still \in {FALSE, ble.subscribed} :
           ble' = Refusing([ble EXCEPT !.subscribed = still])
    /\ tasks' = 0

(* The Bleak client's disconnect() returns or raises: it is forgotten.       *)
Drop ==
    /\ \E link \in {"down", ble.link} :
           ble' = [ble EXCEPT !.client = FALSE, !.link = link,
                              !.subscribed = @ /\ link = "up"]
    /\ UNCHANGED tasks

(* on_notification makes a task of the callback; the task runs.              *)
Notified ==
    /\ ble.link = "up" /\ ble.subscribed /\ ble.accepting
    /\ tasks < MaxTasks
    /\ tasks' = tasks + 1
    /\ UNCHANGED ble

TaskRuns ==
    /\ tasks > 0
    /\ tasks' = tasks - 1
    /\ UNCHANGED ble

LinkDown ==
    /\ ble.link = "up"
    /\ ble' = [ble EXCEPT !.link = "down", !.subscribed = FALSE]
    /\ UNCHANGED tasks
=============================================================================
