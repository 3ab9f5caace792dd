------------------------- MODULE MCSolarFlowClient -------------------------
EXTENDS SolarFlowClient, TLC

CONSTANTS
    Connects, Disconnects, Writes,  \* calls of each kind
    Rounds,      \* answers to each request of the handshake
    Garbage,     \* payloads that decode_json rejects
    Interrupts,  \* calls that are cancelled inside their teardown
    Others       \* how many of each kind in OtherKinds
CONSTANT OtherKinds

MCBudget ==
    [connect |-> Connects, disconnect |-> Disconnects, write |-> Writes,
     interrupt |-> Interrupts,
     payload |-> [m \in Kinds |->
                    IF m \in {"BLESPP", "getInfo-rsp", "report"} THEN Rounds
                    ELSE IF m = "garbage" THEN Garbage
                    ELSE IF m \in OtherKinds THEN Others
                    ELSE 0]]

(* A device that sends what the handshake waits for only when it is waited   *)
(* for, and no second BLESPP or report while the client has one to read:     *)
(* other reports, and what is not valid, still arrive at any time.           *)
AskedFor(m) ==
    \E c \in Callers :
        \/ m \in Hellos /\ pc[c] \in {"subscribing", "blespp"}
        \/ m = "getInfo-rsp" /\ pc[c] \in {"requesting", "info"}
        \/ m \in {"report", "read_reply"} /\ pc[c] \in {"reading", "report"}

Arrived(m) == budget'.payload[m] # budget.payload[m]

Unread(m) ==
    \/ \E i \in DOMAIN queues.reports.current : queues.reports.current[i] = m
    \/ \E s \in Sessions : \E i \in DOMAIN inbox[s] : inbox[s][i] = m

Prompt ==
    /\ \A m \in Kinds \ (Acks \cup {"foreign", "garbage"}) :
        Arrived(m) => AskedFor(m)
    /\ \A m \in {"BLESPP", "report"} : Arrived(m) => ~Unread(m)

PromptSpec == Init /\ [][Next /\ Prompt]_vars
PromptFairSpec == PromptSpec /\ Fairness
PromptPatientSpec == Init /\ [][PatientNext /\ Prompt]_vars

Symmetry == Permutations(Callers)
=============================================================================
