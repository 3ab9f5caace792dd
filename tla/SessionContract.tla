-------------------------- MODULE SessionContract --------------------------
(* What an application may rely on when it opens sessions one at a time: a   *)
(* session becomes READY, and ends, within a connect() or disconnect() of    *)
(* the application or by a failure; a failure is told at most once, of the   *)
(* session that failed, before the next one is opened, and never of a        *)
(* session that was failing while disconnect() closed it.                    *)
CONSTANTS Sessions

VARIABLES
    session,    \* the session the client serves
    phase,      \* what is to be made of it
    call,       \* which call has the client's lifecycle in hand
    due,        \* a failure has still to be told
    told        \* the sessions whose failure has been told

vars == <<session, phase, call, due, told>>

Phases == {"closed", "open", "ready", "failed"}
Calls == {"none", "connect", "disconnect"}

Init ==
    /\ session = 0
    /\ phase = "closed"
    /\ call = "none"
    /\ due = FALSE
    /\ told = {}

(* A session is opened, one that nothing has been told of.                   *)
Connect(s) ==
    /\ phase \in {"closed", "failed"} /\ call = "none" /\ ~due
    /\ s \notin told
    /\ session' = s
    /\ phase' = "open"
    /\ call' = "connect"
    /\ UNCHANGED <<due, told>>

(* It becomes READY, during connect() or when that returns.                  *)
Establish ==
    /\ phase = "open"
    /\ phase' = "ready"
    /\ call' \in {call, "none"}
    /\ UNCHANGED <<session, due, told>>

Disconnect ==
    /\ call = "none"
    /\ call' = "disconnect"
    /\ UNCHANGED <<session, phase, due, told>>

(* connect() or disconnect() ends, and the session with it unless connect()  *)
(* succeeds, the session has failed meanwhile, or the call was cancelled.    *)
End ==
    /\ call # "none"
    /\ call' = "none"
    /\ phase' \in IF phase = "failed" THEN {phase} ELSE {phase, "closed"}
    /\ UNCHANGED <<session, due, told>>

(* A failure is to be told unless disconnect() is closing the session.       *)
Fail ==
    /\ phase \in {"open", "ready"}
    /\ phase' = "failed"
    /\ due' = (call # "disconnect")
    /\ UNCHANGED <<session, call, told>>

Tell ==
    /\ due /\ phase = "failed" /\ session \notin told
    /\ told' = told \cup {session}
    /\ due' = FALSE
    /\ UNCHANGED <<session, phase, call>>

(* The task that had to tell it has been cancelled.                          *)
Drop ==
    /\ due
    /\ due' = FALSE
    /\ UNCHANGED <<session, phase, call, told>>

Next ==
    \/ \E s \in Sessions : Connect(s)
    \/ Establish \/ Disconnect \/ End \/ Fail \/ Tell \/ Drop

Spec == Init /\ [][Next]_vars
=============================================================================
