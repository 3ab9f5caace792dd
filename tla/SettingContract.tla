-------------------------- MODULE SettingContract --------------------------
(* What an application may take a control call for.  It returns when the    *)
(* device has accepted the setting, or when there is a status report that   *)
(* passes for its answer; it raises SolarFlowCommandError when the device   *)
(* has rejected the setting, whatever the reports say; any other exception  *)
(* leaves it open whether the device has decided, or ever will.             *)
CONSTANTS
    Callers,
    FullReports     \* TRUE iff a status report can pass for an answer

VARIABLES
    outcome, verdict,
    unread          \* whether a status report lies there that can

vars == <<outcome, verdict, unread>>

Verdicts == {"accepted", "rejected"}

Init ==
    /\ outcome = [c \in Callers |-> "open"]
    /\ verdict = [c \in Callers |-> "none"]
    /\ unread = FALSE

(* The call is made, and with it a question the device has not decided.      *)
Ask(c) ==
    /\ outcome[c] # "asked"
    /\ outcome' = [outcome EXCEPT ![c] = "asked"]
    /\ verdict' = [verdict EXCEPT ![c] = "none"]

Decide(c) ==
    /\ verdict[c] = "none"
    /\ \E v \in Verdicts : verdict' = [verdict EXCEPT ![c] = v]
    /\ UNCHANGED outcome

Return(c) ==
    /\ outcome[c] = "asked" /\ (verdict[c] = "accepted" \/ unread)
    /\ outcome' = [outcome EXCEPT ![c] = "returned"]
    /\ UNCHANGED verdict

RaiseCommandError(c) ==
    /\ outcome[c] = "asked" /\ verdict[c] = "rejected"
    /\ outcome' = [outcome EXCEPT ![c] = "command error"]
    /\ UNCHANGED verdict

RaiseOther(c) ==
    /\ outcome[c] = "asked"
    /\ outcome' = [outcome EXCEPT ![c] = "open"]
    /\ UNCHANGED verdict

(* A status report comes, is read, or goes with its session.                 *)
Report == UNCHANGED <<outcome, verdict>>

Next ==
    /\ \/ \E c \in Callers :
            \/ Ask(c) \/ Decide(c) \/ Return(c)
            \/ RaiseCommandError(c) \/ RaiseOther(c)
       \/ Report
    /\ unread' \in {FALSE, FullReports}

Spec == Init /\ [][Next]_vars
=============================================================================
