------------------------- MODULE DiagnosticControls -------------------------
(* The control suite of scripts/client_diagnostic.py: plan_controls decides  *)
(* which setters to try on a live device, run_controls applies them one by   *)
(* one and puts every setting back, whatever happens on the way.             *)
EXTENDS Limits, SequencesExt

CONSTANTS
    Known,        \* what the state may hold of each setting, on the wire
    Overrides,    \* what the command line may ask for
    Products,     \* the productKeys the device may report
    Backlog       \* bound on the requests the device has still to deal with

(* The settings in the order of the plan.                                    *)
Order == <<"inputLimit", "outputLimit", "minSoc", "socSet", "acMode">>

Settings == ToSet(Order)

(* Planned by _restorable_value_or_override.                                 *)
Restorable == {"minSoc", "socSet", "acMode"}

Required == {"minSoc", "socSet"}   \* overrides that --controls requires

ASSUME DiagnosticAssumption ==
    /\ Known \in [Settings -> SUBSET (Nat \cup {None})]
    /\ Overrides \in [Settings -> SUBSET (Nat \cup {None})]
    /\ Products \subseteq DOMAIN lower
    /\ Backlog \in Nat

VARIABLES
    known,      \* client.state when the suite starts
    override,   \* the command line
    original,   \* the device's settings when the suite starts
    product,    \* client.state.product_key
    device,     \* the device's settings
    plan,       \* actions still to apply, in the order of their settings
    applied,    \* the latest action first
    phase,
    failed,     \* settings whose restoration raised
    raised,     \* an exception will leave run_controls
    sent,       \* requests the device has still to deal with, in order
    unheeded,   \* ghost: settings whose restoration the device did not obey
                \* although its setter returned
    reachable   \* a request can be sent; changes at any step

inputs == <<known, override, original>>
world == <<device, sent, unheeded>>
suite == <<inputs, product, world, plan, applied, phase, failed, raised>>

-----------------------------------------------------------------------------
(* _wire_per_mille_to_percent *)
Percent(s, w) == IF w # None /\ s \in Scaled THEN w \div 10 ELSE w

Current(s) == Percent(s, known[s])
Value(s) == IF override[s] # None THEN override[s] ELSE Current(s)

Refused(s) ==
    /\ s \in Restorable
    /\ override[s] # None /\ Current(s) = None

Action(s) == [setting |-> s, value |-> Value(s), restore |-> Current(s)]

PlanMutant ==                 \* a value that is not known is planned
    {Action(s) : s \in {t \in Settings : ~Refused(t)}}

(* plan_controls: an override of a Restorable setting is refused unless its  *)
(* original value is known; the power limits are planned without one.        *)
Plan == {Action(s) : s \in {t \in Settings : ~Refused(t) /\ Value(t) # None}}

Upcoming(action) ==
    \E i \in DOMAIN Order :
        /\ action.setting = Order[i]
        /\ \A other \in plan : \E j \in i .. Len(Order) : other.setting = Order[j]

(* A setter that returns has sent its request, and no more: the writeRsp it  *)
(* took for its own may have been one of an earlier write or of a status     *)
(* report (ControlWrite).  One that raises may have sent it.  The script     *)
(* gives its client neither limits nor a model.                              *)
Set(s, v, restores) ==
    /\ reachable /\ Len(sent) < Backlog
    /\ v \in Accepted(ResolvedLimits(None, None, product))[s]
    /\ sent' = Append(sent, [setting |-> s, wire |-> Wire(s, v), restores |-> restores])
    /\ UNCHANGED <<device, unheeded>>

Raises(s, v) == Set(s, v, FALSE) \/ UNCHANGED world

(* The device obeys a request, sooner or later; or rejects it, or never      *)
(* hears it.                                                                 *)
Obeys ==
    /\ sent # <<>>
    /\ device' = [device EXCEPT ![Head(sent).setting] = Head(sent).wire]
    /\ sent' = Tail(sent)
    /\ UNCHANGED <<inputs, product, unheeded, plan, applied, phase, failed, raised>>

Ignores ==
    /\ sent # <<>>
    /\ sent' = Tail(sent)
    /\ unheeded' = unheeded \cup {r.setting : r \in {q \in {Head(sent)} : q.restores}}
    /\ UNCHANGED <<inputs, product, device, plan, applied, phase, failed, raised>>

-----------------------------------------------------------------------------
SuiteInit ==
    /\ known = [s \in Settings |-> None]
    /\ override = known
    /\ original = [s \in Settings |-> 0]
    /\ product = None
    /\ device = original /\ sent = <<>> /\ unheeded = {}
    /\ plan = {}
    /\ applied = <<>>
    /\ phase = "idle"
    /\ failed = {}
    /\ raised = FALSE

(* run_controls up to its first await, with what the command line, the       *)
(* client's state and the device hold: where the state knows a setting, it   *)
(* is the device's.                                                          *)
Begin ==
    /\ phase = "idle"
    /\ phase' = "applying"
    /\ known' \in {k \in [Settings -> UNION {Known[s] : s \in Settings}] :
                    \A s \in Settings : k[s] \in Known[s]}
    /\ override' \in {o \in [Settings -> UNION {Overrides[s] : s \in Settings}] :
                    \A s \in Settings : /\ o[s] \in Overrides[s]
                                        /\ s \in Required => o[s] # None}
    /\ original' = [s \in Settings |-> IF known'[s] = None THEN 0 ELSE known'[s]]
    /\ device' = original'
    /\ product' \in Products \cup {None}
    /\ plan' = Plan'
    /\ UNCHANGED <<sent, unheeded, applied, failed, raised>>

ApplyMutant ==                \* an action is recorded once its setter returned
    \E action \in plan :
        /\ phase = "applying" /\ Upcoming(action)
        /\ \/ /\ Set(action.setting, action.value, FALSE)
              /\ applied' = <<action>> \o applied
              /\ plan' = plan \ {action}
              /\ UNCHANGED <<phase, raised>>
           \/ /\ Raises(action.setting, action.value)
              /\ raised' = TRUE
              /\ phase' = "restoring"
              /\ UNCHANGED <<plan, applied>>
        /\ UNCHANGED <<inputs, product, failed>>

(* Recorded before the await; an exception or a cancellation ends the loop.  *)
Apply ==
    \E action \in plan :
        /\ phase = "applying" /\ Upcoming(action)
        /\ applied' = <<action>> \o applied
        /\ \/ /\ Set(action.setting, action.value, FALSE)
              /\ plan' = plan \ {action}
              /\ UNCHANGED <<phase, raised>>
           \/ /\ Raises(action.setting, action.value)
              /\ raised' = TRUE
              /\ phase' = "restoring"
              /\ UNCHANGED plan
        /\ UNCHANGED <<inputs, product, failed>>

AllApplied ==
    /\ phase = "applying" /\ plan = {}
    /\ phase' = "restoring"
    /\ UNCHANGED <<inputs, product, world, plan, applied, failed, raised>>

(* A report may bring the productKey, and other limits, at any moment.       *)
ProductReported ==
    /\ phase # "idle" /\ product = None
    /\ product' \in Products
    /\ UNCHANGED <<inputs, world, plan, applied, phase, failed, raised>>

-----------------------------------------------------------------------------
(* The finally clause, from the last action to the first.                    *)
Restoring(action) ==
    /\ phase = "restoring" /\ applied # <<>>
    /\ action = Head(applied)
    /\ applied' = Tail(applied)

RestoreSkip ==
    /\ Restoring(Head(applied)) /\ Head(applied).restore = None
    /\ UNCHANGED <<inputs, product, world, plan, phase, failed, raised>>

Restore ==
    LET action == Head(applied) IN
    /\ Restoring(action) /\ action.restore # None
    /\ Set(action.setting, action.restore, TRUE)
    /\ UNCHANGED <<inputs, product, plan, phase, failed, raised>>

RestoreFailsMutant ==         \* the failure is logged only
    LET action == Head(applied) IN
    /\ Restoring(action) /\ action.restore # None
    /\ Raises(action.setting, action.restore)
    /\ failed' = failed \cup {action.setting}
    /\ UNCHANGED <<inputs, product, plan, phase, raised>>

(* A failure is kept for the end and the next restoration tried.             *)
RestoreFails ==
    LET action == Head(applied) IN
    /\ Restoring(action) /\ action.restore # None
    /\ Raises(action.setting, action.restore)
    /\ failed' = failed \cup {action.setting}
    /\ raised' = TRUE
    /\ UNCHANGED <<inputs, product, plan, phase>>

(* CancelledError is no Exception: it leaves the loop.                       *)
RestoreCancelled ==
    LET action == Head(applied) IN
    /\ Restoring(action) /\ action.restore # None
    /\ Raises(action.setting, action.restore)
    /\ raised' = TRUE
    /\ phase' = "cancelled"
    /\ UNCHANGED <<inputs, product, plan, failed>>

Finish ==
    /\ phase = "restoring" /\ applied = <<>>
    /\ phase' = "done"
    /\ UNCHANGED <<inputs, product, world, plan, applied, failed, raised>>

SuiteNext ==
    \/ Begin \/ Apply \/ AllApplied
    \/ RestoreSkip \/ Restore \/ RestoreFails \/ RestoreCancelled \/ Finish
    \/ ProductReported \/ Obeys \/ Ignores

SuiteSpec == SuiteInit /\ [][SuiteNext]_suite

-----------------------------------------------------------------------------
ActionSet == [setting : Settings, value : Nat, restore : Nat \cup {None}]
RequestSet == [setting : Settings, wire : Nat, restores : BOOLEAN]

SuiteType ==
    /\ known \in [Settings -> Nat \cup {None}]
    /\ override \in [Settings -> Nat \cup {None}]
    /\ original \in [Settings -> Nat]
    /\ product \in Products \cup {None}
    /\ device \in [Settings -> Nat]
    /\ sent \in Seq(RequestSet)
    /\ unheeded \subseteq Settings
    /\ plan \subseteq ActionSet
    /\ applied \in Seq(ActionSet)
    /\ phase \in {"idle", "applying", "restoring", "done", "cancelled"}
    /\ failed \subseteq Settings
    /\ raised \in BOOLEAN

Pending(s) == \E i \in 1 .. Len(applied) : applied[i].setting = s

(* What a restoration asks for, and what the device holds once it obeys.     *)
Asked(s) == Wire(s, Current(s))

(* The setting is what it was, to the precision of whole percent, and no     *)
(* request is left that would change it again; or the last request of it is  *)
(* to put it back; or the device did not obey that one.                      *)
Back(s) ==
    LET own == {i \in 1 .. Len(sent) : sent[i].setting = s} IN
    \/ own = {} /\ device[s] \in {original[s], Asked(s)}
    \/ \E i \in own : sent[i].wire = Asked(s) /\ \A j \in own : j <= i
    \/ s \in unheeded

(* run_controls: at every moment, a setting that is neither as it was nor    *)
(* about to be is still to be restored, or its restoration has failed:       *)
(* whichever setters raise, before or after the device obeyed or without its *)
(* obeying, return early, on the way there or back, and however late the     *)
(* device obeys.                                                             *)
ChangesAccounted ==
    phase # "cancelled" =>
        \A s \in Settings :
            \/ known[s] = None
            \/ Back(s)
            \/ phase # "done" /\ Pending(s)
            \/ s \in failed

(* When run_controls returns without an exception, every setting that was    *)
(* known is back, or has only a request to put it back still before it, or   *)
(* the device did not obey that request though it seemed acknowledged.       *)
SilentMeansRestored ==
    phase = "done" /\ ~raised => \A s \in Settings : known[s] = None \/ Back(s)
=============================================================================
