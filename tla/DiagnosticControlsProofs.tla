---------------------- MODULE DiagnosticControlsProofs ----------------------
(* Proofs about the diagnostic's control suite, for every state the client   *)
(* may show, every command line, every productKey and every registry of      *)
(* limits: a setting that was changed is never forgotten, and a suite that   *)
(* raises nothing has asked for them all back, last of all.  The device may  *)
(* be out of reach at any moment, obey late or not at all.                   *)
EXTENDS DiagnosticControls, TLAPS

-----------------------------------------------------------------------------
(* Constants, conversions and the plan.                                      *)
LEMMA SettingsAre ==
    Settings = {"inputLimit", "outputLimit", "minSoc", "socSet", "acMode"}
  BY DEF Settings, Order, ToSet

LEMMA NoneIsNoNumber == None \notin Nat
  BY LimitsAssumption

(* Limits are natural numbers, wherever they come from.                      *)
LEMMA LimitsType ==
    ASSUME NEW p \in Products \cup {None}
    PROVE  ResolvedLimits(None, None, p) \in
               [{"maxInput", "maxOutput", "maxMinSoc", "minTargetSoc"} -> Nat]
<1>1. DOMAIN DEFAULT_LIMITS = {"maxInput", "maxOutput", "maxMinSoc", "minTargetSoc"}
  BY DEF DEFAULT_LIMITS
<1>2. DEFAULT_LIMITS \in [DOMAIN DEFAULT_LIMITS -> Nat]
  BY <1>1 DEF DEFAULT_LIMITS
<1>3. ASSUME NEW k \in DOMAIN MODEL_LIMITS
      PROVE  MODEL_LIMITS[k] \in [DOMAIN DEFAULT_LIMITS -> Nat]
  BY <1>3, LimitsAssumption DEF Range
<1>4. QED
  BY <1>1, <1>2, <1>3 DEF ResolvedLimits

(* What a setter accepts is a natural number, on the wire too.               *)
LEMMA WireType ==
    ASSUME NEW p \in Products \cup {None}, NEW s \in Settings,
           NEW v \in Accepted(ResolvedLimits(None, None, p))[s]
    PROVE  v \in Nat /\ Wire(s, v) \in Nat
<1>1. PICK limits \in [{"maxInput", "maxOutput", "maxMinSoc", "minTargetSoc"} -> Nat] :
          limits = ResolvedLimits(None, None, p)
  BY LimitsType
<1>2. v \in Nat
  BY <1>1, SettingsAre DEF Accepted
<1>3. QED
  BY <1>2 DEF Wire

(* A current value is known exactly when the state's is.                     *)
LEMMA CurrentType ==
    ASSUME known \in [Settings -> Nat \cup {None}], NEW s \in Settings
    PROVE  /\ Current(s) \in Nat \cup {None}
           /\ Current(s) = None => known[s] = None
  BY NoneIsNoNumber DEF Current, Percent

PlanTyped ==
    /\ known \in [Settings -> Nat \cup {None}]
    /\ override \in [Settings -> Nat \cup {None}]
    => /\ Plan \subseteq ActionSet
       /\ \A action \in Plan : action.restore = Current(action.setting)

(* What is planned restores the current value, if there is one.              *)
LEMMA PlanType == PlanTyped
  BY CurrentType DEF PlanTyped, Plan, Action, Value, ActionSet

-----------------------------------------------------------------------------
(* The inductive invariant.  Beside the types: what is planned or applied is *)
(* to be restored to the current value it was planned with, a restoration    *)
(* that failed is raised, before the suite begins nothing has changed, and   *)
(* every setting is accounted for in the sense of ChangesAccounted: its last *)
(* request, if that is to put it back, is one whose refusal is remembered.   *)
Consistent ==
    /\ \A action \in plan : action.restore = Current(action.setting)
    /\ \A i \in 1 .. Len(applied) : applied[i].restore = Current(applied[i].setting)
    /\ failed # {} => raised
    /\ phase = "idle" => /\ applied = <<>> /\ plan = {}
                         /\ sent = <<>> /\ device = original
    /\ phase = "done" => applied = <<>>

Own(s) == {i \in 1 .. Len(sent) : sent[i].setting = s}

Settled(s) ==
    \/ Own(s) = {} /\ device[s] \in {original[s], Asked(s)}
    \/ \E i \in Own(s) : /\ sent[i].restores /\ sent[i].wire = Asked(s)
                         /\ \A j \in Own(s) : j <= i
    \/ s \in unheeded

Accounted(s) ==
    \/ known[s] = None
    \/ Settled(s)
    \/ phase # "done" /\ Pending(s)
    \/ s \in failed

AllAccounted == phase # "cancelled" => \A s \in Settings : Accounted(s)

SuiteInv == SuiteType /\ Consistent /\ AllAccounted

LEMMA SettledIsBack ==
    ASSUME NEW s, Settled(s)
    PROVE  Back(s)
  BY DEF Settled, Back, Own

LEMMA AccountedFor == SuiteInv => ChangesAccounted
  BY SettledIsBack DEF SuiteInv, AllAccounted, Accounted, ChangesAccounted

LEMMA SuiteInvInit == SuiteInit => SuiteInv
<1> SUFFICES ASSUME SuiteInit PROVE SuiteInv
  OBVIOUS
<1>1. SuiteType
  <2>1. known \in [Settings -> Nat \cup {None}] /\ override = known
    BY DEF SuiteInit
  <2>2. device \in [Settings -> Nat] /\ original = device
    BY DEF SuiteInit
  <2>3. applied \in Seq(ActionSet) /\ sent \in Seq(RequestSet)
    BY DEF SuiteInit
  <2>4. QED
    BY <2>1, <2>2, <2>3 DEF SuiteInit, SuiteType
<1>2. Consistent
  BY DEF SuiteInit, Consistent
<1>3. AllAccounted
  BY DEF SuiteInit, AllAccounted, Accounted
<1> QED
  BY <1>1, <1>2, <1>3 DEF SuiteInv

(* A setter, whatever becomes of it, leaves the other settings as settled as *)
(* they were: it can only add a request about its own.                       *)
KeepsOthers(s) ==
    /\ device' \in [Settings -> Nat]
    /\ sent' \in Seq(RequestSet)
    /\ unheeded' \subseteq Settings
    /\ \A t \in Settings \ {s} : Settled(t) => Settled(t)'

LEMMA SetKeepsOthers ==
    ASSUME SuiteType, UNCHANGED inputs, NEW s \in Settings, NEW v,
           NEW restores \in BOOLEAN, Set(s, v, restores)
    PROVE  /\ KeepsOthers(s)
           /\ sent' = Append(sent, [setting |-> s, wire |-> Wire(s, v),
                                    restores |-> restores])
<1> DEFINE request == [setting |-> s, wire |-> Wire(s, v), restores |-> restores]
           n == Len(sent)
<1>1. request \in RequestSet /\ sent \in Seq(RequestSet) /\ n \in Nat
  BY WireType DEF Set, SuiteType, RequestSet
<1>2. sent' = Append(sent, request) /\ UNCHANGED <<device, unheeded>>
  BY DEF Set
<1> HIDE DEF request
<1>3. /\ sent' \in Seq(RequestSet) /\ Len(sent') = n + 1
      /\ \A i \in 1 .. n : sent'[i] = sent[i]
      /\ sent'[n + 1] = request
      /\ 1 .. n + 1 = (1 .. n) \cup {n + 1}
  BY <1>1, <1>2
<1>4. request.setting = s
  BY DEF request
<1>5. ASSUME NEW t \in Settings \ {s}, Settled(t) PROVE Settled(t)'
  <2>1. Own(t)' = Own(t) /\ \A i \in Own(t) : sent'[i] = sent[i]
    BY <1>3, <1>4 DEF Own
  <2>2. Asked(t)' = Asked(t) /\ original' = original
    BY DEF Asked, Current, inputs
  <2>3. QED
    BY <1>2, <1>5, <2>1, <2>2 DEF Settled
<1>6. QED
  BY <1>2, <1>3, <1>5 DEF KeepsOthers, SuiteType, request

LEMMA RaisesKeepsOthers ==
    ASSUME SuiteType, UNCHANGED inputs, NEW s \in Settings, NEW v, Raises(s, v)
    PROVE  KeepsOthers(s)
<1>1. CASE UNCHANGED world
  BY <1>1 DEF world, inputs, SuiteType, KeepsOthers, Settled, Own, Asked, Current
<1>2. CASE Set(s, v, FALSE)
  BY <1>2, SetKeepsOthers
<1>3. QED
  BY <1>1, <1>2 DEF Raises

(* The request that puts a setting back is the last one of it.               *)
LEMMA RestoreSettles ==
    ASSUME SuiteType, UNCHANGED inputs, NEW s \in Settings,
           Set(s, Current(s), TRUE)
    PROVE  Settled(s)'
<1> DEFINE request == [setting |-> s, wire |-> Asked(s), restores |-> TRUE]
           n == Len(sent)
<1>1. sent' = Append(sent, request) /\ n \in Nat
  BY DEF Set, SuiteType, Asked
<1>2. Len(sent') = n + 1 /\ sent'[n + 1] = request
  BY <1>1 DEF SuiteType
<1>3. n + 1 \in Own(s)' /\ \A j \in Own(s)' : j <= n + 1
  BY <1>1, <1>2 DEF Own
<1>4. Asked(s)' = Asked(s)
  BY DEF Asked, Current, inputs
<1>5. QED
  BY <1>2, <1>3, <1>4 DEF Settled

(* A request leaves the queue: obeyed, or with its refusal remembered if it  *)
(* was to put a setting back.                                                *)
LEMMA TailSettles ==
    ASSUME SuiteType, sent # <<>>, sent' = Tail(sent), UNCHANGED inputs,
           unheeded \subseteq unheeded', NEW s \in Settings, Settled(s),
           Head(sent).setting # s => device'[s] = device[s],
           Head(sent).setting = s /\ Head(sent).restores
               => s \in unheeded' \/ device'[s] = Head(sent).wire
    PROVE  Settled(s)'
<1> DEFINE n == Len(sent)
<1>1. /\ n \in Nat /\ n >= 1 /\ Len(sent') = n - 1
      /\ \A i \in 1 .. n - 1 : sent'[i] = sent[i + 1]
      /\ Head(sent) = sent[1]
  BY DEF SuiteType
<1>2. Asked(s)' = Asked(s) /\ original' = original
  BY DEF Asked, Current, inputs
<1> HIDE DEF n
<1>3. \A j \in Own(s)' : j + 1 \in Own(s) /\ j \in Nat \ {0} /\ sent'[j] = sent[j + 1]
  BY <1>1 DEF Own, n
<1>4. \A i \in Own(s) : i # 1 => i - 1 \in Own(s)' /\ sent'[i - 1] = sent[i] /\ i \in Nat
  BY <1>1 DEF Own, n
<1>5. CASE Own(s) = {} /\ device[s] \in {original[s], Asked(s)}
  <2>1. Head(sent).setting # s
    BY <1>1, <1>5 DEF Own, n
  <2>2. QED
    BY <1>2, <1>3, <1>5, <2>1 DEF Settled
<1>6. ASSUME NEW i \in Own(s), sent[i].restores, sent[i].wire = Asked(s),
             \A j \in Own(s) : j <= i
      PROVE  Settled(s)'
  <2>1. CASE i = 1
    <3>1. Own(s)' = {}
      BY <1>3, <1>6, <2>1
    <3>2. s \in unheeded' \/ device'[s] = Asked(s)
      BY <1>1, <1>6, <2>1 DEF Own
    <3>3. QED
      BY <1>2, <3>1, <3>2 DEF Settled
  <2>2. CASE i # 1
    <3>1. i - 1 \in Own(s)' /\ sent'[i - 1] = sent[i] /\ i \in Nat
      BY <1>4, <2>2
    <3>2. \A j \in Own(s)' : j <= i - 1
      BY <1>3, <1>6, <3>1
    <3>3. QED
      BY <1>2, <1>6, <3>1, <3>2 DEF Settled
  <2>3. QED
    BY <2>1, <2>2
<1>7. QED
  BY <1>5, <1>6 DEF Settled

(* The device deals with a request.                                          *)
LEMMA DeviceIInv == SuiteInv /\ (Obeys \/ Ignores) => SuiteInv'
<1> SUFFICES ASSUME SuiteInv, Obeys \/ Ignores PROVE SuiteInv'
  OBVIOUS
<1> USE DEF SuiteInv
<1>1. /\ sent # <<>> /\ sent' = Tail(sent) /\ sent \in Seq(RequestSet)
      /\ UNCHANGED <<inputs, product, plan, applied, phase, failed, raised>>
  BY DEF Obeys, Ignores, SuiteType
<1>2. Head(sent) \in RequestSet /\ sent' \in Seq(RequestSet)
  BY <1>1
<1>3. Head(sent).setting \in Settings /\ Head(sent).wire \in Nat
  BY <1>2 DEF RequestSet
<1>4. /\ device' \in [Settings -> Nat] /\ unheeded' \subseteq Settings
      /\ unheeded \subseteq unheeded'
      /\ \A s \in Settings :
             /\ Head(sent).setting # s => device'[s] = device[s]
             /\ Head(sent).setting = s /\ Head(sent).restores
                    => s \in unheeded' \/ device'[s] = Head(sent).wire
  <2>1. CASE Obeys
    BY <1>3, <2>1 DEF Obeys, SuiteType
  <2>2. CASE Ignores
    BY <1>3, <2>2 DEF Ignores, SuiteType
  <2>3. QED
    BY <2>1, <2>2
<1>5. SuiteType'
  BY <1>1, <1>2, <1>4 DEF SuiteType, inputs
<1>6. Consistent'
  BY <1>1 DEF Consistent, Current, inputs
<1>7. ASSUME NEW s \in Settings, Accounted(s) PROVE Accounted(s)'
  <2>1. Settled(s) => Settled(s)'
    BY <1>1, <1>4, TailSettles
  <2>2. QED
    BY <1>1, <1>7, <2>1 DEF Accounted, Pending, inputs
<1>8. AllAccounted'
  BY <1>1, <1>7 DEF AllAccounted
<1>9. QED
  BY <1>5, <1>6, <1>8

(* The head of a stack of actions, and what is under it.                     *)
LEMMA StackType ==
    ASSUME applied \in Seq(ActionSet), applied # <<>>
    PROVE  /\ Head(applied) \in ActionSet /\ Head(applied) = applied[1]
           /\ Tail(applied) \in Seq(ActionSet)
           /\ Len(Tail(applied)) = Len(applied) - 1
           /\ \A i \in 1 .. Len(Tail(applied)) : Tail(applied)[i] = applied[i + 1]
  OBVIOUS

LEMMA PushType ==
    ASSUME applied \in Seq(ActionSet), NEW action \in ActionSet
    PROVE  LET pushed == <<action>> \o applied
           IN /\ pushed \in Seq(ActionSet)
              /\ Len(pushed) = Len(applied) + 1
              /\ pushed[1] = action
              /\ \A i \in 1 .. Len(applied) : pushed[i + 1] = applied[i]
              /\ \A i \in 2 .. Len(pushed) : pushed[i] = applied[i - 1]
  OBVIOUS

(* Recorded first, then tried: a setting that changes is pending.            *)
LEMMA ApplyIInv == SuiteInv /\ Apply => SuiteInv'
<1> SUFFICES ASSUME SuiteInv, Apply PROVE SuiteInv'
  OBVIOUS
<1> USE DEF SuiteInv
<1>1. PICK action \in plan :
          /\ phase = "applying"
          /\ applied' = <<action>> \o applied
          /\ UNCHANGED <<inputs, product, failed>>
          /\ Raises(action.setting, action.value)
          /\ plan' \subseteq plan
          /\ \/ UNCHANGED <<phase, raised>>
             \/ raised' = TRUE /\ phase' = "restoring"
  BY DEF Apply, Raises
<1>2. action \in ActionSet /\ action.setting \in Settings
  BY DEF SuiteType, ActionSet
<1>3. KeepsOthers(action.setting)
  BY <1>1, <1>2, RaisesKeepsOthers
<1>4. /\ applied' \in Seq(ActionSet) /\ Len(applied') = Len(applied) + 1
      /\ applied'[1] = action
      /\ \A i \in 1 .. Len(applied) : applied'[i + 1] = applied[i]
      /\ \A i \in 2 .. Len(applied') : applied'[i] = applied[i - 1]
      /\ Len(applied) \in Nat
  BY <1>1, <1>2, PushType DEF SuiteType
<1>5. SuiteType'
  BY <1>1, <1>3, <1>4 DEF SuiteType, inputs, KeepsOthers
<1>6. Consistent'
  <2>1. ASSUME NEW i \in 1 .. Len(applied')
        PROVE  applied'[i].restore = Current(applied'[i].setting)
    <3>1. CASE i = 1
      BY <1>1, <1>4, <3>1 DEF Consistent, Current, inputs
    <3>2. CASE i # 1
      <4>1. i \in 2 .. Len(applied') /\ i - 1 \in 1 .. Len(applied)
        BY <1>4, <3>2
      <4>2. applied'[i] = applied[i - 1]
        BY <1>4, <4>1
      <4>3. QED
        BY <1>1, <4>1, <4>2 DEF Consistent, Current, inputs
    <3>3. QED
      BY <3>1, <3>2
  <2>2. (\A other \in plan : other.restore = Current(other.setting))'
    BY <1>1 DEF Consistent, Current, inputs
  <2>3. /\ (failed # {} => raised)'
        /\ phase' \in {"applying", "restoring"}
    BY <1>1 DEF Consistent
  <2>4. (\A i \in 1 .. Len(applied) :
            applied[i].restore = Current(applied[i].setting))'
    <3>1. \A t : Current(t)' = Current(t)
      BY <1>1 DEF Current, inputs
    <3>2. QED
      BY <2>1, <3>1
  <2>5. QED
    BY <2>2, <2>3, <2>4 DEF Consistent
<1>7. ASSUME NEW s \in Settings
      PROVE  Accounted(s)'
  <2>1. CASE s = action.setting
    <3>1. 1 \in 1 .. Len(applied') /\ applied'[1].setting = s
      BY <1>4, <2>1
    <3>2. Pending(s)'
      BY <3>1 DEF Pending
    <3>3. phase' # "done"
      BY <1>1
    <3>4. QED
      BY <3>2, <3>3 DEF Accounted
  <2>2. CASE s # action.setting
    <3>1. Accounted(s)
      BY <1>1 DEF AllAccounted
    <3>2. ASSUME Pending(s) PROVE Pending(s)'
      <4>1. PICK i \in 1 .. Len(applied) : applied[i].setting = s
        BY <3>2 DEF Pending
      <4>2. i + 1 \in 1 .. Len(applied') /\ applied'[i + 1].setting = s
        BY <1>4, <4>1
      <4>3. QED
        BY <4>2 DEF Pending
    <3>3. Settled(s) => Settled(s)'
      BY <1>3, <2>2 DEF KeepsOthers
    <3>4. phase' # "done"
      BY <1>1
    <3>5. QED
      BY <1>1, <3>1, <3>2, <3>3, <3>4 DEF Accounted, inputs
  <2>3. QED
    BY <2>1, <2>2
<1>8. QED
  BY <1>5, <1>6, <1>7 DEF AllAccounted

(* A restoration takes the latest action off the stack: it succeeds, fails,  *)
(* is cancelled, or there was nothing to restore.                            *)
LEMMA RestoringIInv ==
    ASSUME SuiteInv, NEW action, Restoring(action),
           UNCHANGED <<inputs, product, plan>>,
           KeepsOthers(action.setting),
           failed' \subseteq Settings, failed \subseteq failed',
           raised' \in BOOLEAN, failed' # {} => raised',
           phase' \in {"restoring", "cancelled"},
           \/ phase' = "cancelled"
           \/ Accounted(action.setting)'
    PROVE  SuiteInv'
<1> USE DEF SuiteInv
<1>1. /\ applied # <<>> /\ applied \in Seq(ActionSet)
      /\ action = Head(applied) /\ applied' = Tail(applied)
      /\ phase = "restoring"
  BY DEF Restoring, SuiteType
<1>2. /\ action \in ActionSet /\ action = applied[1]
      /\ applied' \in Seq(ActionSet)
      /\ Len(applied') = Len(applied) - 1
      /\ \A i \in 1 .. Len(applied') : applied'[i] = applied[i + 1]
      /\ Len(applied) \in Nat
  BY <1>1, StackType
<1>3. SuiteType'
  BY <1>2 DEF SuiteType, inputs, KeepsOthers
<1>4. Consistent'
  <2>1. ASSUME NEW i \in 1 .. Len(applied')
        PROVE  applied'[i].restore = Current(applied'[i].setting)
    <3>1. i + 1 \in 1 .. Len(applied) /\ applied'[i] = applied[i + 1]
      BY <1>2
    <3>2. QED
      BY <3>1 DEF Consistent, Current, inputs
  <2>2. QED
    BY <2>1 DEF Consistent, Current, inputs
<1>5. ASSUME phase' # "cancelled", NEW s \in Settings
      PROVE  Accounted(s)'
  <2>1. CASE s = action.setting
    BY <1>5, <2>1
  <2>2. CASE s # action.setting
    <3>1. Accounted(s)
      BY <1>1 DEF AllAccounted
    <3>2. ASSUME Pending(s) PROVE Pending(s)'
      <4>1. PICK i \in 1 .. Len(applied) : applied[i].setting = s
        BY <3>2 DEF Pending
      <4>2. i # 1 /\ i - 1 \in 1 .. Len(applied')
        BY <1>2, <2>2, <4>1
      <4>3. applied'[i - 1].setting = s
        BY <1>2, <4>1, <4>2
      <4>4. QED
        BY <4>2, <4>3 DEF Pending
    <3>3. Settled(s) => Settled(s)'
      BY <2>2 DEF KeepsOthers
    <3>4. QED
      BY <1>1, <3>1, <3>2, <3>3 DEF Accounted, inputs
  <2>3. QED
    BY <2>1, <2>2
<1>6. QED
  BY <1>3, <1>4, <1>5 DEF AllAccounted

LEMMA RestoreIInv ==
    ASSUME SuiteInv, RestoreSkip \/ Restore \/ RestoreFails \/ RestoreCancelled
    PROVE  SuiteInv'
<1> USE DEF SuiteInv
<1>1. /\ applied # <<>> /\ phase = "restoring"
      /\ UNCHANGED <<inputs, product, plan>>
  BY DEF RestoreSkip, Restore, RestoreFails, RestoreCancelled, Restoring
<1>2. PICK action \in ActionSet :
          /\ action = Head(applied) /\ Restoring(action)
          /\ action.restore = Current(action.setting)
  <2>1. /\ Head(applied) \in ActionSet /\ Head(applied) = applied[1]
        /\ 1 \in 1 .. Len(applied)
    BY <1>1, StackType DEF SuiteType
  <2>2. Restoring(Head(applied))
    BY DEF RestoreSkip, Restore, RestoreFails, RestoreCancelled, Restoring
  <2>3. QED
    BY <2>1, <2>2 DEF Consistent
<1>a. action.setting \in Settings
  BY <1>2 DEF ActionSet
<1>3. CASE RestoreSkip
  <2>1. /\ UNCHANGED <<world, phase, failed, raised>>
        /\ action.restore = None
    BY <1>2, <1>3 DEF RestoreSkip
  <2>2. known[action.setting] = None
    BY <1>2, <1>a, <2>1, CurrentType DEF SuiteType
  <2>3. Accounted(action.setting)'
    BY <1>1, <1>2, <2>2 DEF Accounted, inputs
  <2>4. KeepsOthers(action.setting)
    BY <1>1, <1>a, <2>1, RaisesKeepsOthers DEF Raises
  <2>5. QED
    BY <1>1, <1>2, <2>1, <2>3, <2>4, RestoringIInv DEF SuiteType, Consistent
<1>4. CASE Restore
  <2>1. /\ UNCHANGED <<phase, failed, raised>>
        /\ Set(action.setting, action.restore, TRUE)
    BY <1>2, <1>4 DEF Restore
  <2>2. KeepsOthers(action.setting)
    BY <1>1, <1>a, <2>1, SetKeepsOthers
  <2>3. Settled(action.setting)'
    BY <1>1, <1>2, <1>a, <2>1, RestoreSettles
  <2>4. Accounted(action.setting)'
    BY <2>3 DEF Accounted
  <2>5. QED
    BY <1>1, <1>2, <2>1, <2>2, <2>4, RestoringIInv DEF SuiteType, Consistent
<1>5. CASE RestoreFails
  <2>1. /\ UNCHANGED phase
        /\ failed' = failed \cup {action.setting} /\ raised' = TRUE
        /\ Raises(action.setting, action.restore)
    BY <1>2, <1>5 DEF RestoreFails
  <2>2. KeepsOthers(action.setting)
    BY <1>1, <1>a, <2>1, RaisesKeepsOthers
  <2>3. Accounted(action.setting)'
    BY <2>1 DEF Accounted
  <2>4. QED
    BY <1>1, <1>2, <1>a, <2>1, <2>2, <2>3, RestoringIInv DEF SuiteType
<1>6. CASE RestoreCancelled
  <2>1. /\ phase' = "cancelled" /\ UNCHANGED failed /\ raised' = TRUE
        /\ Raises(action.setting, action.restore)
    BY <1>2, <1>6 DEF RestoreCancelled
  <2>2. KeepsOthers(action.setting)
    BY <1>1, <1>a, <2>1, RaisesKeepsOthers
  <2>3. QED
    BY <1>1, <1>2, <2>1, <2>2, RestoringIInv DEF SuiteType
<1>7. QED
  BY <1>3, <1>4, <1>5, <1>6

LEMMA BeginIInv == SuiteInv /\ Begin => SuiteInv'
<1> SUFFICES ASSUME SuiteInv, Begin PROVE SuiteInv'
  OBVIOUS
<1> USE DEF SuiteInv
<1>1. /\ known' \in [Settings -> Nat \cup {None}]
      /\ override' \in [Settings -> Nat \cup {None}]
  <2>1. /\ known' \in [Settings -> UNION {Known[s] : s \in Settings}]
        /\ override' \in [Settings -> UNION {Overrides[s] : s \in Settings}]
    BY DEF Begin
  <2>2. /\ UNION {Known[s] : s \in Settings} \subseteq Nat \cup {None}
        /\ UNION {Overrides[s] : s \in Settings} \subseteq Nat \cup {None}
    BY DiagnosticAssumption
  <2>3. QED
    BY <2>1, <2>2
<1>2. original' \in [Settings -> Nat] /\ device' = original'
  BY <1>1 DEF Begin
<1>3. /\ plan' \subseteq ActionSet
      /\ \A action \in plan' : action.restore = (Current(action.setting))'
  <2>1. PlanTyped'
    BY PlanType, PTL
  <2>2. QED
    BY <1>1, <2>1 DEF Begin, PlanTyped
<1>4. /\ sent = <<>> /\ UNCHANGED <<sent, unheeded, applied, failed, raised>>
      /\ applied = <<>> /\ phase' = "applying"
      /\ product' \in Products \cup {None}
  BY DEF Begin, Consistent
<1>5. SuiteType'
  BY <1>1, <1>2, <1>3, <1>4 DEF SuiteType
<1>6. Consistent'
  BY <1>3, <1>4 DEF Consistent
<1>7. \A s \in Settings : Settled(s)'
  BY <1>2, <1>4 DEF Settled, Own
<1>8. QED
  BY <1>5, <1>6, <1>7 DEF AllAccounted, Accounted

LEMMA SuiteInvNext == SuiteInv /\ [SuiteNext]_suite => SuiteInv'
<1> SUFFICES ASSUME SuiteInv, [SuiteNext]_suite PROVE SuiteInv'
  OBVIOUS
<1>1. CASE Begin
  BY <1>1, BeginIInv
<1>2. CASE Apply
  BY <1>2, ApplyIInv
<1>3. CASE AllApplied \/ Finish \/ ProductReported \/ UNCHANGED suite
  <2>1. /\ UNCHANGED <<inputs, world, plan, applied, failed, raised>>
        /\ product' \in Products \cup {None}
        /\ \/ UNCHANGED phase
           \/ phase = "applying" /\ phase' = "restoring"
           \/ phase = "restoring" /\ phase' = "done" /\ applied = <<>>
    BY <1>3 DEF AllApplied, Finish, ProductReported, suite, SuiteInv, SuiteType
  <2>2. SuiteType'
    BY <2>1 DEF SuiteInv, SuiteType, inputs, world
  <2>3. Consistent'
    BY <2>1 DEF SuiteInv, Consistent, Current, inputs, world
  <2>4. ASSUME NEW s \in Settings, Accounted(s) PROVE Accounted(s)'
    <3>1. applied = <<>> => ~Pending(s)
      BY DEF Pending
    <3>2. Settled(s)' <=> Settled(s)
      BY <2>1 DEF Settled, Own, Asked, Current, inputs, world
    <3>3. Pending(s)' <=> Pending(s)
      BY <2>1 DEF Pending
    <3>4. QED
      BY <2>1, <2>4, <3>1, <3>2, <3>3 DEF Accounted, inputs
  <2>5. QED
    BY <2>1, <2>2, <2>3, <2>4 DEF SuiteInv, AllAccounted
<1>4. CASE RestoreSkip \/ Restore \/ RestoreFails \/ RestoreCancelled
  BY <1>4, RestoreIInv
<1>5. CASE Obeys \/ Ignores
  BY <1>5, DeviceIInv
<1>6. QED
  BY <1>1, <1>2, <1>3, <1>4, <1>5 DEF SuiteNext

LEMMA SuiteInductive == SuiteSpec => []SuiteInv
<1>1. QED
  BY SuiteInvInit, SuiteInvNext, PTL DEF SuiteSpec

-----------------------------------------------------------------------------
(* The suite keeps its types: in particular every value it sends to a setter *)
(* that accepts it, and every setting of the device, is a natural number.    *)
THEOREM SuiteTypeCorrect == SuiteSpec => []SuiteType
  BY SuiteInductive, PTL DEF SuiteInv

(* run_controls: whatever the state knew, the command line asked for, the    *)
(* limits were, and the setters and the device did, a setting that was known *)
(* is as it was with no request left that changes it, or its last request is *)
(* to put it back, or the device did not obey that one, or it is still to be *)
(* restored, or its restoration has failed.                                  *)
THEOREM NothingForgotten == SuiteSpec => []ChangesAccounted
  BY SuiteInductive, AccountedFor, PTL

(* A control suite that ends without an exception has, for every setting     *)
(* that was known, put it back, to the precision of whole percent, or had    *)
(* the last word: what the device has still to obey, or did not obey though  *)
(* the setter returned, is the request to put it back.                       *)
THEOREM SilenceMeansRestored == SuiteSpec => []SilentMeansRestored
<1>1. SuiteInv => SilentMeansRestored
  BY AccountedFor DEF SuiteInv, Consistent, ChangesAccounted, SilentMeansRestored
<1>2. QED
  BY <1>1, SuiteInductive, PTL
=============================================================================
