------------------------------- MODULE Limits -------------------------------
(* limits.py and the setters' validation: which values of which settings a   *)
(* client lets through, and what they become on the wire.                    *)
EXTENDS Integers, Functions

CONSTANTS
    MODEL_LIMITS,   \* the registry, keyed by lowercase model key
    lower,          \* str.lower on the names in use
    None

DEFAULT_LIMITS ==
    [maxInput |-> 2400, maxOutput |-> 2400, maxMinSoc |-> 50, minTargetSoc |-> 70]

ASSUME LimitsAssumption ==
    /\ Range(MODEL_LIMITS) \subseteq [DOMAIN DEFAULT_LIMITS -> Nat]
    /\ None \notin Nat \cup DOMAIN lower

(* _resolve_limits: explicit limits, else those registered for the model the *)
(* client was made for, else for the productKey reported, else the default.  *)
ResolvedLimits(limits, model, productKey) ==
    LET identity == IF model # None THEN model ELSE productKey
        registered == identity # None /\ lower[identity] \in DOMAIN MODEL_LIMITS
    IN IF limits # None THEN limits
       ELSE IF registered THEN MODEL_LIMITS[lower[identity]] ELSE DEFAULT_LIMITS

(* The values each setter accepts.                                           *)
Accepted(limits) ==
    [inputLimit  |-> 0 .. limits.maxInput,
     outputLimit |-> 0 .. limits.maxOutput,
     minSoc      |-> 0 .. limits.maxMinSoc,
     socSet      |-> limits.minTargetSoc .. 100,
     acMode      |-> {1, 2}]

Scaled == {"minSoc", "socSet"}     \* percent for the setters, else as on the wire

Wire(s, v) == IF s \in Scaled THEN v * 10 ELSE v
=============================================================================
