---------------------------- MODULE MCScriptRun ----------------------------
EXTENDS ScriptRun

(* The registry of the code and a smaller model that it does not have yet.   *)
MCModelLimits ==
    "solarflow-2400ac" :> DEFAULT_LIMITS @@ "bc8b7f" :> DEFAULT_LIMITS
    @@ "small" :> [maxInput |-> 600, maxOutput |-> 600, maxMinSoc |-> 9, minTargetSoc |-> 95]

MClower == "BC8B7F" :> "bc8b7f" @@ "Small" :> "small"

(* Values at, inside and outside of the bounds, which the smaller model makes *)
(* narrower; 105 per mille is no whole percentage.  outputLimit is neither   *)
(* known nor asked for, and acMode is refused, having no known value.        *)
MCKnown ==
    [inputLimit |-> {None, 800}, outputLimit |-> {None}, minSoc |-> {None, 105},
     socSet |-> {1000}, acMode |-> {None}]

MCOverrides ==
    [inputLimit |-> {400}, outputLimit |-> {None}, minSoc |-> {9},
     socSet |-> {90}, acMode |-> {2}]

(* Two SolarFlows, the first with a trailing 0x16 and the second not         *)
(* connectable; a device of another vendor; and one whose data is no ASCII.  *)
MCupper == "a" :> "A" @@ "A" :> "A" @@ "B" :> "B" @@ "C" :> "C" @@ "D" :> "D"

MCDevices ==
    {[address |-> "A", connectable |-> TRUE, data |-> (MANUFACTURER_ID :> <<83, 22>>)],
     [address |-> "B", connectable |-> FALSE, data |-> (MANUFACTURER_ID :> <<84>>)],
     [address |-> "C", connectable |-> TRUE, data |-> (76 :> <<83>>)],
     [address |-> "D", connectable |-> TRUE, data |-> (MANUFACTURER_ID :> <<200>>)]}

Ask(address, identifier) == [address |-> address, identifier |-> identifier]
Nothing == Ask({}, {})

MCRequests ==
    {[script |-> "controls", cli |-> Ask({"a"}, {}), config |-> Ask({}, {<<84>>})],
     [script |-> "monitor", cli |-> Ask({}, {<<84>>}), config |-> Ask({"C"}, {})],
     [script |-> "monitor", cli |-> Nothing, config |-> Ask({}, {<<83>>})],
     [script |-> "monitor", cli |-> Nothing, config |-> Nothing],
     [script |-> "handshake", cli |-> Ask({"a"}, {<<84>>}), config |-> Nothing],
     [script |-> "handshake", cli |-> Nothing, config |-> Nothing],
     [script |-> "passive", cli |-> Ask({}, {<<84>>}), config |-> Nothing],
     [script |-> "list", cli |-> Nothing, config |-> Nothing]}
=============================================================================
