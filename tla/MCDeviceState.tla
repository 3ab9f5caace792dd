--------------------------- MODULE MCDeviceState ---------------------------
EXTENDS DeviceState

CONSTANT Text      \* a value on the wire that is no integer

MCKeys == {"packInputPower", "outputPackPower", "acMode"}
MCPackKeys == {"socLevel", "power"}

Carries(properties) ==
    [method |-> "report", properties |-> properties, identity |-> <<>>, packData |-> None]
Names(properties, names) == [Carries(properties) EXCEPT !.identity = names]
Lists(entries) == [Carries(None) EXCEPT !.packData = entries]
Entry(name, values) == [sn |-> name, values |-> values]

(* Each term of battery_power alone, both, as text; unknown keys; properties *)
(* that are empty or missing; the same key as integer and as text.           *)
ValueReports ==
    {Carries("packInputPower" :> 10), Carries("packInputPower" :> Text),
     Carries("outputPackPower" :> 40), Carries("outputPackPower" :> 0),
     Carries("packInputPower" :> 60 @@ "outputPackPower" :> Text @@ "acMode" :> 1),
     Carries("packInputPower" :> 0 @@ "outputPackPower" :> 90 @@ "pass" :> 7)}

IdentityReports ==
    {Names("acMode" :> 2, "deviceId" :> "D1" @@ "productKey" :> "bc8b7f"),
     Names(<<>>, "deviceId" :> "D2"), Names(None, "deviceId" :> "D1")}

BLESPP == [Names(None, "deviceId" :> "D1") EXCEPT !.method = "BLESPP"]

(* Packs new, known, named twice, without news, malformed, in either order;  *)
(* and one report with everything.                                           *)
PackReports ==
    {Lists(<<Entry("A", "socLevel" :> 25)>>),
     Lists(<<Entry("B", "power" :> 5), Entry("A", "power" :> 8 @@ "socLevel" :> Text)>>),
     Lists(<<Entry(None, "power" :> 1), Entry("A", "power" :> 6),
             Entry("C", <<>>), Entry("A", "power" :> 7 @@ "sn" :> 0)>>),
     Lists(<<>>),
     [Carries("outputPackPower" :> 70) EXCEPT !.packData = <<Entry("B", "socLevel" :> 3)>>]}

MCMessages == ValueReports \cup IdentityReports \cup PackReports \cup {BLESPP}
=============================================================================
