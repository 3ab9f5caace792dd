---------------------------- MODULE DeviceState ----------------------------
(* SolarFlowState: what a client knows of its device, merged from the        *)
(* reports of one session by with_report and _merged_packs, and from the     *)
(* BLESPP its handshake took.  A value that has not been reported is absent  *)
(* from its function.                                                        *)
EXTENDS Integers, SequencesExt

CONSTANTS
    Keys,        \* _REPORT_FIELDS
    PackKeys,    \* _PACK_FIELDS
    PackIn,      \* packInputPower
    PackOut,     \* outputPackPower
    Messages,    \* the messages of the device: "report" and "BLESPP"
    MaxReports,  \* bound on the messages of a session
    None

(* A message has a method, properties, identity (the strings among its       *)
(* deviceId and productKey) and packData; None stands for the lack of a dict *)
(* or a list of this name, and is neither a number nor a dict.  A malformed  *)
(* pack entry has the serial number None.  Of a BLESPP only the deviceId is  *)
(* read.                                                                     *)
IdentityKeys == {"deviceId", "productKey"}
Reported == UNION {Range(m.properties) : m \in {n \in Messages : n.properties # None}}
Entries == UNION {Range(m.packData) : m \in {n \in Messages : n.packData # None}}

ASSUME StateAssumption ==
    /\ PackIn \in Keys /\ PackOut \in Keys
    /\ MaxReports \in Nat
    /\ \A m \in Messages :
          /\ m.method \in {"report", "BLESPP"}
          /\ DOMAIN m.identity \subseteq IdentityKeys
          /\ m.method = "BLESPP" =>
                 /\ m.properties = None /\ m.packData = None
                 /\ DOMAIN m.identity = {"deviceId"}
          /\ m.packData # None => m.packData \in Seq(Entries)
    /\ None \notin Int
    /\ \A keys \in SUBSET Keys : None \notin [keys -> Reported]

VARIABLES
    fields,      \* the integer fields, by the property they mirror
    power,       \* battery_power
    identity,    \* device_id, product_key
    raw,
    packs,
    reports      \* ghost: the messages the state of the session is made of

vars == <<fields, power, identity, raw, packs, reports>>

-----------------------------------------------------------------------------
IsInt(v) == v \in Int

Selected(values, keys) == Restrict(values, DOMAIN values \cap keys)

ChangesMutant(values, keys) == Selected(values, keys)  \* any value is taken
Changes(values, keys) == RestrictValues(Selected(values, keys), IsInt)

(* replace(), and the dict displays: the new values before the old ones.     *)
Merged(old, new) ==
    [k \in DOMAIN old \cup DOMAIN new |-> IF k \in DOMAIN new THEN new[k] ELSE old[k]]

Slot(known, sn) == SelectInSeq(known, LAMBDA p : p.sn = sn)

MergedPackMutant(known, entry) ==    \* a new BatteryPack for every entry
    LET i == Slot(known, entry.sn)
        pack == [sn |-> entry.sn, values |-> Changes(entry.values, PackKeys)]
    IN IF entry.sn = None THEN known
       ELSE IF i = 0 THEN Append(known, pack) ELSE [known EXCEPT ![i] = pack]

(* One round of the loop of _merged_packs: a known pack keeps its place.     *)
MergedPack(known, entry) ==
    LET i == Slot(known, entry.sn)
        changes == Changes(entry.values, PackKeys)
    IN IF entry.sn = None THEN known
       ELSE IF i = 0 THEN Append(known, [sn |-> entry.sn, values |-> changes])
       ELSE [known EXCEPT ![i].values = Merged(@, changes)]

PowerMutant(changes) ==              \* only of a report that carries both
    IF {PackIn, PackOut} \subseteq DOMAIN changes
    THEN changes[PackOut] - changes[PackIn] ELSE power

(* battery_power: of the new values where there are, else of the known ones. *)
Power(changes) ==
    LET now == Merged(fields, changes)
    IN IF {PackIn, PackOut} \subseteq DOMAIN now
       THEN now[PackOut] - now[PackIn] ELSE power

-----------------------------------------------------------------------------
Init ==
    /\ fields = <<>> /\ power = None /\ identity = <<>>
    /\ raw = None /\ packs = <<>>
    /\ reports = <<>>

Values(m) ==
    LET changes == Changes(m.properties, Keys) IN
    /\ fields' = Merged(fields, changes)
    /\ power' = Power(changes)
    /\ raw' = Merged(IF raw = None THEN <<>> ELSE raw, Selected(m.properties, Keys))

PropertiesMutant(m) ==               \* identity of every report
    /\ identity' = Merged(identity, m.identity)
    /\ IF m.properties = None THEN UNCHANGED <<fields, power, raw>> ELSE Values(m)

(* A report without properties changes nothing but packs.                    *)
Properties(m) ==
    IF m.properties = None THEN UNCHANGED <<fields, power, identity, raw>>
    ELSE Values(m) /\ identity' = Merged(identity, m.identity)

Packs(m) ==
    packs' = IF m.packData = None THEN packs
             ELSE FoldLeft(MergedPack, packs, m.packData)

Applies(m) ==
    /\ Len(reports) < MaxReports
    /\ reports' = Append(reports, m)

(* with_report, as _apply_message calls it for every report it is given:     *)
(* before BLESPP whoever it is from, afterwards from nobody but that device  *)
(* (_validate_message_identity).                                             *)
Report(m) ==
    /\ m.method = "report"
    /\ \A b \in ToSet(reports) :
          b.method = "BLESPP" /\ "deviceId" \in DOMAIN m.identity
              => m.identity["deviceId"] = b.identity["deviceId"]
    /\ Properties(m) /\ Packs(m)
    /\ Applies(m)

(* _establish_identity, which connect() calls once in a session, with the    *)
(* BLESPP it has waited for: the state takes its deviceId, whatever reports  *)
(* before it have named.                                                     *)
Establish(m) ==
    /\ m.method = "BLESPP"
    /\ \A b \in ToSet(reports) : b.method = "report"
    /\ identity' = Merged(identity, m.identity)
    /\ Applies(m)
    /\ UNCHANGED <<fields, power, raw, packs>>

(* _reset_session starts from a new state.                                   *)
Reset ==
    /\ fields' = <<>> /\ power' = None /\ identity' = <<>>
    /\ raw' = None /\ packs' = <<>>
    /\ reports' = <<>>

Next == (\E m \in Messages : Report(m) \/ Establish(m)) \/ Reset

Spec == Init /\ [][Next]_vars

-----------------------------------------------------------------------------
IsPartial(f, keys, values) == DOMAIN f \subseteq keys /\ Range(f) \subseteq values

TypeOK ==
    /\ IsPartial(fields, Keys, Int)
    /\ power \in Int \cup {None}
    /\ raw = None \/ IsPartial(raw, Keys, Reported)
    /\ \A p \in ToSet(packs) : /\ p.sn \in {e.sn : e \in Entries} \ {None}
                              /\ IsPartial(p.values, PackKeys, Int)
    /\ reports \in Seq(Messages)

(* Where a sequence of partial functions gives a key a value of some kind,   *)
(* and the last such value of every key.                                     *)
Given(seq, keys, Test(_)) ==
    [k \in keys |-> {i \in DOMAIN seq : k \in DOMAIN seq[i] /\ Test(seq[i][k])}]
Latest(seq, given) ==
    [k \in {k \in DOMAIN given : given[k] # {}} |-> seq[Max(given[k])][k]]

Anything(v) == TRUE

(* What each message says: a report nothing of fields and identity if it has *)
(* no properties, and nothing of packs if it has no list of them; a BLESPP   *)
(* who the device is.                                                        *)
Nothing == [k \in {} |-> None]
Told(m) == IF m.properties = None THEN Nothing ELSE m.properties
Naming(m) ==
    IF m.method = "report" /\ m.properties = None THEN Nothing ELSE m.identity
Listed(m) == IF m.packData = None THEN <<>> ELSE m.packData

(* The state a client shows (with_report, _establish_identity) is, field by  *)
(* field, what the device said last: partial reports, and values that are no *)
(* integers, leave the other fields as they were; nothing of an earlier      *)
(* session remains; raw has the last value of each known key, integer or     *)
(* not; and deviceId and productKey are each the last one that a report with *)
(* properties or the BLESPP of the handshake named: neither a report that    *)
(* came before BLESPP nor one without properties has the last word.          *)
LatestValues ==
    LET values == [i \in DOMAIN reports |-> Told(reports[i])]
        names == [i \in DOMAIN reports |-> Naming(reports[i])]
    IN /\ fields = Latest(values, Given(values, Keys, IsInt))
       /\ raw = IF \A m \in ToSet(reports) : m.properties = None THEN None
                ELSE Latest(values, Given(values, Keys, Anything))
       /\ identity = Latest(names, Given(names, IdentityKeys, Anything))

(* battery_power is known exactly when both its terms are, and is always the *)
(* difference of the values shown beside it, though one report may bring one *)
(* of them, the other, both, or one of them as a string (with_report).       *)
PowerOfFields ==
    power = IF {PackIn, PackOut} \subseteq DOMAIN fields
            THEN fields[PackOut] - fields[PackIn] ELSE None

Of(entries, sn) ==
    [i \in DOMAIN entries |-> IF entries[i].sn = sn THEN entries[i].values ELSE Nothing]

(* What packs have to be after these entries of packData.                    *)
Mirror(known, entries) ==
    /\ {p.sn : p \in ToSet(known)} = {e.sn : e \in ToSet(entries)} \ {None}
    /\ \A i, j \in DOMAIN known :
          i < j => Slot(entries, known[i].sn) < Slot(entries, known[j].sn)
    /\ \A p \in ToSet(known) :
          p.values = Latest(Of(entries, p.sn), Given(Of(entries, p.sn), PackKeys, IsInt))

(* _merged_packs: one pack for each serial number the device ever named, in  *)
(* the order of their first mention, each with the last integers reported of *)
(* it, wherever it is in packData and however often.                         *)
PacksOfReports == Mirror(packs, FlattenSeq([i \in DOMAIN reports |-> Listed(reports[i])]))
=============================================================================
