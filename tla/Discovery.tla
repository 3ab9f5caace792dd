----------------------------- MODULE Discovery -----------------------------
(* How the developer scripts find their device: the target their arguments   *)
(* name, the manufacturer data parse_advertisement understands, and what     *)
(* lookup() and match() accept of what the proxy's scanners report.          *)
(* An optional value is a set of at most one element.                        *)
EXTENDS Integers, SequencesExt

CONSTANTS
    Devices,    \* what scanners may report: [address, connectable, data],
                \* where data maps manufacturer ids to sequences of bytes
    upper       \* str.upper on the addresses in use

MANUFACTURER_ID == 20296    \* 0x4F48

ASSUME DiscoveryAssumption ==
    \A d \in Devices : d.address \in DOMAIN upper /\ d.connectable \in BOOLEAN

(* parse_advertisement: a trailing 0x16 is no part of the identifier, which  *)
(* is ASCII and not empty.                                                   *)
Parsed(data) ==
    LET payload == data[MANUFACTURER_ID]
        text == IF IsSuffix(<<22>>, payload) THEN Front(payload) ELSE payload
    IN IF /\ MANUFACTURER_ID \in DOMAIN data
          /\ text # <<>> /\ \A i \in DOMAIN text : text[i] < 128
       THEN {text} ELSE {}

(* merge_config: a target on the command line displaces both of the file's.  *)
Merged(cli, config) ==
    IF cli.address # {} THEN [cli EXCEPT !.identifier = {}]
    ELSE IF cli.identifier # {} THEN cli ELSE config

(* validate_arguments: exactly one of --address and --identifier.            *)
Valid(target) == (target.address = {}) # (target.identifier = {})

(* Addresses are compared in upper case.                                     *)
HasAddress(d, target) == \E a \in target.address : upper[d.address] = upper[a]

(* lookup(): connectable devices by address.  The probe also goes through    *)
(* all connectable devices discovered, to the same effect.                   *)
Lookup(target, air) == {d \in air : d.connectable /\ HasAddress(d, target)}

(* match(): a device that advertises as a SolarFlow, with the address and    *)
(* the identifier asked for, if any.                                         *)
MatchMutant(target, air) ==   \* any SolarFlow will do
    {d \in air : /\ target.address = {} \/ HasAddress(d, target)
                 /\ Parsed(d.data) # {}}
Match(target, air) ==
    {d \in air : /\ target.address = {} \/ HasAddress(d, target)
                 /\ Parsed(d.data) # {}
                 /\ target.identifier \subseteq Parsed(d.data)}

(* One pass of scan_for_target: what it may return, first lookup()'s.        *)
Found(target, air) ==
    IF Lookup(target, air) # {} THEN Lookup(target, air) ELSE Match(target, air)
=============================================================================
