---------------------------- MODULE DeviceTable ----------------------------
(***************************************************************************)
(* What the driver knows of the devices on the bus.  DeviceRegistry keeps  *)
(* a record for each GUID and hands out route tokens (device incarnation,  *)
(* route epoch, generation, node); DeviceManager keeps the FWDevice objects *)
(* that higher layers observe, an index from (generation, node) to GUID,   *)
(* and how often a storage device was missing from a scan.  The operators  *)
(* are the methods of the two classes, each of them one critical section   *)
(* of its lock; a method applied to several devices is one operator on a   *)
(* set of them.                                                            *)
(*                                                                         *)
(* Left out: names, kinds and the audio catalogue's quarantine, link       *)
(* speeds, the registry's own (generation, node) index, the ROM store, and *)
(* the observers' callbacks.                                               *)
(***************************************************************************)
EXTENDS Integers, FiniteSets, FiniteSetsExt

CONSTANTS
    Devices,        \* GUIDs
    Storage         \* those whose Config ROM has an SBP-2 unit directory

ASSUME DeviceTableAssumption == Devices \subseteq Nat \ {0} /\ Storage \subseteq Devices

ZeroGuid == 0
NoNode == -1
\* kSBP2MissingTerminateThreshold
MissingTerminateThreshold == 2

---------------------------------------------------------------------------
(* DeviceRegistry: registry[g] is [known, state, inc, epoch, gen, node].   *)
(* inc and epoch outlive the record: lastDeviceIncarnationByGuid_, and the *)
(* counter of route epochs, which here is one counter for each GUID (a     *)
(* token names its GUID).                                                  *)

NoRecord == [known |-> FALSE, state |-> "Identified", inc |-> 0, epoch |-> 0, gen |-> 0, node |-> NoNode]

HasLiveRoute(d) == d.known /\ d.state = "Identified" /\ d.node # NoNode

RouteToken(g, d) == [guid |-> g, inc |-> d.inc, epoch |-> d.epoch, gen |-> d.gen, node |-> d.node]

\* Mutant: the device and its node are compared, the route is not.
IsCurrent_ByNode(registry, token) ==
    LET d == registry[token.guid] IN HasLiveRoute(d) /\ d.inc = token.inc /\ d.node = token.node

IsCurrent(registry, token) ==
    LET d == registry[token.guid] IN HasLiveRoute(d) /\ RouteToken(token.guid, d) = token

UpsertFromROM(d, gen, rom) ==
    LET new == ~d.known
        moved == d.gen # gen \/ d.node # rom.node \/ ~HasLiveRoute(d)
    IN [known |-> TRUE, state |-> "Identified", inc |-> IF new THEN d.inc + 1 ELSE d.inc,
        epoch |-> IF new \/ moved THEN d.epoch + 1 ELSE d.epoch, gen |-> gen, node |-> rom.node]

MarkDuplicateGuid(d) == IF d.known THEN [d EXCEPT !.state = "Quarantined"] ELSE d

RetireDevice(d) == [NoRecord EXCEPT !.inc = d.inc, !.epoch = d.epoch]

InvalidateLiveMappingsForBusReset(registry) ==
    [g \in Devices |->
        IF registry[g].node = NoNode THEN registry[g]
        ELSE [registry[g] EXCEPT !.node = NoNode, !.epoch = @ + 1]]

---------------------------------------------------------------------------
(* DeviceManager: devices[g] is [st, gen, node, sbp2], st = "None" when    *)
(* there is no such FWDevice; index is a set of <<gen, node, GUID>>.       *)

NoDevice == [st |-> "None", gen |-> 0, node |-> NoNode, sbp2 |-> FALSE]

\* Mutant: a published device stays published.
Suspended_Never(d) == d

\* FWDevice::Suspend
Suspended(d) == IF d.st = "Ready" THEN [d EXCEPT !.st = "Suspended", !.node = NoNode] ELSE d

SuspendAllForBusReset(devices) == [g \in Devices |-> Suspended(devices[g])]

CreateAndRegisterDevice(g, gen, rom) ==
    [st |-> "Ready", gen |-> gen, node |-> rom.node, sbp2 |-> g \in Storage /\ rom.full]

\* A published device stays as it is: "redundant discovery".
ResumeExistingDevice(d, gen, rom) ==
    IF d.st = "Suspended" THEN [d EXCEPT !.st = "Ready", !.gen = gen, !.node = rom.node] ELSE d

\* Mutant: a published device is created again.
UpsertDevice_Anew(d, g, gen, rom) == CreateAndRegisterDevice(g, gen, rom)

UpsertDevice(d, g, gen, rom) ==
    IF d.st = "None" THEN CreateAndRegisterDevice(g, gen, rom) ELSE ResumeExistingDevice(d, gen, rom)

\* The ROMs of one scan come from different nodes.
UpdateOperationalIndex(index, gen, roms) ==
    {e \in index : \A rom \in roms : <<e[1], e[2]>> # <<gen, rom.node>>}
        \cup {<<gen, rom.node, rom.guid>> : rom \in roms}

\* Mutant: one more missing scan is allowed.
Terminates_OneLater(d, missing) == ~d.sbp2 \/ missing + 1 > MissingTerminateThreshold

\* MarkDeviceLost removes the device (and TerminateDevice follows) ...
Terminates(d, missing) == ~d.sbp2 \/ missing + 1 >= MissingTerminateThreshold

TerminateDevice(d) == NoDevice

\* ... or suspends it until it was missing often enough.
MarkDeviceLost(d, missing) == IF Terminates(d, missing) THEN TerminateDevice(d) ELSE Suspended(d)

============================================================================
