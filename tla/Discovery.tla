----------------------------- MODULE Discovery -----------------------------
(***************************************************************************)
(* Device discovery.  A bus reset interrupt invalidates every route and    *)
(* suspends every device; the reset state machine, which runs later on the *)
(* same queue, aborts the ROM scan and drops the topology; the Self-ID     *)
(* phase brings a new generation and topology, and a delayed block starts  *)
(* a ROMScanSession over the remote nodes.  The session reads the bus info *)
(* block, the root directory and the details of each node, with retries,   *)
(* speed fallback and readiness waits, at most MaxInflight reads at a      *)
(* time, and hands the ROMs to OnDiscoveryScanComplete, which binds the    *)
(* devices it found and marks the others lost.  A user client may ask for  *)
(* the ROM of one node.                                                    *)
(*                                                                         *)
(* Everything runs on the driver's one serial queue: an action is one      *)
(* block.  A read is outstanding until the block with its result runs.     *)
(* A session object dies with the scanner's reference to it, so what is    *)
(* queued for an aborted session finds nothing.                            *)
(*                                                                         *)
(* Left out: the IRM check (off in the driver), the evidence about the     *)
(* root's capability, the discovery delay and its back-off, the speed      *)
(* policy's table (it answers with the speed just recorded), the wrap of   *)
(* the generation after 256 resets.                                        *)
(***************************************************************************)
EXTENDS DeviceTable

CONSTANTS
    Nodes,              \* physical IDs of the remote nodes
    Local,              \* physical ID of this node
    Layouts,            \* what may be at the nodes after a reset
    MaxInflight,        \* params_.maxInflight
    PerStepRetries,     \* params_.perStepRetries
    ReadyRetries,       \* params_.configROMReadyRetries
    TopSpeed,           \* params_.startSpeed; 0 is S100
    MaxDetailReads,     \* bound: reads of the details of a node
    MaxResets,          \* bound: bus resets
    MaxManual,          \* bound: manual ROM reads
    CountFailures,      \* whether root directory failures are bounded at all
    MaxRootFailures     \* bound: failed root directory reads

\* No node, or one whose link is not active.
Absent == -1

ASSUME DiscoveryAssumption ==
    /\ Nodes \subseteq Nat /\ IsFiniteSet(Nodes) /\ Local \in Nat \ Nodes
    /\ Layouts \subseteq [Nodes -> Devices \cup {ZeroGuid, Absent}]
    /\ MaxInflight \in Nat \ {0}
    /\ {PerStepRetries, ReadyRetries, TopSpeed, MaxDetailReads, MaxResets, MaxManual, MaxRootFailures} \subseteq Nat
    /\ CountFailures \in BOOLEAN

VARIABLES
    stage,      \* where the bus reset is: see Interrupt .. OnTopologyReady
    gen,        \* lastGeneration_, also the generation of the latest topology
    layout,     \* what is at the nodes in this generation
    due,        \* the block that reports the topology is queued
    session,    \* ROMScanner::session_
    registry, devices, index, missing,     \* DeviceTable
    resets, manual, failures,              \* counted against their bounds
    token,      \* a route token somebody took
    crossed     \* a scan completed outside its own generation

tables == <<registry, devices, index, missing>>
bus == <<stage, gen, layout, due>>
counts == <<resets, manual, failures>>
vars == <<bus, session, tables, counts, token, crossed>>

NoSession == [gen |-> 0]
NoToken == [guid |-> 0]

Reading == {"ReadingBIB", "ReadingRootDir", "ReadingDetails"}
Terminal == {"Complete", "Failed"}

\* A ROMScanNodeStateMachine; out: results not yet handled, good: they may
\* be a success, timers: delayed retries, left: reads of details to come,
\* full: no unit directory was lost.
NewScan == [st |-> "Idle", retries |-> PerStepRetries, ready |-> ReadyRetries, speed |-> TopSpeed,
            out |-> 0, good |-> FALSE, timers |-> 0, left |-> 0, full |-> TRUE]

Init ==
    /\ stage = "reset" /\ gen = 0 /\ layout = [n \in Nodes |-> Absent] /\ due = FALSE
    /\ session = NoSession
    /\ registry = [g \in Devices |-> NoRecord] /\ devices = [g \in Devices |-> NoDevice]
    /\ index = {} /\ missing = [g \in Devices |-> 0]
    /\ resets = 0 /\ manual = 0 /\ failures = 0
    /\ token = NoToken /\ crossed = FALSE

Scanning == session # NoSession /\ session.begun

---------------------------------------------------------------------------
(* The end of a scan.                                                      *)

TopologyKnown == stage # "reset"

HasRemoteLinkActiveNode == \E n \in Nodes : layout[n] # Absent

IsZeroRomScanInconclusive(s) ==
    s.roms = {} /\ TopologyKnown /\ s.gen = gen /\ HasRemoteLinkActiveNode

\* GUIDs that several ROMs carry.
DuplicateGuids(roms) == {g \in Devices : Cardinality({r \in roms : r.guid = g}) > 1}

OnDiscoveryScanComplete(s) ==
    LET twice == DuplicateGuids(s.roms)
        once == {r \in s.roms : r.guid \notin twice \cup {ZeroGuid}}
        found == {r.guid : r \in once}
        Rom(g) == CHOOSE r \in once : r.guid = g
        lost == IF IsZeroRomScanInconclusive(s) THEN {}
                ELSE {g \in Devices \ found : devices[g].st # "None"}
        gone == {g \in lost : Terminates(devices[g], missing[g])}
        rebound == {r \in once : devices[r.guid].st # "Ready"}
    IN /\ registry' = [g \in Devices |->
              CASE g \in found -> UpsertFromROM(registry[g], s.gen, Rom(g))
                [] g \in gone -> RetireDevice(registry[g])
                [] g \in twice \ gone -> MarkDuplicateGuid(registry[g])
                [] OTHER -> registry[g]]
       /\ devices' = [g \in Devices |->
              CASE g \in found -> UpsertDevice(devices[g], g, s.gen, Rom(g))
                [] g \in lost -> MarkDeviceLost(devices[g], missing[g])
                [] OTHER -> devices[g]]
       /\ index' = {e \in UpdateOperationalIndex(index, s.gen, rebound) : e[3] \notin lost}
       /\ missing' = [g \in Devices |->
              IF g \in found \cup gone THEN 0 ELSE IF g \in lost THEN missing[g] + 1 ELSE missing[g]]
       /\ crossed' = (crossed \/ s.gen # gen \/ stage \in {"edge", "reset"})

---------------------------------------------------------------------------
(* The scan session.                                                       *)

\* A request made while the bus is in reset fails at once, one made with an
\* old generation completes twice: CompleteStaleGenerationAsync posts the
\* callback, and the handle 0 makes the reader report a failure as well.
IssueRead(s, r, st) ==
    [r EXCEPT !.st = st, !.out = @ + (IF s.gen # gen THEN 2 ELSE 1),
              !.good = s.gen = gen /\ stage \in {"selfid", "ready"}]

\* The state machine of node n becomes r.
Put(s, n, r) == [s EXCEPT !.scan[n] = r]

Issue(s, n, st) == [Put(s, n, IssueRead(s, s.scan[n], st)) EXCEPT !.inflight = @ + 1]

\* Mutant: the node whose turn it is may exceed the limit.
Startable_OneMore(s) ==
    LET idle == {n \in DOMAIN s.scan : s.scan[n].st = "Idle"}
    IN {n \in idle : Cardinality({m \in idle : m < n}) <= MaxInflight - s.inflight}

\* The idle nodes, in order, that the reads in flight leave room for.
Startable(s) ==
    LET idle == {n \in DOMAIN s.scan : s.scan[n].st = "Idle"}
    IN {n \in idle : Cardinality({m \in idle : m < n}) < MaxInflight - s.inflight}

\* StartBIBRead for each of them.
Started(s) ==
    LET nodes == Startable(s)
    IN [s EXCEPT !.scan = [n \in DOMAIN s.scan |->
                              IF n \in nodes THEN IssueRead(s, s.scan[n], "ReadingBIB") ELSE s.scan[n]],
                 !.inflight = @ + Cardinality(nodes)]

\* The condition of MaybeFinish.
Finished(s) ==
    /\ DOMAIN s.scan = {} \/ s.inflight = 0
    /\ \A n \in DOMAIN s.scan : s.scan[n].st \in Terminal

\* The counters of a node that ended, and of which nothing is to come, do not
\* matter any more.
Tidied(s) ==
    [s EXCEPT !.scan = [n \in DOMAIN s.scan |->
        LET r == s.scan[n]
        IN IF r.st \in Terminal /\ r.out + r.timers = 0 THEN [NewScan EXCEPT !.st = r.st] ELSE r]]

\* Pump and MaybeFinish.
Pump(s) ==
    \E t \in {Tidied(Started(s))} :
        IF Finished(t)
        THEN session' = NoSession /\ OnDiscoveryScanComplete(t)
        ELSE session' = t /\ UNCHANGED <<tables, crossed>>

\* The first block of a session: Abort and IsBusyFor see its generation only
\* from here on.
BeginScan ==
    /\ session # NoSession /\ ~session.begun
    /\ ~(session.late /\ stage = "edge")
    /\ Pump([session EXCEPT !.begun = TRUE, !.late = FALSE])
    /\ UNCHANGED <<bus, counts, token>>

CanTransitionTo(from, to) ==
    to \in CASE from = "Idle" -> {"ReadingBIB", "Failed"}
             [] from = "ReadingBIB" -> {"Waiting", "ReadingRootDir", "Complete", "Idle", "Failed"}
             [] from = "Waiting" -> {"Idle", "ReadingRootDir", "Failed"}
             [] from = "ReadingRootDir" -> {"Waiting", "ReadingDetails", "Complete", "Failed", "Idle"}
             [] from = "ReadingDetails" -> {"Complete", "Failed"}
             [] OTHER -> {"Idle"}

\* TransitionNodeState: what is not allowed ends in Failed.
Move(from, to) == IF CanTransitionTo(from, to) THEN to ELSE "Failed"

\* RetryBackoffPolicy::Apply
RetryWithFallback(r) ==
    CASE r.retries > 0 -> [r EXCEPT !.retries = @ - 1, !.st = Move(@, "Idle")]
      [] r.retries = 0 /\ r.speed > 0 ->
            [r EXCEPT !.speed = @ - 1, !.retries = PerStepRetries, !.st = Move(@, "Idle")]
      [] OTHER -> [r EXCEPT !.st = Move(@, "Failed")]

\* A result is handled: one less in flight.
Handled(s, n) ==
    Put([s EXCEPT !.inflight = IF @ > 0 THEN @ - 1 ELSE 0], n,
        [s.scan[n] EXCEPT !.out = @ - 1, !.good = FALSE])

\* Mutant: the delayed retry is not armed.
ScheduleConfigROMReadyRetry_NotArmed(s, n) ==
    /\ session' = Put(s, n, [s.scan[n] EXCEPT !.st = "Waiting", !.ready = @ - 1])
    /\ UNCHANGED <<tables, crossed>>

\* Nothing is started in the place of the read that failed.
ScheduleConfigROMReadyRetry(s, n) ==
    IF CanTransitionTo(s.scan[n].st, "Waiting")
    THEN /\ session' = Put(s, n, [s.scan[n] EXCEPT !.st = "Waiting", !.ready = @ - 1, !.timers = @ + 1])
         /\ UNCHANGED <<tables, crossed>>
    ELSE Pump(Put(s, n, [s.scan[n] EXCEPT !.st = "Failed"]))

ReadFailed(s, n) ==
    IF s.scan[n].ready > 0
    THEN ScheduleConfigROMReadyRetry(s, n)
    ELSE Pump(Put(s, n, RetryWithFallback(s.scan[n])))

\* A result for node n is queued; results of BIB reads may come late.
Result(n, st) ==
    /\ Scanning /\ n \in DOMAIN session.scan /\ session.scan[n].out > 0
    /\ IF st = "ReadingBIB"
       THEN session.scan[n].st \notin {"ReadingRootDir", "ReadingDetails"}
       ELSE session.scan[n].st = st

\* The node answered.
Answered(n) == session.scan[n].good /\ layout[n] # Absent

HandleBIBComplete(n) ==
    /\ Result(n, "ReadingBIB")
    /\ \E s \in {Handled(session, n)} :
          \/ ReadFailed(s, n)          \* failed, or still booting
          \/ /\ Answered(n)            \* does not parse, or a minimal ROM: skipped
             /\ \E st \in Terminal : Pump(Put(s, n, [s.scan[n] EXCEPT !.st = Move(@, st)]))
          \/ /\ Answered(n)            \* StartRootDirRead
             /\ session' = Issue(Put(s, n, [s.scan[n] EXCEPT !.retries = PerStepRetries]), n, "ReadingRootDir")
             /\ UNCHANGED <<tables, crossed>>
    /\ UNCHANGED <<bus, counts, token>>

FinalizeNodeDiscovery(s, n) ==
    Pump([Put(s, n, [s.scan[n] EXCEPT !.st = "Complete"]) EXCEPT
             !.roms = @ \cup {[node |-> n, guid |-> layout[n], full |-> s.scan[n].full]}])

ReadDetail(s, n, left) == Issue(Put(s, n, [s.scan[n] EXCEPT !.left = left - 1]), n, "ReadingDetails")

\* What the root directory refers to: nothing when it does not parse.
StartDetailsDiscovery(s, n) ==
    \E reads \in 0..MaxDetailReads, parsed \in BOOLEAN :
        /\ ~parsed => reads = 0
        /\ IF reads = 0
           THEN FinalizeNodeDiscovery(Put(s, n, [s.scan[n] EXCEPT !.full = parsed]), n)
           ELSE /\ session' = ReadDetail(s, n, reads)
                /\ UNCHANGED <<tables, crossed>>

HandleRootDirComplete(n) ==
    /\ Result(n, "ReadingRootDir")
    /\ \E s \in {Handled(session, n)} :
          \/ /\ Answered(n) /\ CountFailures => failures < MaxRootFailures
             /\ failures' = IF Answered(n) /\ CountFailures THEN failures + 1 ELSE failures
             /\ ReadFailed(s, n)
          \/ Answered(n) /\ StartDetailsDiscovery(s, n) /\ UNCHANGED failures
    /\ UNCHANGED <<bus, resets, manual, token>>

\* A failed read of details loses a name or a unit directory, never the node.
HandleDetailComplete(n) ==
    /\ Result(n, "ReadingDetails")
    /\ \E full \in BOOLEAN :
          /\ full => session.scan[n].full
          /\ \E h \in {Handled(session, n)} : \E s \in {Put(h, n, [h.scan[n] EXCEPT !.full = full])} :
                IF s.scan[n].left > 0 THEN Pump(ReadDetail(s, n, s.scan[n].left)) ELSE FinalizeNodeDiscovery(s, n)
    /\ UNCHANGED <<bus, counts, token>>

ConfigROMReadyRetry(n) ==
    /\ Scanning /\ n \in DOMAIN session.scan /\ session.scan[n].timers > 0
    /\ \E s \in {Put(session, n, [session.scan[n] EXCEPT !.timers = @ - 1])} :
          IF s.scan[n].st = "Waiting"
          THEN Pump(Put(s, n, [s.scan[n] EXCEPT !.st = "Idle"]))
          ELSE session' = s /\ UNCHANGED <<tables, crossed>>
    /\ UNCHANGED <<bus, counts, token>>

---------------------------------------------------------------------------
(* The scanner.                                                            *)

IsBusyFor(g) == Scanning /\ session.gen = g

\* ROMScanner::Start: a session of another generation, or one whose first
\* block has not run, is replaced.
StartScan(targets) ==
    session' = IF IsBusyFor(gen) THEN session
               ELSE [gen |-> gen, begun |-> FALSE, late |-> stage = "edge",
                     scan |-> [n \in targets |-> NewScan], inflight |-> 0, roms |-> {}]

\* ROMScanner::Abort
Abort(g) == session' = IF g > 0 /\ IsBusyFor(g) THEN NoSession ELSE session

---------------------------------------------------------------------------
(* The bus.                                                                *)

\* HandleInterrupt with a bus reset event.  RunStateMachine is queued.
Interrupt ==
    /\ stage # "reset" /\ resets < MaxResets
    /\ resets' = resets + 1
    /\ stage' = "edge"
    /\ registry' = InvalidateLiveMappingsForBusReset(registry)
    /\ devices' = SuspendAllForBusReset(devices)
    /\ index' = {} /\ missing' = [g \in Devices |-> 0]
    /\ session' = IF session # NoSession /\ stage # "edge" THEN [session EXCEPT !.late = FALSE] ELSE session
    /\ UNCHANGED <<gen, layout, due, manual, failures, token, crossed>>

\* Blocks queued before the interrupt's have run by now.
BeginNewResetCycle ==
    /\ stage = "edge" /\ ~due
    /\ session # NoSession => (session.begun \/ session.late)
    /\ stage' = "reset"
    /\ Abort(gen)
    /\ UNCHANGED <<gen, layout, due, tables, counts, token, crossed>>

\* The Self-ID phase ended and the state machine ran to StepComplete.
SelfIDComplete ==
    /\ stage = "reset"
    /\ \E l \in Layouts : layout' = l
    /\ gen' = gen + 1 /\ stage' = "selfid" /\ due' = TRUE
    /\ UNCHANGED <<session, tables, counts, token, crossed>>

\* The delayed block of StepComplete, and ReadyForDiscovery: in the edge the
\* node ID may be invalid.
OnTopologyReady ==
    /\ due /\ due' = FALSE
    /\ ~(session # NoSession /\ session.late /\ ~session.begun /\ stage = "selfid")
    /\ stage' = IF stage = "selfid" THEN "ready" ELSE stage
    /\ \/ StartScan({n \in Nodes : layout[n] # Absent})
       \/ stage = "edge" /\ UNCHANGED session
    /\ UNCHANGED <<gen, layout, tables, counts, token, crossed>>

---------------------------------------------------------------------------
(* Users.                                                                  *)

\* The user client's manual read of one node; of the local node, of nothing.
TriggerROMRead ==
    /\ TopologyKnown /\ manual < MaxManual
    /\ manual' = manual + 1
    /\ \E n \in Nodes \cup {Local} : StartScan({n} \ {Local})
    /\ UNCHANGED <<bus, tables, resets, failures, token, crossed>>

\* CurrentRoute, kept by a caller.
TakeRoute(g) ==
    /\ token = NoToken /\ HasLiveRoute(registry[g])
    /\ token' = RouteToken(g, registry[g])
    /\ UNCHANGED <<bus, session, tables, counts, crossed>>

\* What the queue, the bus and the transaction layer do by themselves.
Progress ==
    \/ BeginScan
    \/ \E n \in Nodes : \/ HandleBIBComplete(n) \/ HandleRootDirComplete(n)
                        \/ HandleDetailComplete(n) \/ ConfigROMReadyRetry(n)
    \/ BeginNewResetCycle \/ SelfIDComplete \/ OnTopologyReady

Next == Progress \/ Interrupt \/ TriggerROMRead \/ \E g \in Devices : TakeRoute(g)

\* A queued block runs, a read ends (the transaction layer times it out) and
\* a reset that began ends: while any of them is due, one happens.
Fairness == WF_vars(Progress)

Spec == Init /\ [][Next]_vars /\ Fairness

---------------------------------------------------------------------------
(* Properties.                                                             *)

SessionType(s) ==
    /\ s.gen \in 0..gen /\ s.begun \in BOOLEAN /\ s.late \in BOOLEAN /\ s.inflight \in Nat
    /\ DOMAIN s.scan \subseteq Nodes
    /\ \A n \in DOMAIN s.scan :
          LET r == s.scan[n]
          IN /\ r.st \in Reading \cup Terminal \cup {"Idle", "Waiting"}
             /\ r.retries \in 0..PerStepRetries /\ r.ready \in 0..ReadyRetries /\ r.speed \in 0..TopSpeed
             /\ r.out \in Nat /\ r.timers \in Nat /\ r.left \in 0..MaxDetailReads
             /\ r.good \in BOOLEAN /\ r.full \in BOOLEAN
    /\ \A r \in s.roms : r.node \in Nodes /\ r.guid \in Devices \cup {ZeroGuid} /\ r.full \in BOOLEAN

\* The variables have their types: a session belongs to a generation that
\* was, its counters stay within their parameters, the ROMs it completed
\* come from nodes with an active link, and a storage device is never kept
\* beyond the threshold of missing scans.
TypeOK ==
    /\ stage \in {"edge", "reset", "selfid", "ready"} /\ gen \in Nat /\ due \in BOOLEAN
    /\ layout \in Layouts \cup {[n \in Nodes |-> Absent]}
    /\ session = NoSession \/ SessionType(session)
    /\ \A g \in Devices :
          /\ registry[g].state \in {"Identified", "Quarantined"} /\ registry[g].known \in BOOLEAN
          /\ registry[g].inc \in Nat /\ registry[g].epoch \in Nat /\ registry[g].gen \in 0..gen
          /\ registry[g].node \in Nodes \cup {NoNode}
          /\ devices[g].st \in {"None", "Ready", "Suspended"} /\ devices[g].gen \in 0..gen
          /\ devices[g].node \in Nodes \cup {NoNode} /\ devices[g].sbp2 \in BOOLEAN
          /\ missing[g] \in 0..MissingTerminateThreshold - 1
    /\ index \subseteq (1..gen) \X Nodes \X Devices
    /\ resets \in 0..MaxResets /\ manual \in 0..MaxManual /\ failures \in Nat
    /\ token = NoToken \/ token.guid \in Devices
    /\ crossed \in BOOLEAN

\* Of a scan in its own generation: inflight_ is the number of nodes being
\* read, within params_.maxInflight; a node in a reading state waits for
\* exactly one result and a waiting one for exactly one delayed retry; and
\* an idle node is never left behind, some result or retry is still to come
\* that will pump the session (ScheduleConfigROMReadyRetry does not).
NoNodeStranded ==
    Scanning /\ session.gen = gen /\ stage # "reset" =>
        LET scan == session.scan
        IN /\ session.inflight = Cardinality({n \in DOMAIN scan : scan[n].st \in Reading})
           /\ session.inflight <= MaxInflight
           /\ \A n \in DOMAIN scan :
                 /\ scan[n].out = IF scan[n].st \in Reading THEN 1 ELSE 0
                 /\ scan[n].timers = IF scan[n].st = "Waiting" THEN 1 ELSE 0
           /\ \E n \in DOMAIN scan : scan[n].out + scan[n].timers > 0

\* A route token that lapsed, because of a reset, a rebinding, a quarantine
\* or a retirement, is never current again, whatever the device's next
\* generation, node and incarnation are: DeviceRegistry::IsCurrent is the
\* driver's guard against requests to a node that became another device.
TokenNeverRevives ==
    [][token # NoToken /\ ~IsCurrent(registry, token) => ~IsCurrent(registry', token)]_vars

\* The tables agree.  The registry and the manager know the same devices: one
\* that the manager terminated has been retired, so its return is a new
\* incarnation.  Every entry of the manager's index leads to a published
\* device at that generation and node, and every published device has one.
TablesAgree ==
    /\ \A g \in Devices : registry[g].known <=> devices[g].st # "None"
    /\ index = {<<devices[g].gen, devices[g].node, g>> : g \in {h \in Devices : devices[h].st = "Ready"}}

\* Once discovery is over, unless some scan completed outside its own
\* generation, every published device (whose GUID no two nodes claim) is
\* bound to the node where it is, in the present generation, and the
\* registry has a live route to the same place: a rebinding reaches both.
SettledIsBound ==
    stage = "ready" /\ session = NoSession /\ ~crossed =>
        \A g \in Devices : devices[g].st = "Ready" /\ Cardinality({n \in Nodes : layout[n] = g}) < 2 =>
            /\ devices[g].gen = gen /\ devices[g].node \in Nodes /\ layout[devices[g].node] = g
            /\ HasLiveRoute(registry[g])
            /\ registry[g].gen = gen /\ registry[g].node = devices[g].node

\* When resets and requests cease, scanning ceases: ROMScanner.hpp promises
\* one completion for each successful Start.
ScanEnds == <>[](session = NoSession)

\* "A reset edge is a hard liveness boundary: no higher layer may retain the
\* old (generation,node) address while Self-ID and ROM discovery are in
\* flight" (ControllerCore::HandleInterrupt).
\* Does not hold: see section 5 of the README.
HardBoundary == stage \in {"edge", "reset"} => \A g \in Devices : ~HasLiveRoute(registry[g])

============================================================================
