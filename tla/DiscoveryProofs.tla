--------------------------- MODULE DiscoveryProofs ---------------------------
(***************************************************************************)
(* Proofs about Discovery for every set of devices and nodes, every layout *)
(* of the bus and every limit of the scanner.                              *)
(***************************************************************************)
EXTENDS Discovery, FiniteSetTheorems, WellFoundedInduction, TLAPS

USE DEF tables, bus, counts, vars

-----------------------------------------------------------------------------
(* What a step does to the tables *)

\* The tables change at the end of a scan and at a reset edge only.
LEMMA PumpScans ==
    ASSUME NEW s, Pump(s)
    PROVE  \/ UNCHANGED <<tables, crossed>>
           \/ \E t : OnDiscoveryScanComplete(t) /\ t = Tidied(Started(s)) /\ Finished(t)
  BY DEF Pump

\* A step leaves the tables alone, is a reset edge, or ends a scan.
TableChange ==
    \/ UNCHANGED <<tables, crossed>>
    \/ Interrupt
    \/ \E s : OnDiscoveryScanComplete(s)

\* A failed read ends the scan, or leaves the tables alone.
LEMMA ReadFailedTables ==
    ASSUME NEW s, NEW n, ReadFailed(s, n)
    PROVE  TableChange
  BY PumpScans DEF ReadFailed, ScheduleConfigROMReadyRetry, TableChange

\* So does a node that is done.
LEMMA FinalizeTables ==
    ASSUME NEW s, NEW n, FinalizeNodeDiscovery(s, n)
    PROVE  TableChange
  BY PumpScans DEF FinalizeNodeDiscovery, TableChange

\* Every step changes the tables in one of these ways.
LEMMA TableStep ==
    ASSUME [Next]_vars
    PROVE  TableChange
  <1>1. CASE BeginScan
    BY <1>1, PumpScans DEF BeginScan, TableChange
  <1>2. ASSUME NEW n \in Nodes, HandleBIBComplete(n)
        PROVE  TableChange
    BY <1>2, PumpScans, ReadFailedTables DEF HandleBIBComplete, TableChange
  <1>3. ASSUME NEW n \in Nodes, HandleRootDirComplete(n)
        PROVE  TableChange
    BY <1>3, ReadFailedTables, FinalizeTables
       DEF HandleRootDirComplete, StartDetailsDiscovery, TableChange
  <1>4. ASSUME NEW n \in Nodes, HandleDetailComplete(n)
        PROVE  TableChange
    BY <1>4, PumpScans, FinalizeTables DEF HandleDetailComplete, TableChange
  <1>5. ASSUME NEW n \in Nodes, ConfigROMReadyRetry(n)
        PROVE  TableChange
    BY <1>5, PumpScans DEF ConfigROMReadyRetry, TableChange
  <1>6. CASE \/ BeginNewResetCycle \/ SelfIDComplete \/ OnTopologyReady \/ TriggerROMRead
             \/ (\E g \in Devices : TakeRoute(g)) \/ UNCHANGED vars
    BY <1>6 DEF BeginNewResetCycle, SelfIDComplete, OnTopologyReady, TriggerROMRead,
                TakeRoute, TableChange
  <1>. QED BY <1>1, <1>2, <1>3, <1>4, <1>5, <1>6 DEF Next, Progress, TableChange

-----------------------------------------------------------------------------
(* Route tokens *)

\* The fields of a registry record.
IsRecord(d) ==
    /\ d = [known |-> d.known, state |-> d.state, inc |-> d.inc, epoch |-> d.epoch,
            gen |-> d.gen, node |-> d.node]
    /\ d.known \in BOOLEAN /\ d.epoch \in Nat

\* What may become of a record: a route that comes up, or goes to another place,
\* has a newer epoch than every route before it; any other change leaves the
\* record without a live route.
Succeeds(d, e) ==
    /\ IsRecord(e) /\ e.epoch >= d.epoch
    /\ e = d \/ e.epoch > d.epoch \/ ~HasLiveRoute(e)

\* UpsertFromROM takes a new epoch unless the route stays as it is.
LEMMA UpsertSucceeds ==
    ASSUME NEW d, IsRecord(d), NEW gn, NEW rom
    PROVE  Succeeds(d, UpsertFromROM(d, gn, rom))
  <1>. DEFINE new == ~d.known
              moved == d.gen # gn \/ d.node # rom.node \/ ~HasLiveRoute(d)
              e == UpsertFromROM(d, gn, rom)
  <1>1. e = [known |-> TRUE, state |-> "Identified", inc |-> IF new THEN d.inc + 1 ELSE d.inc,
             epoch |-> IF new \/ moved THEN d.epoch + 1 ELSE d.epoch, gen |-> gn,
             node |-> rom.node]
    BY DEF UpsertFromROM
  <1>2. CASE new \/ moved
    <2>1. e.epoch = d.epoch + 1
      BY <1>1, <1>2
    <2>2. IsRecord(e)
      BY <1>1, <2>1 DEF IsRecord
    <2>. QED BY <2>1, <2>2 DEF Succeeds, IsRecord
  <1>3. CASE ~new /\ ~moved
    <2>1. d.known = TRUE /\ d.state = "Identified" /\ d.gen = gn /\ d.node = rom.node
      BY <1>3 DEF HasLiveRoute, IsRecord
    <2>2. e = [known |-> d.known, state |-> d.state, inc |-> d.inc, epoch |-> d.epoch,
               gen |-> d.gen, node |-> d.node]
      BY <1>1, <1>3, <2>1
    <2>3. e = d
      BY <2>2 DEF IsRecord
    <2>. QED BY <2>3 DEF Succeeds, IsRecord
  <1>. QED BY <1>2, <1>3

\* Giving a record another incarnation and epoch.
LEMMA ExceptRoute ==
    ASSUME NEW r, IsRecord(r), NEW i, NEW ep
    PROVE  [r EXCEPT !.inc = i, !.epoch = ep] =
             [known |-> r.known, state |-> r.state, inc |-> i, epoch |-> ep,
              gen |-> r.gen, node |-> r.node]
  <1>. DEFINE y == [r EXCEPT !.inc = i]
  <1>1. y = [known |-> r.known, state |-> r.state, inc |-> i, epoch |-> r.epoch,
             gen |-> r.gen, node |-> r.node]
    BY DEF IsRecord
  <1>2. [r EXCEPT !.inc = i, !.epoch = ep] = [y EXCEPT !.epoch = ep]
    OBVIOUS
  <1>. HIDE DEF y
  <1>. QED BY <1>1, <1>2

\* Quarantine, retirement and invalidation take the live route away.
LEMMA OthersSucceed ==
    ASSUME NEW d, IsRecord(d)
    PROVE  /\ Succeeds(d, d)
           /\ Succeeds(d, MarkDuplicateGuid(d))
           /\ Succeeds(d, RetireDevice(d))
           /\ Succeeds(d, [d EXCEPT !.node = NoNode, !.epoch = @ + 1])
  <1>1. Succeeds(d, d)
    BY DEF Succeeds, IsRecord
  <1>2. Succeeds(d, MarkDuplicateGuid(d))
    <2>1. CASE ~d.known
      BY <1>1, <2>1 DEF MarkDuplicateGuid
    <2>2. CASE d.known
      <3>1. MarkDuplicateGuid(d) = [known |-> d.known, state |-> "Quarantined", inc |-> d.inc,
                                    epoch |-> d.epoch, gen |-> d.gen, node |-> d.node]
        BY <2>2 DEF MarkDuplicateGuid, IsRecord
      <3>. QED BY <3>1 DEF Succeeds, IsRecord, HasLiveRoute
    <2>. QED BY <2>1, <2>2
  <1>3. Succeeds(d, RetireDevice(d))
    <2>1. RetireDevice(d) = [known |-> FALSE, state |-> "Identified", inc |-> d.inc,
                             epoch |-> d.epoch, gen |-> 0, node |-> NoNode]
      <3>1. IsRecord(NoRecord)
        BY DEF IsRecord, NoRecord
      <3>2. RetireDevice(d) = [NoRecord EXCEPT !.inc = d.inc, !.epoch = d.epoch]
        BY DEF RetireDevice
      <3>3. /\ NoRecord.known = FALSE /\ NoRecord.state = "Identified"
            /\ NoRecord.gen = 0 /\ NoRecord.node = NoNode
        BY DEF NoRecord
      <3>4. [NoRecord EXCEPT !.inc = d.inc, !.epoch = d.epoch] =
              [known |-> NoRecord.known, state |-> NoRecord.state, inc |-> d.inc,
               epoch |-> d.epoch, gen |-> NoRecord.gen, node |-> NoRecord.node]
        BY <3>1, ExceptRoute, Zenon
      <3>. QED BY <3>2, <3>3, <3>4, Zenon
    <2>. QED BY <2>1 DEF Succeeds, IsRecord, HasLiveRoute
  <1>4. Succeeds(d, [d EXCEPT !.node = NoNode, !.epoch = @ + 1])
    <2>1. [d EXCEPT !.node = NoNode, !.epoch = @ + 1] =
            [known |-> d.known, state |-> d.state, inc |-> d.inc, epoch |-> d.epoch + 1,
             gen |-> d.gen, node |-> NoNode]
      <3>. DEFINE y == [d EXCEPT !.node = NoNode]
      <3>1. y = [known |-> d.known, state |-> d.state, inc |-> d.inc, epoch |-> d.epoch,
                 gen |-> d.gen, node |-> NoNode]
        BY DEF IsRecord
      <3>2. [d EXCEPT !.node = NoNode, !.epoch = @ + 1] = [y EXCEPT !.epoch = @ + 1]
        OBVIOUS
      <3>. HIDE DEF y
      <3>3. [y EXCEPT !.epoch = @ + 1] =
              [known |-> d.known, state |-> d.state, inc |-> d.inc, epoch |-> d.epoch + 1,
               gen |-> d.gen, node |-> NoNode]
        BY <3>1
      <3>. QED BY <3>2, <3>3
    <2>. QED BY <2>1 DEF Succeeds, IsRecord
  <1>. QED BY <1>1, <1>2, <1>3, <1>4

\* Records and tokens: a token was taken of a route of its device, no later one.
RoutesInv ==
    /\ \A g \in Devices : IsRecord(registry[g])
    /\ token # NoToken => /\ token.guid \in Devices
                          /\ token.epoch \in Nat /\ token.epoch <= registry[token.guid].epoch

\* Every step makes of every record one of its successors.
LEMMA RecordStep ==
    ASSUME RoutesInv, [Next]_vars, NEW g \in Devices
    PROVE  Succeeds(registry[g], registry'[g])
  <1>. DEFINE d == registry[g]
  <1>1. IsRecord(d)
    BY DEF RoutesInv
  <1>2. CASE UNCHANGED tables
    BY <1>1, <1>2, OthersSucceed
  <1>3. CASE Interrupt
    <2>1. registry'[g] = IF d.node = NoNode THEN d
                         ELSE [d EXCEPT !.node = NoNode, !.epoch = @ + 1]
      BY <1>3 DEF Interrupt, InvalidateLiveMappingsForBusReset
    <2>. QED BY <1>1, <2>1, OthersSucceed
  <1>4. ASSUME NEW s, OnDiscoveryScanComplete(s)
        PROVE  Succeeds(d, registry'[g])
    <2>1. \/ \E rom : registry'[g] = UpsertFromROM(d, s.gen, rom)
          \/ registry'[g] = RetireDevice(d)
          \/ registry'[g] = MarkDuplicateGuid(d)
          \/ registry'[g] = d
      BY <1>4 DEF OnDiscoveryScanComplete
    <2>. HIDE DEF d
    <2>2. \A rom : Succeeds(d, UpsertFromROM(d, s.gen, rom))
      BY <1>1, UpsertSucceeds
    <2>. QED BY <1>1, <2>1, <2>2, OthersSucceed
  <1>. QED BY <1>2, <1>3, <1>4, TableStep DEF TableChange

\* A token is kept, or taken of a live route.
LEMMA TokenStep ==
    ASSUME [Next]_vars
    PROVE  \/ token' = token
           \/ \E g \in Devices : /\ token = NoToken /\ registry' = registry
                                 /\ token' = RouteToken(g, registry[g])
  <1>1. CASE Progress
    BY <1>1 DEF Progress, BeginScan, HandleBIBComplete, HandleRootDirComplete,
                HandleDetailComplete, ConfigROMReadyRetry, BeginNewResetCycle,
                SelfIDComplete, OnTopologyReady
  <1>2. CASE Interrupt \/ TriggerROMRead \/ (\E g \in Devices : TakeRoute(g)) \/ UNCHANGED vars
    BY <1>2 DEF Interrupt, TriggerROMRead, TakeRoute
  <1>. QED BY <1>1, <1>2 DEF Next

\* A token stays at or behind the epoch of its device.
LEMMA RoutesStep ==
    ASSUME RoutesInv, [Next]_vars
    PROVE  RoutesInv'
  <1>1. \A g \in Devices : IsRecord(registry'[g]) /\ registry'[g].epoch >= registry[g].epoch
    BY RecordStep DEF Succeeds
  <1>2. \A g \in Devices : registry[g].epoch \in Nat /\ registry'[g].epoch \in Nat
    BY <1>1 DEF RoutesInv, IsRecord
  <1>3. CASE token' = token
    BY <1>1, <1>2, <1>3 DEF RoutesInv
  <1>4. ASSUME NEW g \in Devices, registry' = registry, token' = RouteToken(g, registry[g])
        PROVE  RoutesInv'
    <2>1. token'.guid = g /\ token'.epoch = registry[g].epoch
      BY <1>4 DEF RouteToken
    <2>. QED BY <1>1, <1>2, <1>4, <2>1 DEF RoutesInv
  <1>. QED BY <1>3, <1>4, TokenStep

\* A route token that has lapsed never becomes current again: whatever comes up at
\* its node later, the same device in a new incarnation or another one, has a newer
\* route epoch, so DeviceRegistry::IsCurrent tells the two apart.
THEOREM TokensNeverRevive == Spec => TokenNeverRevives
  <1>1. Init => RoutesInv
    <2>1. IsRecord(NoRecord)
      BY DEF IsRecord, NoRecord
    <2>. QED BY <2>1 DEF Init, RoutesInv
  <1>2. RoutesInv /\ [Next]_vars => RoutesInv'
    BY RoutesStep
  <1>3. RoutesInv /\ [Next]_vars =>
          (token # NoToken /\ ~IsCurrent(registry, token) => ~IsCurrent(registry', token))
    <2>. SUFFICES ASSUME RoutesInv, [Next]_vars, token # NoToken,
                         ~IsCurrent(registry, token), IsCurrent(registry', token)
                  PROVE  FALSE
      OBVIOUS
    <2>. DEFINE d == registry[token.guid]
                e == registry'[token.guid]
    <2>1. /\ token.guid \in Devices /\ IsRecord(d) /\ token.epoch \in Nat
          /\ token.epoch <= d.epoch
      BY DEF RoutesInv
    <2>2. Succeeds(d, e)
      BY <2>1, RecordStep
    <2>3. HasLiveRoute(e) /\ token.epoch = e.epoch /\ e # d
      BY DEF IsCurrent, RouteToken
    <2>. QED BY <2>1, <2>2, <2>3 DEF Succeeds, IsRecord
  <1>. QED BY <1>1, <1>2, <1>3, PTL DEF Spec, TokenNeverRevives

-----------------------------------------------------------------------------
(* The scan session *)

ScanStates == Reading \cup Terminal \cup {"Idle", "Waiting"}

Scans == [st : ScanStates, retries : 0..PerStepRetries, ready : 0..ReadyRetries,
          speed : 0..TopSpeed, out : Nat, good : BOOLEAN, timers : Nat,
          left : 0..MaxDetailReads, full : BOOLEAN]

Roms == [node : Nodes, guid : Devices \cup {ZeroGuid}, full : BOOLEAN]

\* Sessions over the nodes D.
Sessions(D) == [gen : Nat, begun : BOOLEAN, late : BOOLEAN, scan : [D -> Scans],
                inflight : Nat, roms : SUBSET Roms]

Deep == {"ReadingRootDir", "ReadingDetails"}

\* One node n of the session s, its machine being r, in generation g, stage e and
\* layout l of the bus.  A result that may be a success, and a read past the bus
\* info block, belong to a session that no reset has overtaken; a complete node
\* has nothing to come; and in the session's own generation every read has one
\* result and every wait one retry.
NodeOK(s, n, r, g, e, l) ==
    /\ r.good \/ r.st \in Deep => s.gen = g /\ e # "reset" /\ s.begun
    /\ r.st \in Deep => l[n] # Absent
    /\ r.st = "Complete" => r.out = 0 /\ r.timers = 0
    /\ s.gen = g => /\ r.out = IF r.st \in Reading THEN 1 ELSE 0
                    /\ r.timers = IF r.st = "Waiting" THEN 1 ELSE 0

\* The ROMs of a session are those of its complete nodes, and are thrown away
\* with it at the reset that ends their generation.
RomsOK(s, g, e, l) ==
    /\ s.roms # {} => s.gen = g /\ e # "reset" /\ s.begun
    /\ \A r \in s.roms : /\ r.node \in DOMAIN s.scan /\ s.scan[r.node].st = "Complete"
                         /\ r.guid = l[r.node]
    /\ \A r, q \in s.roms : r.node = q.node => r = q

ReadingNodes(s) == {n \in DOMAIN s.scan : s.scan[n].st \in Reading}

\* inflight counts the nodes that are being read, and has its limit.
Counted(s, g) ==
    s.gen = g => s.inflight = Cardinality(ReadingNodes(s)) /\ s.inflight <= MaxInflight

Whole(s, g, e, l) ==
    /\ s \in Sessions(DOMAIN s.scan) /\ DOMAIN s.scan \subseteq Nodes
    /\ s.gen \in 1..g
    /\ \A n \in DOMAIN s.scan : NodeOK(s, n, s.scan[n], g, e, l)
    /\ RomsOK(s, g, e, l)
    /\ Counted(s, g)

\* Before its first block a session has done nothing.
Untouched(s) ==
    ~s.begun => /\ s.inflight = 0 /\ s.roms = {}
                /\ \A n \in DOMAIN s.scan : s.scan[n] = NewScan

\* A result or a retry is to come that pumps the session.
Moving(s, g) ==
    s.gen = g /\ s.begun => \E n \in DOMAIN s.scan : s.scan[n].out + s.scan[n].timers > 0

SessionInv ==
    /\ stage \in {"edge", "reset", "selfid", "ready"} /\ gen \in Nat /\ due \in BOOLEAN
    /\ layout \in Layouts \cup {[n \in Nodes |-> Absent]}
    /\ stage # "reset" \/ due => gen >= 1
    /\ session # NoSession => /\ Whole(session, gen, stage, layout)
                              /\ Untouched(session) /\ Moving(session, gen)

\* t is s with the machine r for node n.
Replaces(t, s, n, r) ==
    /\ t.gen = s.gen /\ t.begun = s.begun /\ t.late = s.late /\ t.roms = s.roms
    /\ t.inflight = s.inflight
    /\ t.scan = [s.scan EXCEPT ![n] = r]

\* A session whose node n gets the machine r.
LEMMA PutTyped ==
    ASSUME NEW D, NEW s \in Sessions(D), NEW n \in D, NEW r \in Scans
    PROVE  Put(s, n, r) \in Sessions(D) /\ Replaces(Put(s, n, r), s, n, r)
  <1>1. Put(s, n, r) \in Sessions(D)
    BY DEF Put, Sessions
  <1>2. /\ Put(s, n, r).gen = s.gen /\ Put(s, n, r).begun = s.begun
        /\ Put(s, n, r).late = s.late /\ Put(s, n, r).roms = s.roms
        /\ Put(s, n, r).inflight = s.inflight
    BY DEF Put, Sessions
  <1>3. Put(s, n, r).scan = [s.scan EXCEPT ![n] = r]
    BY DEF Put, Sessions
  <1>. QED BY <1>1, <1>2, <1>3 DEF Replaces

\* A session whose count of reads changes.
LEMMA InflightTyped ==
    ASSUME NEW D, NEW s \in Sessions(D), NEW i \in Nat
    PROVE  /\ [s EXCEPT !.inflight = i] \in Sessions(D)
           /\ [s EXCEPT !.inflight = i].gen = s.gen /\ [s EXCEPT !.inflight = i].begun = s.begun
           /\ [s EXCEPT !.inflight = i].late = s.late /\ [s EXCEPT !.inflight = i].roms = s.roms
           /\ [s EXCEPT !.inflight = i].scan = s.scan
           /\ [s EXCEPT !.inflight = i].inflight = i
  BY DEF Sessions

\* A session whose machines change.
LEMMA ScanTyped ==
    ASSUME NEW D, NEW s \in Sessions(D), NEW f \in [D -> Scans]
    PROVE  /\ [s EXCEPT !.scan = f] \in Sessions(D)
           /\ [s EXCEPT !.scan = f].gen = s.gen /\ [s EXCEPT !.scan = f].begun = s.begun
           /\ [s EXCEPT !.scan = f].roms = s.roms /\ [s EXCEPT !.scan = f].inflight = s.inflight
           /\ [s EXCEPT !.scan = f].scan = f
  BY DEF Sessions

\* The nodes of a session are finitely many numbers.
LEMMA NodesFinite ==
    ASSUME NEW D, D \subseteq Nodes
    PROVE  IsFiniteSet(D) /\ Cardinality(D) \in Nat /\ D \subseteq Nat
  BY DiscoveryAssumption, FS_Subset, FS_CardinalityType

\* The reading nodes when node n gets the machine r.
LEMMA ReadingAfter ==
    ASSUME NEW D, NEW s, DOMAIN s.scan = D, NEW t, NEW n \in D, NEW r,
           s.scan \in [D -> Scans], t.scan = [s.scan EXCEPT ![n] = r]
    PROVE  ReadingNodes(t) = IF r.st \in Reading THEN ReadingNodes(s) \cup {n}
                             ELSE ReadingNodes(s) \ {n}
  <1>1. DOMAIN t.scan = D /\ \A m \in D : t.scan[m] = IF m = n THEN r ELSE s.scan[m]
    OBVIOUS
  <1>. QED BY <1>1 DEF ReadingNodes

-----------------------------------------------------------------------------
(* Starting reads *)

\* As many numbers have fewer than k of the others below them as k.
LEMMA FewBelow ==
    ASSUME NEW idle, idle \subseteq Nodes, NEW k \in Nat
    PROVE  Cardinality({n \in idle : Cardinality({m \in idle : m < n}) < k}) <= k
  <1>. DEFINE Below(n) == {m \in idle : m < n}
              S == {n \in idle : Cardinality(Below(n)) < k}
              f == [n \in S |-> Cardinality(Below(n))]
  <1>1. idle \subseteq Nat /\ S \subseteq Nodes /\ IsFiniteSet(S)
    BY NodesFinite
  <1>2. \A n \in idle : IsFiniteSet(Below(n)) /\ Cardinality(Below(n)) \in Nat
    <2>. TAKE n \in idle
    <2>1. Below(n) \subseteq Nodes
      OBVIOUS
    <2>. QED BY <2>1, NodesFinite
  <1>3. \A n, o \in idle : n < o => Cardinality(Below(n)) # Cardinality(Below(o))
    <2>. TAKE n, o \in idle
    <2>. HAVE n < o
    <2>1. Below(n) \subseteq Below(o)
      <3>1. n \in Nat /\ o \in Nat /\ \A m \in idle : m \in Nat
        BY <1>1, Zenon
      <3>2. \A m \in idle : m < n => m < o
        BY <3>1
      <3>. QED BY <3>2, Zenon
    <2>2. n \in Below(o) /\ n \notin Below(n)
      BY <1>1
    <2>3. IsFiniteSet(Below(o)) /\ Below(n) # Below(o)
      BY <2>2, <1>2
    <2>. HIDE DEF Below
    <2>. QED BY <2>1, <2>3, FS_Subset
  <1>4. f \in [S -> 0..(k - 1)]
    BY <1>2
  <1>5. \A n, o \in S : f[n] = f[o] => n = o
    <2>. SUFFICES ASSUME NEW n \in S, NEW o \in S, f[n] = f[o], n # o
                  PROVE  FALSE
      OBVIOUS
    <2>1. n < o \/ o < n
      BY <1>1
    <2>. QED BY <2>1, <1>3
  <1>6. f \in Injection(S, 0..(k - 1))
    BY <1>4, <1>5, Zenon DEF Injection, IsInjective
  <1>7. IsFiniteSet(0..(k - 1)) /\ Cardinality(0..(k - 1)) = k
    BY FS_Interval
  <1>. QED BY <1>6, <1>7, FS_Injection

\* Some number has none below it.
LEMMA LeastNode ==
    ASSUME NEW idle, idle \subseteq Nodes, idle # {}
    PROVE  \E n \in idle : {m \in idle : m < n} = {}
  <1>1. idle \subseteq Nat
    BY NodesFinite
  <1>2. PICK n \in idle : \A m \in idle : ~(<<m, n>> \in OpToRel(<, Nat))
    BY <1>1, NatLessThanWellFounded, WFMin
  <1>. QED BY <1>1, <1>2 DEF OpToRel

\* The machine of a node whose bus info block is requested.
LEMMA IssueTyped ==
    ASSUME NEW s, NEW r \in Scans, NEW st \in ScanStates
    PROVE  /\ IssueRead(s, r, st) \in Scans
           /\ IssueRead(s, r, st).st = st
           /\ IssueRead(s, r, st).out = r.out + (IF s.gen # gen THEN 2 ELSE 1)
           /\ IssueRead(s, r, st).timers = r.timers
           /\ IssueRead(s, r, st).good <=> (s.gen = gen /\ stage \in {"selfid", "ready"})
  <1>. DEFINE o == r.out + (IF s.gen # gen THEN 2 ELSE 1)
              b == s.gen = gen /\ stage \in {"selfid", "ready"}
              i == [r EXCEPT !.st = st, !.out = o, !.good = b]
  <1>1. o \in Nat /\ b \in BOOLEAN
    BY DEF Scans
  <1>2. IssueRead(s, r, st) = i
    BY DEF IssueRead
  <1>3. i \in Scans /\ i.st = st /\ i.timers = r.timers
    <2>. HIDE DEF o, b
    <2>. QED BY <1>1 DEF Scans
  <1>4. i.out = o
    <2>. HIDE DEF o, b
    <2>. QED BY DEF Scans
  <1>5. i.good = b
    <2>. HIDE DEF o, b
    <2>. QED BY DEF Scans
  <1>. HIDE DEF i
  <1>. QED BY <1>2, <1>3, <1>4, <1>5

\* Pump starts reads of idle nodes, and forgets what a terminal node counted.
PumpedNode(s, n) ==
    LET r == s.scan[n]
    IN IF n \in Startable(s) THEN IssueRead(s, r, "ReadingBIB")
       ELSE IF r.st \in Terminal /\ r.out + r.timers = 0 THEN [NewScan EXCEPT !.st = r.st]
       ELSE r

\* What Pump makes of a session, before MaybeFinish looks at it.
LEMMA PumpedSession ==
    ASSUME NEW D, D \subseteq Nodes, NEW s \in Sessions(D), NEW t, t = Tidied(Started(s))
    PROVE  /\ t \in Sessions(D) /\ t.gen = s.gen /\ t.begun = s.begun /\ t.roms = s.roms
           /\ t.inflight = s.inflight + Cardinality(Startable(s))
           /\ DOMAIN t.scan = D /\ \A n \in D : t.scan[n] = PumpedNode(s, n)
  <1>. DEFINE nodes == Startable(s)
              c == Cardinality(nodes)
              F == [n \in D |-> IF n \in nodes THEN IssueRead(s, s.scan[n], "ReadingBIB")
                                ELSE s.scan[n]]
              u == [s EXCEPT !.scan = F, !.inflight = s.inflight + c]
              G == [n \in D |-> IF u.scan[n].st \in Terminal /\ u.scan[n].out + u.scan[n].timers = 0
                                THEN [NewScan EXCEPT !.st = u.scan[n].st] ELSE u.scan[n]]
  <1>1. DOMAIN s.scan = D /\ s.scan \in [D -> Scans] /\ s.inflight \in Nat
    BY DEF Sessions
  <1>2. nodes \subseteq D /\ c \in Nat
    <2>1. nodes \subseteq D
      BY <1>1 DEF Startable
    <2>. QED BY <2>1, NodesFinite
  <1>3. F \in [D -> Scans]
    BY <1>1, IssueTyped DEF ScanStates, Reading
  <1>4. Started(s) = u
    BY <1>1 DEF Started
  <1>5. /\ u \in Sessions(D) /\ u.gen = s.gen /\ u.begun = s.begun /\ u.roms = s.roms
        /\ u.inflight = s.inflight + c /\ u.scan = F
    <2>. DEFINE i == s.inflight + c
                v == [s EXCEPT !.scan = F]
    <2>1. i \in Nat /\ u = [v EXCEPT !.inflight = i]
      BY <1>1, <1>2
    <2>. HIDE DEF u, i, F
    <2>2. v \in Sessions(D) /\ v.gen = s.gen /\ v.begun = s.begun /\ v.roms = s.roms /\ v.scan = F
      BY <1>3, ScanTyped
    <2>. HIDE DEF v
    <2>3. /\ [v EXCEPT !.inflight = i] \in Sessions(D)
          /\ [v EXCEPT !.inflight = i].gen = v.gen /\ [v EXCEPT !.inflight = i].begun = v.begun
          /\ [v EXCEPT !.inflight = i].roms = v.roms /\ [v EXCEPT !.inflight = i].scan = v.scan
          /\ [v EXCEPT !.inflight = i].inflight = i
      BY <2>1, <2>2, InflightTyped
    <2>4. u \in Sessions(D) /\ u.inflight = i
      BY <2>1, <2>3
    <2>5. u.gen = s.gen /\ u.begun = s.begun /\ u.roms = s.roms /\ u.scan = F
      BY <2>1, <2>2, <2>3
    <2>. QED BY <2>4, <2>5 DEF i
  <1>6. \A n \in D : /\ [NewScan EXCEPT !.st = u.scan[n].st] \in Scans
    <2>. HIDE DEF u
    <2>1. NewScan \in Scans
      BY DiscoveryAssumption DEF NewScan, Scans, ScanStates
    <2>2. \A n \in D : u.scan[n].st \in ScanStates
      BY <1>5 DEF Sessions, Scans
    <2>3. \A x \in ScanStates : [NewScan EXCEPT !.st = x] \in Scans
      BY <2>1 DEF Scans
    <2>. QED BY <2>2, <2>3
  <1>7. G \in [D -> Scans]
    <2>. HIDE DEF u
    <2>1. u.scan \in [D -> Scans]
      BY <1>5 DEF Sessions
    <2>. QED BY <2>1, <1>6
  <1>8. t = [u EXCEPT !.scan = G]
    <2>. HIDE DEF u
    <2>1. DOMAIN u.scan = D
      BY <1>5 DEF Sessions
    <2>. QED BY <2>1, <1>4 DEF Tidied
  <1>9. /\ t \in Sessions(D) /\ t.gen = s.gen /\ t.begun = s.begun /\ t.roms = s.roms
        /\ t.inflight = s.inflight + c /\ t.scan = G
    <2>. HIDE DEF u, G, c
    <2>. QED BY <1>5, <1>7, <1>8 DEF Sessions
  <1>10. \A n \in D : G[n] = PumpedNode(s, n)
    <2>. TAKE n \in D
    <2>1. u.scan[n] = F[n]
      BY <1>5
    <2>2. CASE n \in nodes
      <3>1. F[n].st = "ReadingBIB"
        BY <2>2, <1>1, IssueTyped DEF ScanStates, Reading
      <3>2. G[n] = F[n]
        <4>. HIDE DEF F, u, nodes
        <4>. QED BY <3>1, <2>1 DEF Terminal
      <3>. QED BY <3>2, <2>2 DEF PumpedNode
    <2>3. CASE n \notin nodes
      <3>1. F[n] = s.scan[n]
        BY <2>3
      <3>. HIDE DEF F, u
      <3>. QED BY <3>1, <2>1, <2>3 DEF PumpedNode
    <2>. QED BY <2>2, <2>3
  <1>. HIDE DEF u, c
  <1>. QED BY <1>9, <1>10 DEF c

\* Pump keeps a session whole, and either it finished or some result or retry is
\* to come: an idle node is left only when the reads in flight take all the room.
LEMMA PumpWhole ==
    ASSUME NEW s, NEW t, t = Tidied(Started(s)), Whole(s, gen, stage, layout), s.begun
    PROVE  /\ Whole(t, gen, stage, layout) /\ t.begun
           /\ Finished(t) \/ Moving(t, gen)
  <1>. DEFINE D == DOMAIN s.scan
              S == Startable(s)
  <1>1. D \subseteq Nodes /\ s \in Sessions(D) /\ s.gen \in 1..gen
    BY DEF Whole
  <1>2. /\ t \in Sessions(D) /\ t.gen = s.gen /\ t.begun = s.begun /\ t.roms = s.roms
        /\ t.inflight = s.inflight + Cardinality(S)
        /\ DOMAIN t.scan = D /\ \A n \in D : t.scan[n] = PumpedNode(s, n)
    <2>. HIDE DEF D
    <2>1. t \in Sessions(D) /\ t.gen = s.gen /\ t.begun = s.begun /\ t.roms = s.roms
      BY <1>1, PumpedSession
    <2>2. t.inflight = s.inflight + Cardinality(Startable(s))
      BY <1>1, PumpedSession
    <2>3. DOMAIN t.scan = D /\ \A n \in D : t.scan[n] = PumpedNode(s, n)
      BY <1>1, PumpedSession
    <2>. QED BY <2>1, <2>2, <2>3
  <1>3. DOMAIN t.scan = D /\ \A n \in D : t.scan[n] = PumpedNode(s, n)
    BY <1>2
  <1>4. /\ s.scan \in [D -> Scans] /\ s.inflight \in Nat /\ s.gen \in Nat /\ s.begun \in BOOLEAN
        /\ S \subseteq D /\ \A n \in S : s.scan[n].st = "Idle"
    BY <1>1 DEF Sessions, Startable
  <1>. HIDE DEF D, S
  <1>5. \A n \in D : NodeOK(t, n, t.scan[n], gen, stage, layout)
    <2>. SUFFICES ASSUME NEW n \in D
                  PROVE  NodeOK(t, n, t.scan[n], gen, stage, layout)
      OBVIOUS
    <2>. DEFINE r == s.scan[n]
    <2>1. r \in Scans /\ NodeOK(s, n, r, gen, stage, layout)
      BY <1>4 DEF Whole, D
    <2>. HIDE DEF r
    <2>2. CASE n \in S
      <3>1. t.scan[n] = IssueRead(s, r, "ReadingBIB") /\ r.st = "Idle"
        BY <1>3, <1>4, <2>2 DEF PumpedNode, S, r
      <3>2. "ReadingBIB" \in ScanStates
        BY DEF ScanStates, Reading
      <3>3. /\ t.scan[n].st = "ReadingBIB"
            /\ t.scan[n].out = r.out + (IF s.gen # gen THEN 2 ELSE 1)
            /\ t.scan[n].timers = r.timers
            /\ t.scan[n].good <=> (s.gen = gen /\ stage \in {"selfid", "ready"})
        <4>. DEFINE i == IssueRead(s, r, "ReadingBIB")
        <4>1. /\ i.st = "ReadingBIB" /\ i.out = r.out + (IF s.gen # gen THEN 2 ELSE 1)
              /\ i.timers = r.timers
              /\ i.good <=> (s.gen = gen /\ stage \in {"selfid", "ready"})
          BY <3>2, <2>1, IssueTyped, Zenon
        <4>. QED BY <4>1, <3>1, Zenon
      <3>4. s.gen = gen => r.out = 0 /\ r.timers = 0
        BY <2>1, <3>1 DEF NodeOK, Reading
      <3>5. s.gen = gen => t.scan[n].out = 1 /\ t.scan[n].timers = 0
        BY <3>3, <3>4
      <3>. QED BY <3>3, <3>5, <1>2 DEF NodeOK, Reading, Deep
    <2>3. CASE n \notin S /\ r.st \in Terminal /\ r.out + r.timers = 0
      <3>1. t.scan[n] = [NewScan EXCEPT !.st = r.st]
        BY <1>3, <2>3 DEF PumpedNode, S, r
      <3>2. /\ t.scan[n].st = r.st /\ t.scan[n].good = FALSE
            /\ t.scan[n].out = 0 /\ t.scan[n].timers = 0
        BY <3>1 DEF NewScan
      <3>. QED BY <3>2, <2>3 DEF NodeOK, Terminal, Reading, Deep
    <2>4. CASE n \notin S /\ ~(r.st \in Terminal /\ r.out + r.timers = 0)
      <3>1. t.scan[n] = r
        BY <1>3, <2>4 DEF PumpedNode, S, r
      <3>. QED BY <3>1, <2>1, <1>2 DEF NodeOK
    <2>. QED BY <2>2, <2>3, <2>4
  <1>6. \A n \in D : t.scan[n].st = IF n \in S THEN "ReadingBIB" ELSE s.scan[n].st
    <2>. SUFFICES ASSUME NEW n \in D
                  PROVE  t.scan[n].st = IF n \in S THEN "ReadingBIB" ELSE s.scan[n].st
      OBVIOUS
    <2>1. CASE n \in S
      <3>1. t.scan[n] = IssueRead(s, s.scan[n], "ReadingBIB") /\ s.scan[n] \in Scans
        BY <1>3, <1>4, <2>1 DEF PumpedNode, S
      <3>2. "ReadingBIB" \in ScanStates
        BY DEF ScanStates, Reading
      <3>3. IssueRead(s, s.scan[n], "ReadingBIB").st = "ReadingBIB"
        BY <3>1, <3>2, IssueTyped, Zenon
      <3>. QED BY <3>1, <3>3, <2>1
    <2>2. CASE n \notin S
      BY <2>2, <1>3 DEF PumpedNode, S, NewScan
    <2>. QED BY <2>1, <2>2
  <1>7. RomsOK(t, gen, stage, layout)
    <2>1. \A r \in t.roms : r.node \in DOMAIN t.scan /\ t.scan[r.node].st = "Complete"
      BY <1>2, <1>3, <1>4, <1>6 DEF Whole, RomsOK, D
    <2>. QED BY <1>2, <2>1 DEF Whole, RomsOK
  <1>8. /\ ReadingNodes(t) = ReadingNodes(s) \cup S
        /\ ReadingNodes(s) \cap S = {}
        /\ ReadingNodes(s) \subseteq Nodes /\ S \subseteq Nodes
    BY <1>1, <1>3, <1>4, <1>6 DEF ReadingNodes, D, Reading
  <1>9. /\ Cardinality(S) \in Nat /\ Cardinality(ReadingNodes(s)) \in Nat
        /\ Cardinality(ReadingNodes(t)) = Cardinality(ReadingNodes(s)) + Cardinality(S)
    <2>1. /\ IsFiniteSet(S) /\ IsFiniteSet(ReadingNodes(s))
          /\ Cardinality(S) \in Nat /\ Cardinality(ReadingNodes(s)) \in Nat
      BY <1>8, NodesFinite
    <2>2. Cardinality(ReadingNodes(s) \cap S) = 0
      BY <1>8, FS_EmptySet
    <2>3. Cardinality(ReadingNodes(s) \cup S)
            = Cardinality(ReadingNodes(s)) + Cardinality(S) - Cardinality(ReadingNodes(s) \cap S)
      BY <2>1, FS_Union, Zenon
    <2>. QED BY <2>1, <2>2, <2>3, <1>8
  <1>10. MaxInflight \in Nat \ {0}
    BY DiscoveryAssumption
  <1>11. s.gen = gen => Cardinality(S) <= MaxInflight - s.inflight
    <2>. SUFFICES ASSUME s.gen = gen
                  PROVE  Cardinality(S) <= MaxInflight - s.inflight
      OBVIOUS
    <2>. DEFINE idle == {n \in D : s.scan[n].st = "Idle"}
                k == MaxInflight - s.inflight
    <2>1. k \in Nat
      BY <1>4, <1>10 DEF Whole, Counted
    <2>2. S = {n \in idle : Cardinality({m \in idle : m < n}) < k}
      BY DEF S, D, Startable
    <2>3. idle \subseteq Nodes
      BY <1>1
    <2>. HIDE DEF idle, k
    <2>4. Cardinality(S) <= k
      BY <2>1, <2>2, <2>3, FewBelow
    <2>. QED BY <2>4 DEF k
  <1>12. Counted(t, gen)
    BY <1>2, <1>4, <1>9, <1>10, <1>11 DEF Whole, Counted
  <1>13. Whole(t, gen, stage, layout) /\ t.begun
    BY <1>1, <1>2, <1>3, <1>5, <1>7, <1>12 DEF Whole
  <1>14. ASSUME t.gen = gen, \A n \in D : ~(t.scan[n].out + t.scan[n].timers > 0)
         PROVE  Finished(t)
    <2>1. \A n \in D : t.scan[n].st \notin Reading /\ t.scan[n].st # "Waiting"
      <3>. TAKE n \in D
      <3>1. NodeOK(t, n, t.scan[n], gen, stage, layout)
        BY <1>5
      <3>. QED BY <3>1, <1>14 DEF NodeOK, Reading
    <2>2. ReadingNodes(t) = {}
      BY <2>1, <1>3 DEF ReadingNodes
    <2>3. t.inflight = 0 /\ s.inflight = 0 /\ S = {}
      <3>1. Cardinality(ReadingNodes(t)) = 0
        BY <2>2, FS_EmptySet
      <3>2. t.inflight = 0 /\ s.inflight = 0
        BY <3>1, <1>2, <1>4, <1>9, <1>12, <1>14 DEF Counted
      <3>. QED BY <3>2, <2>2, <1>8
    <2>. DEFINE idle == {n \in D : s.scan[n].st = "Idle"}
    <2>4. idle = {}
      <3>. SUFFICES ASSUME idle # {}
                    PROVE  FALSE
        OBVIOUS
      <3>1. idle \subseteq Nodes
        BY <1>1
      <3>2. S = {n \in idle : Cardinality({m \in idle : m < n}) < MaxInflight}
        BY <2>3, <1>10 DEF S, D, Startable
      <3>. HIDE DEF idle
      <3>3. PICK n \in idle : {m \in idle : m < n} = {}
        BY <3>1, LeastNode
      <3>4. Cardinality({m \in idle : m < n}) = 0
        BY <3>3, FS_EmptySet
      <3>5. n \in S
        BY <3>2, <3>4, <1>10
      <3>. QED BY <3>5, <2>3
    <2>5. \A n \in D : t.scan[n].st \in Terminal
      <3>. TAKE n \in D
      <3>1. s.scan[n].st # "Idle" /\ n \notin S
        BY <2>3, <2>4
      <3>2. t.scan[n].st = s.scan[n].st /\ t.scan[n].st \in ScanStates
        BY <3>1, <1>4, <1>6 DEF Scans
      <3>. QED BY <3>1, <3>2, <2>1 DEF ScanStates
    <2>. QED BY <2>3, <2>5, <1>3 DEF Finished
  <1>. QED BY <1>3, <1>13, <1>14 DEF Moving

-----------------------------------------------------------------------------
(* A step of one node *)

\* A session that is whole but for node n, which is not counted as being read.
Open(s, n, g, e, l) ==
    /\ s \in Sessions(DOMAIN s.scan) /\ DOMAIN s.scan \subseteq Nodes
    /\ s.gen \in 1..g /\ s.begun /\ n \in DOMAIN s.scan
    /\ \A m \in DOMAIN s.scan \ {n} : NodeOK(s, m, s.scan[m], g, e, l)
    /\ RomsOK(s, g, e, l) /\ \A q \in s.roms : q.node # n
    /\ s.gen = g => /\ s.inflight = Cardinality(ReadingNodes(s) \ {n})
                    /\ s.inflight <= MaxInflight

\* The node may be given another machine before it is whole again.
LEMMA OpenPut ==
    ASSUME NEW s, NEW n, NEW g, NEW e, NEW l, Open(s, n, g, e, l), NEW r \in Scans
    PROVE  /\ Open(Put(s, n, r), n, g, e, l)
           /\ Replaces(Put(s, n, r), s, n, r)
           /\ Put(s, n, r).scan[n] = r /\ DOMAIN Put(s, n, r).scan = DOMAIN s.scan
  <1>. DEFINE D == DOMAIN s.scan
              t == Put(s, n, r)
  <1>1. s \in Sessions(D) /\ n \in D /\ D \subseteq Nodes /\ s.scan \in [D -> Scans]
    BY DEF Open, Sessions
  <1>. HIDE DEF D
  <1>2. t \in Sessions(D) /\ Replaces(t, s, n, r)
    BY <1>1, PutTyped
  <1>. HIDE DEF t
  <1>3. /\ t.gen = s.gen /\ t.begun = s.begun /\ t.roms = s.roms /\ t.inflight = s.inflight
    BY <1>2 DEF Replaces
  <1>4. /\ DOMAIN t.scan = D /\ t.scan[n] = r
        /\ \A m \in D \ {n} : t.scan[m] = s.scan[m]
    BY <1>1, <1>2 DEF Replaces
  <1>5. \A m \in D \ {n} : NodeOK(t, m, t.scan[m], g, e, l)
    BY <1>3, <1>4 DEF Open, NodeOK, D
  <1>6. RomsOK(t, g, e, l) /\ \A q \in t.roms : q.node # n
    <2>1. \A q \in s.roms : q.node # n /\ q.node \in D /\ t.scan[q.node].st = "Complete" /\ q.guid = l[q.node]
      BY <1>4 DEF Open, RomsOK, D
    <2>2. /\ s.roms # {} => s.gen = g /\ e # "reset" /\ s.begun
          /\ \A q, p \in s.roms : q.node = p.node => q = p
      BY DEF Open, RomsOK
    <2>. QED BY <1>3, <1>4, <2>1, <2>2 DEF RomsOK
  <1>7. ReadingNodes(t) \ {n} = ReadingNodes(s) \ {n}
    BY <1>4 DEF ReadingNodes, D
  <1>8. Open(t, n, g, e, l)
    BY <1>1, <1>2, <1>3, <1>4, <1>5, <1>6, <1>7 DEF Open
  <1>. QED BY <1>2, <1>4, <1>8 DEF t, D

\* The node is whole again, and is not being read.
LEMMA Settle ==
    ASSUME NEW s, NEW n, NEW g, NEW e, NEW l, Open(s, n, g, e, l), NEW r \in Scans,
           NodeOK(s, n, r, g, e, l), r.st \notin Reading
    PROVE  Whole(Put(s, n, r), g, e, l) /\ Put(s, n, r).begun
  <1>. DEFINE t == Put(s, n, r)
              D == DOMAIN s.scan
  <1>1. /\ Open(t, n, g, e, l)
        /\ t.gen = s.gen /\ t.begun = s.begun
        /\ t.scan[n] = r /\ DOMAIN t.scan = D
    <2>1. Open(t, n, g, e, l) /\ Replaces(t, s, n, r)
      BY OpenPut
    <2>2. t.scan[n] = r /\ DOMAIN t.scan = D
      BY OpenPut
    <2>. QED BY <2>1, <2>2 DEF Replaces
  <1>. HIDE DEF t
  <1>2. NodeOK(t, n, t.scan[n], g, e, l)
    BY <1>1 DEF NodeOK
  <1>3. ReadingNodes(t) = ReadingNodes(t) \ {n}
    BY <1>1 DEF ReadingNodes
  <1>4. Whole(t, g, e, l) /\ t.begun
    BY <1>1, <1>2, <1>3 DEF Open, Whole, Counted
  <1>. QED BY <1>4 DEF t

\* The node is whole again, and its ROM is kept.
LEMMA SettleRom ==
    ASSUME NEW s, NEW n, NEW g, NEW e, NEW l, Open(s, n, g, e, l), NEW r \in Scans,
           NodeOK(s, n, r, g, e, l), r.st = "Complete",
           s.gen = g, e # "reset", NEW rom \in Roms, rom.node = n, rom.guid = l[n],
           NEW t, t = [Put(s, n, r) EXCEPT !.roms = @ \cup {rom}]
    PROVE  Whole(t, g, e, l) /\ t.begun
  <1>. DEFINE u == Put(s, n, r)
              D == DOMAIN s.scan
  <1>1. Whole(u, g, e, l) /\ u.begun
    BY Settle DEF Reading
  <1>2. u.scan[n] = r /\ DOMAIN u.scan = D /\ u.roms = s.roms /\ u.gen = s.gen
    <2>1. Replaces(u, s, n, r)
      BY OpenPut
    <2>2. u.scan[n] = r /\ DOMAIN u.scan = D
      BY OpenPut
    <2>. QED BY <2>1, <2>2 DEF Replaces
  <1>3. u \in Sessions(D) /\ n \in D
    BY <1>1, <1>2 DEF Whole, Open
  <1>4. t = [u EXCEPT !.roms = u.roms \cup {rom}]
    OBVIOUS
  <1>. HIDE DEF u, D
  <1>5. /\ t \in Sessions(D) /\ t.gen = u.gen /\ t.begun = u.begun /\ t.scan = u.scan
        /\ t.inflight = u.inflight /\ t.roms = u.roms \cup {rom}
    <2>. DEFINE R == u.roms \cup {rom}
    <2>1. R \in SUBSET Roms
      BY <1>3 DEF Sessions
    <2>. HIDE DEF R
    <2>2. /\ t \in Sessions(D) /\ t.gen = u.gen /\ t.begun = u.begun /\ t.scan = u.scan
          /\ t.inflight = u.inflight /\ t.roms = R
      BY <2>1, <1>3, <1>4 DEF Sessions, R
    <2>. QED BY <2>2 DEF R
  <1>6. DOMAIN t.scan = D /\ D \subseteq Nodes /\ t.gen \in 1..g
    <2>1. D \subseteq Nodes /\ u.gen \in 1..g
      BY <1>1, <1>2 DEF Whole
    <2>. QED BY <2>1, <1>2, <1>5
  <1>7. \A m \in D : NodeOK(t, m, t.scan[m], g, e, l)
    <2>1. \A m \in D : NodeOK(u, m, u.scan[m], g, e, l)
      BY <1>1, <1>2 DEF Whole
    <2>. QED BY <2>1, <1>5 DEF NodeOK
  <1>8. Counted(t, g)
    <2>1. ReadingNodes(t) = ReadingNodes(u)
      BY <1>5 DEF ReadingNodes
    <2>. QED BY <2>1, <1>1, <1>5 DEF Whole, Counted
  <1>9. RomsOK(t, g, e, l)
    <2>1. \A q \in s.roms : q.node # n
      BY DEF Open
    <2>2. /\ \A q \in s.roms : q.node \in D /\ u.scan[q.node].st = "Complete" /\ q.guid = l[q.node]
          /\ \A q, p \in s.roms : q.node = p.node => q = p
      BY <1>1, <1>2 DEF Whole, RomsOK
    <2>3. t.roms = s.roms \cup {rom} /\ t.scan = u.scan
      BY <1>2, <1>5
    <2>4. \A q \in t.roms : q.node \in D /\ t.scan[q.node].st = "Complete" /\ q.guid = l[q.node]
      BY <2>2, <2>3, <1>2, <1>3
    <2>5. \A q, p \in t.roms : q.node = p.node => q = p
      BY <2>1, <2>2, <2>3
    <2>. QED BY <2>4, <2>5, <1>1, <1>2, <1>5, <1>6 DEF RomsOK
  <1>. QED BY <1>1, <1>5, <1>6, <1>7, <1>8, <1>9 DEF Whole

\* The node is read on, in its own generation.
LEMMA Reissue ==
    ASSUME NEW s, NEW n, Open(s, n, gen, stage, layout), NEW st \in Deep,
           s.gen = gen, stage # "reset", layout[n] # Absent,
           s.inflight < MaxInflight, s.scan[n].out = 0, s.scan[n].timers = 0
    PROVE  /\ Whole(Issue(s, n, st), gen, stage, layout) /\ Issue(s, n, st).begun
           /\ Moving(Issue(s, n, st), gen)
  <1>. DEFINE r == IssueRead(s, s.scan[n], st)
              u == Put(s, n, r)
              D == DOMAIN s.scan
              i == u.inflight + 1
              t == [u EXCEPT !.inflight = i]
  <1>1. s \in Sessions(D) /\ s.scan[n] \in Scans /\ n \in D /\ D \subseteq Nodes
    BY DEF Open, Sessions
  <1>2. st \in ScanStates /\ st \in Reading /\ st # "Waiting" /\ st # "Complete"
    BY DEF Deep, ScanStates, Reading
  <1>3. /\ r \in Scans /\ r.st = st /\ r.timers = s.scan[n].timers
        /\ r.out = s.scan[n].out + (IF s.gen # gen THEN 2 ELSE 1)
    <2>. DEFINE q == s.scan[n]
    <2>1. q \in Scans
      BY <1>1
    <2>. HIDE DEF q
    <2>2. /\ IssueRead(s, q, st) \in Scans /\ IssueRead(s, q, st).st = st
          /\ IssueRead(s, q, st).timers = q.timers
      BY <2>1, <1>2, IssueTyped
    <2>3. IssueRead(s, q, st).out = q.out + (IF s.gen # gen THEN 2 ELSE 1)
      BY <2>1, <1>2, IssueTyped
    <2>. QED BY <2>2, <2>3 DEF q
  <1>4. r.out = 1 /\ r.timers = 0
    BY <1>3
  <1>5. Issue(s, n, st) = t
    BY DEF Issue
  <1>. HIDE DEF r
  <1>6. /\ Open(u, n, gen, stage, layout) /\ u.gen = s.gen /\ u.begun = s.begun
        /\ u.roms = s.roms /\ u.inflight = s.inflight /\ u.scan[n] = r /\ DOMAIN u.scan = D
    <2>1. Open(u, n, gen, stage, layout) /\ Replaces(u, s, n, r)
      BY <1>3, OpenPut
    <2>2. u.scan[n] = r /\ DOMAIN u.scan = D
      BY <1>3, OpenPut
    <2>. QED BY <2>1, <2>2 DEF Replaces
  <1>. HIDE DEF u
  <1>7. u \in Sessions(D) /\ i \in Nat
    BY <1>6 DEF Open, Sessions
  <1>. HIDE DEF i, D
  <1>8. /\ t \in Sessions(D) /\ t.gen = u.gen /\ t.begun = u.begun /\ t.roms = u.roms
        /\ t.scan = u.scan /\ t.inflight = i
    BY <1>7, InflightTyped
  <1>. HIDE DEF t
  <1>9. \A m \in D : NodeOK(t, m, t.scan[m], gen, stage, layout)
    <2>1. \A m \in D \ {n} : NodeOK(t, m, t.scan[m], gen, stage, layout)
      BY <1>6, <1>8 DEF Open, NodeOK
    <2>2. t.gen = gen /\ t.begun /\ t.scan[n] = r
      BY <1>6, <1>8 DEF Open
    <2>3. NodeOK(t, n, r, gen, stage, layout)
      BY <2>2, <1>2, <1>3, <1>4 DEF NodeOK
    <2>. QED BY <2>1, <2>2, <2>3
  <1>10. RomsOK(t, gen, stage, layout)
    BY <1>6, <1>8 DEF Open, RomsOK
  <1>11. Counted(t, gen)
    <2>. DEFINE A == ReadingNodes(u) \ {n}
    <2>1. ReadingNodes(t) = A \cup {n} /\ n \notin A /\ A \subseteq Nodes
      BY <1>1, <1>2, <1>3, <1>6, <1>8 DEF ReadingNodes
    <2>2. IsFiniteSet(A) /\ Cardinality(A) \in Nat
      BY <2>1, NodesFinite
    <2>3. u.inflight = Cardinality(A)
      BY <1>6 DEF Open
    <2>. HIDE DEF A
    <2>4. Cardinality(A \cup {n}) = Cardinality(A) + 1
      BY <2>1, <2>2, FS_AddElement
    <2>5. t.inflight = Cardinality(ReadingNodes(t))
      BY <2>1, <2>3, <2>4, <1>8 DEF i
    <2>6. t.inflight <= MaxInflight
      BY <2>2, <2>3, <1>6, <1>8, DiscoveryAssumption DEF i
    <2>. QED BY <2>5, <2>6 DEF Counted
  <1>12. Whole(t, gen, stage, layout) /\ t.begun
    BY <1>1, <1>6, <1>8, <1>9, <1>10, <1>11 DEF Whole, Open
  <1>13. Moving(t, gen)
    BY <1>1, <1>4, <1>6, <1>8 DEF Moving
  <1>. QED BY <1>5, <1>12, <1>13

-----------------------------------------------------------------------------
(* The blocks of a session *)

\* A block leaves the session whole and moving, or ends the scan with it.
Outcome ==
    \E t : /\ Whole(t, gen, stage, layout) /\ t.begun
           /\ \/ session' = t /\ Moving(t, gen) /\ UNCHANGED <<tables, crossed>>
              \/ session' = NoSession /\ OnDiscoveryScanComplete(t)

\* Pump has such an outcome.
LEMMA PumpOutcome ==
    ASSUME NEW s, Whole(s, gen, stage, layout), s.begun, Pump(s)
    PROVE  Outcome
  <1>. DEFINE t == Tidied(Started(s))
  <1>1. Whole(t, gen, stage, layout) /\ t.begun
    BY PumpWhole
  <1>2. Finished(t) \/ Moving(t, gen)
    BY PumpWhole
  <1>3. IF Finished(t) THEN session' = NoSession /\ OnDiscoveryScanComplete(t)
        ELSE session' = t /\ UNCHANGED <<tables, crossed>>
    BY DEF Pump
  <1>. HIDE DEF t
  <1>. QED BY <1>1, <1>2, <1>3 DEF Outcome

\* Node n of s has had its result or its retry, and nothing is to come for it.
Spent(s, n) ==
    /\ Open(s, n, gen, stage, layout)
    /\ s.scan[n] \in Scans /\ ~s.scan[n].good
    /\ s.gen = gen => s.scan[n].out = 0 /\ s.scan[n].timers = 0

\* It answered, so no reset has overtaken the session, and there is room for
\* another read in its place.
OnTurn(s, n) ==
    s.gen = gen /\ stage # "reset" /\ layout[n] # Absent /\ s.inflight < MaxInflight

\* The node may be given another machine of which nothing is to come either.
LEMMA SpentPut ==
    ASSUME NEW s, NEW n, Spent(s, n), NEW r \in Scans, ~r.good,
           r.out = s.scan[n].out, r.timers = s.scan[n].timers
    PROVE  /\ Spent(Put(s, n, r), n) /\ Put(s, n, r).scan[n] = r
           /\ OnTurn(s, n) => OnTurn(Put(s, n, r), n)
  <1>. DEFINE t == Put(s, n, r)
  <1>1. Open(t, n, gen, stage, layout) /\ Replaces(t, s, n, r)
    BY OpenPut DEF Spent
  <1>2. t.scan[n] = r
    BY OpenPut DEF Spent
  <1>3. t.gen = s.gen /\ t.inflight = s.inflight
    BY <1>1 DEF Replaces
  <1>. HIDE DEF t
  <1>4. Spent(t, n)
    BY <1>1, <1>2, <1>3 DEF Spent
  <1>5. OnTurn(s, n) => OnTurn(t, n)
    BY <1>3 DEF OnTurn
  <1>. QED BY <1>2, <1>4, <1>5 DEF t

\* The node goes to a state in which it is not read, and the session is pumped.
LEMMA SpentPump ==
    ASSUME NEW s, NEW n, Spent(s, n), NEW r \in Scans, ~r.good,
           r.out = s.scan[n].out, r.timers = s.scan[n].timers,
           r.st \in {"Idle", "Failed"} \/ (r.st = "Complete" /\ s.gen = gen),
           Pump(Put(s, n, r))
    PROVE  Outcome
  <1>1. NodeOK(s, n, r, gen, stage, layout) /\ r.st \notin Reading
    BY DEF Spent, NodeOK, Deep, Reading
  <1>2. Whole(Put(s, n, r), gen, stage, layout) /\ Put(s, n, r).begun
    BY <1>1, Settle DEF Spent
  <1>. QED BY <1>2, PumpOutcome

\* The node is read on, and nothing is pumped.
LEMMA SpentIssue ==
    ASSUME NEW s, NEW n, Spent(s, n), OnTurn(s, n), NEW st \in Deep
    PROVE  /\ Whole(Issue(s, n, st), gen, stage, layout) /\ Issue(s, n, st).begun
           /\ Moving(Issue(s, n, st), gen)
  <1>1. /\ Open(s, n, gen, stage, layout) /\ s.gen = gen /\ stage # "reset"
        /\ layout[n] # Absent /\ s.inflight < MaxInflight
        /\ s.scan[n].out = 0 /\ s.scan[n].timers = 0
    BY DEF Spent, OnTurn
  <1>. QED BY <1>1, Reissue

\* A failed read waits for the node to become ready, is tried again, or fails it.
LEMMA ReadFailedOutcome ==
    ASSUME NEW s, NEW n, Spent(s, n), ReadFailed(s, n)
    PROVE  Outcome
  <1>. DEFINE r == s.scan[n]
  <1>1. r \in Scans
    BY DEF Spent
  <1>. HIDE DEF r
  <1>2. CASE r.ready > 0 /\ CanTransitionTo(r.st, "Waiting")
    <2>. DEFINE q == [r EXCEPT !.st = "Waiting", !.ready = @ - 1, !.timers = @ + 1]
    <2>1. session' = Put(s, n, q) /\ UNCHANGED <<tables, crossed>>
      BY <1>2 DEF ReadFailed, ScheduleConfigROMReadyRetry, r
    <2>2. q \in Scans /\ q.st = "Waiting" /\ q.timers = r.timers + 1 /\ q.out = r.out
      <3>. DEFINE k == r.ready - 1
                  j == r.timers + 1
      <3>1. k \in 0..ReadyRetries /\ j \in Nat
        BY <1>1, <1>2, DiscoveryAssumption DEF Scans
      <3>2. q = [r EXCEPT !.st = "Waiting", !.ready = k, !.timers = j]
        OBVIOUS
      <3>. HIDE DEF k, j, q
      <3>3. q \in Scans /\ q.st = "Waiting" /\ q.out = r.out
        BY <3>1, <3>2, <1>1 DEF Scans, ScanStates
      <3>4. q.timers = j
        BY <3>2, <1>1 DEF Scans
      <3>. QED BY <3>3, <3>4 DEF j
    <2>3. q.good = r.good
      BY <1>1 DEF Scans
    <2>. HIDE DEF q
    <2>4. NodeOK(s, n, q, gen, stage, layout) /\ q.st \notin Reading
      BY <2>2, <2>3 DEF Spent, NodeOK, Reading, Deep, r
    <2>5. Whole(Put(s, n, q), gen, stage, layout) /\ Put(s, n, q).begun
      BY <2>2, <2>4, Settle DEF Spent
    <2>6. Put(s, n, q).scan[n] = q /\ DOMAIN Put(s, n, q).scan = DOMAIN s.scan
      BY <2>2, OpenPut DEF Spent
    <2>7. n \in DOMAIN s.scan /\ q.out + q.timers > 0
      BY <2>2, <1>1 DEF Spent, Open, Scans
    <2>8. Moving(Put(s, n, q), gen)
      BY <2>6, <2>7 DEF Moving
    <2>. QED BY <2>1, <2>5, <2>8 DEF Outcome
  <1>3. CASE r.ready > 0 /\ ~CanTransitionTo(r.st, "Waiting")
    <2>. DEFINE q == [r EXCEPT !.st = "Failed"]
    <2>1. Pump(Put(s, n, q))
      BY <1>3 DEF ReadFailed, ScheduleConfigROMReadyRetry, r
    <2>2. q \in Scans /\ q.st = "Failed" /\ q.timers = r.timers /\ q.out = r.out
      BY <1>1 DEF Scans, ScanStates, Terminal
    <2>3. q.good = r.good
      BY <1>1 DEF Scans
    <2>. HIDE DEF q
    <2>. QED BY <2>1, <2>2, <2>3, SpentPump DEF Spent, r
  <1>4. CASE ~(r.ready > 0)
    <2>. DEFINE q == RetryWithFallback(r)
    <2>1. Pump(Put(s, n, q))
      BY <1>4 DEF ReadFailed, r
    <2>2. \A to \in {"Idle", "Failed"} : Move(r.st, to) \in {"Idle", "Failed"}
      BY DEF Move
    <2>3. PerStepRetries \in Nat /\ TopSpeed \in Nat
      BY DiscoveryAssumption
    <2>4. PICK st \in {"Idle", "Failed"}, p \in 0..PerStepRetries, v \in 0..TopSpeed :
             q = [r EXCEPT !.retries = p, !.speed = v, !.st = st]
      <3>1. r.retries \in 0..PerStepRetries /\ r.speed \in 0..TopSpeed
        BY <1>1 DEF Scans
      <3>2. CASE r.retries > 0
        <4>1. q = [r EXCEPT !.retries = r.retries - 1, !.st = Move(r.st, "Idle")]
          BY <3>2 DEF RetryWithFallback
        <4>2. q = [r EXCEPT !.retries = r.retries - 1, !.speed = r.speed, !.st = Move(r.st, "Idle")]
          BY <4>1, <1>1 DEF Scans
        <4>3. r.retries - 1 \in 0..PerStepRetries
          BY <3>1, <3>2, <2>3
        <4>. QED BY <4>2, <4>3, <3>1, <2>2
      <3>3. CASE r.retries = 0 /\ r.speed > 0
        <4>1. q = [r EXCEPT !.speed = r.speed - 1, !.retries = PerStepRetries, !.st = Move(r.st, "Idle")]
          BY <3>3 DEF RetryWithFallback
        <4>2. q = [r EXCEPT !.retries = PerStepRetries, !.speed = r.speed - 1, !.st = Move(r.st, "Idle")]
          BY <4>1, <1>1 DEF Scans
        <4>3. r.speed - 1 \in 0..TopSpeed /\ PerStepRetries \in 0..PerStepRetries
          BY <3>1, <3>3, <2>3
        <4>. QED BY <4>2, <4>3, <2>2
      <3>4. CASE ~(r.retries > 0) /\ ~(r.retries = 0 /\ r.speed > 0)
        <4>1. q = [r EXCEPT !.st = Move(r.st, "Failed")]
          BY <3>4 DEF RetryWithFallback
        <4>2. q = [r EXCEPT !.retries = r.retries, !.speed = r.speed, !.st = Move(r.st, "Failed")]
          BY <4>1, <1>1 DEF Scans
        <4>. QED BY <4>2, <3>1, <2>2
      <3>. QED BY <3>2, <3>3, <3>4
    <2>. HIDE DEF q
    <2>5. q \in Scans /\ q.st = st /\ q.timers = r.timers /\ q.out = r.out
      BY <1>1, <2>4 DEF Scans, ScanStates, Terminal
    <2>6. q.good = r.good
      BY <1>1, <2>4 DEF Scans
    <2>. QED BY <2>1, <2>5, <2>6, SpentPump DEF Spent, r
  <1>. QED BY <1>2, <1>3, <1>4

\* A session whose node n is not to be counted is open at it.
LEMMA Opens ==
    ASSUME NEW s, NEW n, NEW u, Whole(s, gen, stage, layout), s.begun, n \in DOMAIN s.scan,
           s.scan[n].st # "Complete",
           u \in Sessions(DOMAIN s.scan), u.scan = s.scan, u.gen = s.gen,
           u.begun = s.begun, u.roms = s.roms,
           s.gen = gen => /\ u.inflight = Cardinality(ReadingNodes(s) \ {n})
                          /\ u.inflight <= MaxInflight
    PROVE  Open(u, n, gen, stage, layout)
  <1>. DEFINE D == DOMAIN s.scan
  <1>1. D \subseteq Nodes /\ DOMAIN u.scan = D /\ s.gen \in 1..gen
    BY DEF Whole
  <1>2. \A m \in D \ {n} : NodeOK(u, m, u.scan[m], gen, stage, layout)
    <2>1. \A m \in D : NodeOK(s, m, s.scan[m], gen, stage, layout)
      BY DEF Whole
    <2>. QED BY <2>1 DEF NodeOK
  <1>3. RomsOK(u, gen, stage, layout) /\ \A q \in u.roms : q.node # n
    <2>1. RomsOK(s, gen, stage, layout)
      BY DEF Whole
    <2>. QED BY <2>1 DEF RomsOK
  <1>4. ReadingNodes(u) = ReadingNodes(s)
    BY DEF ReadingNodes
  <1>. QED BY <1>1, <1>2, <1>3, <1>4 DEF Open

\* A result that is handled leaves its node spent, and leaves room when the
\* session is of this generation.
LEMMA HandledSpent ==
    ASSUME NEW n, NEW s, session # NoSession, Whole(session, gen, stage, layout),
           session.begun, n \in DOMAIN session.scan, session.scan[n].out > 0,
           s = Handled(session, n)
    PROVE  /\ Spent(s, n) /\ s.gen = session.gen
           /\ s.scan[n].st = session.scan[n].st /\ s.scan[n].left = session.scan[n].left
           /\ s.scan[n].full = session.scan[n].full
           /\ s.gen = gen => session.scan[n].st \in Reading
           /\ (session.scan[n].good \/ session.scan[n].st \in Deep) /\ layout[n] # Absent
                => OnTurn(s, n)
  <1>. DEFINE D == DOMAIN session.scan
              r == session.scan[n]
              i == IF session.inflight > 0 THEN session.inflight - 1 ELSE 0
              u == [session EXCEPT !.inflight = i]
              q == [r EXCEPT !.out = r.out - 1, !.good = FALSE]
              A == ReadingNodes(session)
  <1>1. session \in Sessions(D) /\ D \subseteq Nodes /\ r \in Scans /\ session.inflight \in Nat
    BY DEF Whole, Sessions
  <1>2. s = Put(u, n, q)
    BY DEF Handled
  <1>3. NodeOK(session, n, r, gen, stage, layout)
    BY DEF Whole
  <1>. HIDE DEF r, D
  <1>4. i \in Nat
    BY <1>1
  <1>. HIDE DEF i
  <1>5. /\ u \in Sessions(D) /\ u.gen = session.gen /\ u.begun = session.begun
        /\ u.roms = session.roms /\ u.scan = session.scan /\ u.inflight = i
    <2>1. u \in Sessions(D)
      BY <1>1, <1>4, InflightTyped
    <2>3. u.gen = session.gen /\ u.begun = session.begun
      BY <1>1 DEF Sessions
    <2>2. u.roms = session.roms /\ u.scan = session.scan /\ u.inflight = i
      BY <1>1, <1>4, InflightTyped
    <2>. QED BY <2>1, <2>2, <2>3
  <1>. HIDE DEF u
  <1>6. r.out > 0 /\ r.st # "Complete" /\ (session.gen = gen => r.st \in Reading /\ r.out = 1 /\ r.timers = 0)
    BY <1>3, <1>1 DEF NodeOK, r, Reading
  <1>7. session.gen = gen => i = Cardinality(A \ {n}) /\ i < MaxInflight
    <2>. SUFFICES ASSUME session.gen = gen
                  PROVE  i = Cardinality(A \ {n}) /\ i < MaxInflight
      OBVIOUS
    <2>1. session.inflight = Cardinality(A) /\ session.inflight <= MaxInflight
      BY DEF Whole, Counted
    <2>2. n \in A /\ A \subseteq Nodes
      BY <1>1, <1>6 DEF ReadingNodes, r, D
    <2>3. IsFiniteSet(A) /\ Cardinality(A) \in Nat
      BY <2>2, NodesFinite
    <2>. HIDE DEF A
    <2>4. Cardinality(A \ {n}) = Cardinality(A) - 1
      BY <2>2, <2>3, FS_RemoveElement
    <2>5. Cardinality(A) # 0
      BY <2>2, <2>3, FS_EmptySet
    <2>. QED BY <2>1, <2>3, <2>4, <2>5, DiscoveryAssumption DEF i
  <1>8. Open(u, n, gen, stage, layout)
    <2>1. session.gen = gen => u.inflight = Cardinality(ReadingNodes(session) \ {n}) /\ u.inflight <= MaxInflight
      BY <1>4, <1>5, <1>7, DiscoveryAssumption
    <2>2. u \in Sessions(DOMAIN session.scan) /\ session.scan[n].st # "Complete"
      BY <1>5, <1>6 DEF D, r
    <2>. QED BY <2>1, <2>2, <1>5, Opens
  <1>9. /\ q \in Scans /\ q.st = r.st /\ q.left = r.left /\ q.full = r.full
        /\ q.timers = r.timers /\ q.out = r.out - 1
    <2>. DEFINE k == r.out - 1
    <2>1. k \in Nat
      BY <1>1, <1>6 DEF Scans
    <2>. HIDE DEF k
    <2>2. q = [r EXCEPT !.out = k, !.good = FALSE]
      BY DEF k
    <2>. HIDE DEF q
    <2>3. q \in Scans /\ q.st = r.st /\ q.left = r.left /\ q.timers = r.timers /\ q.out = k
      BY <2>1, <2>2, <1>1 DEF Scans
    <2>4. q.full = r.full
      BY <2>2, <1>1 DEF Scans
    <2>. QED BY <2>3, <2>4 DEF k
  <1>10. ~q.good
    BY <1>1 DEF Scans
  <1>. HIDE DEF q
  <1>11. Open(s, n, gen, stage, layout) /\ Replaces(s, u, n, q)
    BY <1>2, <1>8, <1>9, OpenPut
  <1>12. s.scan[n] = q
    BY <1>2, <1>8, <1>9, OpenPut
  <1>13. s.gen = session.gen /\ s.inflight = i
    BY <1>5, <1>11 DEF Replaces
  <1>14. Spent(s, n)
    BY <1>6, <1>9, <1>10, <1>11, <1>12, <1>13 DEF Spent
  <1>15. (r.good \/ r.st \in Deep) /\ layout[n] # Absent => OnTurn(s, n)
    BY <1>3, <1>7, <1>13 DEF OnTurn, NodeOK
  <1>. QED BY <1>6, <1>9, <1>12, <1>13, <1>14, <1>15 DEF r

\* The node is done and its ROM is kept.
LEMMA FinalizeOutcome ==
    ASSUME NEW s, NEW n, Spent(s, n), OnTurn(s, n), FinalizeNodeDiscovery(s, n),
           layout \in Layouts \cup {[m \in Nodes |-> Absent]}
    PROVE  Outcome
  <1>. DEFINE r == s.scan[n]
              q == [r EXCEPT !.st = "Complete"]
              rom == [node |-> n, guid |-> layout[n], full |-> r.full]
              t == [Put(s, n, q) EXCEPT !.roms = @ \cup {rom}]
  <1>1. r \in Scans /\ n \in Nodes
    BY DEF Spent, Open
  <1>2. Pump(t)
    BY DEF FinalizeNodeDiscovery
  <1>3. rom \in Roms /\ rom.node = n /\ rom.guid = layout[n]
    <2>1. layout[n] \in Devices \cup {ZeroGuid, Absent}
      BY <1>1, DiscoveryAssumption
    <2>2. layout[n] \in Devices \cup {ZeroGuid} /\ r.full \in BOOLEAN
      BY <1>1, <2>1 DEF OnTurn, Scans
    <2>. QED BY <1>1, <2>2 DEF Roms
  <1>4. r.out = 0 /\ r.timers = 0 /\ ~r.good
    BY DEF Spent, OnTurn
  <1>. HIDE DEF r
  <1>5. q \in Scans /\ q.st = "Complete" /\ q.out = r.out /\ q.timers = r.timers
    BY <1>1 DEF Scans, ScanStates, Terminal
  <1>6. q.good = r.good
    BY <1>1 DEF Scans
  <1>. HIDE DEF q, rom
  <1>7. NodeOK(s, n, q, gen, stage, layout)
    BY <1>4, <1>5, <1>6 DEF NodeOK, Reading, Deep
  <1>8. Whole(t, gen, stage, layout) /\ t.begun
    <2>1. Open(s, n, gen, stage, layout) /\ s.gen = gen /\ stage # "reset"
      BY DEF Spent, OnTurn
    <2>2. t = [Put(s, n, q) EXCEPT !.roms = @ \cup {rom}]
      OBVIOUS
    <2>. HIDE DEF t
    <2>3. Whole(t, gen, stage, layout)
      BY <1>3, <1>5, <1>7, <2>1, <2>2, SettleRom, Zenon
    <2>4. Whole(Put(s, n, q), gen, stage, layout) /\ Put(s, n, q).begun
      BY <1>5, <1>7, <2>1, Settle DEF Reading
    <2>5. t.begun
      BY <2>2, <2>4 DEF Whole, Sessions
    <2>. QED BY <2>3, <2>5
  <1>. HIDE DEF t
  <1>. QED BY <1>2, <1>8, PumpOutcome

\* The reads of a node's details go on.
LEMMA DetailReads ==
    ASSUME NEW s, NEW n, Spent(s, n), OnTurn(s, n), NEW left \in 1..MaxDetailReads
    PROVE  /\ Whole(ReadDetail(s, n, left), gen, stage, layout)
           /\ ReadDetail(s, n, left).begun /\ Moving(ReadDetail(s, n, left), gen)
  <1>. DEFINE r == s.scan[n]
              q == [r EXCEPT !.left = left - 1]
              u == Put(s, n, q)
  <1>1. r \in Scans /\ ~r.good
    BY DEF Spent
  <1>. HIDE DEF r
  <1>2. q \in Scans /\ q.out = r.out /\ q.timers = r.timers /\ q.good = r.good
    <2>. DEFINE k == left - 1
    <2>1. k \in 0..MaxDetailReads
      BY DiscoveryAssumption
    <2>. HIDE DEF k
    <2>2. q = [r EXCEPT !.left = k]
      BY DEF k
    <2>. HIDE DEF q
    <2>3. q \in Scans /\ q.out = r.out /\ q.timers = r.timers
      BY <2>1, <2>2, <1>1 DEF Scans
    <2>4. q.good = r.good
      BY <2>2, <1>1 DEF Scans
    <2>. QED BY <2>3, <2>4
  <1>3. ReadDetail(s, n, left) = Issue(u, n, "ReadingDetails")
    BY DEF ReadDetail, r
  <1>. HIDE DEF q
  <1>4. Spent(u, n) /\ OnTurn(u, n)
    BY <1>1, <1>2, SpentPut DEF r
  <1>5. "ReadingDetails" \in Deep
    BY DEF Deep
  <1>. HIDE DEF u
  <1>6. Whole(Issue(u, n, "ReadingDetails"), gen, stage, layout) /\ Moving(Issue(u, n, "ReadingDetails"), gen)
    BY <1>4, <1>5, SpentIssue
  <1>7. Issue(u, n, "ReadingDetails").begun
    BY <1>4, <1>5, SpentIssue
  <1>. QED BY <1>3, <1>6, <1>7

\* The machine of a node that is spent, with another value of full.
LEMMA SpentFull ==
    ASSUME NEW s, NEW n, Spent(s, n), NEW full \in BOOLEAN,
           NEW u, u = Put(s, n, [s.scan[n] EXCEPT !.full = full])
    PROVE  /\ Spent(u, n) /\ (OnTurn(s, n) => OnTurn(u, n))
           /\ u.scan[n].left = s.scan[n].left
  <1>. DEFINE r == s.scan[n]
              q == [r EXCEPT !.full = full]
  <1>1. r \in Scans /\ ~r.good /\ u = Put(s, n, q)
    BY DEF Spent
  <1>. HIDE DEF r
  <1>2. q \in Scans /\ q.out = r.out /\ q.timers = r.timers /\ q.left = r.left
    BY <1>1 DEF Scans
  <1>3. q.good = r.good
    BY <1>1 DEF Scans
  <1>. HIDE DEF q
  <1>4. Spent(u, n) /\ (OnTurn(s, n) => OnTurn(u, n))
    BY <1>1, <1>2, <1>3, SpentPut DEF r
  <1>5. u.scan[n] = q
    BY <1>1, <1>2, <1>3, SpentPut DEF r
  <1>. QED BY <1>2, <1>4, <1>5 DEF r

\* What the blocks of a session find.
InSession ==
    /\ session # NoSession /\ Whole(session, gen, stage, layout) /\ session.begun
    /\ layout \in Layouts \cup {[m \in Nodes |-> Absent]}

\* The result of a bus info block.
LEMMA BIBOutcome ==
    ASSUME InSession, NEW n \in Nodes, HandleBIBComplete(n)
    PROVE  Outcome
  <1>. DEFINE s == Handled(session, n)
              r == s.scan[n]
  <1>1. n \in DOMAIN session.scan /\ session.scan[n].out > 0 /\ session.scan[n].st \notin Deep
    BY DEF HandleBIBComplete, Result, Deep
  <1>2. \/ ReadFailed(s, n)
        \/ /\ Answered(n)
           /\ \E st \in Terminal : Pump(Put(s, n, [s.scan[n] EXCEPT !.st = Move(@, st)]))
        \/ /\ Answered(n)
           /\ session' = Issue(Put(s, n, [s.scan[n] EXCEPT !.retries = PerStepRetries]), n, "ReadingRootDir")
           /\ UNCHANGED <<tables, crossed>>
    BY DEF HandleBIBComplete
  <1>3. Spent(s, n) /\ (session.scan[n].good /\ layout[n] # Absent => OnTurn(s, n))
    BY <1>1, HandledSpent DEF InSession
  <1>. HIDE DEF s
  <1>4. r \in Scans /\ ~r.good
    BY <1>3 DEF Spent
  <1>5. CASE ReadFailed(s, n)
    BY <1>3, <1>5, ReadFailedOutcome
  <1>6. ASSUME Answered(n), NEW st \in Terminal,
               Pump(Put(s, n, [s.scan[n] EXCEPT !.st = Move(@, st)]))
        PROVE  Outcome
    <2>. DEFINE to == Move(r.st, st)
                q == [r EXCEPT !.st = to]
    <2>1. to \in {"Complete", "Failed"}
      BY DEF Move, Terminal
    <2>. HIDE DEF to
    <2>2. Pump(Put(s, n, q))
      BY <1>6 DEF to
    <2>. HIDE DEF r
    <2>3. q \in Scans /\ q.st = to /\ q.timers = r.timers /\ q.out = r.out
      BY <1>4, <2>1 DEF Scans, ScanStates, Terminal
    <2>4. q.good = r.good
      BY <1>4 DEF Scans
    <2>5. s.gen = gen
      BY <1>3, <1>6 DEF Answered, OnTurn
    <2>. HIDE DEF q
    <2>. QED BY <1>3, <1>4, <2>1, <2>2, <2>3, <2>4, <2>5, SpentPump DEF r
  <1>7. ASSUME Answered(n), UNCHANGED <<tables, crossed>>,
               session' = Issue(Put(s, n, [s.scan[n] EXCEPT !.retries = PerStepRetries]), n, "ReadingRootDir")
        PROVE  Outcome
    <2>. DEFINE q == [r EXCEPT !.retries = PerStepRetries]
                u == Put(s, n, q)
                t == Issue(u, n, "ReadingRootDir")
    <2>1. session' = t
      BY <1>7
    <2>. HIDE DEF r
    <2>2. q \in Scans /\ q.timers = r.timers /\ q.out = r.out
      BY <1>4, DiscoveryAssumption DEF Scans
    <2>3. q.good = r.good
      BY <1>4 DEF Scans
    <2>4. OnTurn(s, n)
      BY <1>3, <1>7 DEF Answered
    <2>. HIDE DEF q
    <2>5. Spent(u, n) /\ OnTurn(u, n)
      BY <1>3, <1>4, <2>2, <2>3, <2>4, SpentPut DEF r
    <2>6. "ReadingRootDir" \in Deep
      BY DEF Deep
    <2>. HIDE DEF u
    <2>7. Whole(t, gen, stage, layout) /\ Moving(t, gen)
      BY <2>5, <2>6, SpentIssue
    <2>8. t.begun
      BY <2>5, <2>6, SpentIssue
    <2>. HIDE DEF t
    <2>. QED BY <1>7, <2>1, <2>7, <2>8 DEF Outcome
  <1>. QED BY <1>2, <1>5, <1>6, <1>7

\* The result of a root directory.
LEMMA RootDirOutcome ==
    ASSUME InSession, NEW n \in Nodes, HandleRootDirComplete(n)
    PROVE  Outcome
  <1>. DEFINE s == Handled(session, n)
  <1>1. n \in DOMAIN session.scan /\ session.scan[n].out > 0
    BY DEF HandleRootDirComplete, Result
  <1>2. ReadFailed(s, n) \/ (Answered(n) /\ StartDetailsDiscovery(s, n))
    BY DEF HandleRootDirComplete
  <1>3. Spent(s, n) /\ (session.scan[n].good /\ layout[n] # Absent => OnTurn(s, n))
    BY <1>1, HandledSpent DEF InSession
  <1>. HIDE DEF s
  <1>4. CASE ReadFailed(s, n)
    BY <1>3, <1>4, ReadFailedOutcome
  <1>5. CASE Answered(n) /\ StartDetailsDiscovery(s, n)
    <2>1. OnTurn(s, n)
      BY <1>3, <1>5 DEF Answered
    <2>2. PICK reads \in 0..MaxDetailReads, parsed \in BOOLEAN :
            IF reads = 0
            THEN FinalizeNodeDiscovery(Put(s, n, [s.scan[n] EXCEPT !.full = parsed]), n)
            ELSE session' = ReadDetail(s, n, reads) /\ UNCHANGED <<tables, crossed>>
      BY <1>5 DEF StartDetailsDiscovery
    <2>3. CASE reads = 0
      <3>. DEFINE u == Put(s, n, [s.scan[n] EXCEPT !.full = parsed])
      <3>1. Spent(u, n) /\ OnTurn(u, n)
        BY <1>3, <2>1, SpentFull
      <3>2. FinalizeNodeDiscovery(u, n)
        BY <2>2, <2>3
      <3>. HIDE DEF u
      <3>. QED BY <3>1, <3>2, FinalizeOutcome DEF InSession
    <2>4. CASE reads # 0
      <3>. DEFINE t == ReadDetail(s, n, reads)
      <3>1. reads \in 1..MaxDetailReads
        BY <2>4, DiscoveryAssumption
      <3>2. Whole(t, gen, stage, layout) /\ Moving(t, gen)
        BY <3>1, <1>3, <2>1, DetailReads
      <3>3. t.begun
        BY <3>1, <1>3, <2>1, DetailReads
      <3>4. session' = t /\ UNCHANGED <<tables, crossed>>
        BY <2>2, <2>4
      <3>. HIDE DEF t
      <3>. QED BY <3>2, <3>3, <3>4 DEF Outcome
    <2>. QED BY <2>3, <2>4
  <1>. QED BY <1>2, <1>4, <1>5

\* The result of a read of details.
LEMMA DetailOutcome ==
    ASSUME InSession, NEW n \in Nodes, HandleDetailComplete(n)
    PROVE  Outcome
  <1>. DEFINE h == Handled(session, n)
  <1>1. n \in DOMAIN session.scan /\ session.scan[n].out > 0 /\ session.scan[n].st \in Deep
    BY DEF HandleDetailComplete, Result, Deep
  <1>2. PICK full \in BOOLEAN :
          \E s \in {Put(h, n, [h.scan[n] EXCEPT !.full = full])} :
             IF s.scan[n].left > 0 THEN Pump(ReadDetail(s, n, s.scan[n].left))
             ELSE FinalizeNodeDiscovery(s, n)
    BY DEF HandleDetailComplete
  <1>3. layout[n] # Absent
    BY <1>1 DEF InSession, Whole, NodeOK
  <1>4. Spent(h, n) /\ OnTurn(h, n)
    BY <1>1, <1>3, HandledSpent DEF InSession
  <1>. HIDE DEF h
  <1>. DEFINE s == Put(h, n, [h.scan[n] EXCEPT !.full = full])
  <1>5. IF s.scan[n].left > 0 THEN Pump(ReadDetail(s, n, s.scan[n].left))
        ELSE FinalizeNodeDiscovery(s, n)
    BY <1>2
  <1>6. Spent(s, n) /\ OnTurn(s, n)
    BY <1>4, SpentFull
  <1>. HIDE DEF s
  <1>7. CASE s.scan[n].left > 0
    <2>. DEFINE left == s.scan[n].left
                t == ReadDetail(s, n, left)
    <2>1. left \in 1..MaxDetailReads
      BY <1>6, <1>7, DiscoveryAssumption DEF Spent, Scans
    <2>2. Pump(t)
      BY <1>5, <1>7
    <2>. HIDE DEF left
    <2>3. Whole(t, gen, stage, layout)
      BY <2>1, <1>6, DetailReads
    <2>4. t.begun
      BY <2>1, <1>6, DetailReads
    <2>. HIDE DEF t
    <2>. QED BY <2>2, <2>3, <2>4, PumpOutcome
  <1>8. CASE ~(s.scan[n].left > 0)
    BY <1>5, <1>6, <1>8, FinalizeOutcome DEF InSession
  <1>. QED BY <1>7, <1>8

\* A delayed retry.
LEMMA RetryOutcome ==
    ASSUME InSession, NEW n \in Nodes, ConfigROMReadyRetry(n)
    PROVE  Outcome
  <1>. DEFINE r == session.scan[n]
              q == [r EXCEPT !.timers = r.timers - 1]
              s == Put(session, n, q)
              D == DOMAIN session.scan
  <1>1. n \in D /\ r.timers > 0
    BY DEF ConfigROMReadyRetry
  <1>2. IF s.scan[n].st = "Waiting" THEN Pump(Put(s, n, [s.scan[n] EXCEPT !.st = "Idle"]))
        ELSE session' = s /\ UNCHANGED <<tables, crossed>>
    BY DEF ConfigROMReadyRetry
  <1>3. session \in Sessions(D) /\ r \in Scans /\ D \subseteq Nodes
    BY <1>1 DEF InSession, Whole, Sessions
  <1>4. NodeOK(session, n, r, gen, stage, layout)
    BY <1>1 DEF InSession, Whole
  <1>. HIDE DEF r
  <1>5. q \in Scans /\ q.st = r.st /\ q.out = r.out /\ q.good = r.good /\ q.timers = r.timers - 1
    <2>. DEFINE k == r.timers - 1
    <2>1. k \in Nat
      BY <1>1, <1>3 DEF Scans
    <2>. HIDE DEF k
    <2>2. q = [r EXCEPT !.timers = k]
      BY DEF k
    <2>. HIDE DEF q
    <2>3. q \in Scans /\ q.st = r.st /\ q.out = r.out /\ q.timers = k
      BY <2>1, <2>2, <1>3 DEF Scans
    <2>4. q.good = r.good
      BY <2>2, <1>3 DEF Scans
    <2>. QED BY <2>3, <2>4 DEF k
  <1>. HIDE DEF q
  <1>6. r.st # "Complete" /\ (session.gen = gen => r.st = "Waiting" /\ q.timers = 0 /\ q.out = 0)
    BY <1>1, <1>3, <1>4, <1>5 DEF NodeOK, Scans, Reading
  <1>7. Open(session, n, gen, stage, layout)
    <2>1. session.gen = gen =>
             /\ session.inflight = Cardinality(ReadingNodes(session) \ {n})
             /\ session.inflight <= MaxInflight
      <3>. SUFFICES ASSUME session.gen = gen
                    PROVE  /\ session.inflight = Cardinality(ReadingNodes(session) \ {n})
                           /\ session.inflight <= MaxInflight
        OBVIOUS
      <3>1. ReadingNodes(session) \ {n} = ReadingNodes(session)
        BY <1>6 DEF ReadingNodes, Reading, r
      <3>. QED BY <3>1 DEF InSession, Whole, Counted
    <2>2. session \in Sessions(DOMAIN session.scan) /\ session.scan[n].st # "Complete"
      BY <1>3, <1>6 DEF r
    <2>. QED BY <2>1, <2>2, <1>1, Opens DEF InSession
  <1>8. Open(s, n, gen, stage, layout) /\ Replaces(s, session, n, q)
    BY <1>5, <1>7, OpenPut
  <1>9. s.scan[n] = q
    BY <1>5, <1>7, OpenPut
  <1>10. s.gen = session.gen /\ s.begun = session.begun
    BY <1>8 DEF Replaces
  <1>. HIDE DEF s
  <1>11. CASE q.st = "Waiting"
    <2>. DEFINE p == [q EXCEPT !.st = "Idle"]
    <2>1. Pump(Put(s, n, p))
      BY <1>2, <1>9, <1>11
    <2>2. p \in Scans /\ p.st = "Idle" /\ p.out = q.out /\ p.timers = q.timers
      BY <1>5 DEF Scans, ScanStates
    <2>3. p.good = q.good
      BY <1>5 DEF Scans
    <2>. HIDE DEF p
    <2>4. p.good => session.gen = gen /\ stage # "reset" /\ session.begun
      BY <2>3, <1>4, <1>5 DEF NodeOK
    <2>5. NodeOK(s, n, p, gen, stage, layout) /\ p.st \notin Reading
      BY <2>2, <2>4, <1>6, <1>10 DEF NodeOK, Reading, Deep
    <2>6. Whole(Put(s, n, p), gen, stage, layout) /\ Put(s, n, p).begun
      BY <2>2, <2>5, <1>8, Settle
    <2>. QED BY <2>1, <2>6, PumpOutcome
  <1>12. CASE q.st # "Waiting"
    <2>1. session.gen # gen
      BY <1>5, <1>6, <1>12
    <2>2. session' = s /\ UNCHANGED <<tables, crossed>>
      BY <1>2, <1>9, <1>12
    <2>3. NodeOK(session, n, q, gen, stage, layout)
      BY <2>1, <1>4, <1>5, <1>6 DEF NodeOK
    <2>4. DOMAIN s.scan = D /\ s.inflight = session.inflight /\ s.begun
      BY <1>3, <1>8, <1>10 DEF Replaces, InSession, Sessions
    <2>5. NodeOK(s, n, q, gen, stage, layout)
      BY <2>3, <1>10 DEF NodeOK
    <2>6. \A m \in D : NodeOK(s, m, s.scan[m], gen, stage, layout)
      BY <2>4, <2>5, <1>8, <1>9 DEF Open
    <2>7. Whole(s, gen, stage, layout)
      BY <2>1, <2>4, <2>6, <1>8, <1>10 DEF Open, Whole, Counted
    <2>8. Moving(s, gen)
      BY <2>1, <1>10 DEF Moving
    <2>. QED BY <2>2, <2>4, <2>7, <2>8 DEF Outcome
  <1>. QED BY <1>11, <1>12

\* The first block of a session.
LEMMA BeginOutcome ==
    ASSUME SessionInv, BeginScan
    PROVE  Outcome
  <1>. DEFINE D == DOMAIN session.scan
              s == [session EXCEPT !.begun = TRUE, !.late = FALSE]
  <1>1. /\ session # NoSession /\ ~session.begun /\ Pump(s)
        /\ Whole(session, gen, stage, layout) /\ Untouched(session)
    BY DEF BeginScan, SessionInv
  <1>2. session \in Sessions(D) /\ D \subseteq Nodes
    BY <1>1 DEF Whole
  <1>. HIDE DEF D
  <1>3. s \in Sessions(D) /\ s.gen = session.gen /\ s.scan = session.scan /\ s.inflight = session.inflight
    BY <1>2 DEF Sessions
  <1>4. s.begun = TRUE /\ s.roms = session.roms
    BY <1>2 DEF Sessions
  <1>. HIDE DEF s
  <1>5. DOMAIN s.scan = D /\ s.roms = {} /\ \A n \in D : s.scan[n] = NewScan
    BY <1>1, <1>3, <1>4 DEF Untouched, D
  <1>6. \A n \in D : NodeOK(s, n, s.scan[n], gen, stage, layout)
    BY <1>5 DEF NodeOK, NewScan, Reading, Deep
  <1>7. RomsOK(s, gen, stage, layout)
    BY <1>5 DEF RomsOK
  <1>8. ReadingNodes(s) = ReadingNodes(session)
    BY <1>3 DEF ReadingNodes
  <1>9. Counted(s, gen) /\ s.gen \in 1..gen
    BY <1>1, <1>3, <1>8 DEF Whole, Counted
  <1>10. Whole(s, gen, stage, layout)
    BY <1>2, <1>3, <1>5, <1>6, <1>7, <1>9 DEF Whole
  <1>. QED BY <1>1, <1>4, <1>10, PumpOutcome

\* The blocks of a session.
SessionBlock ==
    \/ BeginScan
    \/ \E n \in Nodes : \/ HandleBIBComplete(n) \/ HandleRootDirComplete(n)
                        \/ HandleDetailComplete(n) \/ ConfigROMReadyRetry(n)

\* Each of them has an outcome.
LEMMA BlockOutcome ==
    ASSUME SessionInv, SessionBlock
    PROVE  Outcome /\ UNCHANGED <<bus, token>>
  <1>1. CASE BeginScan
    BY <1>1, BeginOutcome DEF BeginScan
  <1>2. ASSUME NEW n \in Nodes,
               \/ HandleBIBComplete(n) \/ HandleRootDirComplete(n)
               \/ HandleDetailComplete(n) \/ ConfigROMReadyRetry(n)
        PROVE  Outcome /\ UNCHANGED <<bus, token>>
    <2>1. InSession
      BY <1>2 DEF HandleBIBComplete, HandleRootDirComplete, HandleDetailComplete,
                  ConfigROMReadyRetry, Result, Scanning, InSession, SessionInv
    <2>2. Outcome
      BY <1>2, <2>1, BIBOutcome, RootDirOutcome, DetailOutcome, RetryOutcome
    <2>3. UNCHANGED <<bus, token>>
      BY <1>2 DEF HandleBIBComplete, HandleRootDirComplete, HandleDetailComplete, ConfigROMReadyRetry
    <2>. QED BY <2>2, <2>3
  <1>. QED BY <1>1, <1>2 DEF SessionBlock

-----------------------------------------------------------------------------
(* The bus and the session *)

\* Nothing a session holds depends on the bus.
Quiet(s) ==
    /\ \A n \in DOMAIN s.scan : ~s.scan[n].good /\ s.scan[n].st \notin Deep
    /\ s.roms = {}

\* A whole session stays whole when the bus moves on within the generation, or
\* when it is quiet.
LEMMA Rebase ==
    ASSUME NEW s, NEW t, NEW g \in Nat, NEW e, NEW l, Whole(s, g, e, l),
           NEW h \in Nat, NEW d, NEW k, g <= h,
           t \in Sessions(DOMAIN s.scan), t.scan = s.scan, t.gen = s.gen,
           t.begun = s.begun, t.roms = s.roms, t.inflight = s.inflight,
           \/ d # "reset" /\ h = g /\ k = l
           \/ Quiet(s) /\ (h = g \/ s.gen # h)
    PROVE  Whole(t, h, d, k)
  <1>. DEFINE D == DOMAIN s.scan
  <1>1. D \subseteq Nodes /\ DOMAIN t.scan = D /\ s.gen \in 1..g /\ s.gen \in Nat
    BY DEF Whole
  <1>2. \A n \in D : NodeOK(s, n, s.scan[n], g, e, l)
    BY DEF Whole
  <1>3. RomsOK(s, g, e, l) /\ Counted(s, g)
    BY DEF Whole
  <1>4. ReadingNodes(t) = ReadingNodes(s)
    BY DEF ReadingNodes
  <1>5. t.gen \in 1..h
    BY <1>1
  <1>6. CASE d # "reset" /\ h = g /\ k = l
    <2>1. \A n \in D : NodeOK(t, n, t.scan[n], h, d, k)
      BY <1>2, <1>6 DEF NodeOK
    <2>2. RomsOK(t, h, d, k)
      BY <1>3, <1>6 DEF RomsOK
    <2>3. Counted(t, h)
      BY <1>3, <1>4, <1>6 DEF Counted
    <2>. QED BY <1>1, <1>5, <2>1, <2>2, <2>3 DEF Whole
  <1>7. CASE Quiet(s) /\ (h = g \/ s.gen # h)
    <2>1. \A n \in D : NodeOK(t, n, t.scan[n], h, d, k)
      BY <1>2, <1>7 DEF NodeOK, Quiet
    <2>2. RomsOK(t, h, d, k)
      BY <1>7 DEF RomsOK, Quiet
    <2>3. Counted(t, h)
      BY <1>3, <1>4, <1>7 DEF Counted
    <2>. QED BY <1>1, <1>5, <2>1, <2>2, <2>3 DEF Whole
  <1>. QED BY <1>6, <1>7

\* A new session.
LEMMA NewSession ==
    ASSUME NEW targets, targets \subseteq Nodes, SessionInv, gen >= 1, NEW e, StartScan(targets), e # "reset" \/ e = stage
    PROVE  session' # NoSession /\ Whole(session', gen, e, layout) /\ Untouched(session') /\ Moving(session', gen)
  <1>1. CASE IsBusyFor(gen)
    <2>1. session' = session /\ session # NoSession
      BY <1>1 DEF StartScan, IsBusyFor, Scanning
    <2>2. Whole(session, gen, stage, layout) /\ Untouched(session) /\ Moving(session, gen) /\ gen \in Nat
      BY <2>1 DEF SessionInv
    <2>3. session \in Sessions(DOMAIN session.scan)
      BY <2>2 DEF Whole
    <2>4. e # "reset" => Whole(session, gen, e, layout)
      BY <2>2, <2>3, Rebase
    <2>. QED BY <2>1, <2>2, <2>4
  <1>2. CASE ~IsBusyFor(gen)
    <2>. DEFINE s == [gen |-> gen, begun |-> FALSE, late |-> stage = "edge",
                      scan |-> [n \in targets |-> NewScan], inflight |-> 0, roms |-> {}]
    <2>1. session' = s
      BY <1>2 DEF StartScan
    <2>2. NewScan \in Scans /\ gen \in Nat
      BY DiscoveryAssumption DEF NewScan, Scans, ScanStates, SessionInv
    <2>3. DOMAIN s.scan = targets /\ s.roms = {} /\ s.inflight = 0 /\ s.gen = gen /\ s.begun = FALSE
      OBVIOUS
    <2>4. s.scan \in [targets -> Scans] /\ \A n \in targets : s.scan[n] = NewScan
      BY <2>2
    <2>5. s \in Sessions(targets)
      BY <2>2 DEF Sessions
    <2>6. s # NoSession
      <3>1. "begun" \in DOMAIN s /\ "begun" \notin DOMAIN NoSession
        BY DEF NoSession
      <3>. QED BY <3>1
    <2>. HIDE DEF s
    <2>7. \A n \in targets : NodeOK(s, n, s.scan[n], gen, e, layout)
      BY <2>4 DEF NodeOK, NewScan, Reading, Deep
    <2>8. RomsOK(s, gen, e, layout)
      BY <2>3 DEF RomsOK
    <2>9. ReadingNodes(s) = {}
      BY <2>3, <2>4 DEF ReadingNodes, NewScan, Reading
    <2>10. Counted(s, gen)
      BY <2>3, <2>9, FS_EmptySet, DiscoveryAssumption DEF Counted
    <2>11. Whole(s, gen, e, layout)
      BY <2>2, <2>3, <2>5, <2>7, <2>8, <2>10 DEF Whole
    <2>12. Untouched(s) /\ Moving(s, gen)
      BY <2>3, <2>4 DEF Untouched, Moving
    <2>. QED BY <2>1, <2>6, <2>11, <2>12
  <1>. QED BY <1>1, <1>2

\* What a step of the bus keeps of a session besides.
LEMMA KeepsMoving ==
    ASSUME NEW s, NEW t, NEW g, NEW h, t.scan = s.scan, t.gen = s.gen, t.begun = s.begun,
           t.roms = s.roms, t.inflight = s.inflight, h = g \/ s.gen # h,
           Untouched(s), Moving(s, g)
    PROVE  Untouched(t) /\ Moving(t, h)
  BY DEF Untouched, Moving

\* The session is whole in every state.
LEMMA SessionInit == ASSUME Init PROVE SessionInv
  BY DEF Init, SessionInv

\* Every step of the bus, the session and the users keeps it whole.
LEMMA SessionStep ==
    ASSUME SessionInv, [Next]_vars
    PROVE  SessionInv'
  <1>. DEFINE SessionOK(s, g, e, l) == Whole(s, g, e, l) /\ Untouched(s) /\ Moving(s, g)
              D == DOMAIN session.scan
  <1>1. /\ stage \in {"edge", "reset", "selfid", "ready"} /\ gen \in Nat /\ due \in BOOLEAN
        /\ layout \in Layouts \cup {[n \in Nodes |-> Absent]}
        /\ stage # "reset" \/ due => gen >= 1
    BY DEF SessionInv
  <1>2. session # NoSession => /\ Whole(session, gen, stage, layout) /\ Untouched(session)
                               /\ Moving(session, gen) /\ session \in Sessions(D)
    BY DEF SessionInv, Whole
  <1>3. SUFFICES /\ /\ stage' \in {"edge", "reset", "selfid", "ready"} /\ gen' \in Nat
                    /\ due' \in BOOLEAN
                    /\ layout' \in Layouts \cup {[n \in Nodes |-> Absent]}
                    /\ stage' # "reset" \/ due' => gen' >= 1
                 /\ session' # NoSession => SessionOK(session', gen', stage', layout')
    BY DEF SessionInv
  <1>4. CASE SessionBlock
    <2>1. Outcome /\ UNCHANGED bus
      BY <1>4, BlockOutcome
    <2>2. session' # NoSession => SessionOK(session', gen, stage, layout)
      BY <2>1 DEF Outcome, Untouched
    <2>. HIDE DEF SessionOK
    <2>. QED BY <1>1, <2>1, <2>2
  <1>5. CASE Interrupt
    <2>1. /\ stage # "reset" /\ stage' = "edge" /\ UNCHANGED <<gen, layout, due>>
          /\ session' = IF session # NoSession /\ stage # "edge"
                        THEN [session EXCEPT !.late = FALSE] ELSE session
      BY <1>5 DEF Interrupt
    <2>2. session' # NoSession => SessionOK(session', gen, "edge", layout)
      <3>. SUFFICES ASSUME session' # NoSession
                    PROVE  SessionOK(session', gen, "edge", layout)
        OBVIOUS
      <3>1. session # NoSession
        BY <2>1
      <3>2. /\ session' \in Sessions(D) /\ session'.scan = session.scan
            /\ session'.gen = session.gen /\ session'.inflight = session.inflight
        BY <2>1, <3>1, <1>2 DEF Sessions
      <3>3. session'.begun = session.begun /\ session'.roms = session.roms
        BY <2>1, <3>1, <1>2 DEF Sessions
      <3>4. Whole(session', gen, "edge", layout)
        BY <3>1, <3>2, <3>3, <1>1, <1>2, Rebase
      <3>5. Untouched(session') /\ Moving(session', gen)
        BY <3>1, <3>2, <3>3, <1>2, KeepsMoving
      <3>. QED BY <3>4, <3>5
    <2>. HIDE DEF SessionOK
    <2>. QED BY <1>1, <2>1, <2>2
  <1>6. CASE BeginNewResetCycle
    <2>1. /\ stage = "edge" /\ stage' = "reset" /\ UNCHANGED <<gen, layout, due>> /\ ~due
          /\ session' = IF gen > 0 /\ session # NoSession /\ session.begun /\ session.gen = gen
                        THEN NoSession ELSE session
      BY <1>6 DEF BeginNewResetCycle, Abort, IsBusyFor, Scanning
    <2>2. session' # NoSession => SessionOK(session', gen, "reset", layout)
      <3>. SUFFICES ASSUME session' # NoSession
                    PROVE  SessionOK(session', gen, "reset", layout)
        OBVIOUS
      <3>1. /\ session' = session /\ session # NoSession /\ ~(session.begun /\ session.gen = gen)
        BY <1>1, <2>1
      <3>2. Quiet(session)
        BY <3>1, <1>2 DEF Whole, NodeOK, RomsOK, Quiet
      <3>3. Whole(session, gen, "reset", layout)
        BY <3>1, <3>2, <1>1, <1>2, Rebase
      <3>. QED BY <3>1, <3>3, <1>2
    <2>. HIDE DEF SessionOK
    <2>. QED BY <1>1, <2>1, <2>2
  <1>7. CASE SelfIDComplete
    <2>1. /\ stage = "reset" /\ stage' = "selfid" /\ gen' = gen + 1 /\ due' = TRUE
          /\ layout' \in Layouts /\ session' = session
      BY <1>7 DEF SelfIDComplete
    <2>2. session' # NoSession => SessionOK(session', gen', "selfid", layout')
      <3>. SUFFICES ASSUME session # NoSession
                    PROVE  SessionOK(session, gen + 1, "selfid", layout')
        BY <2>1
      <3>1. Quiet(session) /\ session.gen \in 1..gen
        BY <2>1, <1>2 DEF Whole, NodeOK, RomsOK, Quiet
      <3>2. session.gen # gen + 1 /\ gen + 1 \in Nat /\ gen <= gen + 1
        BY <3>1, <1>1
      <3>3. Whole(session, gen + 1, "selfid", layout')
        BY <3>1, <3>2, <1>1, <1>2, Rebase
      <3>4. Untouched(session) /\ Moving(session, gen + 1)
        BY <3>2, <1>2 DEF Moving
      <3>. QED BY <3>3, <3>4
    <2>. HIDE DEF SessionOK
    <2>. QED BY <1>1, <2>1, <2>2
  <1>8. CASE OnTopologyReady
    <2>1. /\ due /\ due' = FALSE /\ stage' = (IF stage = "selfid" THEN "ready" ELSE stage)
          /\ UNCHANGED <<gen, layout>>
          /\ \/ StartScan({n \in Nodes : layout[n] # Absent})
             \/ stage = "edge" /\ UNCHANGED session
      BY <1>8 DEF OnTopologyReady
    <2>2. session' # NoSession => SessionOK(session', gen, stage', layout)
      <3>1. CASE StartScan({n \in Nodes : layout[n] # Absent})
        <4>. DEFINE targets == {n \in Nodes : layout[n] # Absent}
        <4>1. targets \subseteq Nodes /\ StartScan(targets) /\ gen >= 1
          BY <3>1, <2>1, <1>1
        <4>2. stage' # "reset" \/ stage' = stage
          BY <2>1
        <4>. HIDE DEF targets
        <4>. QED BY <4>1, <4>2, NewSession
      <3>2. CASE stage = "edge" /\ UNCHANGED session
        BY <3>2, <2>1, <1>2
      <3>. QED BY <2>1, <3>1, <3>2
    <2>. HIDE DEF SessionOK
    <2>. QED BY <1>1, <2>1, <2>2
  <1>9. CASE TriggerROMRead
    <2>1. stage # "reset" /\ UNCHANGED bus /\ \E n \in Nodes \cup {Local} : StartScan({n} \ {Local})
      BY <1>9 DEF TriggerROMRead, TopologyKnown
    <2>2. PICK n \in Nodes \cup {Local} : StartScan({n} \ {Local})
      BY <2>1
    <2>3. {n} \ {Local} \subseteq Nodes /\ gen >= 1
      BY <2>1, <1>1
    <2>4. SessionOK(session', gen, stage, layout)
      BY <2>1, <2>2, <2>3, NewSession
    <2>. HIDE DEF SessionOK
    <2>. QED BY <1>1, <2>1, <2>4
  <1>10. CASE UNCHANGED <<bus, session>>
    BY <1>1, <1>2, <1>10
  <1>11. SessionBlock \/ Interrupt \/ BeginNewResetCycle \/ SelfIDComplete \/ OnTopologyReady
           \/ TriggerROMRead \/ UNCHANGED <<bus, session>>
    BY DEF Next, Progress, SessionBlock, TakeRoute
  <1>. QED BY <1>4, <1>5, <1>6, <1>7, <1>8, <1>9, <1>10, <1>11

\* The session invariant holds throughout.
LEMMA SessionAlways == Spec => []SessionInv
  <1>1. Init => SessionInv
    BY SessionInit
  <1>2. SessionInv /\ [Next]_vars => SessionInv'
    BY SessionStep
  <1>. QED BY <1>1, <1>2, PTL DEF Spec

\* Of a scan in its own generation: inflight_ counts the nodes being read, within
\* params_.maxInflight, each waits for one result, a waiting one for one retry, and
\* a result or a retry is to come (ROMScanSession::Pump, ScheduleConfigROMReadyRetry),
\* for every number of nodes, of retries and of resets.
THEOREM NoNodeStrandedAlways == Spec => []NoNodeStranded
  <1>1. SessionInv => NoNodeStranded
    <2>. SUFFICES ASSUME SessionInv, Scanning, session.gen = gen
                  PROVE  LET scan == session.scan
                         IN /\ session.inflight = Cardinality({n \in DOMAIN scan : scan[n].st \in Reading})
                            /\ session.inflight <= MaxInflight
                            /\ \A n \in DOMAIN scan :
                                  /\ scan[n].out = IF scan[n].st \in Reading THEN 1 ELSE 0
                                  /\ scan[n].timers = IF scan[n].st = "Waiting" THEN 1 ELSE 0
                            /\ \E n \in DOMAIN scan : scan[n].out + scan[n].timers > 0
      BY DEF NoNodeStranded
    <2>1. Whole(session, gen, stage, layout) /\ Moving(session, gen) /\ session.begun
      BY DEF SessionInv, Scanning
    <2>2. session.inflight = Cardinality(ReadingNodes(session)) /\ session.inflight <= MaxInflight
      BY <2>1 DEF Whole, Counted
    <2>3. \A n \in DOMAIN session.scan : NodeOK(session, n, session.scan[n], gen, stage, layout)
      BY <2>1 DEF Whole
    <2>4. \A n \in DOMAIN session.scan :
             /\ session.scan[n].out = IF session.scan[n].st \in Reading THEN 1 ELSE 0
             /\ session.scan[n].timers = IF session.scan[n].st = "Waiting" THEN 1 ELSE 0
      BY <2>3 DEF NodeOK
    <2>. QED BY <2>1, <2>2, <2>4 DEF ReadingNodes, Moving
  <1>. QED BY <1>1, SessionAlways, PTL

-----------------------------------------------------------------------------
(* The tables: what the end of a scan does *)

\* The parts of OnDiscoveryScanComplete.
Twice(s) == DuplicateGuids(s.roms)
Once(s) == {r \in s.roms : r.guid \notin Twice(s) \cup {ZeroGuid}}
Found(s) == {r.guid : r \in Once(s)}
RomOf(s, g) == CHOOSE r \in Once(s) : r.guid = g
Lost(s) ==
    IF IsZeroRomScanInconclusive(s) THEN {} ELSE {g \in Devices \ Found(s) : devices[g].st # "None"}
Gone(s) == {g \in Lost(s) : Terminates(devices[g], missing[g])}
Rebound(s) == {r \in Once(s) : devices[r.guid].st # "Ready"}

\* The records of the registry and the FWDevice objects in generation k.
Records(k) == [known : BOOLEAN, state : {"Identified", "Quarantined"}, inc : Nat, epoch : Nat,
               gen : 0..k, node : Nodes \cup {NoNode}]
Objects(k) == [st : {"None", "Ready", "Suspended"}, gen : 0..k, node : Nodes \cup {NoNode}, sbp2 : BOOLEAN]

\* What becomes of the tables, GUID by GUID.
LEMMA ScanEffect ==
    ASSUME NEW s, OnDiscoveryScanComplete(s), NEW g \in Devices
    PROVE  /\ g \in Found(s) => g \notin Lost(s) /\ g \notin Twice(s)
           /\ g \in Found(s) => registry'[g] = UpsertFromROM(registry[g], s.gen, RomOf(s, g))
           /\ g \in Gone(s) => registry'[g] = RetireDevice(registry[g])
           /\ g \in Twice(s) \ Gone(s) => registry'[g] = MarkDuplicateGuid(registry[g])
           /\ g \notin Found(s) \cup Gone(s) \cup Twice(s) => registry'[g] = registry[g]
           /\ g \in Found(s) => devices'[g] = UpsertDevice(devices[g], g, s.gen, RomOf(s, g))
           /\ g \in Lost(s) => devices'[g] = MarkDeviceLost(devices[g], missing[g])
           /\ g \notin Found(s) \cup Lost(s) => devices'[g] = devices[g]
           /\ missing'[g] = IF g \in Found(s) \cup Gone(s) THEN 0
                            ELSE IF g \in Lost(s) THEN missing[g] + 1 ELSE missing[g]
  <1>1. /\ registry' = [h \in Devices |->
             CASE h \in Found(s) -> UpsertFromROM(registry[h], s.gen, RomOf(s, h))
               [] h \in Gone(s) -> RetireDevice(registry[h])
               [] h \in Twice(s) \ Gone(s) -> MarkDuplicateGuid(registry[h])
               [] OTHER -> registry[h]]
    BY DEF OnDiscoveryScanComplete, Twice, Once, Found, RomOf, Lost, Gone
  <1>2. devices' = [h \in Devices |->
             CASE h \in Found(s) -> UpsertDevice(devices[h], h, s.gen, RomOf(s, h))
               [] h \in Lost(s) -> MarkDeviceLost(devices[h], missing[h])
               [] OTHER -> devices[h]]
    BY DEF OnDiscoveryScanComplete, Twice, Once, Found, RomOf, Lost, Gone
  <1>3. missing' = [h \in Devices |-> IF h \in Found(s) \cup Gone(s) THEN 0
                                      ELSE IF h \in Lost(s) THEN missing[h] + 1 ELSE missing[h]]
    BY DEF OnDiscoveryScanComplete, Twice, Once, Found, RomOf, Lost, Gone
  <1>4. g \in Found(s) => g \notin Lost(s) /\ g \notin Twice(s)
    BY DEF Found, Lost, Once
  <1>5. Gone(s) \subseteq Lost(s)
    BY DEF Gone
  <1>6. /\ g \in Found(s) => registry'[g] = UpsertFromROM(registry[g], s.gen, RomOf(s, g))
        /\ g \in Gone(s) => registry'[g] = RetireDevice(registry[g])
        /\ g \in Twice(s) \ Gone(s) => registry'[g] = MarkDuplicateGuid(registry[g])
        /\ g \notin Found(s) \cup Gone(s) \cup Twice(s) => registry'[g] = registry[g]
    BY <1>1, <1>4, <1>5
  <1>7. /\ g \in Found(s) => devices'[g] = UpsertDevice(devices[g], g, s.gen, RomOf(s, g))
        /\ g \in Lost(s) => devices'[g] = MarkDeviceLost(devices[g], missing[g])
        /\ g \notin Found(s) \cup Lost(s) => devices'[g] = devices[g]
    BY <1>2, <1>4
  <1>8. missing'[g] = IF g \in Found(s) \cup Gone(s) THEN 0
                      ELSE IF g \in Lost(s) THEN missing[g] + 1 ELSE missing[g]
    BY <1>3
  <1>. QED BY <1>4, <1>6, <1>7, <1>8

\* Two members make two.
LEMMA AtMostOne ==
    ASSUME NEW S, IsFiniteSet(S), ~(Cardinality(S) > 1), NEW a \in S, NEW b \in S
    PROVE  a = b
  <1>. SUFFICES ASSUME a # b
                PROVE  FALSE
    OBVIOUS
  <1>1. IsFiniteSet({a}) /\ Cardinality({a}) = 1
    BY FS_Singleton
  <1>2. Cardinality({a} \cup {b}) = 2
    BY <1>1, FS_AddElement
  <1>3. {a} \cup {b} \in SUBSET S
    OBVIOUS
  <1>4. Cardinality({a} \cup {b}) <= Cardinality(S)
    BY <1>3, FS_Subset
  <1>5. Cardinality(S) \in Nat
    BY FS_CardinalityType
  <1>. QED BY <1>2, <1>4, <1>5

\* The ROM that a scan found for a GUID.
LEMMA RomFacts ==
    ASSUME NEW s, NEW k \in Nat, NEW e, NEW l, Whole(s, k, e, l)
    PROVE  /\ \A r \in Once(s) : /\ r.guid \in Devices /\ r.node \in Nodes /\ l[r.node] = r.guid
                                 /\ r.full \in BOOLEAN
                                 /\ RomOf(s, r.guid) = r /\ s.gen = k /\ e # "reset"
           /\ \A g \in Found(s) : RomOf(s, g) \in Once(s) /\ RomOf(s, g).guid = g
           /\ s.gen \in 1..k
  <1>1. s.roms \subseteq Roms /\ s.gen \in 1..k /\ RomsOK(s, k, e, l)
    BY DEF Whole, Sessions
  <1>2. IsFiniteSet(s.roms)
    <2>. DEFINE f == [r \in s.roms |-> r.node]
    <2>1. f \in [s.roms -> Nodes]
      BY <1>1 DEF Roms
    <2>2. \A r, q \in s.roms : f[r] = f[q] => r = q
      BY <1>1 DEF RomsOK
    <2>3. f \in Injection(s.roms, Nodes)
      BY <2>1, <2>2, Zenon DEF Injection, IsInjective
    <2>. QED BY <2>3, FS_Injection, DiscoveryAssumption
  <1>3. \A r \in Once(s) : r.guid \in Devices /\ r.node \in Nodes /\ l[r.node] = r.guid /\ s.gen = k /\ e # "reset"
    BY <1>1 DEF Once, Roms, RomsOK
  <1>4. \A r \in Once(s) : r.full \in BOOLEAN
    BY <1>1 DEF Once, Roms
  <1>5. \A g \in Devices \ Twice(s), r, q \in s.roms : r.guid = g /\ q.guid = g => r = q
    <2>. SUFFICES ASSUME NEW g \in Devices \ Twice(s), NEW r \in s.roms, NEW q \in s.roms,
                         r.guid = g, q.guid = g
                  PROVE  r = q
      OBVIOUS
    <2>. DEFINE S == {x \in s.roms : x.guid = g}
    <2>1. ~(Cardinality(S) > 1)
      BY DEF Twice, DuplicateGuids
    <2>2. IsFiniteSet(S)
      BY <1>2, FS_Subset
    <2>3. r \in S /\ q \in S
      OBVIOUS
    <2>. HIDE DEF S
    <2>. QED BY <2>1, <2>2, <2>3, AtMostOne
  <1>6. \A g \in Found(s) : RomOf(s, g) \in Once(s) /\ RomOf(s, g).guid = g
    <2>. TAKE g \in Found(s)
    <2>1. \E r \in Once(s) : r.guid = g
      BY DEF Found
    <2>. HIDE DEF Once
    <2>. QED BY <2>1 DEF RomOf
  <1>7. \A r \in Once(s) : RomOf(s, r.guid) = r
    <2>. TAKE r \in Once(s)
    <2>1. r.guid \in Found(s)
      BY DEF Found
    <2>2. RomOf(s, r.guid) \in Once(s) /\ RomOf(s, r.guid).guid = r.guid
      BY <2>1, <1>6
    <2>3. r.guid \notin Twice(s) /\ r \in s.roms /\ RomOf(s, r.guid) \in s.roms
      BY <2>2 DEF Once
    <2>. QED BY <2>2, <2>3, <1>3, <1>5
  <1>. QED BY <1>1, <1>3, <1>4, <1>6, <1>7

\* What the methods of the registry make of a record.
LEMMA RegistryMethods ==
    ASSUME NEW k \in Nat, NEW d \in Records(k)
    PROVE  /\ MarkDuplicateGuid(d) \in Records(k) /\ MarkDuplicateGuid(d).known = d.known
           /\ RetireDevice(d) \in Records(k) /\ RetireDevice(d).known = FALSE
  <1>1. MarkDuplicateGuid(d) \in Records(k) /\ MarkDuplicateGuid(d).known = d.known
    BY DEF MarkDuplicateGuid, Records
  <1>2. NoRecord \in Records(k) /\ NoRecord.known = FALSE
    BY DEF NoRecord, Records
  <1>. DEFINE n == NoRecord
  <1>3. RetireDevice(d) = [n EXCEPT !.inc = d.inc, !.epoch = d.epoch]
    BY DEF RetireDevice
  <1>. HIDE DEF n
  <1>4. n \in Records(k) /\ n.known = FALSE
    BY <1>2 DEF n
  <1>5. RetireDevice(d) \in Records(k)
    BY <1>3, <1>4 DEF Records
  <1>6. RetireDevice(d).known = n.known
    BY <1>3, <1>4 DEF Records
  <1>. QED BY <1>1, <1>4, <1>5, <1>6

\* The record of a device that was found.
LEMMA UpsertRecord ==
    ASSUME NEW k \in Nat, NEW d \in Records(k), NEW rom, rom.node \in Nodes
    PROVE  /\ UpsertFromROM(d, k, rom) \in Records(k)
           /\ UpsertFromROM(d, k, rom).known = TRUE /\ HasLiveRoute(UpsertFromROM(d, k, rom))
           /\ UpsertFromROM(d, k, rom).gen = k /\ UpsertFromROM(d, k, rom).node = rom.node
  <1>. DEFINE new == ~d.known
              moved == d.gen # k \/ d.node # rom.node \/ ~HasLiveRoute(d)
              i == IF new THEN d.inc + 1 ELSE d.inc
              e == IF new \/ moved THEN d.epoch + 1 ELSE d.epoch
              r == [known |-> TRUE, state |-> "Identified", inc |-> i, epoch |-> e,
                    gen |-> k, node |-> rom.node]
  <1>1. UpsertFromROM(d, k, rom) = r
    BY DEF UpsertFromROM
  <1>2. i \in Nat /\ e \in Nat /\ k \in 0..k
    BY DEF Records
  <1>. HIDE DEF i, e
  <1>3. r \in Records(k)
    BY <1>2 DEF Records
  <1>4. r.known = TRUE /\ r.gen = k /\ r.node = rom.node /\ r.state = "Identified"
    OBVIOUS
  <1>5. rom.node # NoNode
    BY DiscoveryAssumption DEF NoNode
  <1>. HIDE DEF r
  <1>. QED BY <1>1, <1>3, <1>4, <1>5 DEF HasLiveRoute

\* What the methods of the manager make of an FWDevice.
LEMMA ManagerMethods ==
    ASSUME NEW k \in Nat, NEW d \in Objects(k), NEW m
    PROVE  /\ Suspended(d) \in Objects(k) /\ Suspended(d).st # "Ready"
           /\ Suspended(d).st = "None" <=> d.st = "None"
           /\ MarkDeviceLost(d, m) \in Objects(k) /\ MarkDeviceLost(d, m).st # "Ready"
           /\ d.st # "None" => (MarkDeviceLost(d, m).st = "None" <=> Terminates(d, m))
  <1>1. Suspended(d) \in Objects(k)
    BY DEF Suspended, Objects
  <1>2. Suspended(d).st # "Ready" /\ (Suspended(d).st = "None" <=> d.st = "None")
    BY DEF Suspended, Objects
  <1>3. NoDevice \in Objects(k) /\ NoDevice.st = "None"
    BY DEF NoDevice, Objects
  <1>4. /\ MarkDeviceLost(d, m) \in Objects(k) /\ MarkDeviceLost(d, m).st # "Ready"
        /\ d.st # "None" => (MarkDeviceLost(d, m).st = "None" <=> Terminates(d, m))
    BY <1>1, <1>2, <1>3 DEF MarkDeviceLost, TerminateDevice
  <1>. QED BY <1>1, <1>2, <1>4

\* The object of a device that was found: a published one stays as it is.
LEMMA UpsertObject ==
    ASSUME NEW k \in Nat, NEW d \in Objects(k), NEW g, NEW rom, rom.node \in Nodes, rom.full \in BOOLEAN
    PROVE  /\ UpsertDevice(d, g, k, rom) \in Objects(k) /\ UpsertDevice(d, g, k, rom).st = "Ready"
           /\ d.st = "Ready" => UpsertDevice(d, g, k, rom) = d
           /\ d.st # "Ready" => /\ UpsertDevice(d, g, k, rom).gen = k
                                /\ UpsertDevice(d, g, k, rom).node = rom.node
  <1>1. k \in 0..k
    OBVIOUS
  <1>2. CASE d.st = "None"
    <2>1. UpsertDevice(d, g, k, rom)
            = [st |-> "Ready", gen |-> k, node |-> rom.node, sbp2 |-> g \in Storage /\ rom.full]
      BY <1>2 DEF UpsertDevice, CreateAndRegisterDevice
    <2>. QED BY <1>1, <1>2, <2>1 DEF Objects
  <1>3. CASE d.st = "Ready"
    BY <1>3 DEF UpsertDevice, ResumeExistingDevice
  <1>4. CASE d.st = "Suspended"
    <2>1. UpsertDevice(d, g, k, rom) = [d EXCEPT !.st = "Ready", !.gen = k, !.node = rom.node]
      BY <1>4 DEF UpsertDevice, ResumeExistingDevice
    <2>2. UpsertDevice(d, g, k, rom) \in Objects(k)
      BY <1>1, <2>1 DEF Objects
    <2>3. /\ UpsertDevice(d, g, k, rom).st = "Ready" /\ UpsertDevice(d, g, k, rom).gen = k
          /\ UpsertDevice(d, g, k, rom).node = rom.node
      BY <2>1 DEF Objects
    <2>. QED BY <1>4, <2>2, <2>3
  <1>. QED BY <1>2, <1>3, <1>4 DEF Objects

-----------------------------------------------------------------------------
(* The tables: the invariant *)

\* The types of the tables in generation k.
TablesTyped(k) ==
    /\ registry \in [Devices -> Records(k)] /\ devices \in [Devices -> Objects(k)]
    /\ missing \in [Devices -> 0..(MissingTerminateThreshold - 1)]

\* The object d and the record r of GUID g, in generation k, stage e and layout l,
\* c saying whether a scan completed outside its own generation.  A published device
\* that claims the present generation is at the node it claims: so a rebinding finds
\* no entry of another published device in the index.  And unless c, no published
\* device outlives the reset edge, and its record has the same live route.
BoundOK(g, d, r, k, e, l, c) ==
    d.st = "Ready" =>
        /\ d.node \in Nodes /\ d.gen >= 1
        /\ d.gen = k => l[d.node] = g
        /\ ~c => /\ e \in {"selfid", "ready"} /\ d.gen = k
                 /\ Cardinality({n \in Nodes : l[n] = g}) < 2 =>
                       HasLiveRoute(r) /\ r.gen = k /\ r.node = d.node

TablesInv ==
    /\ TablesTyped(gen) /\ crossed \in BOOLEAN
    /\ TablesAgree
    /\ \A g \in Devices : BoundOK(g, devices[g], registry[g], gen, stage, layout, crossed)

\* What the end of a scan does to the device and the record of one GUID.
LEMMA ScanOne ==
    ASSUME SessionInv, TablesInv, NEW s, Whole(s, gen, stage, layout), OnDiscoveryScanComplete(s),
           NEW g \in Devices
    PROVE  /\ registry'[g] \in Records(gen) /\ devices'[g] \in Objects(gen)
           /\ missing'[g] \in 0..(MissingTerminateThreshold - 1)
           /\ registry'[g].known <=> devices'[g].st # "None"
           /\ BoundOK(g, devices'[g], registry'[g], gen, stage, layout, crossed')
           /\ devices'[g].st = "Ready" <=> g \in Found(s) \/ (devices[g].st = "Ready" /\ g \notin Lost(s))
           /\ devices[g].st = "Ready" /\ g \notin Lost(s) => devices'[g] = devices[g]
           /\ g \in Found(s) /\ devices[g].st # "Ready" =>
                 devices'[g].gen = gen /\ devices'[g].node = RomOf(s, g).node
  <1>. DEFINE d == devices[g]
              r == registry[g]
              m == missing[g]
              rom == RomOf(s, g)
  <1>1. /\ d \in Objects(gen) /\ r \in Records(gen) /\ m \in 0..(MissingTerminateThreshold - 1)
        /\ r.known <=> d.st # "None"
        /\ BoundOK(g, d, r, gen, stage, layout, crossed)
        /\ gen \in Nat
    BY DEF TablesInv, TablesTyped, TablesAgree, SessionInv
  <1>2. /\ g \in Found(s) => g \notin Lost(s) /\ g \notin Twice(s)
        /\ g \in Found(s) => registry'[g] = UpsertFromROM(r, s.gen, rom)
        /\ g \in Gone(s) => registry'[g] = RetireDevice(r)
        /\ g \in Twice(s) \ Gone(s) => registry'[g] = MarkDuplicateGuid(r)
        /\ g \notin Found(s) \cup Gone(s) \cup Twice(s) => registry'[g] = r
    BY ScanEffect, Zenon
  <1>3. /\ g \in Found(s) => devices'[g] = UpsertDevice(d, g, s.gen, rom)
        /\ g \in Lost(s) => devices'[g] = MarkDeviceLost(d, m)
        /\ g \notin Found(s) \cup Lost(s) => devices'[g] = d
    BY ScanEffect, Zenon
  <1>4. missing'[g] = IF g \in Found(s) \cup Gone(s) THEN 0 ELSE IF g \in Lost(s) THEN m + 1 ELSE m
    BY ScanEffect, Zenon
  <1>5. crossed' = (crossed \/ s.gen # gen \/ stage \in {"edge", "reset"})
    BY DEF OnDiscoveryScanComplete
  <1>6. g \in Lost(s) => d.st # "None"
    BY DEF Lost
  <1>7. g \in Gone(s) <=> g \in Lost(s) /\ Terminates(d, m)
    BY DEF Gone
  <1>8. g \in Found(s) => /\ rom.node \in Nodes /\ rom.full \in BOOLEAN /\ layout[rom.node] = g
                          /\ s.gen = gen /\ stage # "reset"
    BY <1>1, RomFacts
  <1>. HIDE DEF d, r, m, rom
  <1>9. missing'[g] \in 0..(MissingTerminateThreshold - 1)
    BY <1>1, <1>4, <1>7 DEF Terminates, MissingTerminateThreshold
  <1>10. CASE g \in Found(s)
    <2>1. registry'[g] = UpsertFromROM(r, gen, rom) /\ devices'[g] = UpsertDevice(d, g, gen, rom)
      BY <1>2, <1>3, <1>8, <1>10
    <2>2. /\ registry'[g] \in Records(gen) /\ registry'[g].known = TRUE
          /\ HasLiveRoute(registry'[g]) /\ registry'[g].gen = gen /\ registry'[g].node = rom.node
      <3>. DEFINE x == UpsertFromROM(r, gen, rom)
      <3>1. x \in Records(gen)
        BY <1>1, <1>8, <1>10, UpsertRecord
      <3>2. x.known = TRUE /\ HasLiveRoute(x)
        <4>1. HasLiveRoute(x)
          BY <1>1, <1>8, <1>10, UpsertRecord
        <4>. QED BY <4>1 DEF UpsertFromROM
      <3>3. x.gen = gen /\ x.node = rom.node
        BY DEF UpsertFromROM
      <3>. HIDE DEF x
      <3>4. registry'[g] = x
        BY <2>1 DEF x
      <3>. QED BY <3>1, <3>2, <3>3, <3>4
    <2>3. /\ devices'[g] \in Objects(gen) /\ devices'[g].st = "Ready"
          /\ d.st = "Ready" => devices'[g] = d
          /\ d.st # "Ready" => devices'[g].gen = gen /\ devices'[g].node = rom.node
      BY <2>1, <1>1, <1>8, <1>10, UpsertObject
    <2>4. gen >= 1
      BY <1>1, <1>8, <1>10, RomFacts
    <2>5. BoundOK(g, devices'[g], registry'[g], gen, stage, layout, crossed')
      <3>1. CASE d.st # "Ready"
        <4>1. ~crossed' => stage \in {"selfid", "ready"}
          BY <1>5 DEF SessionInv
        <4>. QED BY <3>1, <4>1, <2>2, <2>3, <2>4, <1>8, <1>10 DEF BoundOK
      <3>2. CASE d.st = "Ready"
        <4>1. devices'[g] = d /\ (~crossed' => ~crossed)
          BY <3>2, <2>3, <1>5
        <4>2. d.node \in Nodes /\ d.gen >= 1 /\ (d.gen = gen => layout[d.node] = g)
          BY <3>2, <1>1 DEF BoundOK
        <4>3. ASSUME ~crossed'
              PROVE  /\ stage \in {"selfid", "ready"} /\ d.gen = gen
                     /\ Cardinality({n \in Nodes : layout[n] = g}) < 2 => rom.node = d.node
          <5>1. stage \in {"selfid", "ready"} /\ d.gen = gen
            BY <3>2, <4>1, <4>3, <1>1 DEF BoundOK
          <5>2. ASSUME Cardinality({n \in Nodes : layout[n] = g}) < 2
                PROVE  rom.node = d.node
            <6>. DEFINE S == {n \in Nodes : layout[n] = g}
            <6>1. S \subseteq Nodes /\ rom.node \in S /\ d.node \in S
              BY <4>2, <5>1, <1>8, <1>10
            <6>2. IsFiniteSet(S) /\ Cardinality(S) \in Nat /\ Cardinality(S) < 2
              BY <6>1, <5>2, NodesFinite
            <6>. HIDE DEF S
            <6>3. ~(Cardinality(S) > 1)
              BY <6>2
            <6>. QED BY <6>1, <6>2, <6>3, AtMostOne
          <5>. QED BY <5>1, <5>2
        <4>. QED BY <4>1, <4>2, <4>3, <2>2 DEF BoundOK
      <3>. QED BY <3>1, <3>2
    <2>. QED BY <2>2, <2>3, <2>5, <1>2, <1>9, <1>10 DEF d, rom
  <1>11. CASE g \in Lost(s)
    <2>1. devices'[g] = MarkDeviceLost(d, m) /\ g \notin Found(s)
      BY <1>2, <1>3, <1>11
    <2>2. /\ devices'[g] \in Objects(gen) /\ devices'[g].st # "Ready"
          /\ devices'[g].st = "None" <=> Terminates(d, m)
      BY <2>1, <1>1, <1>6, <1>11, ManagerMethods
    <2>3. registry'[g] = RetireDevice(r) \/ (~Terminates(d, m) /\ (registry'[g] = MarkDuplicateGuid(r) \/ registry'[g] = r))
      BY <2>1, <1>2, <1>7, <1>11
    <2>4. Terminates(d, m) => registry'[g] = RetireDevice(r)
      BY <1>2, <1>7, <1>11
    <2>5. registry'[g] \in Records(gen)
      <3>1. RetireDevice(r) \in Records(gen) /\ MarkDuplicateGuid(r) \in Records(gen)
        BY <1>1, RegistryMethods
      <3>. QED BY <2>3, <3>1, <1>1
    <2>6. Terminates(d, m) => registry'[g].known = FALSE
      BY <2>4, <1>1, RegistryMethods
    <2>7. ~Terminates(d, m) => registry'[g].known = TRUE
      <3>1. ~Terminates(d, m) => registry'[g] = MarkDuplicateGuid(r) \/ registry'[g] = r
        BY <2>1, <1>2, <1>7, <1>11
      <3>2. r.known = TRUE /\ MarkDuplicateGuid(r).known = r.known
        BY <1>1, <1>6, <1>11, RegistryMethods DEF Records
      <3>. QED BY <3>1, <3>2
    <2>8. BoundOK(g, devices'[g], registry'[g], gen, stage, layout, crossed')
      BY <2>2 DEF BoundOK
    <2>. QED BY <2>1, <2>2, <2>5, <2>6, <2>7, <2>8, <1>9, <1>11
  <1>12. CASE g \notin Found(s) /\ g \notin Lost(s)
    <2>1. devices'[g] = d /\ (registry'[g] = r \/ (registry'[g] = MarkDuplicateGuid(r) /\ g \in Twice(s)))
      BY <1>2, <1>3, <1>7, <1>12
    <2>2. registry'[g] \in Records(gen) /\ registry'[g].known = r.known
      <3>1. MarkDuplicateGuid(r) \in Records(gen) /\ MarkDuplicateGuid(r).known = r.known
        BY <1>1, RegistryMethods
      <3>. QED BY <2>1, <3>1, <1>1
    <2>3. d.st = "Ready" => registry'[g] = r
      <3>1. d.st = "Ready" => s.roms = {}
        BY <1>12 DEF Lost, IsZeroRomScanInconclusive, d
      <3>2. s.roms = {} => g \notin Twice(s)
        <4>. SUFFICES ASSUME s.roms = {}
                      PROVE  ~(Cardinality({q \in s.roms : q.guid = g}) > 1)
          BY DEF Twice, DuplicateGuids
        <4>1. {q \in s.roms : q.guid = g} = {}
          OBVIOUS
        <4>. QED BY <4>1, FS_EmptySet
      <3>. QED BY <2>1, <3>1, <3>2
    <2>4. BoundOK(g, devices'[g], registry'[g], gen, stage, layout, crossed')
      <3>1. CASE d.st # "Ready"
        BY <3>1, <2>1 DEF BoundOK
      <3>2. CASE d.st = "Ready"
        <4>1. devices'[g] = d /\ registry'[g] = r /\ (~crossed' => ~crossed)
          BY <3>2, <2>1, <2>3, <1>5
        <4>. QED BY <4>1, <1>1 DEF BoundOK
      <3>. QED BY <3>1, <3>2
    <2>. QED BY <2>1, <2>2, <2>4, <1>1, <1>9, <1>12 DEF d
  <1>. QED BY <1>10, <1>11, <1>12

\* The index after the end of a scan.  A rebinding replaces the entries at its
\* generation and node: none of them belongs to a published device, which would
\* have to be the one that is rebound.
LEMMA ScanIndex ==
    ASSUME SessionInv, TablesInv, NEW s, Whole(s, gen, stage, layout), OnDiscoveryScanComplete(s)
    PROVE  index' = {<<devices'[g].gen, devices'[g].node, g>> :
                        g \in {h \in Devices : devices'[h].st = "Ready"}}
  <1>. DEFINE E == UpdateOperationalIndex(index, s.gen, Rebound(s))
              New == {<<devices'[g].gen, devices'[g].node, g>> :
                         g \in {h \in Devices : devices'[h].st = "Ready"}}
  <1>1. index' = {e \in E : e[3] \notin Lost(s)}
    BY DEF OnDiscoveryScanComplete, Twice, Once, Found, RomOf, Lost, Gone, Rebound
  <1>2. index = {<<devices[g].gen, devices[g].node, g>> : g \in {h \in Devices : devices[h].st = "Ready"}}
    BY DEF TablesInv, TablesAgree
  <1>3. \A g \in Devices :
           /\ devices'[g].st = "Ready" <=> g \in Found(s) \/ (devices[g].st = "Ready" /\ g \notin Lost(s))
           /\ devices[g].st = "Ready" /\ g \notin Lost(s) => devices'[g] = devices[g]
           /\ g \in Found(s) /\ devices[g].st # "Ready" =>
                 devices'[g].gen = gen /\ devices'[g].node = RomOf(s, g).node
    BY ScanOne
  <1>4. /\ \A r \in Once(s) : /\ r.guid \in Devices /\ r.node \in Nodes /\ layout[r.node] = r.guid
                              /\ RomOf(s, r.guid) = r /\ s.gen = gen
        /\ \A g \in Found(s) : RomOf(s, g) \in Once(s) /\ RomOf(s, g).guid = g
    BY RomFacts DEF SessionInv
  <1>5. \A g \in Devices : devices[g].st = "Ready" => (devices[g].gen = gen => layout[devices[g].node] = g)
    BY DEF TablesInv, BoundOK
  <1>6. \A g \in Found(s) : g \notin Lost(s)
    BY DEF Lost
  <1>7. E = {e \in index : \A rom \in Rebound(s) : <<e[1], e[2]>> # <<s.gen, rom.node>>}
              \cup {<<s.gen, rom.node, rom.guid>> : rom \in Rebound(s)}
    BY DEF UpdateOperationalIndex
  <1>8. \A r \in Rebound(s) : r \in Once(s) /\ r.guid \in Found(s) /\ devices[r.guid].st # "Ready"
    BY DEF Rebound, Found
  <1>9. \A r \in Once(s) : devices[r.guid].st # "Ready" => r \in Rebound(s)
    BY DEF Rebound
  <1>. HIDE DEF E
  <1>10. index' \subseteq New
    <2>. SUFFICES ASSUME NEW e \in E, e[3] \notin Lost(s)
                  PROVE  e \in New
      BY <1>1
    <2>1. CASE e \in index
      <3>1. PICK h \in Devices : devices[h].st = "Ready" /\ e = <<devices[h].gen, devices[h].node, h>>
        BY <2>1, <1>2
      <3>2. h \notin Lost(s)
        BY <3>1
      <3>3. devices'[h] = devices[h] /\ devices'[h].st = "Ready"
        BY <3>1, <3>2, <1>3
      <3>. QED BY <3>1, <3>3
    <2>2. CASE e \notin index
      <3>1. PICK rom \in Rebound(s) : e = <<s.gen, rom.node, rom.guid>>
        BY <2>2, <1>7
      <3>. DEFINE h == rom.guid
      <3>2. /\ h \in Devices /\ h \in Found(s) /\ devices[h].st # "Ready" /\ RomOf(s, h) = rom
            /\ s.gen = gen
        BY <1>4, <1>8
      <3>. HIDE DEF h
      <3>3. devices'[h].st = "Ready" /\ devices'[h].gen = gen /\ devices'[h].node = rom.node
        BY <3>2, <1>3
      <3>4. e = <<devices'[h].gen, devices'[h].node, h>>
        BY <3>1, <3>2, <3>3 DEF h
      <3>. QED BY <3>2, <3>3, <3>4
    <2>. QED BY <2>1, <2>2
  <1>11. New \subseteq index'
    <2>. SUFFICES ASSUME NEW h \in Devices, devices'[h].st = "Ready"
                  PROVE  <<devices'[h].gen, devices'[h].node, h>> \in index'
      OBVIOUS
    <2>. DEFINE e == <<devices'[h].gen, devices'[h].node, h>>
    <2>1. e[1] = devices'[h].gen /\ e[2] = devices'[h].node /\ e[3] = h
      OBVIOUS
    <2>2. CASE devices[h].st = "Ready" /\ h \notin Lost(s)
      <3>1. devices'[h] = devices[h]
        BY <2>2, <1>3
      <3>2. e \in index
        BY <2>2, <3>1, <1>2
      <3>3. \A rom \in Rebound(s) : ~(devices[h].gen = s.gen /\ devices[h].node = rom.node)
        <4>. SUFFICES ASSUME NEW rom \in Rebound(s), devices[h].gen = s.gen, devices[h].node = rom.node
                      PROVE  FALSE
          OBVIOUS
        <4>1. s.gen = gen /\ layout[rom.node] = rom.guid /\ devices[rom.guid].st # "Ready"
          BY <1>4, <1>8
        <4>2. layout[devices[h].node] = h
          BY <2>2, <4>1, <1>5
        <4>. QED BY <2>2, <4>1, <4>2
      <3>4. \A rom \in Rebound(s) : <<e[1], e[2]>> # <<s.gen, rom.node>>
        BY <2>1, <3>1, <3>3
      <3>. HIDE DEF e
      <3>5. e \in E
        BY <3>2, <3>4, <1>7
      <3>6. e \in index'
        BY <2>1, <2>2, <3>5, <1>1
      <3>. QED BY <3>6 DEF e
    <2>3. CASE ~(devices[h].st = "Ready" /\ h \notin Lost(s))
      <3>1. h \in Found(s) /\ h \notin Lost(s) /\ devices[h].st # "Ready"
        BY <2>3, <1>3, <1>6
      <3>. DEFINE rom == RomOf(s, h)
      <3>2. rom \in Once(s) /\ rom.guid = h /\ s.gen = gen
        BY <3>1, <1>4
      <3>3. rom \in Rebound(s)
        BY <3>1, <3>2, <1>9
      <3>4. e = <<s.gen, rom.node, rom.guid>>
        BY <3>1, <3>2, <1>3
      <3>. HIDE DEF e, rom
      <3>5. e \in E
        BY <3>3, <3>4, <1>7
      <3>6. e \in index'
        BY <2>1, <3>1, <3>5, <1>1
      <3>. QED BY <3>6 DEF e
    <2>. QED BY <2>2, <2>3
  <1>. QED BY <1>10, <1>11

\* The tables at a reset edge.
LEMMA TablesEdge ==
    ASSUME SessionInv, TablesInv, Interrupt
    PROVE  TablesInv'
  <1>1. /\ gen' = gen /\ gen \in Nat /\ crossed' = crossed /\ index' = {}
        /\ missing' = [g \in Devices |-> 0]
        /\ registry' = InvalidateLiveMappingsForBusReset(registry)
        /\ devices' = [g \in Devices |-> Suspended(devices[g])]
    BY DEF Interrupt, SuspendAllForBusReset, SessionInv
  <1>2. \A g \in Devices : devices[g] \in Objects(gen) /\ registry[g] \in Records(gen)
    BY DEF TablesInv, TablesTyped
  <1>3. \A g \in Devices : /\ devices'[g] \in Objects(gen) /\ devices'[g].st # "Ready"
                           /\ devices'[g].st = "None" <=> devices[g].st = "None"
    BY <1>1, <1>2, ManagerMethods
  <1>4. \A g \in Devices : /\ registry'[g] \in Records(gen) /\ registry'[g].known = registry[g].known
    <2>. SUFFICES ASSUME NEW g \in Devices
                  PROVE  registry'[g] \in Records(gen) /\ registry'[g].known = registry[g].known
      OBVIOUS
    <2>. DEFINE r == registry[g]
                k == r.epoch + 1
                x == [r EXCEPT !.node = NoNode, !.epoch = k]
    <2>1. registry'[g] = r \/ registry'[g] = x
      BY <1>1 DEF InvalidateLiveMappingsForBusReset
    <2>2. r \in Records(gen) /\ k \in Nat
      BY <1>2 DEF Records
    <2>. HIDE DEF k, r
    <2>3. x \in Records(gen)
      BY <2>2 DEF Records
    <2>4. x.known = r.known
      BY <2>2 DEF Records
    <2>. HIDE DEF x
    <2>5. registry'[g] \in Records(gen) /\ registry'[g].known = r.known
      BY <2>1, <2>2, <2>3, <2>4
    <2>. QED BY <2>5 DEF r
  <1>5. TablesTyped(gen)'
    <2>1. missing' \in [Devices -> 0..(MissingTerminateThreshold - 1)]
      BY <1>1 DEF MissingTerminateThreshold
    <2>2. registry' \in [Devices -> Records(gen)]
      BY <1>1, <1>4 DEF InvalidateLiveMappingsForBusReset
    <2>3. devices' \in [Devices -> Objects(gen)]
      BY <1>1, <1>3
    <2>. QED BY <1>1, <2>1, <2>2, <2>3 DEF TablesTyped
  <1>6. TablesAgree'
    <2>1. \A g \in Devices : registry'[g].known <=> devices'[g].st # "None"
      BY <1>3, <1>4 DEF TablesInv, TablesAgree
    <2>2. {h \in Devices : devices'[h].st = "Ready"} = {}
      BY <1>3
    <2>3. {<<devices'[g].gen, devices'[g].node, g>> : g \in {h \in Devices : devices'[h].st = "Ready"}} = {}
      BY <2>2
    <2>. QED BY <1>1, <2>1, <2>3 DEF TablesAgree
  <1>7. \A g \in Devices : BoundOK(g, devices'[g], registry'[g], gen', stage', layout', crossed')
    BY <1>3 DEF BoundOK
  <1>. QED BY <1>1, <1>5, <1>6, <1>7 DEF TablesInv

\* The tables when a scan ends.
LEMMA TablesScan ==
    ASSUME SessionInv, TablesInv, NEW s, Whole(s, gen, stage, layout), OnDiscoveryScanComplete(s),
           UNCHANGED bus
    PROVE  TablesInv'
  <1>1. \A g \in Devices :
           /\ registry'[g] \in Records(gen) /\ devices'[g] \in Objects(gen)
           /\ missing'[g] \in 0..(MissingTerminateThreshold - 1)
           /\ registry'[g].known <=> devices'[g].st # "None"
           /\ BoundOK(g, devices'[g], registry'[g], gen, stage, layout, crossed')
    BY ScanOne
  <1>2. /\ registry' = [g \in Devices |-> registry'[g]] /\ devices' = [g \in Devices |-> devices'[g]]
        /\ missing' = [g \in Devices |-> missing'[g]]
    BY DEF OnDiscoveryScanComplete
  <1>3. TablesTyped(gen)'
    <2>1. registry' \in [Devices -> Records(gen)]
      BY <1>1, <1>2
    <2>2. devices' \in [Devices -> Objects(gen)]
      BY <1>1, <1>2
    <2>3. missing' \in [Devices -> 0..(MissingTerminateThreshold - 1)]
      BY <1>1, <1>2
    <2>. QED BY <2>1, <2>2, <2>3 DEF TablesTyped
  <1>4. TablesAgree'
    BY <1>1, ScanIndex DEF TablesAgree
  <1>5. crossed' \in BOOLEAN
    BY DEF OnDiscoveryScanComplete, TablesInv
  <1>. QED BY <1>1, <1>3, <1>4, <1>5 DEF TablesInv

\* The tables when only the bus moves.  With crossed false no published device is
\* there when a new generation begins.
LEMMA TablesBus ==
    ASSUME SessionInv, TablesInv, UNCHANGED <<tables, crossed>>,
           \/ UNCHANGED <<gen, layout>> /\ (stage' = stage \/ stage = "edge" \/ stage' = "ready")
           \/ stage = "reset" /\ gen' = gen + 1
    PROVE  TablesInv'
  <1>1. gen \in Nat /\ gen' \in Nat /\ gen <= gen'
    BY DEF SessionInv
  <1>2. TablesTyped(gen)'
    <2>1. Records(gen) \subseteq Records(gen') /\ Objects(gen) \subseteq Objects(gen')
      BY <1>1 DEF Records, Objects
    <2>2. TablesTyped(gen)
      BY DEF TablesInv
    <2>3. registry' \in [Devices -> Records(gen')] /\ devices' \in [Devices -> Objects(gen')]
      BY <2>1, <2>2 DEF TablesTyped
    <2>. QED BY <2>2, <2>3 DEF TablesTyped
  <1>3. TablesAgree'
    BY DEF TablesInv, TablesAgree
  <1>4. \A g \in Devices : BoundOK(g, devices'[g], registry'[g], gen', stage', layout', crossed')
    <2>. SUFFICES ASSUME NEW g \in Devices
                  PROVE  BoundOK(g, devices[g], registry[g], gen', stage', layout', crossed)
      OBVIOUS
    <2>1. /\ BoundOK(g, devices[g], registry[g], gen, stage, layout, crossed)
          /\ devices[g] \in Objects(gen)
      BY DEF TablesInv, TablesTyped
    <2>2. CASE UNCHANGED <<gen, layout>> /\ (stage' = stage \/ stage = "edge" \/ stage' = "ready")
      BY <2>1, <2>2 DEF BoundOK
    <2>3. CASE stage = "reset" /\ gen' = gen + 1
      <3>1. devices[g].gen \in 0..gen
        BY <2>1 DEF Objects
      <3>2. devices[g].gen # gen'
        BY <3>1, <1>1, <2>3
      <3>. QED BY <2>1, <2>3, <3>2 DEF BoundOK
    <2>. QED BY <2>2, <2>3
  <1>. QED BY <1>2, <1>3, <1>4 DEF TablesInv

\* Every step keeps the tables in agreement.
LEMMA TablesStep ==
    ASSUME SessionInv, TablesInv, [Next]_vars
    PROVE  TablesInv'
  <1>1. CASE SessionBlock
    <2>1. Outcome /\ UNCHANGED bus
      BY <1>1, BlockOutcome
    <2>2. \/ UNCHANGED <<tables, crossed>>
          \/ \E t : Whole(t, gen, stage, layout) /\ OnDiscoveryScanComplete(t)
      BY <2>1 DEF Outcome
    <2>3. CASE UNCHANGED <<tables, crossed>>
      BY <2>1, <2>3, TablesBus
    <2>4. ASSUME NEW t, Whole(t, gen, stage, layout), OnDiscoveryScanComplete(t)
          PROVE  TablesInv'
      BY <2>1, <2>4, TablesScan
    <2>. QED BY <2>2, <2>3, <2>4
  <1>2. CASE Interrupt
    BY <1>2, TablesEdge
  <1>3. CASE BeginNewResetCycle
    BY <1>3, TablesBus DEF BeginNewResetCycle
  <1>4. CASE SelfIDComplete
    BY <1>4, TablesBus DEF SelfIDComplete
  <1>5. CASE OnTopologyReady
    BY <1>5, TablesBus DEF OnTopologyReady
  <1>6. CASE TriggerROMRead
    BY <1>6, TablesBus DEF TriggerROMRead
  <1>7. CASE UNCHANGED <<bus, tables, crossed>>
    BY <1>7, TablesBus
  <1>8. SessionBlock \/ Interrupt \/ BeginNewResetCycle \/ SelfIDComplete \/ OnTopologyReady
           \/ TriggerROMRead \/ UNCHANGED <<bus, tables, crossed>>
    BY DEF Next, Progress, SessionBlock, TakeRoute
  <1>. QED BY <1>1, <1>2, <1>3, <1>4, <1>5, <1>6, <1>7, <1>8

\* The tables start empty.
LEMMA TablesInit == ASSUME Init PROVE TablesInv
  <1>1. NoRecord \in Records(0) /\ NoDevice \in Objects(0) /\ NoRecord.known = FALSE /\ NoDevice.st = "None"
    BY DEF NoRecord, NoDevice, Records, Objects
  <1>2. TablesTyped(gen)
    BY <1>1 DEF Init, TablesTyped, MissingTerminateThreshold
  <1>3. \A g \in Devices : devices[g].st = "None" /\ registry[g].known = FALSE
    BY <1>1 DEF Init
  <1>4. {h \in Devices : devices[h].st = "Ready"} = {}
    BY <1>3
  <1>5. {<<devices[g].gen, devices[g].node, g>> : g \in {h \in Devices : devices[h].st = "Ready"}} = {}
    BY <1>4
  <1>6. TablesAgree
    BY <1>3, <1>5 DEF Init, TablesAgree
  <1>7. \A g \in Devices : BoundOK(g, devices[g], registry[g], gen, stage, layout, crossed)
    BY <1>3 DEF BoundOK
  <1>. QED BY <1>2, <1>6, <1>7 DEF Init, TablesInv

\* The tables' invariant holds throughout.
LEMMA TablesAlways == Spec => []TablesInv
  <1>1. Init => TablesInv
    BY TablesInit
  <1>2. SessionInv /\ TablesInv /\ [Next]_vars => TablesInv'
    BY TablesStep
  <1>. QED BY <1>1, <1>2, SessionAlways, PTL DEF Spec

\* The registry and the manager know the same devices, and the manager's index has
\* exactly one entry for each published device and no other (OnDiscoveryScanComplete,
\* DeviceManager::UpdateOperationalIndex), for every bus, layout and sequence of resets.
THEOREM TablesAgreeAlways == Spec => []TablesAgree
  <1>1. TablesInv => TablesAgree
    BY DEF TablesInv
  <1>. QED BY <1>1, TablesAlways, PTL

\* Unless a scan completed outside its own generation, after discovery every published
\* device whose GUID no two nodes claim is bound to the node where it is, with a live
\* route to the same place (DeviceRegistry::UpsertFromROM, DeviceManager::UpsertDevice).
THEOREM SettledBoundAlways == Spec => []SettledIsBound
  <1>1. TablesInv => SettledIsBound
    BY DEF TablesInv, BoundOK, SettledIsBound
  <1>. QED BY <1>1, TablesAlways, PTL

\* The counters that the bounds limit.
CountsInv == resets \in 0..MaxResets /\ manual \in 0..MaxManual /\ failures \in Nat

\* Every step keeps them within their bounds.
LEMMA CountsStep ==
    ASSUME CountsInv, [Next]_vars
    PROVE  CountsInv'
  <1>1. /\ resets' = resets \/ (resets < MaxResets /\ resets' = resets + 1)
        /\ manual' = manual \/ (manual < MaxManual /\ manual' = manual + 1)
    BY DEF Next, Progress, BeginScan, HandleBIBComplete, HandleRootDirComplete,
           HandleDetailComplete, ConfigROMReadyRetry, BeginNewResetCycle, SelfIDComplete,
           OnTopologyReady, Interrupt, TriggerROMRead, TakeRoute
  <1>2. failures' = failures \/ failures' = failures + 1
    BY DEF Next, Progress, BeginScan, HandleBIBComplete, HandleRootDirComplete,
           HandleDetailComplete, ConfigROMReadyRetry, BeginNewResetCycle, SelfIDComplete,
           OnTopologyReady, Interrupt, TriggerROMRead, TakeRoute
  <1>. QED BY <1>1, <1>2, DiscoveryAssumption DEF CountsInv

\* The routes' invariant holds throughout.
LEMMA RoutesAlways == Spec => []RoutesInv
  <1>1. Init => RoutesInv
    <2>1. IsRecord(NoRecord)
      BY DEF IsRecord, NoRecord
    <2>. QED BY <2>1 DEF Init, RoutesInv
  <1>2. RoutesInv /\ [Next]_vars => RoutesInv'
    BY RoutesStep
  <1>. QED BY <1>1, <1>2, PTL DEF Spec

\* Every variable keeps its type: a session belongs to a generation that was and its
\* counters stay within their parameters (ROMScanSession, RetryBackoffPolicy), the ROMs
\* come from nodes with an active link, and no storage device is kept beyond the
\* threshold of missing scans (DeviceManager::MarkDeviceLost).
THEOREM TypeCorrect == Spec => []TypeOK
  <1>1. Init => CountsInv
    BY DiscoveryAssumption DEF Init, CountsInv
  <1>2. CountsInv /\ [Next]_vars => CountsInv'
    BY CountsStep
  <1>3. SessionInv /\ TablesInv /\ RoutesInv /\ CountsInv => TypeOK
    <2>. SUFFICES ASSUME SessionInv, TablesInv, RoutesInv, CountsInv
                  PROVE  TypeOK
      OBVIOUS
    <2>1. session = NoSession \/ SessionType(session)
      <3>. SUFFICES ASSUME session # NoSession
                    PROVE  SessionType(session)
        OBVIOUS
      <3>. DEFINE D == DOMAIN session.scan
      <3>1. session \in Sessions(D) /\ D \subseteq Nodes /\ session.gen \in 1..gen /\ gen \in Nat
        BY DEF SessionInv, Whole
      <3>2. /\ session.begun \in BOOLEAN /\ session.late \in BOOLEAN /\ session.inflight \in Nat
            /\ session.scan \in [D -> Scans] /\ session.roms \subseteq Roms
        BY <3>1 DEF Sessions
      <3>3. \A n \in D : LET r == session.scan[n]
                         IN /\ r.st \in Reading \cup Terminal \cup {"Idle", "Waiting"}
                            /\ r.retries \in 0..PerStepRetries /\ r.ready \in 0..ReadyRetries
                            /\ r.speed \in 0..TopSpeed
                            /\ r.out \in Nat /\ r.timers \in Nat /\ r.left \in 0..MaxDetailReads
                            /\ r.good \in BOOLEAN /\ r.full \in BOOLEAN
        BY <3>2 DEF Scans, ScanStates
      <3>4. \A r \in session.roms : /\ r.node \in Nodes /\ r.guid \in Devices \cup {ZeroGuid}
                                    /\ r.full \in BOOLEAN
        BY <3>2 DEF Roms
      <3>5. session.gen \in 0..gen
        BY <3>1
      <3>. QED BY <3>1, <3>2, <3>3, <3>4, <3>5 DEF SessionType
    <2>2. \A g \in Devices :
             /\ registry[g].state \in {"Identified", "Quarantined"} /\ registry[g].known \in BOOLEAN
             /\ registry[g].inc \in Nat /\ registry[g].epoch \in Nat /\ registry[g].gen \in 0..gen
             /\ registry[g].node \in Nodes \cup {NoNode}
             /\ devices[g].st \in {"None", "Ready", "Suspended"} /\ devices[g].gen \in 0..gen
             /\ devices[g].node \in Nodes \cup {NoNode} /\ devices[g].sbp2 \in BOOLEAN
             /\ missing[g] \in 0..MissingTerminateThreshold - 1
      <3>. SUFFICES ASSUME NEW g \in Devices
                    PROVE  /\ registry[g].state \in {"Identified", "Quarantined"} /\ registry[g].known \in BOOLEAN
                           /\ registry[g].inc \in Nat /\ registry[g].epoch \in Nat /\ registry[g].gen \in 0..gen
                           /\ registry[g].node \in Nodes \cup {NoNode}
                           /\ devices[g].st \in {"None", "Ready", "Suspended"} /\ devices[g].gen \in 0..gen
                           /\ devices[g].node \in Nodes \cup {NoNode} /\ devices[g].sbp2 \in BOOLEAN
                           /\ missing[g] \in 0..MissingTerminateThreshold - 1
        OBVIOUS
      <3>1. /\ registry[g] \in Records(gen) /\ devices[g] \in Objects(gen)
            /\ missing[g] \in 0..(MissingTerminateThreshold - 1)
        BY DEF TablesInv, TablesTyped
      <3>. QED BY <3>1 DEF Records, Objects
    <2>3. index \subseteq (1..gen) \X Nodes \X Devices
      <3>1. \A g \in Devices : devices[g].st = "Ready" => devices[g].gen \in 1..gen /\ devices[g].node \in Nodes
        <4>. SUFFICES ASSUME NEW g \in Devices, devices[g].st = "Ready"
                      PROVE  devices[g].gen \in 1..gen /\ devices[g].node \in Nodes
          OBVIOUS
        <4>1. devices[g].gen >= 1 /\ devices[g].node \in Nodes
          BY DEF TablesInv, BoundOK
        <4>. QED BY <4>1, <2>2
      <3>2. index = {<<devices[g].gen, devices[g].node, g>> : g \in {h \in Devices : devices[h].st = "Ready"}}
        BY DEF TablesInv, TablesAgree
      <3>. QED BY <3>1, <3>2
    <2>4. /\ stage \in {"edge", "reset", "selfid", "ready"} /\ gen \in Nat /\ due \in BOOLEAN
          /\ layout \in Layouts \cup {[n \in Nodes |-> Absent]}
      BY DEF SessionInv
    <2>5. (token = NoToken \/ token.guid \in Devices) /\ crossed \in BOOLEAN
      BY DEF RoutesInv, TablesInv
    <2>. QED BY <2>1, <2>2, <2>3, <2>4, <2>5 DEF TypeOK, CountsInv
  <1>. QED BY <1>1, <1>2, <1>3, SessionAlways, TablesAlways, RoutesAlways, PTL DEF Spec

=============================================================================
