---------------------------- MODULE Wiring_proofs ----------------------------
(***************************************************************************)
(* The life of a process, its registrar and its connectors, for every set  *)
(* of searches, attempts and document versions, and any number of edits    *)
(* and builds.                                                             *)
(***************************************************************************)
EXTENDS Wiring, FiniteSetTheorems, SequenceTheorems, TLAPS

(***************************************************************************)
(* The manager's entry.  Before the shutdown a construction runs exactly   *)
(* while the entry waits for it, with callers waiting on both; leases are  *)
(* always of the connector that the entry holds.  Afterwards there is no   *)
(* entry, and what is still lent out has been disposed.                    *)
(***************************************************************************)
EntryHeld ==
  /\ shuttingDown => entry = NoEntry
  /\ entry.state # "ready" => entry.connector = 0
  /\ ~shuttingDown => (building # None <=> entry.state = "building")
  /\ building # None => Len(connectors) < MaxBuilds /\ built = 0
  /\ \A h \in Holders : holder[h].state = "waiting" => building # None
  /\ entry.state = "building" => \E h \in Holders : holder[h].state = "waiting"

LeaseHeld ==
  \A h \in Holders : holder[h].state = "leased" =>
    IF shuttingDown THEN connectors[holder[h].connector].disposed
    ELSE entry.state = "ready" /\ entry.connector = holder[h].connector

ManagerInv == ManagerTypeOK /\ EntryHeld /\ LeaseHeld

\* What the registrar knows of the registry while it replaces an instance.
Recorded ==
  /\ resolve.phase = "disposing" => definition = None
  /\ resolve.phase # "disposing" /\ ~spoilt => registered = definition

RegistrarInv == RegistrarTypeOK /\ Recorded /\ RegistryCoherent

\* The stages of stop(): only the last ones come with the manager shut down, only the first with connections.
Stages ==
  /\ shuttingDown => mode \in {"disposing", "ending", "exited"}
  /\ open # {} => mode \in {"up", "closing"}

ProcessTypeOK ==
  /\ mode \in Modes
  /\ expired \in BOOLEAN
  /\ open \subseteq Searches
  /\ blocked \subseteq Searches
  /\ cycle \in BOOLEAN
  /\ awaited \subseteq Attempts
  /\ passing \in BOOLEAN

WiringInv == ManagerInv /\ RegistrarInv /\ ProcessTypeOK /\ Stages

-----------------------------------------------------------------------------
(***************************************************************************)
(* The manager's operators.                                                *)
(***************************************************************************)

LEMMA DisposedFacts ==
  ASSUME connectors \in Seq(Connector), NEW c \in {0} \cup DOMAIN connectors
  PROVE  /\ Disposed(c) \in Seq(Connector) /\ Len(Disposed(c)) = Len(connectors)
         /\ DOMAIN Disposed(c) = DOMAIN connectors
         /\ \A i \in DOMAIN connectors : /\ Disposed(c)[i].version = connectors[i].version
                                         /\ Disposed(c)[i].disposed <=> (connectors[i].disposed \/ i = c)
<1>1. \A i \in DOMAIN connectors : connectors[i] \in Connector
  BY ElementOfSeq
<1>2. DOMAIN connectors = 1..Len(connectors) /\ Len(connectors) \in Nat
  BY LenProperties
<1>3. CASE c = 0
  BY <1>1, <1>2, <1>3 DEF Disposed
<1>4. CASE c # 0
  <2>1. c \in 1..Len(connectors)
    BY <1>2, <1>4
  <2> DEFINE e == [connectors[c] EXCEPT !.disposed = TRUE]
  <2>2. e \in Connector /\ e.version = connectors[c].version /\ e.disposed = TRUE
    BY <1>1, <1>2, <2>1 DEF Connector
  <2>3. Disposed(c) = [connectors EXCEPT ![c] = e]
    BY <1>4 DEF Disposed
  <2> HIDE DEF e
  <2>4. /\ Disposed(c) \in Seq(Connector) /\ Len(Disposed(c)) = Len(connectors)
        /\ \A i \in 1..Len(connectors) : Disposed(c)[i] = IF i = c THEN e ELSE connectors[i]
    BY <2>1, <2>2, <2>3, ExceptSeq
  <2>5. DOMAIN Disposed(c) = DOMAIN connectors
    BY <2>4, <1>2, LenProperties
  <2>6. ASSUME NEW i \in DOMAIN connectors
        PROVE  /\ Disposed(c)[i].version = connectors[i].version
               /\ Disposed(c)[i].disposed <=> (connectors[i].disposed \/ i = c)
    <3>1. CASE i = c
      BY <1>2, <2>2, <2>4, <2>6, <3>1
    <3>2. CASE i # c
      BY <1>2, <2>4, <2>6, <3>2
    <3> QED
      BY <3>1, <3>2
  <2> QED
    BY <2>4, <2>5, <2>6
<1> QED
  BY <1>3, <1>4

\* drainLeases and the sweep look at the entry's reference count: it is the truth before the shutdown.
LEMMA NoneLeft ==
  ASSUME ManagerInv, Refcount = 0, ~shuttingDown
  PROVE  /\ \A h \in Holders : holder[h].state \notin {"waiting", "leased"}
         /\ building = None
<1>1. \A h \in Holders : holder[h].state \notin {"waiting", "leased"}
  <2>1. CASE entry.state = "absent"
    BY <2>1 DEF ManagerInv, EntryHeld, LeaseHeld
  <2>2. CASE entry.state # "absent"
    <3>1. Cardinality(In({"waiting", "leased"})) = 0
      BY <2>2 DEF Refcount
    <3>2. IsFiniteSet(In({"waiting", "leased"}))
      BY HoldersFinite, FS_Subset DEF In
    <3>3. In({"waiting", "leased"}) = {}
      BY <3>1, <3>2, FS_EmptySet
    <3> QED
      BY <3>3 DEF In
  <2> QED
    BY <2>1, <2>2
<1> QED
  BY <1>1 DEF ManagerInv, EntryHeld

\* Holders that come and go without waiting for, or being lent, anything new; a connector may be disposed.
LEMMA HoldersMove ==
  ASSUME ManagerInv, UNCHANGED <<building, entry, shuttingDown>>, built' \in {0, built},
         connectors' \in Seq(Connector), Len(connectors') = Len(connectors), DOMAIN connectors' = DOMAIN connectors,
         \A i \in DOMAIN connectors : connectors[i].disposed => connectors'[i].disposed,
         definition' \in Versions \cup {None}, holder' \in [Holders -> Holder],
         \A h \in Holders : /\ (holder'[h].state = "waiting") <=> (holder[h].state = "waiting")
                            /\ (holder'[h].state = "leased") => (holder'[h] = holder[h])
  PROVE  ManagerInv'
<1>1. ManagerTypeOK'
  BY DEF ManagerInv, ManagerTypeOK
<1>2. EntryHeld'
  BY DEF ManagerInv, EntryHeld
<1>3. LeaseHeld'
  <2> SUFFICES ASSUME NEW h \in Holders, holder'[h].state = "leased"
               PROVE  IF shuttingDown THEN connectors'[holder[h].connector].disposed
                      ELSE entry.state = "ready" /\ entry.connector = holder[h].connector
    BY DEF LeaseHeld
  <2>1. holder[h].state = "leased" /\ holder[h].connector \in DOMAIN connectors
    BY DEF ManagerInv, ManagerTypeOK
  <2> QED
    BY <2>1 DEF ManagerInv, LeaseHeld
<1> QED
  BY <1>1, <1>2, <1>3 DEF ManagerInv

LEMMA SetFacts ==
  ASSUME holder \in [Holders -> Holder], NEW H, NEW st \in HolderStates, NEW c \in 0..MaxBuilds,
         holder' = Set(H, st, c)
  PROVE  /\ holder' \in [Holders -> Holder]
         /\ \A h \in Holders : h \in H => holder'[h].state = st /\ holder'[h].connector = c
         /\ \A h \in Holders : h \notin H => holder'[h] = holder[h]
  BY DEF Set, Holder

LEMMA SetOne ==
  ASSUME holder \in [Holders -> Holder], NEW g \in Holders, NEW st \in HolderStates, NEW c \in 0..MaxBuilds,
         holder' = Set({g}, st, c)
  PROVE  /\ holder' \in [Holders -> Holder]
         /\ holder'[g].state = st /\ holder'[g].connector = c
         /\ \A h \in Holders : h # g => holder'[h] = holder[h]
  BY DEF Set, Holder

LEMMA ManagerFacts ==
  ASSUME ManagerInv
  PROVE  /\ ManagerTypeOK /\ EntryHeld /\ LeaseHeld
         /\ holder \in [Holders -> Holder] /\ entry \in Entry /\ MaxBuilds \in Nat
         /\ connectors \in Seq(Connector) /\ Len(connectors) \in 0..MaxBuilds
         /\ DOMAIN connectors = 1..Len(connectors) /\ DOMAIN connectors \subseteq 0..MaxBuilds
         /\ built \in {0} \cup DOMAIN connectors
         /\ entry.connector \in {0} \cup DOMAIN connectors
<1>1. /\ ManagerTypeOK /\ EntryHeld /\ LeaseHeld /\ MaxBuilds \in Nat
      /\ connectors \in Seq(Connector) /\ Len(connectors) <= MaxBuilds
  BY MaxBuildsNatural DEF ManagerInv, ManagerTypeOK
<1>2. Len(connectors) \in Nat /\ DOMAIN connectors = 1..Len(connectors)
  BY <1>1, LenProperties
<1>3. entry.connector \in {0} \cup DOMAIN connectors
  BY <1>1 DEF ManagerTypeOK, EntryHeld
<1> QED
  BY <1>1, <1>2, <1>3 DEF ManagerTypeOK

-----------------------------------------------------------------------------
(***************************************************************************)
(* The manager's steps, with the registrar at rest.                        *)
(***************************************************************************)

LEMMA AcquireSteps ==
  ASSUME ManagerInv, RegistryCoherent, NEW h \in Holders, Acquire(h), UNCHANGED registrarVars
  PROVE  ManagerInv' /\ RegistryCoherent'
<1>1. /\ ManagerTypeOK /\ EntryHeld /\ LeaseHeld
      /\ holder \in [Holders -> Holder] /\ entry \in Entry /\ MaxBuilds \in Nat
      /\ built \in {0} \cup DOMAIN connectors /\ DOMAIN connectors \subseteq 0..MaxBuilds
      /\ entry.connector \in {0} \cup DOMAIN connectors
  BY ManagerFacts
<1>2. /\ "waiting" \in HolderStates /\ "leased" \in HolderStates /\ "done" \in HolderStates
      /\ 0 \in 0..MaxBuilds /\ UNCHANGED <<definition, shuttingDown, connectors, built, resolve>>
  BY <1>1 DEF HolderStates, Acquire, AcquireRefused, AcquireLive, AcquireBuilt, AcquireBuilding, registrarVars
<1>3. CASE AcquireRefused(h)
  <2>1. /\ UNCHANGED <<building, entry>> /\ holder' = Set({h}, "done", 0) /\ holder[h].state = "asking"
    BY <1>3 DEF AcquireRefused
  <2>2. /\ holder' \in [Holders -> Holder]
        /\ \A g \in Holders : /\ (holder'[g].state = "waiting") <=> (holder[g].state = "waiting")
                              /\ (holder'[g].state = "leased") => (holder'[g] = holder[g])
    BY <1>1, <1>2, <2>1, SetOne
  <2>3. ManagerInv'
    BY <1>1, <1>2, <2>1, <2>2, HoldersMove DEF ManagerTypeOK
  <2> QED
    BY <1>2, <2>1, <2>3 DEF RegistryCoherent
<1>4. CASE AcquireLive(h) /\ entry.state = "ready"
  <2>1. /\ UNCHANGED <<building, entry>> /\ holder' = Set({h}, "leased", entry.connector)
        /\ holder[h].state = "asking" /\ ~shuttingDown
    BY <1>4 DEF AcquireLive
  <2>2. entry.connector \in DOMAIN connectors
    BY <1>1, <1>4 DEF ManagerTypeOK
  <2>3. /\ holder' \in [Holders -> Holder]
        /\ holder'[h].state = "leased" /\ holder'[h].connector = entry.connector
        /\ \A g \in Holders : g # h => holder'[g] = holder[g]
    BY <1>1, <1>2, <2>1, <2>2, SetOne
  <2>4. ManagerTypeOK'
    BY <1>1, <1>2, <2>1, <2>2, <2>3 DEF ManagerTypeOK
  <2>5. EntryHeld'
    BY <1>1, <1>2, <1>4, <2>1, <2>3 DEF EntryHeld
  <2>6. LeaseHeld'
    BY <1>1, <1>2, <1>4, <2>1, <2>3 DEF LeaseHeld
  <2> QED
    BY <1>2, <2>1, <2>4, <2>5, <2>6 DEF ManagerInv, RegistryCoherent
<1>5. CASE AcquireLive(h) /\ entry.state # "ready"
  <2>1. /\ UNCHANGED <<building, entry>> /\ holder' = Set({h}, "waiting", 0)
        /\ holder[h].state = "asking" /\ ~shuttingDown /\ entry.state = "building"
    BY <1>1, <1>5 DEF AcquireLive, Entry
  <2>2. /\ holder' \in [Holders -> Holder]
        /\ holder'[h].state = "waiting"
        /\ \A g \in Holders : g # h => holder'[g] = holder[g]
    BY <1>1, <1>2, <2>1, SetOne
  <2>3. ManagerTypeOK'
    BY <1>1, <1>2, <2>1, <2>2 DEF ManagerTypeOK
  <2>4. EntryHeld'
    BY <1>1, <1>2, <2>1, <2>2 DEF EntryHeld
  <2>5. LeaseHeld'
    BY <1>1, <1>2, <2>1, <2>2 DEF LeaseHeld
  <2> QED
    BY <1>2, <2>1, <2>3, <2>4, <2>5 DEF ManagerInv, RegistryCoherent
<1>6. CASE AcquireBuilt(h)
  <2>1. /\ UNCHANGED building /\ holder' = Set({h}, "leased", built)
        /\ entry' = [state |-> "ready", connector |-> built]
        /\ holder[h].state = "asking" /\ ~shuttingDown /\ entry.state = "absent" /\ built # 0
    BY <1>6 DEF AcquireBuilt
  <2>2. built \in DOMAIN connectors
    BY <1>1, <2>1
  <2>3. /\ holder' \in [Holders -> Holder]
        /\ holder'[h].state = "leased" /\ holder'[h].connector = built
        /\ \A g \in Holders : g # h => holder'[g] = holder[g]
    BY <1>1, <1>2, <2>1, <2>2, SetOne
  <2>4. building = None /\ \A g \in Holders : holder[g].state \notin {"waiting", "leased"}
    BY <1>1, <2>1 DEF EntryHeld, LeaseHeld
  <2>5. ManagerTypeOK'
    BY <1>1, <1>2, <2>1, <2>2, <2>3 DEF ManagerTypeOK, Entry
  <2>6. EntryHeld'
    BY <1>1, <1>2, <2>1, <2>3, <2>4 DEF EntryHeld
  <2>7. LeaseHeld'
    BY <1>1, <1>2, <2>1, <2>3, <2>4 DEF LeaseHeld
  <2> QED
    BY <1>2, <2>1, <2>5, <2>6, <2>7 DEF ManagerInv, RegistryCoherent
<1>7. CASE AcquireBuilding(h)
  <2>1. /\ building' = definition /\ holder' = Set({h}, "waiting", 0)
        /\ entry' = [state |-> "building", connector |-> 0]
        /\ holder[h].state = "asking" /\ ~shuttingDown /\ entry.state = "absent" /\ built = 0
        /\ definition # None /\ Len(connectors) < MaxBuilds
    BY <1>7 DEF AcquireBuilding
  <2>2. /\ holder' \in [Holders -> Holder]
        /\ holder'[h].state = "waiting"
        /\ \A g \in Holders : g # h => holder'[g] = holder[g]
    BY <1>1, <1>2, <2>1, SetOne
  <2>3. \A g \in Holders : holder[g].state \notin {"waiting", "leased"}
    BY <1>1, <2>1 DEF EntryHeld, LeaseHeld
  <2>4. ManagerTypeOK'
    BY <1>1, <1>2, <2>1, <2>2 DEF ManagerTypeOK, Entry
  <2>5. EntryHeld'
    BY <1>1, <1>2, <2>1, <2>2 DEF EntryHeld
  <2>6. LeaseHeld'
    BY <1>1, <1>2, <2>1, <2>2, <2>3 DEF LeaseHeld
  <2> QED
    BY <1>2, <2>1, <2>4, <2>5, <2>6 DEF ManagerInv, RegistryCoherent
<1> QED
  BY <1>3, <1>4, <1>5, <1>6, <1>7 DEF Acquire

LEMMA BuildSteps ==
  ASSUME ManagerInv, RegistryCoherent, BuildSucceeds \/ BuildFails, UNCHANGED registrarVars
  PROVE  ManagerInv' /\ RegistryCoherent'
<1>1. /\ ManagerTypeOK /\ EntryHeld /\ LeaseHeld
      /\ holder \in [Holders -> Holder] /\ entry \in Entry /\ MaxBuilds \in Nat
      /\ connectors \in Seq(Connector) /\ Len(connectors) \in 0..MaxBuilds
      /\ DOMAIN connectors = 1..Len(connectors)
  BY ManagerFacts
<1>2. /\ "leased" \in HolderStates /\ "done" \in HolderStates /\ 0 \in 0..MaxBuilds
      /\ building # None /\ building' = None /\ UNCHANGED <<definition, shuttingDown, resolve>>
      /\ building \in Versions /\ shuttingDown \in BOOLEAN
      /\ \A h \in Holders : h \in In({"waiting"}) <=> holder[h].state = "waiting"
  BY <1>1 DEF HolderStates, BuildSucceeds, BuildFails, registrarVars, ManagerTypeOK, In
<1>3. Len(connectors) < MaxBuilds /\ built = 0 /\ (shuttingDown \/ entry.state = "building")
  BY <1>1, <1>2 DEF EntryHeld
<1>4. CASE BuildFails
  <2>1. /\ UNCHANGED <<built, connectors>> /\ holder' = Set(In({"waiting"}), "done", 0)
        /\ entry' = IF entry.state = "building" THEN NoEntry ELSE entry
    BY <1>4 DEF BuildFails
  <2>2. /\ holder' \in [Holders -> Holder]
        /\ \A h \in Holders : holder'[h].state # "waiting"
        /\ \A h \in Holders : holder'[h].state = "leased" => holder'[h] = holder[h]
    BY <1>1, <1>2, <2>1, SetFacts
  <2>3. entry' = NoEntry
    BY <1>1, <1>3, <2>1 DEF EntryHeld
  <2>4. NoEntry \in Entry /\ NoEntry.state = "absent" /\ NoEntry.connector = 0
    BY <1>1 DEF Entry, NoEntry
  <2>5. ManagerTypeOK'
    BY <1>1, <1>2, <2>1, <2>2, <2>3, <2>4 DEF ManagerTypeOK
  <2>6. EntryHeld'
    BY <1>1, <1>2, <2>1, <2>2, <2>3, <2>4 DEF EntryHeld
  <2>7. LeaseHeld'
    BY <1>1, <1>2, <1>3, <2>1, <2>2 DEF LeaseHeld
  <2> QED
    BY <1>2, <2>1, <2>5, <2>6, <2>7 DEF ManagerInv, RegistryCoherent
<1>5. CASE BuildSucceeds
  <2> DEFINE c == Len(connectors) + 1
             new == [version |-> building, disposed |-> shuttingDown]
  <2>1. /\ built' = c /\ connectors' = Append(connectors, new)
        /\ entry' = IF entry.state = "building" THEN [state |-> "ready", connector |-> c] ELSE entry
        /\ holder' = Set(In({"waiting"}), "leased", c)
    BY <1>5 DEF BuildSucceeds
  <2>2. new \in Connector /\ new.version = building /\ new.disposed = shuttingDown
    BY <1>2 DEF Connector
  <2>3. c \in 1..MaxBuilds
    BY <1>1, <1>3
  <2> HIDE DEF new
  <2>4. /\ connectors' \in Seq(Connector) /\ Len(connectors') = c
        /\ connectors'[c] = new /\ \A i \in 1..Len(connectors) : connectors'[i] = connectors[i]
    BY <1>1, <2>1, <2>2, AppendProperties
  <2>5. DOMAIN connectors' = 1..c
    BY <2>4, LenProperties
  <2> HIDE DEF c
  <2>6. /\ holder' \in [Holders -> Holder]
        /\ \A h \in Holders : holder[h].state = "waiting" => holder'[h].state = "leased" /\ holder'[h].connector = c
        /\ \A h \in Holders : holder[h].state # "waiting" => holder'[h] = holder[h]
    BY <1>1, <1>2, <2>1, <2>3, SetFacts
  <2>7. DOMAIN connectors \subseteq 1..c /\ c \in 1..c
    BY <1>1, <2>3 DEF c
  <2>8. ManagerTypeOK'
    <3>1. \A h \in Holders : holder'[h].state = "leased" => holder'[h].connector \in 1..c
      BY <1>1, <2>6, <2>7 DEF ManagerTypeOK
    <3>2. entry' \in Entry /\ (entry'.state # "building") /\ (entry'.state = "ready" => entry'.connector \in 1..c)
      BY <1>1, <2>1, <2>3, <2>7 DEF ManagerTypeOK, Entry
    <3> QED
      BY <1>1, <1>2, <2>1, <2>3, <2>4, <2>5, <2>6, <2>7, <3>1, <3>2 DEF ManagerTypeOK
  <2>9. CASE shuttingDown
    <3>1. entry' = NoEntry /\ NoEntry.state = "absent" /\ NoEntry.connector = 0
      BY <1>1, <2>1, <2>9 DEF EntryHeld, NoEntry
    <3>2. EntryHeld'
      BY <1>2, <2>6, <2>9, <3>1 DEF EntryHeld
    <3>3. LeaseHeld'
      <4> SUFFICES ASSUME NEW h \in Holders, holder'[h].state = "leased"
                   PROVE  connectors'[holder'[h].connector].disposed
        BY <1>2, <2>9 DEF LeaseHeld
      <4>1. CASE holder[h].state = "waiting"
        BY <2>2, <2>4, <2>6, <2>9, <4>1
      <4>2. CASE holder[h].state # "waiting"
        <5>1. holder'[h] = holder[h] /\ holder[h].state = "leased"
          BY <2>6, <4>2
        <5>2. holder[h].connector \in 1..Len(connectors) /\ connectors[holder[h].connector].disposed
          BY <1>1, <2>9, <5>1 DEF ManagerTypeOK, LeaseHeld
        <5> QED
          BY <2>4, <5>1, <5>2
      <4> QED
        BY <4>1, <4>2
    <3> QED
      BY <1>2, <2>8, <2>9, <3>2, <3>3 DEF ManagerInv, RegistryCoherent
  <2>10. CASE ~shuttingDown
    <3>1. entry' = [state |-> "ready", connector |-> c]
      BY <1>3, <2>1, <2>10
    <3>2. EntryHeld'
      BY <1>2, <2>6, <2>10, <3>1 DEF EntryHeld
    <3>3. LeaseHeld'
      BY <1>1, <1>2, <1>3, <2>6, <2>10, <3>1 DEF LeaseHeld
    <3>4. connectors'[c].version = definition /\ definition # None
      BY <1>2, <2>2, <2>4, <2>10 DEF RegistryCoherent
    <3>5. RegistryCoherent'
      BY <1>2, <2>1, <3>4 DEF RegistryCoherent
    <3> QED
      BY <2>8, <3>2, <3>3, <3>5 DEF ManagerInv
  <2> QED
    BY <2>9, <2>10
<1> QED
  BY <1>4, <1>5

\* The entry goes, and its connector with it.
LEMMA EntryGoes ==
  ASSUME ManagerInv, RegistryCoherent, UNCHANGED registrarVars, UNCHANGED <<definition, built, building, holder>>,
         entry' = NoEntry, connectors' = Disposed(entry.connector),
         shuttingDown' = TRUE \/ (shuttingDown' = shuttingDown /\ entry.state = "ready" /\ Refcount = 0)
  PROVE  ManagerInv' /\ RegistryCoherent'
<1>1. /\ ManagerTypeOK /\ EntryHeld /\ LeaseHeld /\ holder \in [Holders -> Holder] /\ MaxBuilds \in Nat
      /\ connectors \in Seq(Connector) /\ entry.connector \in {0} \cup DOMAIN connectors
      /\ built \in {0} \cup DOMAIN connectors
  BY ManagerFacts
<1>2. /\ connectors' \in Seq(Connector) /\ Len(connectors') = Len(connectors)
      /\ DOMAIN connectors' = DOMAIN connectors
      /\ \A i \in DOMAIN connectors : /\ connectors'[i].version = connectors[i].version
                                      /\ connectors'[i].disposed <=> (connectors[i].disposed \/ i = entry.connector)
  BY <1>1, DisposedFacts
<1>3. NoEntry \in Entry /\ NoEntry.state = "absent" /\ NoEntry.connector = 0
  BY <1>1 DEF Entry, NoEntry
<1>4. shuttingDown' \in BOOLEAN
  BY <1>1 DEF ManagerTypeOK
<1>5. ManagerTypeOK'
  BY <1>1, <1>2, <1>3, <1>4 DEF ManagerTypeOK
<1>6. RegistryCoherent'
  <2>1. shuttingDown => shuttingDown'
    OBVIOUS
  <2> QED
    BY <1>1, <1>2, <2>1 DEF RegistryCoherent, registrarVars
<1>7. CASE shuttingDown'
  <2>1. EntryHeld'
    BY <1>1, <1>2, <1>3, <1>7 DEF EntryHeld
  <2>2. LeaseHeld'
    <3> SUFFICES ASSUME NEW h \in Holders, holder[h].state = "leased"
                 PROVE  connectors'[holder[h].connector].disposed
      BY <1>7 DEF LeaseHeld
    <3>1. holder[h].connector \in DOMAIN connectors
      BY <1>1 DEF ManagerTypeOK
    <3>2. connectors[holder[h].connector].disposed \/ holder[h].connector = entry.connector
      BY <1>1 DEF LeaseHeld
    <3> QED
      BY <1>2, <3>1, <3>2
  <2> QED
    BY <1>5, <1>6, <2>1, <2>2 DEF ManagerInv
<1>8. CASE ~shuttingDown'
  <2>1. ~shuttingDown /\ Refcount = 0
    BY <1>8
  <2>2. building = None /\ \A h \in Holders : holder[h].state \notin {"waiting", "leased"}
    BY <2>1, NoneLeft
  <2>3. EntryHeld' /\ LeaseHeld'
    BY <1>3, <1>8, <2>2 DEF EntryHeld, LeaseHeld
  <2> QED
    BY <1>5, <1>6, <2>3 DEF ManagerInv
<1> QED
  BY <1>7, <1>8

-----------------------------------------------------------------------------
(***************************************************************************)
(* The registrar's steps.                                                  *)
(***************************************************************************)

\* holder' differs from holder by callers of ensure() that come or go on.
CallersMove ==
  /\ holder' \in [Holders -> Holder]
  /\ \A h \in Holders : /\ (holder'[h].state = "waiting") <=> (holder[h].state = "waiting")
                        /\ (holder'[h].state = "leased") => (holder'[h] = holder[h])

\* Nobody is left waiting for a resolution that has settled.
Settled ==
  /\ resolve' = NotResolving
  /\ \A h \in Holders : holder'[h].state # "ensuring"

LEMMA SettleFacts ==
  ASSUME ManagerInv, NEW ok \in BOOLEAN, Settle(ok)
  PROVE  CallersMove /\ Settled
<1>1. holder \in [Holders -> Holder] /\ MaxBuilds \in Nat
  BY ManagerFacts
<1>2. PICK st \in {"asking", "done"} : holder' = Set(In({"ensuring"}), st, 0)
  BY DEF Settle
<1>3. /\ st \in HolderStates /\ 0 \in 0..MaxBuilds
      /\ \A h \in Holders : h \in In({"ensuring"}) <=> holder[h].state = "ensuring"
  BY <1>1 DEF HolderStates, In
<1>4. /\ holder' \in [Holders -> Holder]
      /\ \A h \in Holders : holder[h].state = "ensuring" => holder'[h].state = st
      /\ \A h \in Holders : holder[h].state # "ensuring" => holder'[h] = holder[h]
  BY <1>1, <1>2, <1>3, SetFacts
<1> QED
  BY <1>4 DEF CallersMove, Settled, Settle

LEMMA RegisterFacts ==
  ASSUME ManagerInv, RegistrarTypeOK, NEW v \in Versions, Register(v)
  PROVE  /\ CallersMove /\ Settled
         /\ definition' \in Versions \cup {None} /\ registered' \in Versions \cup {None} /\ spoilt' \in BOOLEAN
         /\ ~spoilt' => registered' = definition'
<1>1. CASE Rejected(v)
  BY <1>1, SettleFacts DEF Rejected, RegistrarTypeOK
<1>2. CASE Settle(TRUE) /\ definition' = v /\ registered' = v /\ spoilt' = FALSE
  BY <1>2, SettleFacts DEF RegistrarTypeOK
<1> QED
  BY <1>1, <1>2 DEF Register

LEMMA ResolvingStates ==
  /\ NotResolving \in Resolve /\ NotResolving.phase = "idle"
  /\ \A v \in Versions : v # None
BY VersionsNamed DEF NotResolving, Resolve

\* What follows for the registrar of a resolution that settles, whatever it did to the registry.
LEMMA SettledTyping ==
  ASSUME RegistrarTypeOK, Settled, UNCHANGED <<config, edits>>,
         registered' \in Versions \cup {None}, spoilt' \in BOOLEAN
  PROVE  RegistrarTypeOK'
BY ResolvingStates DEF RegistrarTypeOK, Settled, In

LEMMA RegistrarSteps ==
  ASSUME ManagerInv, RegistrarInv, RegistrarStep
  PROVE  ManagerInv' /\ RegistrarInv'
<1>1. /\ RegistrarTypeOK /\ Recorded /\ RegistryCoherent /\ config \in Versions
      /\ registered \in Versions \cup {None} /\ spoilt \in BOOLEAN /\ resolve \in Resolve
      /\ (resolve.phase \in {"draining", "disposing"} => resolve.version \in Versions)
  BY DEF RegistrarInv, RegistrarTypeOK, Resolve
<1>2. /\ ManagerTypeOK /\ connectors \in Seq(Connector) /\ built \in {0} \cup DOMAIN connectors
      /\ definition \in Versions \cup {None} /\ holder \in [Holders -> Holder]
  BY ManagerFacts DEF ManagerTypeOK
<1>3. ASSUME NEW ok \in BOOLEAN, Settle(ok), resolve.phase \in {"reading", "draining"},
             UNCHANGED <<definition, built, building, connectors, entry, shuttingDown,
                         config, edits, registered, spoilt>>
      PROVE  ManagerInv' /\ RegistrarInv'
  <2>1. CallersMove /\ Settled
    BY <1>3, SettleFacts
  <2>2. ManagerInv'
    BY <1>2, <1>3, <2>1, HoldersMove DEF CallersMove
  <2>3. RegistrarTypeOK'
    BY <1>1, <1>3, <2>1, SettledTyping
  <2>4. Recorded' /\ RegistryCoherent'
    BY <1>1, <1>3, <2>1, ResolvingStates DEF Recorded, RegistryCoherent, Settled
  <2> QED
    BY <2>2, <2>3, <2>4 DEF RegistrarInv
<1>4. ASSUME NEW v \in Versions, Register(v), UNCHANGED <<building, entry, shuttingDown, config, edits>>,
             built' \in {0, built}, connectors' \in Seq(Connector), Len(connectors') = Len(connectors),
             DOMAIN connectors' = DOMAIN connectors,
             \A i \in DOMAIN connectors : connectors[i].disposed => connectors'[i].disposed,
             ~shuttingDown => built' = 0 /\ building = None
      PROVE  ManagerInv' /\ RegistrarInv'
  <2>1. /\ CallersMove /\ Settled
        /\ definition' \in Versions \cup {None} /\ registered' \in Versions \cup {None} /\ spoilt' \in BOOLEAN
        /\ ~spoilt' => registered' = definition'
    BY <1>1, <1>4, RegisterFacts
  <2>2. ManagerInv'
    BY <1>4, <2>1, HoldersMove DEF CallersMove
  <2>3. RegistrarTypeOK'
    BY <1>1, <1>4, <2>1, SettledTyping
  <2>4. Recorded' /\ RegistryCoherent'
    BY <1>4, <2>1, ResolvingStates DEF Recorded, RegistryCoherent, Settled
  <2> QED
    BY <2>2, <2>3, <2>4 DEF RegistrarInv
<1>5. CASE ReadFails
  BY <1>3, <1>5 DEF ReadFails
<1>6. CASE DrainTimesOut
  BY <1>3, <1>6 DEF DrainTimesOut
<1>7. CASE ReadConfig
  <2>1. CASE ~Current /\ Replace /\ resolve.phase = "reading"
    <3>1. /\ definition # None /\ resolve' = [phase |-> "draining", version |-> config]
          /\ UNCHANGED <<managerVars, config, edits, registered, spoilt>>
      BY <2>1 DEF Replace
    <3>2. resolve' \in Resolve /\ resolve'.phase = "draining" /\ resolve'.version # None
      BY <1>1, <3>1, ResolvingStates DEF Resolve
    <3>3. RegistrarTypeOK'
      BY <1>1, <3>1, <3>2 DEF RegistrarTypeOK, managerVars
    <3>4. Recorded' /\ RegistryCoherent'
      BY <1>1, <2>1, <3>1, <3>2 DEF Recorded, RegistryCoherent, managerVars
    <3>5. ManagerInv'
      BY <3>1 DEF ManagerInv, ManagerTypeOK, EntryHeld, LeaseHeld, managerVars
    <3> QED
      BY <3>3, <3>4, <3>5 DEF RegistrarInv
  <2>2. CASE resolve.phase = "reading" /\ definition = None /\ Register(config)
             /\ UNCHANGED <<built, building, connectors, entry, shuttingDown, config, edits>>
    <3>1. ~shuttingDown => built = 0 /\ building = None
      BY <1>1, <2>2 DEF RegistryCoherent
    <3> QED
      BY <1>1, <1>2, <1>4, <2>2, <3>1
  <2> QED
    BY <1>3, <1>7, <2>1, <2>2 DEF ReadConfig
<1>8. CASE DisposeOld
  <2>1. /\ resolve.phase = "draining" /\ Refcount = 0 /\ connectors' = Disposed(built)
        /\ UNCHANGED <<built, building, entry, shuttingDown, config, edits>>
    BY <1>8 DEF DisposeOld, Drained
  <2>2. /\ connectors' \in Seq(Connector) /\ Len(connectors') = Len(connectors)
        /\ DOMAIN connectors' = DOMAIN connectors
        /\ \A i \in DOMAIN connectors : connectors[i].disposed => connectors'[i].disposed
    BY <1>2, <2>1, DisposedFacts
  <2>3. ~shuttingDown => building = None
    BY <2>1, NoneLeft
  <2>4. CASE built = 0
    <3>1. Register(resolve.version)
      BY <1>8, <2>4 DEF DisposeOld
    <3> QED
      BY <1>1, <1>4, <2>1, <2>2, <2>3, <2>4, <3>1
  <2>5. CASE built # 0
    <3>1. /\ definition' = None /\ resolve' = [resolve EXCEPT !.phase = "disposing"]
          /\ UNCHANGED <<holder, registered, spoilt>>
      BY <1>8, <2>5 DEF DisposeOld
    <3>2. resolve' \in Resolve /\ resolve'.phase = "disposing" /\ resolve'.version = resolve.version
      BY <1>1, <3>1 DEF Resolve
    <3>3. ManagerInv'
      BY <1>2, <2>1, <2>2, <3>1, HoldersMove
    <3>4. RegistrarTypeOK'
      BY <1>1, <2>1, <3>1, <3>2 DEF RegistrarTypeOK
    <3>5. Recorded' /\ RegistryCoherent'
      BY <2>1, <2>3, <3>1, <3>2 DEF Recorded, RegistryCoherent
    <3> QED
      BY <3>3, <3>4, <3>5 DEF RegistrarInv
  <2> QED
    BY <2>4, <2>5
<1>9. CASE RegisterNew
  <2>1. /\ resolve.phase = "disposing" /\ built' = 0 /\ Register(resolve.version)
        /\ UNCHANGED <<building, connectors, entry, shuttingDown, config, edits>>
    BY <1>9 DEF RegisterNew
  <2>2. ~shuttingDown => building = None
    BY <1>1, <2>1 DEF Recorded, RegistryCoherent
  <2> QED
    BY <1>1, <1>2, <1>4, <2>1, <2>2
<1> QED
  BY <1>5, <1>6, <1>7, <1>8, <1>9 DEF RegistrarStep

-----------------------------------------------------------------------------
(***************************************************************************)
(* The process's steps.                                                    *)
(***************************************************************************)

\* Only callers of ensure(), attempts that begin and holders that are done change state.
LEMMA HolderSteps ==
  ASSUME ManagerInv, RegistrarInv, CallersMove, UNCHANGED registrarVars,
         UNCHANGED <<definition, built, building, connectors, entry, shuttingDown>>,
         \A h \in Holders : holder'[h].state = "ensuring" => holder[h].state = "ensuring"
  PROVE  ManagerInv' /\ RegistrarInv'
<1>1. ManagerTypeOK /\ connectors \in Seq(Connector) /\ definition \in Versions \cup {None}
  BY ManagerFacts DEF ManagerTypeOK
<1>2. ManagerInv'
  BY <1>1, HoldersMove DEF CallersMove
<1>3. RegistrarInv'
  BY DEF RegistrarInv, RegistrarTypeOK, Recorded, RegistryCoherent, registrarVars, In
<1> QED
  BY <1>2, <1>3

LEMMA ReleaseSteps ==
  ASSUME ManagerInv, RegistrarInv, NEW h \in Holders, Release(h), UNCHANGED registrarVars
  PROVE  ManagerInv' /\ RegistrarInv'
<1>1. holder \in [Holders -> Holder] /\ MaxBuilds \in Nat
  BY ManagerFacts
<1>2. /\ holder[h].state = "leased" /\ holder' = Set({h}, "done", 0)
      /\ UNCHANGED <<definition, built, building, connectors, entry, shuttingDown>>
  BY DEF Release
<1>3. "done" \in HolderStates /\ 0 \in 0..MaxBuilds
  BY <1>1 DEF HolderStates
<1>4. /\ holder' \in [Holders -> Holder] /\ holder'[h].state = "done"
      /\ \A g \in Holders : g # h => holder'[g] = holder[g]
  BY <1>1, <1>2, <1>3, SetOne
<1>5. CallersMove /\ \A g \in Holders : holder'[g].state = "ensuring" => holder[g].state = "ensuring"
  BY <1>2, <1>4 DEF CallersMove
<1> QED
  BY <1>2, <1>5, HolderSteps

LEMMA EnsureSteps ==
  ASSUME ManagerInv, RegistrarInv, NEW h \in Holders, Ensure(h)
  PROVE  ManagerInv' /\ RegistrarInv'
<1>1. /\ holder \in [Holders -> Holder] /\ MaxBuilds \in Nat /\ ManagerTypeOK
      /\ connectors \in Seq(Connector) /\ definition \in Versions \cup {None}
  BY ManagerFacts DEF ManagerTypeOK
<1>2. /\ holder[h].state = "new" /\ holder' = Set({h}, "ensuring", 0)
      /\ resolve' = IF resolve.phase = "idle" THEN [phase |-> "reading", version |-> None] ELSE resolve
      /\ UNCHANGED <<definition, built, building, connectors, entry, shuttingDown, config, edits, registered, spoilt>>
  BY DEF Ensure
<1>3. "ensuring" \in HolderStates /\ 0 \in 0..MaxBuilds
  BY <1>1 DEF HolderStates
<1>4. /\ holder' \in [Holders -> Holder] /\ holder'[h].state = "ensuring"
      /\ \A g \in Holders : g # h => holder'[g] = holder[g]
  BY <1>1, <1>2, <1>3, SetOne
<1>5. ManagerInv'
  BY <1>1, <1>2, <1>4, HoldersMove
<1>6. /\ resolve \in Resolve /\ resolve' \in Resolve /\ resolve'.phase # "idle"
      /\ (resolve'.phase \in {"draining", "disposing"} => resolve' = resolve)
      /\ (resolve'.phase = "disposing" <=> resolve.phase = "disposing")
  BY <1>2 DEF RegistrarInv, RegistrarTypeOK, Resolve
<1>7. RegistrarTypeOK'
  BY <1>2, <1>6 DEF RegistrarInv, RegistrarTypeOK
<1>8. Recorded' /\ RegistryCoherent'
  BY <1>2, <1>6 DEF RegistrarInv, Recorded, RegistryCoherent
<1> QED
  BY <1>5, <1>7, <1>8 DEF RegistrarInv

LEMMA ClaimSteps ==
  ASSUME ManagerInv, RegistrarInv, ReceiveClaim
  PROVE  ManagerInv' /\ RegistrarInv'
<1>1. holder \in [Holders -> Holder] /\ MaxBuilds \in Nat
  BY ManagerFacts
<1>2. PICK A \in SUBSET {a \in Attempts : holder[a].state = "new"} : holder' = Set(A, "asking", 0)
  BY DEF ReceiveClaim
<1>3. /\ "asking" \in HolderStates /\ 0 \in 0..MaxBuilds
      /\ UNCHANGED <<definition, built, building, connectors, entry, shuttingDown, registrarVars>>
  BY <1>1 DEF HolderStates, ReceiveClaim
<1>4. /\ holder' \in [Holders -> Holder]
      /\ \A h \in Holders : h \in A => holder'[h].state = "asking"
      /\ \A h \in Holders : h \notin A => holder'[h] = holder[h]
  BY <1>1, <1>2, <1>3, SetFacts
<1>5. \A h \in A : holder[h].state = "new"
  OBVIOUS
<1>6. CallersMove /\ \A g \in Holders : holder'[g].state = "ensuring" => holder[g].state = "ensuring"
  BY <1>4, <1>5 DEF CallersMove
<1> QED
  BY <1>3, <1>6, HolderSteps

\* What changes the manager and the registrar, and what only moves the process on.
LEMMA InnerSteps ==
  ASSUME ManagerInv, RegistrarInv, Next
  PROVE  ManagerInv' /\ RegistrarInv'
<1>1. RegistrarTypeOK /\ Recorded /\ RegistryCoherent
  BY DEF RegistrarInv
<1>2. ASSUME UNCHANGED registrarVars, ManagerInv', RegistryCoherent', UNCHANGED definition,
             \A h \in Holders : holder'[h].state = "ensuring" => holder[h].state = "ensuring"
      PROVE  ManagerInv' /\ RegistrarInv'
  BY <1>1, <1>2 DEF RegistrarInv, RegistrarTypeOK, Recorded, registrarVars, In
<1>3. CASE UNCHANGED <<managerVars, registrarVars>>
  BY <1>3 DEF managerVars, registrarVars, ManagerInv, ManagerTypeOK, EntryHeld, LeaseHeld, RegistrarInv,
              RegistrarTypeOK, Recorded, RegistryCoherent, In
<1>4. ASSUME NEW h \in Holders, Acquire(h), UNCHANGED registrarVars PROVE ManagerInv' /\ RegistrarInv'
  <2>1. \A g \in Holders : holder'[g].state = "ensuring" => holder[g].state = "ensuring"
    BY <1>4 DEF Acquire, AcquireRefused, AcquireLive, AcquireBuilt, AcquireBuilding, Set
  <2>2. UNCHANGED definition
    BY <1>4 DEF Acquire, AcquireRefused, AcquireLive, AcquireBuilt, AcquireBuilding
  <2> QED
    BY <1>1, <1>2, <1>4, <2>1, <2>2, AcquireSteps
<1>5. ASSUME BuildSucceeds \/ BuildFails, UNCHANGED registrarVars PROVE ManagerInv' /\ RegistrarInv'
  <2>1. \A g \in Holders : holder'[g].state = "ensuring" => holder[g].state = "ensuring"
    BY <1>5 DEF BuildSucceeds, BuildFails, Set
  <2>2. UNCHANGED definition
    BY <1>5 DEF BuildSucceeds, BuildFails
  <2> QED
    BY <1>1, <1>2, <1>5, <2>1, <2>2, BuildSteps
<1>6. ASSUME Sweep \/ ManagerShutdown, UNCHANGED registrarVars PROVE ManagerInv' /\ RegistrarInv'
  <2>1. ManagerInv' /\ RegistryCoherent'
    BY <1>1, <1>6, EntryGoes DEF Sweep, ManagerShutdown
  <2> QED
    BY <1>2, <1>6, <2>1 DEF Sweep, ManagerShutdown
<1>7. ASSUME EditConfig PROVE ManagerInv' /\ RegistrarInv'
  <2>1. /\ UNCHANGED <<registered, resolve, spoilt, managerVars>> /\ config' \in Versions
        /\ edits' = edits + 1 /\ edits < MaxEdits
    BY <1>7 DEF EditConfig
  <2> QED
    BY <1>1, <2>1, MaxEditsNatural
       DEF managerVars, ManagerInv, ManagerTypeOK, EntryHeld, LeaseHeld, RegistrarInv,
           RegistrarTypeOK, Recorded, RegistryCoherent, In
<1>8. ASSUME NEW s \in Searches, Arrive(s) \/ SearchEnds(s) \/ SearchTimesOut(s) PROVE ManagerInv' /\ RegistrarInv'
  <2>1. s \in Holders
    BY HoldersSplit
  <2> QED
    BY <1>8, <2>1, EnsureSteps, ReleaseSteps DEF Arrive, SearchEnds, SearchTimesOut
<1>9. ASSUME NEW a \in Attempts, AttemptEnds(a) PROVE ManagerInv' /\ RegistrarInv'
  <2>1. a \in Holders
    BY HoldersSplit
  <2> QED
    BY <1>9, <2>1, ReleaseSteps DEF AttemptEnds
<1>10. CASE ReceiveClaim
  BY <1>10, ClaimSteps
<1>11. CASE RegistrarStep
  BY <1>11, RegistrarSteps
<1> QED
  BY <1>3, <1>4, <1>5, <1>6, <1>7, <1>8, <1>9, <1>10, <1>11
     DEF Next, Start, StartFails, Signal, StopStep, ServerClosed, TimerExpires, DispatcherStopped,
         MaintainerStopped, DisposeConnectors, ConnectorsDisposed, Exit, CloseConnection, Block,
         SocketDrains, BeginCycle, PassBegins, PassEnds, AcquireStep, Background, Progress

LEMMA OuterSteps ==
  ASSUME ProcessTypeOK, Stages, Next
  PROVE  ProcessTypeOK' /\ Stages'
<1>1. ASSUME UNCHANGED <<mode, open, shuttingDown>>, expired' \in BOOLEAN, blocked' \subseteq Searches,
             cycle' \in BOOLEAN, awaited' \subseteq Attempts, passing' \in BOOLEAN
      PROVE  ProcessTypeOK' /\ Stages'
  BY <1>1 DEF ProcessTypeOK, Stages
<1>2. ASSUME UNCHANGED <<processVars, shuttingDown>> PROVE ProcessTypeOK' /\ Stages'
  BY <1>2 DEF ProcessTypeOK, Stages, processVars
<1>3. ASSUME NEW h \in Holders, AcquireStep(h) PROVE UNCHANGED <<processVars, shuttingDown>>
  BY <1>3 DEF AcquireStep, Acquire, AcquireRefused, AcquireLive, AcquireBuilt, AcquireBuilding
<1>4. ASSUME Background PROVE UNCHANGED <<processVars, shuttingDown>>
  <2>1. ASSUME RegistrarStep PROVE UNCHANGED shuttingDown
    BY <2>1 DEF RegistrarStep, ReadConfig, ReadFails, DisposeOld, DrainTimesOut, RegisterNew, Replace, managerVars
  <2> QED
    BY <1>4, <2>1 DEF Background, Progress, EditConfig, managerVars, BuildSucceeds, BuildFails, Sweep
<1>5. ASSUME \/ BeginCycle \/ ReceiveClaim \/ PassBegins \/ PassEnds \/ TimerExpires
             \/ \E s \in Searches : Block(s) \/ SocketDrains(s) \/ SearchEnds(s) \/ SearchTimesOut(s)
             \/ \E a \in Attempts : AttemptEnds(a)
      PROVE  ProcessTypeOK' /\ Stages'
  BY <1>1, <1>5
     DEF BeginCycle, ReceiveClaim, PassBegins, PassEnds, TimerExpires, Block, SocketDrains, SearchEnds,
         SearchTimesOut, AttemptEnds, Release, managerVars, processVars, ProcessTypeOK, Reading
<1>6. ASSUME NEW s \in Searches, Arrive(s) \/ CloseConnection(s) PROVE ProcessTypeOK' /\ Stages'
  BY <1>6 DEF Arrive, CloseConnection, Ensure, managerVars, ProcessTypeOK, Stages
<1>7. ASSUME UNCHANGED <<open, blocked, cycle, shuttingDown>>, mode' \in Modes, expired' \in {expired, FALSE},
             passing' \in {passing, TRUE}, awaited' \subseteq awaited \cup Attempts,
             shuttingDown => mode' \in {"disposing", "ending", "exited"}, open # {} => mode' \in {"up", "closing"}
      PROVE  ProcessTypeOK' /\ Stages'
  BY <1>7 DEF ProcessTypeOK, Stages
<1>8. ASSUME \/ Start \/ StartFails \/ Signal \/ ServerClosed \/ DispatcherStopped \/ MaintainerStopped
             \/ ConnectorsDisposed \/ Exit
      PROVE  ProcessTypeOK' /\ Stages'
  <2> USE DEF Start, StartFails, Signal, ServerClosed, DispatcherStopped, MaintainerStopped, ConnectorsDisposed, Exit,
              Reaches
  <2>1. UNCHANGED <<open, blocked, cycle, shuttingDown>> /\ mode' \in Modes
    BY <1>8 DEF managerVars, Modes
  <2>2. expired' \in {expired, FALSE} /\ passing' \in {passing, TRUE} /\ awaited' \subseteq awaited \cup Attempts
    BY <1>8 DEF InFlight
  <2>3. shuttingDown => mode' \in {"disposing", "ending", "exited"}
    BY <1>8 DEF Stages
  <2>4. open # {} => mode' \in {"up", "closing"}
    BY <1>8 DEF Stages
  <2> QED
    BY <1>7, <2>1, <2>2, <2>3, <2>4
<1>9. ASSUME DisposeConnectors PROVE ProcessTypeOK' /\ Stages'
  BY <1>9 DEF DisposeConnectors, ManagerShutdown, ProcessTypeOK, Stages, Modes
<1> QED
  BY <1>2, <1>3, <1>4, <1>5, <1>6, <1>8, <1>9 DEF Next, StopStep

LEMMA WiringInvInit == Init => WiringInv
<1> SUFFICES ASSUME Init PROVE WiringInv
  OBVIOUS
<1> USE DEF Init, ManagerInit, RegistrarInit
<1>1. <<>> \in Seq(Connector) /\ Len(<<>>) = 0 /\ DOMAIN <<>> = {}
  BY EmptySeq
<1>2. NoEntry \in Entry /\ [state |-> "new", connector |-> 0] \in Holder
  BY MaxBuildsNatural DEF NoEntry, Entry, Holder, HolderStates
<1>3. ManagerTypeOK
  <2>1. holder \in [Holders -> Holder] /\ \A h \in Holders : holder[h].state = "new"
    BY <1>2
  <2>2. NoEntry.state = "absent" /\ shuttingDown = FALSE
    BY DEF NoEntry
  <2>3. built \in {0} \cup DOMAIN connectors /\ definition = None /\ building = None /\ Len(connectors) <= MaxBuilds
    BY <1>1, MaxBuildsNatural
  <2> QED
    BY <1>1, <1>2, <2>1, <2>2, <2>3, MaxBuildsNatural DEF ManagerTypeOK
<1>4. EntryHeld /\ LeaseHeld
  BY DEF EntryHeld, LeaseHeld, NoEntry
<1>5. RegistrarInv
  <2>1. RegistrarTypeOK
    <3>1. In({"ensuring"}) = {}
      BY DEF In
    <3>2. 0 \in 0..MaxEdits
      BY MaxEditsNatural
    <3> QED
      BY <3>1, <3>2, ResolvingStates DEF RegistrarTypeOK
  <2>2. Recorded /\ RegistryCoherent
    BY ResolvingStates DEF Recorded, RegistryCoherent
  <2> QED
    BY <2>1, <2>2 DEF RegistrarInv
<1>6. ProcessTypeOK /\ Stages
  BY DEF ProcessTypeOK, Stages, Modes
<1> QED
  BY <1>3, <1>4, <1>5, <1>6 DEF WiringInv, ManagerInv

LEMMA WiringInvStep ==
  ASSUME WiringInv, [Next]_vars
  PROVE  WiringInv'
<1>1. CASE Next
  BY <1>1, InnerSteps, OuterSteps DEF WiringInv
<1>2. CASE UNCHANGED vars
  BY <1>2 DEF vars, managerVars, registrarVars, processVars, WiringInv, ManagerInv, ManagerTypeOK, EntryHeld,
              LeaseHeld, RegistrarInv, RegistrarTypeOK, Recorded, RegistryCoherent, In, ProcessTypeOK, Stages
<1> QED
  BY <1>1, <1>2

LEMMA AlwaysWiringInv == Spec => []WiringInv
<1> QED
  BY WiringInvInit, WiringInvStep, PTL DEF Spec

-----------------------------------------------------------------------------
(* The manager, the registrar and the process keep their shape (wiring.ts, *)
(* registerApplication.ts): a construction that ends finds room for its    *)
(* connector, and every lease is of one that was built.                    *)
THEOREM WiringTyping == Spec => []TypeOK
<1>1. WiringInv => TypeOK
  BY DEF WiringInv, ManagerInv, RegistrarInv, ProcessTypeOK, Stages, TypeOK
<1> QED
  BY <1>1, AlwaysWiringInv, PTL

(* registerApplication.ts: between resolutions the version ensure()        *)
(* reports is the version registered, unless the last document was         *)
(* rejected: the next one accepted makes the two agree again.              *)
THEOREM RecordStaysTrue == Spec => []RecordMatchesRegistry
<1>1. WiringInv => RecordMatchesRegistry
  BY DEF WiringInv, RegistrarInv, Recorded, RecordMatchesRegistry
<1> QED
  BY <1>1, AlwaysWiringInv, PTL

(* registerApplication.ts over the connector registry: no replacement      *)
(* overtakes a construction in flight, what is built and kept is of the    *)
(* version registered, and a rejection leaves nothing behind.              *)
THEOREM RegistryStaysCoherent == Spec => []RegistryCoherent
<1>1. WiringInv => RegistryCoherent
  BY DEF WiringInv, RegistrarInv
<1> QED
  BY <1>1, AlwaysWiringInv, PTL

(* registerApplication.ts (drainLeases) and wiring.ts (the sweep and       *)
(* stop()): no connector is disposed under a lease, but at shutdown under  *)
(* an attempt that outlived the grace window or a read whose client left.  *)
THEOREM LeasesRespected == Spec => LeaseNotPulled
<1>1. ASSUME WiringInv, [Next]_vars
      PROVE  [\A h \in Holders : \A c \in DOMAIN connectors :
                (h \in Leases(c) /\ ~connectors[c].disposed /\ connectors'[c].disposed)
                  => /\ mode = "grace"
                     /\ h \in Attempts => expired
                     /\ h \in Searches => h \notin open]_vars
  <2> SUFFICES ASSUME NEW h \in Holders, NEW c \in DOMAIN connectors,
                      holder[h].state = "leased", holder[h].connector = c,
                      ~connectors[c].disposed, connectors'[c].disposed
               PROVE  /\ mode = "grace"
                      /\ h \in Attempts => expired
                      /\ h \in Searches => h \notin open
    BY DEF Leases, In
  <2>1. /\ ManagerInv /\ connectors \in Seq(Connector) /\ DOMAIN connectors = 1..Len(connectors)
        /\ built \in {0} \cup DOMAIN connectors /\ entry.connector \in {0} \cup DOMAIN connectors
    BY <1>1, ManagerFacts DEF WiringInv
  <2>2. ~shuttingDown
    BY <2>1 DEF ManagerInv, LeaseHeld
  <2>3. Refcount # 0
    BY <2>1, <2>2, NoneLeft
  <2>4. CASE DisposeConnectors
    BY <1>1, <2>4 DEF DisposeConnectors, GraceOver, InFlight, WiringInv, Stages
  <2>5. ~Sweep /\ ~DisposeOld
    BY <2>3 DEF Sweep, DisposeOld, Drained
  <2>6. ~UNCHANGED connectors
    OBVIOUS
  <2>7. ~BuildSucceeds
    <3>1. SUFFICES ASSUME BuildSucceeds PROVE FALSE
      OBVIOUS
    <3> DEFINE new == [version |-> building, disposed |-> shuttingDown]
    <3>2. connectors' = Append(connectors, new) /\ building \in Versions /\ shuttingDown \in BOOLEAN
      BY <2>1, <3>1 DEF BuildSucceeds, ManagerInv, ManagerTypeOK
    <3>3. new \in Connector
      BY <3>2 DEF Connector
    <3> HIDE DEF new
    <3>4. connectors'[c] = connectors[c]
      BY <2>1, <3>2, <3>3, AppendProperties
    <3> QED
      BY <3>4
  <2>8. ASSUME RegistrarStep PROVE FALSE
    BY <2>5, <2>6, <2>8 DEF RegistrarStep, ReadConfig, ReadFails, DrainTimesOut, RegisterNew, Replace, managerVars
  <2>9. ASSUME NEW g \in Holders, Acquire(g) PROVE FALSE
    BY <2>6, <2>9 DEF Acquire, AcquireRefused, AcquireLive, AcquireBuilt, AcquireBuilding
  <2>10. ASSUME Background PROVE FALSE
    BY <2>5, <2>6, <2>7, <2>8, <2>10 DEF Background, Progress, EditConfig, managerVars, BuildFails
  <2>11. ASSUME NEW s \in Searches, \/ Arrive(s) \/ CloseConnection(s) \/ Block(s) \/ SocketDrains(s)
                                    \/ SearchEnds(s) \/ SearchTimesOut(s)
         PROVE  FALSE
    BY <2>6, <2>11 DEF Arrive, Ensure, CloseConnection, Block, SocketDrains, SearchEnds, SearchTimesOut, Release, managerVars
  <2>12. ASSUME \/ Start \/ StartFails \/ Signal \/ ServerClosed \/ TimerExpires \/ DispatcherStopped
                \/ MaintainerStopped \/ ConnectorsDisposed \/ Exit \/ BeginCycle \/ ReceiveClaim
                \/ PassBegins \/ PassEnds \/ (\E a \in Attempts : AttemptEnds(a)) \/ UNCHANGED vars
         PROVE  FALSE
    BY <2>6, <2>12
       DEF Start, StartFails, Signal, ServerClosed, TimerExpires, DispatcherStopped, MaintainerStopped,
           ConnectorsDisposed, Exit, BeginCycle, ReceiveClaim, PassBegins, PassEnds, AttemptEnds, Release,
           managerVars, vars
  <2> QED
    BY <1>1, <2>4, <2>9, <2>10, <2>11, <2>12 DEF Next, StopStep, AcquireStep
<1> QED
  BY <1>1, AlwaysWiringInv, PTL DEF Spec, LeaseNotPulled

=============================================================================
