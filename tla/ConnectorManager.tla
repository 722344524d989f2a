-------------------------- MODULE ConnectorManager --------------------------
(***************************************************************************)
(* The connector framework's ConnectorRegistry and ConnectorManager for    *)
(* one application, as this service drives them: an external package,      *)
(* modelled from the calls of registerApplication.ts, wiring.ts,           *)
(* objectsRoutes.ts and Dispatcher.ts.  The registry holds a definition    *)
(* (what to build) and the instance built from it; the manager holds a     *)
(* live entry, through which it lends the instance out, and disposes what  *)
(* has been idle.  The two are told apart because registration touches     *)
(* only the registry.                                                      *)
(*                                                                         *)
(* Steps follow the awaits: code between two awaits is one action.  A      *)
(* connector counts as disposed from the moment its disposal begins.       *)
(* Pooled connectors are left out: a pool stands where its connector does. *)
(***************************************************************************)
EXTENDS Integers, FiniteSets, Sequences

CONSTANTS
  Versions,   \* versions of the application's configuration document
  Holders,    \* requests and attempts that may borrow the connector, each once
  MaxBuilds   \* bound on the connectors built in a behaviour

None == "none"
ASSUME VersionsNamed == None \notin Versions
ASSUME HoldersFinite == IsFiniteSet(Holders)
ASSUME MaxBuildsNatural == MaxBuilds \in Nat

VARIABLES
  definition,    \* registry: the version registered, or None
  built,         \* registry: the connector constructed and kept, 0 for none
  building,      \* registry: the version being constructed, or None
  connectors,    \* every connector constructed, in order
  entry,         \* manager: the live entry
  holder,        \* holder[h]: how far h has come, and the connector it was lent
  shuttingDown   \* manager: acquire refuses

managerVars == <<definition, built, building, connectors, entry, holder, shuttingDown>>

NoEntry == [state |-> "absent", connector |-> 0]
Entry == [state: {"absent", "building", "ready"}, connector: 0..MaxBuilds]

\* "ensuring": waits for the registrar.  "asking": about to call acquire.
HolderStates == {"new", "ensuring", "asking", "waiting", "leased", "done"}
Holder == [state: HolderStates, connector: 0..MaxBuilds]

Connector == [version: Versions, disposed: BOOLEAN]

ManagerInit ==
  /\ definition = None
  /\ built = 0
  /\ building = None
  /\ connectors = <<>>
  /\ entry = NoEntry
  /\ holder = [h \in Holders |-> [state |-> "new", connector |-> 0]]
  /\ shuttingDown = FALSE

In(states) == {h \in Holders : holder[h].state \in states}
Leases(c) == {h \in In({"leased"}) : holder[h].connector = c}

\* refcountOf: the reference is taken before the build is awaited.
Refcount == IF entry.state = "absent" THEN 0 ELSE Cardinality(In({"waiting", "leased"}))

Set(H, state, c) ==
  [h \in Holders |-> IF h \in H THEN [state |-> state, connector |-> c] ELSE holder[h]]

Disposed(c) == IF c = 0 THEN connectors ELSE [connectors EXCEPT ![c].disposed = TRUE]

-----------------------------------------------------------------------------
(***************************************************************************)
(* acquire.  A live entry is shared, whatever it was built from.           *)
(***************************************************************************)
AcquireRefused(h) ==
  /\ holder[h].state = "asking"
  /\ shuttingDown \/ (entry.state = "absent" /\ built = 0 /\ definition = None)
  /\ holder' = Set({h}, "done", 0)
  /\ UNCHANGED <<definition, built, building, connectors, entry, shuttingDown>>

AcquireLive(h) ==
  /\ holder[h].state = "asking" /\ ~shuttingDown
  /\ entry.state # "absent"
  /\ holder' = IF entry.state = "ready" THEN Set({h}, "leased", entry.connector)
               ELSE Set({h}, "waiting", 0)
  /\ UNCHANGED <<definition, built, building, connectors, entry, shuttingDown>>

\* A new entry around the instance the registry still keeps.
AcquireBuilt(h) ==
  /\ holder[h].state = "asking" /\ ~shuttingDown
  /\ entry.state = "absent" /\ built # 0
  /\ entry' = [state |-> "ready", connector |-> built]
  /\ holder' = Set({h}, "leased", built)
  /\ UNCHANGED <<definition, built, building, connectors, shuttingDown>>

\* A new entry, published before the construction it starts.
AcquireBuilding(h) ==
  /\ holder[h].state = "asking" /\ ~shuttingDown
  /\ entry.state = "absent" /\ built = 0 /\ definition # None
  /\ Len(connectors) < MaxBuilds
  /\ building' = definition
  /\ entry' = [state |-> "building", connector |-> 0]
  /\ holder' = Set({h}, "waiting", 0)
  /\ UNCHANGED <<definition, built, connectors, shuttingDown>>

Acquire(h) == AcquireRefused(h) \/ AcquireLive(h) \/ AcquireBuilt(h) \/ AcquireBuilding(h)

\* The factory answers.  A shutdown that waits for the build tears the connector down at once.
BuildSucceeds ==
  LET c == Len(connectors) + 1
  IN /\ building # None
     /\ building' = None
     /\ built' = c
     /\ connectors' = Append(connectors, [version |-> building, disposed |-> shuttingDown])
     /\ entry' = IF entry.state = "building" THEN [state |-> "ready", connector |-> c] ELSE entry
     /\ holder' = Set(In({"waiting"}), "leased", c)
     /\ UNCHANGED <<definition, shuttingDown>>

BuildFails ==
  /\ building # None
  /\ building' = None
  /\ entry' = IF entry.state = "building" THEN NoEntry ELSE entry
  /\ holder' = Set(In({"waiting"}), "done", 0)
  /\ UNCHANGED <<definition, built, connectors, shuttingDown>>

Release(h) ==
  /\ holder[h].state = "leased"
  /\ holder' = Set({h}, "done", 0)
  /\ UNCHANGED <<definition, built, building, connectors, entry, shuttingDown>>

\* sweep: an idle entry goes and its connector is disposed; the registry is not told.
Sweep ==
  /\ entry.state = "ready" /\ Refcount = 0
  /\ entry' = NoEntry
  /\ connectors' = Disposed(entry.connector)
  /\ UNCHANGED <<definition, built, building, holder, shuttingDown>>

\* shutdown: no guard on the leases; an entry still building is torn down by BuildSucceeds.
ManagerShutdown ==
  /\ shuttingDown' = TRUE
  /\ entry' = NoEntry
  /\ connectors' = Disposed(entry.connector)
  /\ UNCHANGED <<definition, built, building, holder>>

ManagerTypeOK ==
  /\ definition \in Versions \cup {None}
  /\ built \in {0} \cup DOMAIN connectors
  /\ building \in Versions \cup {None}
  /\ connectors \in Seq(Connector) /\ Len(connectors) <= MaxBuilds
  /\ entry \in Entry
  /\ holder \in [Holders -> Holder]
  /\ shuttingDown \in BOOLEAN
  /\ entry.state = "building" => building # None
  /\ entry.state = "ready" => entry.connector \in DOMAIN connectors
  /\ \A h \in Holders : holder[h].state = "leased" => holder[h].connector \in DOMAIN connectors

=============================================================================
