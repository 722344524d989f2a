------------------------ MODULE ApplicationRegistrar ------------------------
(***************************************************************************)
(* registerApplication.ts for one application: ensure() shares one         *)
(* resolution among concurrent callers; a resolution reads the             *)
(* configuration and, when its version is not the registered one, waits    *)
(* for the leases to be released, disposes the instance and registers the  *)
(* new version.  The operator may replace the document at any time, also   *)
(* by one that registration rejects, and may put an old one back.          *)
(***************************************************************************)
EXTENDS ConnectorManager

CONSTANTS
  Bad,        \* versions that registerInstance or resolveSchedulingConfig rejects
  MaxEdits    \* bound on the operator's edits

ASSUME BadVersions == Bad \subseteq Versions
ASSUME MaxEditsNatural == MaxEdits \in Nat

VARIABLES
  config,      \* the version the configuration store holds
  edits,       \* edits so far
  registered,  \* the registrar's own record of the registered version, or None
  resolve,     \* the resolution in flight
  spoilt       \* has the last registration been rejected?

registrarVars == <<config, edits, registered, resolve, spoilt>>

NotResolving == [phase |-> "idle", version |-> None]
Resolve == [phase: {"idle", "reading", "draining", "disposing"}, version: Versions \cup {None}]

RegistrarInit ==
  /\ config \in Versions
  /\ edits = 0
  /\ registered = None
  /\ resolve = NotResolving
  /\ spoilt = FALSE

EditConfig ==
  /\ edits < MaxEdits
  /\ edits' = edits + 1
  /\ \E v \in Versions \ {config} : config' = v
  /\ UNCHANGED <<registered, resolve, spoilt, managerVars>>

\* ensure: begins a resolution, or joins the one in flight.
Ensure(h) ==
  /\ holder[h].state = "new"
  /\ holder' = Set({h}, "ensuring", 0)
  /\ resolve' = IF resolve.phase = "idle" THEN [phase |-> "reading", version |-> None] ELSE resolve
  /\ UNCHANGED <<definition, built, building, connectors, entry, shuttingDown,
                 config, edits, registered, spoilt>>

\* Mutated: a failed resolution leaves its callers waiting.
SettleFailuresSilently(succeeded) ==
  /\ resolve' = NotResolving
  /\ holder' = IF succeeded THEN Set(In({"ensuring"}), "asking", 0) ELSE holder

\* The resolution settles, and every caller that shared it goes on, or fails, with it.
Settle(succeeded) ==
  /\ resolve' = NotResolving
  /\ holder' = Set(In({"ensuring"}), IF succeeded THEN "asking" ELSE "done", 0)

\* A document registerInstance rejects leaves no definition; one that only its
\* scheduling half disqualifies leaves a definition the registrar does not know of.
Rejected(v) ==
  /\ v \in Bad
  /\ definition' \in {None, v}
  /\ registered' = registered
  /\ spoilt' = TRUE
  /\ Settle(FALSE)

\* Mutated: the version is recorded before anything that may reject it.
RegisterEager(v) ==
  /\ definition' \in IF v \in Bad THEN {None, v} ELSE {v}
  /\ registered' = v
  /\ spoilt' = spoilt
  /\ Settle(v \notin Bad)

Register(v) ==
  \/ Rejected(v)
  \/ /\ v \notin Bad
     /\ definition' = v
     /\ registered' = v
     /\ spoilt' = FALSE
     /\ Settle(TRUE)

ReadFails ==
  /\ resolve.phase = "reading"
  /\ Settle(FALSE)
  /\ UNCHANGED <<definition, built, building, connectors, entry, shuttingDown,
                 config, edits, registered, spoilt>>

\* resolve: the version read is the registered one.
Current == registered = config

Replace ==
  /\ definition # None
  /\ resolve' = [phase |-> "draining", version |-> config]
  /\ UNCHANGED <<managerVars, config, edits, registered, spoilt>>

\* store.get answers: nothing to do, a replacement to begin, or a first registration.
ReadConfig ==
  /\ resolve.phase = "reading"
  /\ \/ /\ Current
        /\ Settle(TRUE)
        /\ UNCHANGED <<definition, built, building, connectors, entry, shuttingDown,
                       config, edits, registered, spoilt>>
     \/ ~Current /\ Replace
     \/ /\ ~Current /\ definition = None
        /\ Register(config)
        /\ UNCHANGED <<built, building, connectors, entry, shuttingDown, config, edits>>

\* Mutated: the leases are not asked for.
DrainedAlways == TRUE

Drained == Refcount = 0

\* drainLeases sees no lease, and disposeInstance begins; with nothing built it is over at once.
DisposeOld ==
  /\ resolve.phase = "draining"
  /\ Drained
  /\ connectors' = Disposed(built)
  /\ IF built = 0
       THEN Register(resolve.version)
       ELSE /\ definition' = None
            /\ resolve' = [resolve EXCEPT !.phase = "disposing"]
            /\ UNCHANGED <<holder, registered, spoilt>>
  /\ UNCHANGED <<built, building, entry, shuttingDown, config, edits>>

\* Mutated: the wait has no deadline.
DrainNeverTimesOut == FALSE

DrainTimesOut ==
  /\ resolve.phase = "draining"
  /\ ~Drained
  /\ Settle(FALSE)
  /\ UNCHANGED <<definition, built, building, connectors, entry, shuttingDown,
                 config, edits, registered, spoilt>>

\* The disposal settles either way: the instance leaves the registry and the new version is registered.
RegisterNew ==
  /\ resolve.phase = "disposing"
  /\ built' = 0
  /\ Register(resolve.version)
  /\ UNCHANGED <<building, connectors, entry, shuttingDown, config, edits>>

RegistrarStep == ReadConfig \/ ReadFails \/ DisposeOld \/ DrainTimesOut \/ RegisterNew

RegistrarTypeOK ==
  /\ config \in Versions
  /\ edits \in 0..MaxEdits
  /\ registered \in Versions \cup {None}
  /\ resolve \in Resolve
  /\ resolve.phase \in {"draining", "disposing"} => resolve.version # None
  /\ spoilt \in BOOLEAN
  /\ In({"ensuring"}) # {} => resolve.phase # "idle"

=============================================================================
