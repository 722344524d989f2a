------------------------------- MODULE Wiring -------------------------------
(***************************************************************************)
(* The life of one process: index.ts and wiring.ts over the registrar, the *)
(* connector manager, the dispatcher's loop, the maintenance pass and the  *)
(* HTTP server's reads.  A signal closes the server, and once every        *)
(* connection is gone stop() drains the dispatcher up to a budget, waits   *)
(* for the maintenance pass, gives attempts a grace window, disposes the   *)
(* connectors and ends the pool.  A request whose client has left goes on  *)
(* running: the server no longer waits for it.                             *)
(*                                                                         *)
(* What a claim takes and what an attempt does to its row is the business  *)
(* of Dispatcher.tla; here a cycle launches attempts, and an attempt       *)
(* borrows the connector and returns it.                                   *)
(***************************************************************************)
EXTENDS ApplicationRegistrar

CONSTANTS
  Searches,   \* streaming reads
  Attempts    \* operations the dispatcher may claim

ASSUME HoldersSplit == Holders = Searches \cup Attempts /\ Searches \cap Attempts = {}

VARIABLES
  mode,      \* how far the process has come, in the order of Modes
  expired,   \* has the timer of the present stage of stop() run out?
  open,      \* connections of reads, the server's side
  blocked,   \* reads whose handler waits for the socket to drain
  cycle,     \* is the dispatcher between its claim and the claim's answer?
  awaited,   \* the attempts dispatcher.stop() waits for: those in flight when it was called
  passing    \* is a maintenance pass running?

processVars == <<mode, expired, open, blocked, cycle, awaited, passing>>
vars == <<managerVars, registrarVars, processVars>>

Modes == {"booting", "up", "closing", "draining", "stopping", "grace", "disposing", "ending", "exited"}

Init ==
  /\ ManagerInit
  /\ RegistrarInit
  /\ mode = "booting"
  /\ expired = FALSE
  /\ open = {}
  /\ blocked = {}
  /\ cycle = FALSE
  /\ awaited = {}
  /\ passing = FALSE

Alive == mode \notin {"booting", "exited"}
InFlight == {a \in Attempts : holder[a].state \in {"asking", "waiting", "leased"}}
Reading == {s \in Searches : holder[s].state = "leased"}

-----------------------------------------------------------------------------
(***************************************************************************)
(* Start.  Every await that can fail - the pool's first query, the         *)
(* configuration store, the connector bundles - comes before the manager,  *)
(* the dispatcher and the maintainer start, and those start together; a    *)
(* failure before ends the process.                                        *)
(***************************************************************************)
Start ==
  /\ mode = "booting"
  /\ mode' = "up"
  /\ passing' = TRUE
  /\ UNCHANGED <<managerVars, registrarVars, expired, open, blocked, cycle, awaited>>

StartFails ==
  /\ mode = "booting"
  /\ mode' = "exited"
  /\ UNCHANGED <<managerVars, registrarVars, expired, open, blocked, cycle, awaited, passing>>

-----------------------------------------------------------------------------
(***************************************************************************)
(* Reads: ensureApplication, acquire, search, and the end of the response. *)
(***************************************************************************)
Arrive(s) ==
  /\ mode = "up"
  /\ Ensure(s)
  /\ open' = open \cup {s}
  /\ UNCHANGED <<mode, expired, blocked, cycle, awaited, passing>>

\* write() returns false.
Block(s) ==
  /\ s \in Reading \ blocked
  /\ s \in open
  /\ blocked' = blocked \cup {s}
  /\ UNCHANGED <<managerVars, registrarVars, mode, expired, open, cycle, awaited, passing>>

\* "drain": only a socket that is still there drains.
SocketDrains(s) ==
  /\ s \in blocked \cap open
  /\ blocked' = blocked \ {s}
  /\ UNCHANGED <<managerVars, registrarVars, mode, expired, open, cycle, awaited, passing>>

\* The search ends by itself, which it cannot while its handler waits.
SearchEnds(s) ==
  /\ s \in Reading \ blocked
  /\ Release(s)
  /\ UNCHANGED <<registrarVars, processVars>>

\* The attempt deadline ends a search whatever its handler does, and the lease is released.
SearchTimesOut(s) ==
  /\ s \in Reading
  /\ Release(s)
  /\ blocked' = blocked \ {s}
  /\ UNCHANGED <<registrarVars, mode, expired, open, cycle, awaited, passing>>

\* The client has its answer, or goes away in the middle.
CloseConnection(s) ==
  /\ s \in open
  /\ open' = open \ {s}
  /\ UNCHANGED <<managerVars, registrarVars, mode, expired, blocked, cycle, awaited, passing>>

-----------------------------------------------------------------------------
(***************************************************************************)
(* The dispatcher's loop and its attempts.                                 *)
(***************************************************************************)
\* The timer is cleared by stop(); an unregistered application is offered no slot.
BeginCycle ==
  /\ mode \in {"up", "closing"}
  /\ ~cycle
  /\ definition # None
  /\ cycle' = TRUE
  /\ UNCHANGED <<managerVars, registrarVars, mode, expired, open, blocked, awaited, passing>>

\* The claim's answer: attempts begin, also when stop() has been called since.
ReceiveClaim ==
  /\ cycle /\ Alive
  /\ cycle' = FALSE
  /\ \E A \in SUBSET {a \in Attempts : holder[a].state = "new"} : holder' = Set(A, "asking", 0)
  /\ UNCHANGED <<definition, built, building, connectors, entry, shuttingDown,
                 registrarVars, mode, expired, open, blocked, awaited, passing>>

AttemptEnds(a) ==
  /\ a \in Attempts
  /\ Release(a)
  /\ UNCHANGED <<registrarVars, processVars>>

-----------------------------------------------------------------------------
(***************************************************************************)
(* Stop, stage by stage.                                                   *)
(***************************************************************************)
Reaches(stage) ==
  /\ mode' = stage
  /\ expired' = FALSE

Signal ==
  /\ mode = "up"
  /\ Reaches("closing")
  /\ UNCHANGED <<managerVars, registrarVars, open, blocked, cycle, awaited, passing>>

\* server.close() calls back; stop() stops the loop and looks at the attempts in flight.
ServerClosed ==
  /\ mode = "closing"
  /\ open = {}
  /\ Reaches("draining")
  /\ awaited' = InFlight
  /\ UNCHANGED <<managerVars, registrarVars, open, blocked, cycle, passing>>

\* The drain budget, or the grace window, runs out.
TimerExpires ==
  /\ mode \in {"draining", "grace"}
  /\ ~expired
  /\ expired' = TRUE
  /\ UNCHANGED <<managerVars, registrarVars, mode, open, blocked, cycle, awaited, passing>>

\* Mutated: the drain has no budget.
DispatcherStoppedUnbounded ==
  /\ mode = "draining"
  /\ awaited \cap InFlight = {}
  /\ Reaches("stopping")
  /\ UNCHANGED <<managerVars, registrarVars, open, blocked, cycle, awaited, passing>>

DispatcherStopped ==
  /\ mode = "draining"
  /\ awaited \cap InFlight = {} \/ expired
  /\ Reaches("stopping")
  /\ UNCHANGED <<managerVars, registrarVars, open, blocked, cycle, awaited, passing>>

PassEnds ==
  /\ passing
  /\ passing' = FALSE
  /\ UNCHANGED <<managerVars, registrarVars, mode, expired, open, blocked, cycle, awaited>>

PassBegins ==
  /\ mode \in {"up", "closing", "draining"}
  /\ ~passing
  /\ passing' = TRUE
  /\ UNCHANGED <<managerVars, registrarVars, mode, expired, open, blocked, cycle, awaited>>

MaintainerStopped ==
  /\ mode = "stopping"
  /\ ~passing
  /\ Reaches("grace")
  /\ UNCHANGED <<managerVars, registrarVars, open, blocked, cycle, awaited, passing>>

\* Mutated: the grace window looks at the attempts stop() began with.
GraceOverAwaited == awaited \cap InFlight = {} \/ expired

GraceOver == InFlight = {} \/ expired

\* manager.shutdown() begins.
DisposeConnectors ==
  /\ mode = "grace"
  /\ GraceOver
  /\ mode' = "disposing"
  /\ ManagerShutdown
  /\ UNCHANGED <<registrarVars, expired, open, blocked, cycle, awaited, passing>>

\* It has waited for a build in flight and torn that down too; pool.end() begins.
ConnectorsDisposed ==
  /\ mode = "disposing"
  /\ building = None
  /\ mode' = "ending"
  /\ UNCHANGED <<managerVars, registrarVars, expired, open, blocked, cycle, awaited, passing>>

\* pool.end() waits for the connection a claim still holds.
Exit ==
  /\ mode = "ending"
  /\ ~cycle
  /\ mode' = "exited"
  /\ UNCHANGED <<managerVars, registrarVars, expired, open, blocked, cycle, awaited, passing>>

StopStep ==
  \/ ServerClosed \/ TimerExpires \/ DispatcherStopped \/ MaintainerStopped
  \/ DisposeConnectors \/ ConnectorsDisposed \/ Exit

-----------------------------------------------------------------------------
\* What the process's own promises drive.
Progress ==
  \/ Alive /\ RegistrarStep /\ UNCHANGED processVars
  \/ Alive /\ (BuildSucceeds \/ BuildFails) /\ UNCHANGED <<registrarVars, processVars>>

\* A document may change whether or not the process is there to read it.
Background ==
  \/ EditConfig /\ UNCHANGED processVars
  \/ Progress
  \/ /\ Alive /\ ~shuttingDown
     /\ Sweep
     /\ UNCHANGED <<registrarVars, processVars>>

AcquireStep(h) == Alive /\ Acquire(h) /\ UNCHANGED <<registrarVars, processVars>>

Next ==
  \/ Start \/ StartFails \/ Signal \/ StopStep
  \/ \E s \in Searches :
       \/ Arrive(s) \/ CloseConnection(s)
       \/ Alive /\ (Block(s) \/ SocketDrains(s) \/ SearchEnds(s) \/ SearchTimesOut(s))
  \/ BeginCycle \/ ReceiveClaim
  \/ \E a \in Attempts : Alive /\ AttemptEnds(a)
  \/ \E h \in Holders : AcquireStep(h)
  \/ Alive /\ (PassBegins \/ PassEnds)
  \/ Background

Spec == Init /\ [][Next]_vars

-----------------------------------------------------------------------------
(***************************************************************************)
(* What must go on: the registrar's awaits (reads, a bounded drain, a      *)
(* disposal), the connector factory, an acquire once asked, the attempt    *)
(* deadline on a search, statements under statement_timeout (the claim,    *)
(* the maintenance pass), timers, stop() itself, and clients, which read   *)
(* their answer or leave.  An attempt need not end: the drain budget and   *)
(* the grace window exist because it may not.                              *)
(***************************************************************************)
Fairness ==
  /\ WF_vars(Progress)
  /\ \A a \in Attempts : WF_vars(AcquireStep(a))
  /\ \A s \in Searches : /\ WF_vars(AcquireStep(s) \/ (Alive /\ SearchTimesOut(s)))
                        /\ WF_vars(CloseConnection(s))
  /\ WF_vars(ReceiveClaim)
  /\ WF_vars(Alive /\ PassEnds)
  /\ WF_vars(StopStep)

FairSpec == Spec /\ Fairness

TypeOK ==
  /\ ManagerTypeOK
  /\ RegistrarTypeOK
  /\ mode \in Modes
  /\ expired \in BOOLEAN
  /\ open \subseteq Searches
  /\ blocked \subseteq Searches
  /\ cycle \in BOOLEAN
  /\ awaited \subseteq Attempts
  /\ passing \in BOOLEAN
  /\ open # {} => mode \in {"up", "closing", "exited"}

\* No connector is disposed under a lease (registerApplication.ts:143-149,
\* wiring.ts:386-405): neither by a replacement nor by a sweep; at shutdown
\* only under an attempt that outlived the grace window, or a read whose
\* client has gone.
LeaseNotPulled ==
  [][\A h \in Holders : \A c \in DOMAIN connectors :
       (h \in Leases(c) /\ ~connectors[c].disposed /\ connectors'[c].disposed)
         => /\ mode = "grace"
            /\ h \in Attempts => expired
            /\ h \in Searches => h \notin open]_vars

\* Between resolutions the registrar's record and the registry agree, unless the
\* last document registered was rejected (registerApplication.ts:112-140, 183):
\* the version ensure() reports is the one that new connectors are built from,
\* and a rejection parts the two no longer than until the next acceptance.
RecordMatchesRegistry == resolve.phase = "idle" /\ ~spoilt => registered = definition

\* What the registry builds and keeps is of the registered version, and a
\* document's rejection leaves nothing behind that would refuse the next
\* registration: no replacement overtakes a construction in flight, whose
\* waiting callers count as leases (registerApplication.ts:128-164).
RegistryCoherent ==
  ~shuttingDown =>
    /\ building # None => building = definition
    /\ built # 0 /\ definition # None => connectors[built].version = definition
    /\ definition = None /\ resolve.phase # "disposing" => built = 0

\* Every read that began is over in the end, even when an attempt never returns
\* its lease and the document has changed under it (registerApplication.ts:
\* 150-164: the drain gives up), and even when its client has gone while the
\* handler waits for the socket (objectsRoutes.ts:80-89).
EveryReadEnds ==
  []<>(mode = "exited" \/ \A s \in Searches : holder[s].state \in {"new", "done"})

\* A signal ends the process, though attempts may never finish (index.ts:30-49,
\* wiring.ts:406-432).
StopCompletes == (mode = "closing") ~> (mode = "exited")

\* "A changed config means the built instance was made from the old document
\* and is wrong" (registerApplication.ts:128): a connector lent out was built
\* from the version now registered.
LeaseIsCurrent ==
  \A h \in In({"leased"}) : definition # None => connectors[holder[h].connector].version = definition

=============================================================================
