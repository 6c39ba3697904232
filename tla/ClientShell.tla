---------------------------- MODULE ClientShell ----------------------------
(***************************************************************************)
(* One client-shell endpoint session of src/client-shell-service.ts: the   *)
(* state its acquire function closes over, the message handler it installs *)
(* on the endpoint connection, surface.set, surface.awaitReady, the health *)
(* loop, the presentation-event backlog and the finalizers of its scope.   *)
(*                                                                         *)
(* The endpoint connection itself is EndpointConnection.tla; here it is    *)
(* the first failure it recorded, the boot it is bound to, and a reader    *)
(* that hands messages to the handler.  The peer may send any message of   *)
(* any revision at any time: the handler is what rejects them.             *)
(*                                                                         *)
(* Code between two suspension points is one action, except where it       *)
(* publishes a state and then goes on: publishing runs the consumers it    *)
(* wakes inside the call, and they may call, interrupt or close anything.  *)
(* `handling` is the snapshot handler inside its publication, and          *)
(* "announcing" and "presenting" are the two publications after which      *)
(* surface.set goes on.  What comes last needs no step of its own.         *)
(***************************************************************************)
EXTENDS Naturals

CONSTANTS
    Boots,          \* boot ids a server process may announce
    Revisions,      \* projection and surface revisions, natural numbers
    CommandIds,     \* ids of commands a projection may list
    Watchers,       \* callers of surface.awaitReady()
    Subscribers,    \* consumers of the presentation-event stream
    EventCapacity,  \* the presentationEvents backlog (8 in the code)
    MaxEvents,      \* bound: presentation events in one behaviour
    ServerRejects,  \* whether the server may refuse surface.set
    ConsumersInterrupt, \* whether a consumer may interrupt the surface.set that
                    \* is publishing the state it was woken with
    Undefined       \* JavaScript's undefined

ASSUME RevisionsAssumption == Revisions \subseteq Nat
ASSUME CapacityAssumption == EventCapacity \in Nat /\ MaxEvents \in Nat
ASSUME RejectsAssumption == ServerRejects \in BOOLEAN /\ ConsumersInterrupt \in BOOLEAN

\* A command of a projection; an action the schema does not know is decoded as
\* "unknown".
Listed == [id: CommandIds, known: BOOLEAN]
Projection == [boot: Boots, revision: Revisions, commands: SUBSET Listed]
Surface == [boot: Boots, revision: Revisions, projection: Revisions]
Patch == [boot: Boots, base: Revisions, revision: Revisions, projection: Revisions]

\* The object that a projection's command is: no two projections share one.
Command == [id: CommandIds, known: BOOLEAN, revision: Revisions]

Status == {"inactive", "activating", "deactivating", "awaitingSurface",
           "active", "closed"}
Floor == Revisions \cup {0}
State == [status: Status, floor: Floor, surface: Surface \cup {Undefined}]

Plain(status) == [status |-> status, floor |-> 0, surface |-> Undefined]
Awaiting(floor) ==
    [status |-> "awaitingSurface", floor |-> floor, surface |-> Undefined]
Active(floor, surface) ==
    [status |-> "active", floor |-> floor, surface |-> surface]

\* Why a connection ended, by the class of its HerdrEndpointFailure.
Reason == {"Closed", "InvalidMessage", "RequestTimeout", "TransportError"}

ASSUME UndefinedAssumption ==
    Undefined \notin Boots \cup Projection \cup Surface \cup State \cup Reason

\* Answers to client_shell.surface.set.  "garbled" is an answer whose error
\* or acknowledgement does not parse, or that is not the method's result.
NoReply == [kind |-> "garbled", active |-> FALSE, floor |-> 0]
Rejection == [NoReply EXCEPT !.kind = "rejected"]
Reply == [kind: {"ack"}, active: BOOLEAN, floor: Revisions] \cup {Rejection, NoReply}

VARIABLES
    phase,              \* "connecting" until the first projection, "released" at scope close
    failure,            \* the connection's first failure, Undefined while open
    reader,             \* the reader fiber still routes messages to the handler
    bootId,             \* the boot the connection is bound to
    currentProjection,
    currentSurface,
    surfaceState,
    commands,           \* the WeakSet of command objects handed out
    handling,           \* the projection whose handler is inside publishSurface
    setter,             \* the surface.set call that holds surfaceLock
    watching,           \* awaitReady callers: a sliding(1) slot each
    health,             \* the health loop
    events,             \* presentation events the reader has handed over
    seen,               \* how many of them each subscriber took or came too late for
    backlog             \* unread presentation events of each subscriber

\* Groups that most actions leave alone together.
wire == <<failure, reader, bootId>>
session == <<phase, currentProjection, currentSurface, commands, handling>>
presented == <<surfaceState, watching>>
presentation == <<events, seen, backlog>>

vars == <<wire, session, presented, setter, health, presentation>>

Setter == [step: {"idle", "announcing", "waiting", "answered", "presenting"},
           active: BOOLEAN, previous: State, reply: Reply]
Idle == [step |-> "idle", active |-> FALSE, previous |-> Plain("inactive"),
         reply |-> NoReply]

Watcher == [mode: {"idle", "waiting", "ready", "failed"},
            slot: State \cup {Undefined}, got: State \cup {Undefined}]

TypeOK ==
    /\ phase \in {"connecting", "ready", "released"}
    /\ failure \in Reason \cup {Undefined}
    /\ reader \in BOOLEAN
    /\ bootId \in Boots \cup {Undefined}
    /\ currentProjection \in Projection \cup {Undefined}
    /\ currentSurface \in Surface \cup {Undefined}
    /\ surfaceState \in State
    /\ commands \subseteq Command
    /\ handling \in Projection \cup {Undefined}
    /\ setter \in Setter
    /\ watching \in [Watchers -> Watcher]
    /\ health \in {"sleeping", "pinged", "ponged"}
    /\ events \in 0 .. MaxEvents
    /\ seen \in [Subscribers -> Nat \cup {Undefined}]
    /\ backlog \in [Subscribers -> 0 .. EventCapacity]

Init ==
    /\ phase = "connecting"
    /\ failure = Undefined
    /\ reader = TRUE
    /\ bootId = Undefined
    /\ currentProjection = Undefined
    /\ currentSurface = Undefined
    /\ surfaceState = Plain("inactive")
    /\ commands = {}
    /\ handling = Undefined
    /\ setter = Idle
    /\ watching = [w \in Watchers |->
                     [mode |-> "idle", slot |-> Undefined, got |-> Undefined]]
    /\ health = "sleeping"
    /\ events = 0
    /\ seen = [s \in Subscribers |-> Undefined]
    /\ backlog = [s \in Subscribers |-> 0]

-----------------------------------------------------------------------------
(* The connection as the session uses it.                                   *)

Open == failure = Undefined

\* Mutant of Fail: a later failure replaces the recorded one.
Fail_LastWins(reason) == failure' = reason

\* wire.fail: only the first failure is recorded.
Fail(reason) == failure' = IF Open THEN reason ELSE failure

\* An error in the handler ends the reader and fails the connection.
ReaderFails(reason) == reader' = FALSE /\ Fail(reason)

\* surface.set is inside a publication: only consumers run.
Publishing == setter.step \in {"announcing", "presenting"}

\* The reader hands over one message at a time, and none while others run.
Reading == reader /\ handling = Undefined /\ ~Publishing

\* Mutant of publishSurface: a full slot drops the new state instead of the old.
publishSurface_Dropping(state) ==
    /\ surfaceState' = state
    /\ watching' = [w \in Watchers |->
                      IF watching[w].mode = "waiting" /\ watching[w].slot = Undefined
                      THEN [watching[w] EXCEPT !.slot = state]
                      ELSE watching[w]]

\* publishSurface: the state every later reader sees and the one element a
\* sliding(1) subscription keeps for a consumer that has not caught up.
publishSurface(state) ==
    /\ surfaceState' = state
    /\ watching' = [w \in Watchers |->
                      IF watching[w].mode = "waiting"
                      THEN [watching[w] EXCEPT !.slot = state]
                      ELSE watching[w]]

-----------------------------------------------------------------------------
(* Messages.                                                                *)

CommandsOf(projection) ==
    {[id |-> c.id, known |-> c.known, revision |-> projection.revision] :
        c \in projection.commands}

\* Mutant of CompleteSnapshot: the commands handed out before are forgotten.
CompleteSnapshot_Replaces(projection) ==
    /\ commands' = CommandsOf(projection)
    /\ phase' = "ready"

\* The rest of the snapshot handler after its conditional publishSurface.
CompleteSnapshot(projection) ==
    /\ commands' = commands \cup CommandsOf(projection)
    /\ phase' = "ready"

Overtakes(projection) ==
    /\ surfaceState.status = "active"
    /\ surfaceState.surface.projection < projection.revision

\* A snapshot the connection's boot binding refuses.
RejectSnapshot(projection) ==
    /\ Reading
    /\ \/ ~Open /\ ReaderFails("Closed")
       \/ /\ Open
          /\ bootId # Undefined /\ bootId # projection.boot
          /\ ReaderFails("InvalidMessage")
    /\ UNCHANGED <<bootId, session, presented, setter, health, presentation>>

Newer(projection) ==
    currentProjection # Undefined => projection.revision > currentProjection.revision

\* shell.snapshot.v1: a replacement projection; one that is not newer is dropped.
ReceiveSnapshot(projection) ==
    /\ Reading
    /\ Open
    /\ bootId \in {Undefined, projection.boot}
    /\ Newer(projection)
    /\ bootId' = projection.boot
    /\ currentProjection' = projection
    /\ IF Overtakes(projection)
       THEN /\ publishSurface(Awaiting(projection.revision))
            /\ handling' = projection
            /\ UNCHANGED <<phase, commands>>
       ELSE /\ CompleteSnapshot(projection)
            /\ UNCHANGED <<handling, presented>>
    /\ UNCHANGED <<failure, reader, currentSurface, setter, health, presentation>>

FinishSnapshot ==
    /\ reader
    /\ handling # Undefined
    /\ ~Publishing
    /\ handling' = Undefined
    /\ CompleteSnapshot(handling)
    /\ UNCHANGED <<wire, currentProjection, currentSurface, presented, setter,
                   health, presentation>>

\* Mutant of Acceptable: a surface may be ahead of its projection.
Acceptable_AnyProjection(surface) ==
    currentProjection # Undefined /\ surface.boot = currentProjection.boot

\* The two revision checks acceptSurface makes before it keeps anything.
Acceptable(surface) ==
    /\ currentProjection # Undefined
    /\ surface.boot = currentProjection.boot
    /\ surface.projection <= currentProjection.revision

\* Mutant of SurfaceIsNewer: the surface revision is not compared.
SurfaceIsNewer_Unchecked(surface) == TRUE

SurfaceIsNewer(surface) ==
    currentSurface # Undefined => surface.revision > currentSurface.revision

\* Mutant of Presents: the floor is not compared.
Presents_AnyFloor(surface) == surfaceState.status \in {"active", "awaitingSurface"}

\* Whether a stored surface is also the one to present.
Presents(surface) ==
    /\ surfaceState.status \in {"active", "awaitingSurface"}
    /\ surface.projection >= surfaceState.floor

StoreSurface(surface) ==
    /\ currentSurface' = surface
    /\ IF Presents(surface)
       THEN publishSurface(Active(surfaceState.floor, surface))
       ELSE UNCHANGED <<presented>>
    /\ UNCHANGED <<failure, reader>>

\* acceptSurface.  `resolves` is retainClientShellGraphics finding every asset
\* the surface places; without it the surface is refused.
acceptSurface(surface, resolves) ==
    \/ /\ ~Acceptable(surface)
       /\ ReaderFails("InvalidMessage")
       /\ UNCHANGED <<currentSurface, presented>>
    \/ /\ Acceptable(surface) /\ SurfaceIsNewer(surface) /\ ~resolves
       /\ ReaderFails("InvalidMessage")
       /\ UNCHANGED <<currentSurface, presented>>
    \/ Acceptable(surface) /\ SurfaceIsNewer(surface) /\ resolves /\ StoreSurface(surface)

ReceiveSurface(surface, resolves) ==
    /\ Reading
    /\ acceptSurface(surface, resolves)
    /\ UNCHANGED <<bootId, phase, currentProjection, commands, handling, setter,
                   health, presentation>>

\* applyClientShellSurfacePatch accepts a patch of exactly the held surface.
PatchApplies(patch) ==
    /\ currentSurface # Undefined
    /\ patch.boot = currentSurface.boot
    /\ patch.projection = currentSurface.projection
    /\ patch.base = currentSurface.revision
    /\ patch.revision > currentSurface.revision

Patched(patch) == [currentSurface EXCEPT !.revision = patch.revision]

ReceivePatch(patch, resolves) ==
    /\ Reading
    /\ \/ /\ PatchApplies(patch)
          /\ acceptSurface(Patched(patch), resolves)
       \/ /\ ~PatchApplies(patch)
          /\ ReaderFails("InvalidMessage")
          /\ UNCHANGED <<currentSurface, presented>>
    /\ UNCHANGED <<bootId, phase, currentProjection, commands, handling, setter,
                   health, presentation>>

Subscribed == {s \in Subscribers : seen[s] # Undefined}

\* publish refuses an event when the slowest subscriber has a full backlog.
EventRefused == \E s \in Subscribed : backlog[s] = EventCapacity

\* Mutant of EventDelivered: a subscriber that is behind gets no further event.
EventDelivered_Coalesced ==
    [s \in Subscribers |-> IF s \in Subscribed /\ backlog[s] = 0 THEN 1 ELSE backlog[s]]

EventDelivered ==
    [s \in Subscribers |-> IF s \in Subscribed THEN backlog[s] + 1 ELSE 0]

\* A presentation event: everyone subscribed gets it, or the connection fails.
ReceiveEvent ==
    /\ Reading
    /\ events < MaxEvents
    /\ events' = events + 1
    /\ IF EventRefused
       THEN ReaderFails("InvalidMessage") /\ UNCHANGED backlog
       ELSE backlog' = EventDelivered /\ UNCHANGED <<failure, reader>>
    /\ UNCHANGED <<bootId, session, presented, setter, health, seen>>

\* endpoint.health.pong.v1 wakes the health loop if it waits for one.
ReceivePong ==
    /\ Reading
    /\ Open
    /\ health = "pinged"
    /\ health' = "ponged"
    /\ UNCHANGED <<wire, session, presented, setter, presentation>>

\* The answer to the surface.set in flight settles its pending request.
ReceiveReply(reply) ==
    /\ Reading
    /\ Open
    /\ setter.step = "waiting"
    /\ reply.kind = "rejected" => ServerRejects
    /\ setter' = [setter EXCEPT !.step = "answered", !.reply = reply]
    /\ UNCHANGED <<wire, session, presented, health, presentation>>

\* What the reader refuses or meets outside the handler: an undecodable or
\* unsupported message, a response nobody waits for, shutdown, end of stream.
ReceiveRefused(reason) ==
    /\ Reading
    /\ reason \in {"Closed", "InvalidMessage", "TransportError"}
    /\ ReaderFails(reason)
    /\ UNCHANGED <<bootId, session, presented, setter, health, presentation>>

\* The socket is destroyed, so the reader has no further message after those of
\* the chunk it holds when another fiber failed the connection.
ReaderStops ==
    /\ Reading
    /\ ~Open
    /\ reader' = FALSE
    /\ UNCHANGED <<failure, bootId, session, presented, setter, health,
                   presentation>>

-----------------------------------------------------------------------------
(* surface.set, one call at a time under surfaceLock.                       *)

\* surfaceLock is free, ensureOpen passes and there is a projection.
MaySet ==
    /\ phase = "ready"
    /\ Open
    /\ setter.step = "idle"
    /\ currentProjection # Undefined

\* Publishes the transition.
SetSurface(active) ==
    /\ MaySet
    /\ setter' = [step |-> "announcing", active |-> active, previous |-> surfaceState,
                  reply |-> NoReply]
    /\ publishSurface(Plain(IF active THEN "activating" ELSE "deactivating"))
    /\ UNCHANGED <<wire, session, health, presentation>>

\* The publication is over and the request goes out.
SetSends ==
    /\ setter.step = "announcing"
    /\ Open
    /\ setter' = [setter EXCEPT !.step = "waiting"]
    /\ UNCHANGED <<wire, session, presented, health, presentation>>

\* The pending table is full: no definite rejection, so the connection fails.
SetExceeds ==
    /\ setter.step = "announcing"
    /\ Open
    /\ Fail("InvalidMessage")
    /\ setter' = Idle
    /\ UNCHANGED <<reader, bootId, session, presented, health, presentation>>

\* A consumer that a publication woke interrupts the call, which ends as soon as
\* the publication returns.  What was published stands.
SetInterrupted ==
    /\ ConsumersInterrupt
    /\ Publishing
    /\ setter' = Idle
    /\ UNCHANGED <<wire, session, presented, health, presentation>>

\* Mutant of Restored: a rejection gives up the interest.
Restored_Inactive == Plain("inactive")

\* The state a definite rejection goes back to.
Restored ==
    IF /\ setter.previous.status = "active"
       /\ currentProjection # Undefined
       /\ setter.previous.surface.projection < currentProjection.revision
    THEN Awaiting(currentProjection.revision)
    ELSE setter.previous

\* The server does not list the method: refused like a rejection, unsent.
SetUnsupported ==
    /\ ServerRejects
    /\ setter.step = "announcing"
    /\ Open
    /\ publishSurface(Restored)
    /\ setter' = Idle
    /\ UNCHANGED <<wire, session, health, presentation>>

Agrees(reply) == reply.kind = "ack" /\ reply.active = setter.active

\* Mutant of MayResume: the answer is taken up in a session that has failed.
MayResume_AfterFailure == setter.step = "answered"

\* The answer is in and the request's own write has completed.
MayResume == setter.step = "answered" /\ Open

\* An acknowledged activation waits for a surface, whatever is held.
SetAcknowledged ==
    /\ MayResume
    /\ Agrees(setter.reply)
    /\ setter.active
    /\ publishSurface(Awaiting(setter.reply.floor))
    /\ setter' = [setter EXCEPT !.step = "presenting"]
    /\ UNCHANGED <<wire, session, health, presentation>>

\* The other ways the call goes on after wire.request returned its answer.
SetResumes ==
    /\ MayResume
    /\ setter' = Idle
    /\ \/ /\ Agrees(setter.reply) /\ ~setter.active
          /\ publishSurface(Plain("inactive"))
          /\ UNCHANGED failure
       \/ /\ setter.reply.kind = "rejected"
          /\ publishSurface(Restored)
          /\ UNCHANGED failure
       \/ /\ setter.reply.kind # "rejected" /\ ~Agrees(setter.reply)
          /\ Fail("InvalidMessage")
          /\ UNCHANGED <<presented>>
    /\ UNCHANGED <<reader, bootId, session, health, presentation>>

\* Whether the surface the session holds satisfies an acknowledged floor.
Holds(floor) == currentSurface # Undefined /\ currentSurface.projection >= floor

\* Mutant of PresentHeld: the surface already held is not looked at.
PresentHeld_Never(floor) == UNCHANGED <<presented>>

\* The held surface is presented if it is at the floor.
PresentHeld(floor) ==
    IF Holds(floor)
    THEN publishSurface(Active(floor, currentSurface))
    ELSE UNCHANGED <<presented>>

\* The publication of the wait is over.  Nobody asks whether the session has
\* failed meanwhile.
SetPresents ==
    /\ setter.step = "presenting"
    /\ PresentHeld(setter.reply.floor)
    /\ setter' = Idle
    /\ UNCHANGED <<wire, session, health, presentation>>

\* Mutant of InFlight: an answered call no longer counts.
InFlight_WaitingOnly == setter.step = "waiting"

\* The request has been made and has not returned.
InFlight == setter.step \in {"waiting", "answered"}

\* The request ends by its deadline, an interrupt or a write that failed: the
\* outcome is uncertain, so the connection fails with it.
SetAborts(reason) ==
    /\ InFlight
    /\ Open
    /\ reason \in Reason
    /\ Fail(reason)
    /\ setter' = Idle
    /\ UNCHANGED <<reader, bootId, session, presented, health, presentation>>

\* The connection failed under the call, or before its request was made.
SetFails ==
    /\ InFlight \/ setter.step = "announcing"
    /\ ~Open
    /\ setter' = Idle
    /\ UNCHANGED <<wire, session, presented, health, presentation>>

-----------------------------------------------------------------------------
(* Consumers.                                                               *)

\* Mutant of Subscription: it does not start with the current state.
Subscription_ChangesOnly == [mode |-> "waiting", slot |-> Undefined, got |-> Undefined]

\* surfaceStates: the state at subscription, then every later one the consumer
\* is in time for.
Subscription == [mode |-> "waiting", slot |-> surfaceState, got |-> Undefined]

\* surface.awaitReady().
AwaitReady(w) ==
    /\ phase = "ready"
    /\ Open
    /\ watching[w].mode = "idle"
    /\ watching' = [watching EXCEPT ![w] = Subscription]
    /\ UNCHANGED <<wire, session, surfaceState, setter, health, presentation>>

\* The consumer takes its slot and ends at the first active state.
WatcherTakes(w) ==
    /\ watching[w].mode = "waiting"
    /\ watching[w].slot # Undefined
    /\ watching' = [watching EXCEPT ![w] =
                      IF @.slot.status = "active"
                      THEN [mode |-> "ready", slot |-> Undefined, got |-> @.slot]
                      ELSE [@ EXCEPT !.slot = Undefined]]
    /\ UNCHANGED <<wire, session, surfaceState, setter, health, presentation>>

\* interruptWhen(wire.failure), or the deadline.
WatcherEnds(w) ==
    /\ watching[w].mode = "waiting"
    /\ watching' = [watching EXCEPT ![w] =
                      [mode |-> "failed", slot |-> Undefined, got |-> Undefined]]
    /\ UNCHANGED <<wire, session, surfaceState, setter, health, presentation>>

\* The event stream is live: it starts with the next event.
Subscribe(s) ==
    /\ phase = "ready"
    /\ Open
    /\ seen[s] = Undefined
    /\ seen' = [seen EXCEPT ![s] = events]
    /\ UNCHANGED <<wire, session, presented, setter, health, events, backlog>>

\* A subscriber takes everything it has not read.
TakeEvents(s) ==
    /\ s \in Subscribed
    /\ backlog[s] > 0
    /\ seen' = [seen EXCEPT ![s] = @ + backlog[s]]
    /\ backlog' = [backlog EXCEPT ![s] = 0]
    /\ UNCHANGED <<wire, session, presented, setter, health, events>>

Unsubscribe(s) ==
    /\ seen[s] # Undefined
    /\ seen' = [seen EXCEPT ![s] = Undefined]
    /\ backlog' = [backlog EXCEPT ![s] = 0]
    /\ UNCHANGED <<wire, session, presented, setter, health, events>>

Lists(projection, id) == \E c \in projection.commands : c.id = id

\* assertCommand, for the API calls of commands: the object was handed out, its
\* action is known, and the current projection lists its id.
Resolvable(command) ==
    /\ Open
    /\ command \in commands
    /\ command.known
    /\ currentProjection # Undefined
    /\ Lists(currentProjection, command.id)

-----------------------------------------------------------------------------
(* The health loop, other writers, and the scope.                           *)

HealthPing ==
    /\ phase = "ready"
    /\ Open
    /\ health = "sleeping"
    /\ health' = "pinged"
    /\ UNCHANGED <<wire, session, presented, setter, presentation>>

HealthResumes ==
    /\ phase = "ready"
    /\ Open
    /\ health = "ponged"
    /\ health' = "sleeping"
    /\ UNCHANGED <<wire, session, presented, setter, presentation>>


PongMissing == Fail("RequestTimeout") /\ UNCHANGED health

HealthTimeout ==
    /\ phase = "ready"
    /\ Open
    /\ health = "pinged"
    /\ PongMissing
    /\ UNCHANGED <<reader, bootId, session, presented, setter, presentation>>

\* Any other write or request of the session fails the connection.
WireFails(reason) ==
    /\ phase = "ready"
    /\ Open
    /\ reason \in {"Closed", "RequestTimeout", "TransportError"}
    /\ Fail(reason)
    /\ UNCHANGED <<reader, bootId, session, presented, setter, health,
                   presentation>>

\* The first projection does not come: acquire fails and its scope closes.
ConnectFails ==
    /\ phase = "connecting"
    /\ phase' = "released"
    /\ reader' = FALSE
    /\ Fail("Closed")
    /\ UNCHANGED <<bootId, currentProjection, currentSurface, commands, handling,
                   presented, setter, health, presentation>>

\* The scope of a connected session closes: its finalizers, last added first.
Release ==
    /\ phase = "ready"
    /\ phase' = "released"
    /\ currentProjection' = Undefined
    /\ currentSurface' = Undefined
    /\ surfaceState' = Plain("closed")
    /\ commands' = {}
    /\ reader' = FALSE
    /\ handling' = Undefined
    /\ Fail("Closed")
    /\ UNCHANGED <<bootId, watching, setter, health, presentation>>

-----------------------------------------------------------------------------
Receive ==
    \/ \E p \in Projection : RejectSnapshot(p) \/ ReceiveSnapshot(p)
    \/ \E s \in Surface, resolves \in BOOLEAN : ReceiveSurface(s, resolves)
    \/ \E p \in Patch, resolves \in BOOLEAN : ReceivePatch(p, resolves)
    \/ ReceiveEvent
    \/ ReceivePong
    \/ \E r \in Reply : ReceiveReply(r)
    \/ \E r \in Reason : ReceiveRefused(r)

Next ==
    \/ Receive
    \/ FinishSnapshot
    \/ ReaderStops
    \/ \E active \in BOOLEAN : SetSurface(active)
    \/ SetSends \/ SetExceeds \/ SetInterrupted \/ SetUnsupported
    \/ SetAcknowledged \/ SetResumes \/ SetPresents
    \/ \E r \in Reason : SetAborts(r)
    \/ SetFails
    \/ \E w \in Watchers : AwaitReady(w) \/ WatcherTakes(w) \/ WatcherEnds(w)
    \/ \E s \in Subscribers : Subscribe(s) \/ TakeEvents(s) \/ Unsubscribe(s)
    \/ HealthPing \/ HealthResumes \/ HealthTimeout
    \/ \E r \in Reason : WireFails(r)
    \/ ConnectFails
    \/ Release

Spec == Init /\ [][Next]_vars
=============================================================================
