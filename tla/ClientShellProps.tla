-------------------------- MODULE ClientShellProps --------------------------
(***************************************************************************)
(* The correctness properties of ClientShell: what its surface state, its  *)
(* projection and its consumers may and must do, and the fairness under    *)
(* which its waits end.                                                    *)
(***************************************************************************)
EXTENDS ClientShell

\* What an active state promises: a complete surface of the bound boot whose
\* projection is at or above the floor.
AtFloor(state) ==
    state.status = "active" =>
        /\ state.surface \in Surface
        /\ state.surface.projection >= state.floor
        /\ state.surface.boot = bootId

\* Every active state is at its floor: the published one, the one a rejected
\* surface.set would restore, and the ones an awaitReady caller holds or got
\* (acceptSurface, surface.set, awaitReady).
ActiveAtFloor ==
    /\ AtFloor(surfaceState)
    /\ AtFloor(setter.previous)
    /\ \A w \in Watchers :
          /\ watching[w].slot # Undefined => AtFloor(watching[w].slot)
          /\ watching[w].got # Undefined =>
                watching[w].got.status = "active" /\ AtFloor(watching[w].got)

\* The held surface belongs to the bound boot and is never ahead of the
\* projection that describes its panes; no presented surface is ahead of the
\* held one (acceptSurface, the snapshot handler).
SurfaceBehindProjection ==
    /\ currentSurface # Undefined =>
          /\ currentProjection # Undefined
          /\ currentSurface.boot = currentProjection.boot
          /\ currentSurface.projection <= currentProjection.revision
    /\ \A state \in {surfaceState, setter.previous} :
          state.status = "active" /\ phase # "released" =>
             /\ currentSurface # Undefined
             /\ state.surface.revision <= currentSurface.revision

\* The call has published its transition and not yet the state that follows it.
InTransition == setter.step \in {"announcing", "waiting", "answered"}

\* A transition state stands only while its surface.set runs, or after the
\* connection failed under it: no outcome of the request leaves an open session
\* in "activating" or "deactivating" (surface.set and its tapError).  It holds if
\* no consumer interrupts the call from the publication of the transition: such a
\* call ends without a request, and nothing takes its transition back.
TransitionHasSetter ==
    Open => (surfaceState.status \in {"activating", "deactivating"} <=> InTransition)

\* A session that waits for a surface it already holds is about to present it: in
\* awaitingSurface the held surface is below the floor, unless surface.set stands
\* between its two publications.  awaitReady relies on it, as nothing but a state
\* change wakes it (surface.set, acceptSurface, the snapshot handler).  It holds if
\* no consumer interrupts the call in between.
AwaitsOnlyMissing ==
    (surfaceState.status = "awaitingSurface" /\ Holds(surfaceState.floor))
        => setter.step = "presenting"

\* A coalescing consumer is never woken with a state other than the current
\* one, and one that has nothing to take is not missing an active state: no
\* interleaving of publications and takes loses the wake-up of awaitReady.
WatcherUpToDate ==
    phase # "released" =>
        \A w \in Watchers : watching[w].mode = "waiting" =>
            /\ watching[w].slot # Undefined => watching[w].slot = surfaceState
            /\ watching[w].slot = Undefined => surfaceState.status # "active"

\* In an open session a command handle of a known action is good for as long as
\* the current projection lists its id.  One that was handed out before resolves
\* through every later projection, also while the handler of one is inside its
\* publication; those of a new projection resolve from the end of its handler on
\* (the commands WeakSet, assertCommand).
ListedCommandsResolve ==
    [][ (phase' = "ready" /\ Open') =>
          \A c \in Command :
             /\ c.known
             /\ Lists(currentProjection', c.id)
             /\ c \in commands \/ (handling' = Undefined /\ c \in CommandsOf(currentProjection)')
             => Resolvable(c)' ]_vars

\* No presentation event is passed over: while the reader runs, a subscriber has
\* taken or holds every event since it subscribed, however slow it and the
\* others are (the dropping backlog and its overflow).
NoEventSkipped ==
    reader => \A s \in Subscribed : seen[s] + backlog[s] = events

\* Within a session revisions only grow and the boot never changes: neither a
\* stale snapshot nor a stale surface or patch replaces a newer one.
RevisionsOnlyGrow ==
    [][ phase' # "released" =>
          /\ currentProjection # Undefined =>
                /\ currentProjection'.boot = currentProjection.boot
                /\ currentProjection'.revision >= currentProjection.revision
          /\ currentSurface # Undefined =>
                currentSurface'.revision >= currentSurface.revision ]_vars

\* An ended session starts nothing: once failed no request begins and no projection
\* is taken up, and once released its state stays closed and its projection, surface
\* and commands stay gone, whatever is still on its way (ensureOpen in surface.set,
\* request and bindBoot; the last finalizer).
EndedStartsNothing ==
    [][ /\ failure # Undefined =>
              /\ setter' \in {setter, Idle}
              /\ currentProjection' \in {currentProjection, Undefined}
        /\ phase = "released" =>
              UNCHANGED <<phase, currentProjection, currentSurface, surfaceState, commands>> ]_vars

-----------------------------------------------------------------------------
(* What makes the invariants inductive.                                     *)

Settled == {"inactive", "awaitingSurface", "active"}

\* The stages of the session and the data it has in each.
StageInv ==
    /\ phase = "connecting" => /\ surfaceState = Plain("inactive")
                               /\ setter.step = "idle"
                               /\ currentProjection = Undefined
                               /\ currentSurface = Undefined
    /\ phase = "ready" => currentProjection # Undefined
    /\ phase = "released" => ~Open /\ ~reader /\ currentSurface = Undefined
    /\ surfaceState.status = "closed" => phase = "released"
    /\ currentProjection # Undefined => currentProjection.boot = bootId
    /\ handling # Undefined => phase = "ready"

\* What a surface.set published stands until the call goes on, also in a session that
\* has failed, and only one that a consumer interrupted leaves a transition behind.
SetterInv ==
    /\ (phase # "released" /\ InTransition) =>
          surfaceState = Plain(IF setter.active THEN "activating" ELSE "deactivating")
    /\ (phase # "released" /\ setter.step = "presenting") =>
          surfaceState = Awaiting(setter.reply.floor)
    /\ setter.previous.status # "closed"
    /\ ~ConsumersInterrupt =>
          /\ (Open /\ setter.step = "idle") => surfaceState.status \in Settled
          /\ setter.previous.status \in Settled

PresentedAtFloor == AtFloor(surfaceState) /\ AtFloor(setter.previous)

\* The session invariant: inductive, and the basis of the theorems about
\* what the session presents.
SessionInv ==
    TypeOK /\ StageInv /\ SetterInv /\ PresentedAtFloor /\ SurfaceBehindProjection

-----------------------------------------------------------------------------
(* Fairness: timers fire and woken fibers run.  Nothing is assumed of the   *)
(* peer: no message, answer or pong has to come.                            *)

Fairness ==
    /\ WF_vars(FinishSnapshot)
    /\ WF_vars(SetSends)
    /\ WF_vars(SetAcknowledged)
    /\ WF_vars(SetResumes)
    /\ WF_vars(SetPresents)
    /\ WF_vars(SetAborts("RequestTimeout"))
    /\ WF_vars(SetFails)
    /\ WF_vars(HealthPing)
    /\ WF_vars(HealthResumes)
    /\ WF_vars(HealthTimeout)
    /\ \A w \in Watchers : WF_vars(WatcherTakes(w))

FairSpec == Spec /\ Fairness


\* Every surface.set gives surfaceLock back, whatever the peer does.
SetReleasesLock == (setter.step # "idle") ~> (setter.step = "idle")

\* An awaitReady caller whose session stays active returns, without the help
\* of its deadline.
ActiveWakesWatchers ==
    \A w \in Watchers :
        (watching[w].mode = "waiting") ~>
            (watching[w].mode # "waiting" \/ surfaceState.status # "active")
=============================================================================
