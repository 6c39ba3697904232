-------------------------- MODULE ClientShellProofs --------------------------
(***************************************************************************)
(* Machine-checked proofs about ClientShell, for every set of boots,       *)
(* revisions, commands, consumers and every event capacity: its            *)
(* invariants, and that it keeps to EndpointContract and implements        *)
(* SurfaceInterest.                                                        *)
(***************************************************************************)
EXTENDS ClientShellProps, ClientShellRefinement, TLAPS

-----------------------------------------------------------------------------
(* What the helpers return.                                                 *)

LEMMA StateTypes ==
    /\ \A status \in Status : Plain(status) \in State
    /\ \A f \in Floor : Awaiting(f) \in State
    /\ \A f \in Floor, s \in Surface : Active(f, s) \in State
    /\ Idle \in Setter
    /\ Plain("inactive") \in State
  BY DEF Plain, Awaiting, Active, State, Status, Floor, Idle, Setter, NoReply, Reply,
         Rejection

LEMMA FailTypes ==
    ASSUME failure \in Reason \cup {Undefined}, NEW r \in Reason, Fail(r)
    PROVE  failure' \in Reason \cup {Undefined}
  BY DEF Fail, Open

LEMMA PublishTypes ==
    ASSUME NEW state \in State, watching \in [Watchers -> Watcher], publishSurface(state)
    PROVE  surfaceState' \in State /\ watching' \in [Watchers -> Watcher]
  <1>1. surfaceState' \in State
    BY DEF publishSurface
  <1>2. ASSUME NEW w \in Watchers
        PROVE  [watching[w] EXCEPT !.slot = state] \in Watcher
    BY DEF Watcher
  <1>3. watching' \in [Watchers -> Watcher]
    BY <1>2 DEF publishSurface
  <1>4. QED
    BY <1>1, <1>3

LEMMA CommandsTypes == \A p \in Projection : CommandsOf(p) \subseteq Command
  BY DEF CommandsOf, Projection, Listed, Command

LEMMA RestoredTypes ==
    ASSUME TypeOK
    PROVE  Restored \in State
  <1>1. setter.previous \in State
    BY DEF TypeOK, Setter
  <1>2. currentProjection # Undefined => currentProjection.revision \in Floor
    BY DEF TypeOK, Projection, Floor
  <1>3. QED
    BY <1>1, <1>2, StateTypes DEF Restored

\* The floor of an acknowledgement, and the state of the surface held at it.
LEMMA ReplyTypes ==
    ASSUME TypeOK
    PROVE  /\ setter.reply.floor \in Floor
           /\ Holds(setter.reply.floor) =>
                 Active(setter.reply.floor, currentSurface) \in State
  <1>1. setter.reply.floor \in Floor
    BY DEF TypeOK, Setter, Reply, Rejection, NoReply, Floor
  <1>2. QED
    BY <1>1, StateTypes DEF Holds, TypeOK

-----------------------------------------------------------------------------
(* Type correctness.                                                        *)

LEMMA TypeStep == TypeOK /\ [Next]_vars => TypeOK'
  <1> SUFFICES ASSUME TypeOK, [Next]_vars PROVE TypeOK'
    OBVIOUS
  <1> USE DEF TypeOK, wire, session, presented, presentation
  <1>1. ASSUME NEW p \in Projection, RejectSnapshot(p) PROVE TypeOK'
    <2>1. failure' \in Reason \cup {Undefined}
      BY <1>1, FailTypes DEF RejectSnapshot, ReaderFails, Reason
    <2>2. QED
      BY <1>1, <2>1 DEF RejectSnapshot, ReaderFails
  <1>2. ASSUME NEW p \in Projection, ReceiveSnapshot(p) PROVE TypeOK'
    <2>1. CommandsOf(p) \subseteq Command
      BY CommandsTypes
    <2>2. p.revision \in Floor
      BY DEF Projection, Floor
    <2>3. Awaiting(p.revision) \in State
      BY <2>2, StateTypes
    <2>4. surfaceState' \in State /\ watching' \in [Watchers -> Watcher]
      BY <1>2, <2>3, PublishTypes DEF ReceiveSnapshot
    <2>5. commands' \subseteq Command /\ phase' \in {"connecting", "ready", "released"}
      BY <1>2, <2>1 DEF ReceiveSnapshot, CompleteSnapshot
    <2>6. bootId' \in Boots \cup {Undefined}
      BY <1>2 DEF ReceiveSnapshot, Projection
    <2>7. QED
      BY <1>2, <2>4, <2>5, <2>6 DEF ReceiveSnapshot
  <1>3. ASSUME NEW s \in Surface, NEW resolves \in BOOLEAN, acceptSurface(s, resolves)
        PROVE  /\ failure' \in Reason \cup {Undefined}
               /\ reader' \in BOOLEAN
               /\ currentSurface' \in Surface \cup {Undefined}
               /\ surfaceState' \in State
               /\ watching' \in [Watchers -> Watcher]
    <2>1. surfaceState.floor \in Floor
      BY DEF State
    <2>2. Active(surfaceState.floor, s) \in State
      BY <2>1, StateTypes
    <2>3. CASE ReaderFails("InvalidMessage") /\ UNCHANGED <<currentSurface, presented>>
      BY <2>3, FailTypes DEF ReaderFails, Reason
    <2>4. CASE StoreSurface(s)
      BY <2>4, <2>2, PublishTypes DEF StoreSurface
    <2>5. QED
      BY <1>3, <2>3, <2>4 DEF acceptSurface
  <1>4. ASSUME NEW s \in Surface, NEW resolves \in BOOLEAN, ReceiveSurface(s, resolves)
        PROVE  TypeOK'
    BY <1>3, <1>4 DEF ReceiveSurface
  <1>5. ASSUME NEW p \in Patch, NEW resolves \in BOOLEAN, ReceivePatch(p, resolves)
        PROVE  TypeOK'
    <2>1. CASE PatchApplies(p) /\ acceptSurface(Patched(p), resolves)
      <3>1. Patched(p) \in Surface
        BY <2>1 DEF PatchApplies, Patched, Surface, Patch
      <3>2. QED
        BY <1>3, <1>5, <2>1, <3>1 DEF ReceivePatch
    <2>2. CASE ~PatchApplies(p) /\ ReaderFails("InvalidMessage")
               /\ UNCHANGED <<currentSurface, presented>>
      BY <1>5, <2>2, FailTypes DEF ReceivePatch, ReaderFails, Reason
    <2>3. QED
      BY <1>5, <2>1, <2>2 DEF ReceivePatch
  <1>6. CASE ReceiveEvent
    <2> events' \in 0 .. MaxEvents
      BY <1>6, CapacityAssumption DEF ReceiveEvent
    <2>1. CASE EventRefused
      BY <1>6, <2>1, FailTypes DEF ReceiveEvent, ReaderFails, Reason
    <2>2. CASE ~EventRefused
      <3>1. EventDelivered \in [Subscribers -> 0 .. EventCapacity]
        BY <2>2, CapacityAssumption DEF EventDelivered, EventRefused, Subscribed
      <3>2. QED
        BY <1>6, <2>2, <3>1 DEF ReceiveEvent
    <2>3. QED
      BY <2>1, <2>2
  <1>7. CASE ReceivePong
    BY <1>7 DEF ReceivePong
  <1>8. ASSUME NEW r \in Reply, ReceiveReply(r) PROVE TypeOK'
    BY <1>8 DEF ReceiveReply, Setter
  <1>9. ASSUME NEW r \in Reason, ReceiveRefused(r) PROVE TypeOK'
    BY <1>9, FailTypes DEF ReceiveRefused, ReaderFails
  <1>10. CASE FinishSnapshot
    BY <1>10, CommandsTypes DEF FinishSnapshot, CompleteSnapshot
  <1>11. CASE ReaderStops
    BY <1>11 DEF ReaderStops
  <1>12. ASSUME NEW active \in BOOLEAN, SetSurface(active) PROVE TypeOK'
    <2>1. Plain(IF active THEN "activating" ELSE "deactivating") \in State
      BY StateTypes DEF Status
    <2>2. setter' \in Setter
      BY <1>12 DEF SetSurface, Setter, Reply
    <2>3. QED
      BY <1>12, <2>1, <2>2, PublishTypes DEF SetSurface
  <1>13. CASE SetSends \/ SetExceeds \/ SetInterrupted
    <2>1. setter' \in Setter
      BY <1>13, StateTypes DEF SetSends, SetExceeds, SetInterrupted, Setter
    <2>2. failure' \in Reason \cup {Undefined}
      BY <1>13, FailTypes DEF SetSends, SetExceeds, SetInterrupted, Reason
    <2>3. QED
      BY <1>13, <2>1, <2>2 DEF SetSends, SetExceeds, SetInterrupted
  <1>14. CASE SetUnsupported
    BY <1>14, RestoredTypes, StateTypes, PublishTypes DEF SetUnsupported
  <1>15. CASE SetAcknowledged
    <2>1. Awaiting(setter.reply.floor) \in State
      BY ReplyTypes, StateTypes
    <2>2. setter' \in Setter
      BY <1>15 DEF SetAcknowledged, Setter
    <2>3. QED
      BY <1>15, <2>1, <2>2, PublishTypes DEF SetAcknowledged
  <1>16. CASE SetPresents
    <2>1. surfaceState' \in State /\ watching' \in [Watchers -> Watcher]
      BY <1>16, ReplyTypes, PublishTypes DEF SetPresents, PresentHeld
    <2>2. QED
      BY <1>16, <2>1, StateTypes DEF SetPresents
  <1>17. CASE SetResumes
    <2>1. setter' \in Setter
      BY <1>17, StateTypes DEF SetResumes
    <2>2. CASE publishSurface(Plain("inactive")) /\ UNCHANGED failure
      BY <1>17, <2>1, <2>2, StateTypes, PublishTypes DEF SetResumes
    <2>3. CASE publishSurface(Restored) /\ UNCHANGED failure
      BY <1>17, <2>1, <2>3, RestoredTypes, PublishTypes DEF SetResumes
    <2>4. CASE Fail("InvalidMessage") /\ UNCHANGED <<presented>>
      BY <1>17, <2>1, <2>4, FailTypes DEF SetResumes, Reason
    <2>5. QED
      BY <1>17, <2>2, <2>3, <2>4 DEF SetResumes
  <1>18. ASSUME NEW r \in Reason, SetAborts(r) PROVE TypeOK'
    BY <1>18, FailTypes, StateTypes DEF SetAborts
  <1>19. CASE SetFails
    BY <1>19, StateTypes DEF SetFails
  <1>20. ASSUME NEW w \in Watchers, AwaitReady(w) \/ WatcherTakes(w) \/ WatcherEnds(w)
         PROVE  TypeOK'
    <2>1. watching' \in [Watchers -> Watcher]
      <3>1. CASE AwaitReady(w)
        BY <3>1 DEF AwaitReady, Subscription, Watcher
      <3>2. CASE WatcherTakes(w)
        BY <3>2 DEF WatcherTakes, Watcher
      <3>3. CASE WatcherEnds(w)
        BY <3>3 DEF WatcherEnds, Watcher
      <3>4. QED
        BY <1>20, <3>1, <3>2, <3>3
    <2>2. QED
      BY <1>20, <2>1 DEF AwaitReady, WatcherTakes, WatcherEnds
  <1>21. ASSUME NEW s \in Subscribers, Subscribe(s) \/ TakeEvents(s) \/ Unsubscribe(s)
         PROVE  TypeOK'
    <2>1. seen' \in [Subscribers -> Nat \cup {Undefined}]
      BY <1>21, CapacityAssumption DEF Subscribe, TakeEvents, Unsubscribe, Subscribed
    <2>2. backlog' \in [Subscribers -> 0 .. EventCapacity]
      BY <1>21, CapacityAssumption DEF Subscribe, TakeEvents, Unsubscribe
    <2>3. QED
      BY <1>21, <2>1, <2>2 DEF Subscribe, TakeEvents, Unsubscribe
  <1>22. CASE HealthPing \/ HealthResumes
    BY <1>22 DEF HealthPing, HealthResumes
  <1>23. CASE HealthTimeout
    BY <1>23, FailTypes DEF HealthTimeout, PongMissing, Reason
  <1>24. ASSUME NEW r \in Reason, WireFails(r) PROVE TypeOK'
    BY <1>24, FailTypes DEF WireFails
  <1>25. CASE ConnectFails
    BY <1>25, FailTypes DEF ConnectFails, Reason
  <1>26. CASE Release
    BY <1>26, FailTypes, StateTypes DEF Release, Reason, Status
  <1>27. CASE UNCHANGED vars
    BY <1>27 DEF vars
  <1>28. QED
    BY <1>1, <1>2, <1>4, <1>5, <1>6, <1>7, <1>8, <1>9, <1>10, <1>11, <1>12, <1>13,
       <1>14, <1>15, <1>16, <1>17, <1>18, <1>19, <1>20, <1>21, <1>22, <1>23, <1>24,
       <1>25, <1>26, <1>27 DEF Next, Receive

LEMMA TypeInit == Init => TypeOK
  <1>1. ASSUME Init PROVE watching \in [Watchers -> Watcher]
    BY <1>1 DEF Init, Watcher
  <1>2. ASSUME Init PROVE backlog \in [Subscribers -> 0 .. EventCapacity]
    BY <1>2, CapacityAssumption DEF Init
  <1>3. QED
    BY <1>1, <1>2, StateTypes, CapacityAssumption DEF Init, TypeOK

\* The session's state keeps its types (every action of the session).
THEOREM TypeCorrect == Spec => []TypeOK
  BY TypeInit, TypeStep, PTL DEF Spec

-----------------------------------------------------------------------------
(* The session invariant.                                                   *)

Core == StageInv /\ SetterInv /\ PresentedAtFloor /\ SurfaceBehindProjection

\* A step that leaves the session's data alone and at most fails it.
LEMMA QuietStep ==
    ASSUME SessionInv,
           UNCHANGED <<phase, bootId, currentProjection, currentSurface, handling,
                       surfaceState, setter>>,
           failure' = failure \/ failure' \in Reason,
           reader' => reader
    PROVE  Core'
  BY UndefinedAssumption
     DEF SessionInv, Core, StageInv, SetterInv, InTransition, PresentedAtFloor,
         SurfaceBehindProjection, AtFloor, Open

LEMMA SnapshotStep ==
    ASSUME SessionInv, NEW p \in Projection, ReceiveSnapshot(p)
    PROVE  Core'
  <1> USE UndefinedAssumption
  <1>1. /\ p # Undefined
        /\ p.boot # Undefined /\ p.boot \in Boots
        /\ p.revision \in Nat
    BY RevisionsAssumption DEF Projection
  <1>2. Open /\ failure' = failure /\ phase # "released"
    BY DEF ReceiveSnapshot, SessionInv, StageInv, Open
  <1>3. /\ currentProjection' = p /\ bootId' = p.boot
        /\ currentSurface' = currentSurface /\ setter' = setter
    BY DEF ReceiveSnapshot
  <1>4. bootId # Undefined => bootId' = bootId
    BY <1>3 DEF ReceiveSnapshot
  <1>5. currentSurface # Undefined =>
           /\ currentSurface \in Surface
           /\ currentSurface.boot = p.boot
           /\ currentSurface.projection <= p.revision
           /\ currentSurface.projection \in Nat
    BY RevisionsAssumption, <1>1, <1>4
       DEF ReceiveSnapshot, Newer, SessionInv, StageInv, SurfaceBehindProjection, TypeOK,
           Projection, Surface
  <1>6. \A state \in State : AtFloor(state) => AtFloor(state)'
    BY <1>3, <1>4 DEF AtFloor, Surface
  <1>7. setter.previous \in State /\ surfaceState \in State
    BY DEF SessionInv, TypeOK, Setter
  <1>8. CASE Overtakes(p)
    <2>1. /\ surfaceState' = Awaiting(p.revision) /\ handling' = p
          /\ phase' = phase /\ surfaceState.status = "active"
      BY <1>8 DEF ReceiveSnapshot, publishSurface, Overtakes
    <2>2. setter.step = "idle"
      BY <2>1, <1>2
         DEF SessionInv, SetterInv, TypeOK, Setter, InTransition, Plain, ReceiveSnapshot,
             Reading, Publishing
    <2>3. phase = "ready"
      BY <2>1, <1>2 DEF SessionInv, StageInv, Plain, TypeOK
    <2>4. StageInv'
      BY <1>1, <1>2, <1>3, <2>1, <2>3 DEF StageInv, Awaiting, Open
    <2>5. SetterInv'
      BY <1>2, <1>3, <2>1, <2>2
         DEF SessionInv, SetterInv, InTransition, Awaiting, Settled, Open
    <2>6. PresentedAtFloor'
      BY <1>3, <1>6, <1>7, <2>1 DEF SessionInv, PresentedAtFloor, AtFloor, Awaiting
    <2>7. SurfaceBehindProjection'
      BY <1>1, <1>3, <1>5, <2>1 DEF SessionInv, SurfaceBehindProjection, Awaiting
    <2>8. QED
      BY <2>4, <2>5, <2>6, <2>7 DEF Core
  <1>9. CASE ~Overtakes(p)
    <2>1. surfaceState' = surfaceState /\ handling' = handling /\ phase' = "ready"
      BY <1>9 DEF ReceiveSnapshot, CompleteSnapshot, presented
    <2>2. StageInv'
      BY <1>1, <1>2, <1>3, <2>1 DEF SessionInv, StageInv, Open, ReceiveSnapshot, Reading
    <2>3. SetterInv'
      BY <1>2, <1>3, <2>1 DEF SessionInv, SetterInv, InTransition, Open
    <2>4. PresentedAtFloor'
      BY <1>3, <1>6, <1>7, <2>1 DEF SessionInv, PresentedAtFloor
    <2>5. SurfaceBehindProjection'
      BY <1>1, <1>2, <1>3, <1>5, <2>1 DEF SessionInv, SurfaceBehindProjection
    <2>6. QED
      BY <2>2, <2>3, <2>4, <2>5 DEF Core
  <1>10. QED
    BY <1>8, <1>9

\* A surface the handler stores, complete or patched.
LEMMA StoreStep ==
    ASSUME SessionInv, NEW s \in Surface, Reading,
           Acceptable(s), SurfaceIsNewer(s), StoreSurface(s),
           UNCHANGED <<bootId, phase, currentProjection, handling, setter>>
    PROVE  Core'
  <1> USE UndefinedAssumption
  <1>1. /\ s # Undefined /\ s.projection \in Nat /\ s.revision \in Nat
        /\ currentSurface' = s /\ failure' = failure
    BY RevisionsAssumption DEF Surface, StoreSurface
  <1>2. s.boot = bootId /\ s.projection <= currentProjection.revision
    BY DEF Acceptable, SessionInv, StageInv
  <1>3. currentSurface # Undefined =>
           currentSurface.revision \in Nat /\ currentSurface.revision < s.revision
    BY RevisionsAssumption, <1>1 DEF SurfaceIsNewer, SessionInv, TypeOK, Surface
  <1>4. \A state \in {surfaceState, setter.previous} :
           state.status = "active" /\ phase # "released" =>
              state.surface.revision \in Nat /\ state.surface.revision <= s.revision
    <2>1. ASSUME NEW state \in {surfaceState, setter.previous},
                 state.status = "active", phase # "released"
          PROVE  state.surface.revision \in Nat /\ state.surface.revision <= s.revision
      <3>1. /\ currentSurface # Undefined
            /\ state.surface.revision <= currentSurface.revision
            /\ state.surface \in Surface
        BY <2>1 DEF SessionInv, SurfaceBehindProjection, PresentedAtFloor, AtFloor
      <3>2. state.surface.revision \in Nat
        BY <3>1, RevisionsAssumption DEF Surface
      <3>3. QED
        BY <1>1, <1>3, <3>1, <3>2
    <2>2. QED
      BY <2>1
  <1>5. phase = "ready"
    BY DEF Reading, Acceptable, SessionInv, StageInv, SurfaceBehindProjection, TypeOK
  <1>6. CASE Presents(s)
    <2>1. surfaceState' = Active(surfaceState.floor, s)
      BY <1>6 DEF StoreSurface, publishSurface
    <2>2. setter.step = "idle"
      BY <1>5, <1>6
         DEF Presents, SessionInv, SetterInv, TypeOK, Setter, InTransition, Plain, Reading,
             Publishing
    <2>3. StageInv'
      BY <1>1, <1>5, <2>1 DEF SessionInv, StageInv, Active, Open
    <2>4. SetterInv'
      BY <1>1, <2>1, <2>2 DEF SessionInv, SetterInv, InTransition, Active, Settled, Open
    <2>5. PresentedAtFloor'
      BY <1>1, <1>2, <1>6, <2>1 DEF SessionInv, PresentedAtFloor, AtFloor, Active, Presents
    <2>6. SurfaceBehindProjection'
      BY <1>1, <1>2, <1>4, <2>1 DEF Acceptable, SurfaceBehindProjection, Active
    <2>7. QED
      BY <2>3, <2>4, <2>5, <2>6 DEF Core
  <1>7. CASE ~Presents(s)
    <2>1. surfaceState' = surfaceState
      BY <1>7 DEF StoreSurface, presented
    <2>2. StageInv'
      BY <1>1, <1>5, <2>1 DEF SessionInv, StageInv, Open
    <2>3. SetterInv' /\ PresentedAtFloor'
      BY <1>1, <2>1 DEF SessionInv, SetterInv, InTransition, PresentedAtFloor, AtFloor, Open
    <2>4. SurfaceBehindProjection'
      BY <1>1, <1>2, <1>4, <2>1 DEF Acceptable, SurfaceBehindProjection
    <2>5. QED
      BY <2>2, <2>3, <2>4 DEF Core
  <1>8. QED
    BY <1>6, <1>7

LEMMA AcceptStep ==
    ASSUME SessionInv, NEW s \in Surface, NEW resolves \in BOOLEAN, Reading,
           acceptSurface(s, resolves),
           UNCHANGED <<bootId, phase, currentProjection, handling, setter>>
    PROVE  Core'
  <1>1. CASE StoreSurface(s) /\ Acceptable(s) /\ SurfaceIsNewer(s)
    BY <1>1, StoreStep
  <1>2. CASE ReaderFails("InvalidMessage") /\ UNCHANGED <<currentSurface, presented>>
    BY <1>2, QuietStep DEF ReaderFails, Fail, Reason, presented
  <1>3. QED
    BY <1>1, <1>2 DEF acceptSurface

LEMMA PatchStep ==
    ASSUME SessionInv, NEW p \in Patch, NEW resolves \in BOOLEAN, ReceivePatch(p, resolves)
    PROVE  Core'
  <1>1. UNCHANGED <<bootId, phase, currentProjection, handling, setter>> /\ Reading
    BY DEF ReceivePatch
  <1>2. CASE PatchApplies(p) /\ acceptSurface(Patched(p), resolves)
    <2>1. Patched(p) \in Surface
      BY <1>2 DEF PatchApplies, Patched, Surface, Patch, SessionInv, TypeOK
    <2>2. QED
      BY <1>1, <1>2, <2>1, AcceptStep
  <1>3. CASE ReaderFails("InvalidMessage") /\ UNCHANGED <<currentSurface, presented>>
    BY <1>1, <1>3, QuietStep DEF ReaderFails, Fail, Reason, presented
  <1>4. QED
    BY <1>2, <1>3 DEF ReceivePatch

LEMMA SetSurfaceStep ==
    ASSUME SessionInv, NEW active \in BOOLEAN, SetSurface(active)
    PROVE  Core'
  <1>1. /\ surfaceState' = Plain(IF active THEN "activating" ELSE "deactivating")
        /\ setter' = [step |-> "announcing", active |-> active, previous |-> surfaceState,
                      reply |-> NoReply]
        /\ UNCHANGED <<wire, session>>
        /\ phase = "ready" /\ Open /\ setter.step = "idle"
    BY DEF SetSurface, publishSurface, MaySet
  <1>2. StageInv'
    BY <1>1 DEF SessionInv, StageInv, Plain, Open, wire, session
  <1>3. SetterInv'
    BY <1>1 DEF SessionInv, StageInv, SetterInv, InTransition, Plain, Open, wire, session
  <1>4. PresentedAtFloor'
    BY <1>1 DEF SessionInv, PresentedAtFloor, AtFloor, Plain, wire, session
  <1>5. SurfaceBehindProjection'
    BY <1>1 DEF SessionInv, SurfaceBehindProjection, Plain, wire, session
  <1>6. QED
    BY <1>2, <1>3, <1>4, <1>5 DEF Core

\* The request goes out or is answered: the transition stands.
LEMMA SetProceedsStep ==
    ASSUME SessionInv,
           setter.step \in {"announcing", "waiting"},
           setter'.step \in {"waiting", "answered"},
           setter'.active = setter.active, setter'.previous = setter.previous,
           UNCHANGED <<wire, session, presented>>
    PROVE  Core'
  <1> USE DEF wire, session, presented
  <1>1. StageInv' /\ SetterInv'
    BY DEF SessionInv, StageInv, SetterInv, InTransition, Open
  <1>2. PresentedAtFloor' /\ SurfaceBehindProjection'
    BY DEF SessionInv, PresentedAtFloor, AtFloor, SurfaceBehindProjection
  <1>3. QED
    BY <1>1, <1>2 DEF Core

\* The call ends and what it published stands: the connection has failed, or a
\* consumer interrupted it.
LEMMA SetOverStep ==
    ASSUME SessionInv, setter' = Idle, setter.step # "idle",
           UNCHANGED <<reader, bootId, session, presented>>,
           \/ failure' \in Reason /\ failure' # Undefined
           \/ failure' = failure /\ failure # Undefined
           \/ failure' = failure /\ ConsumersInterrupt
    PROVE  Core'
  <1> USE DEF session, presented
  <1>1. setter'.previous = Plain("inactive") /\ setter'.step = "idle"
    BY DEF Idle
  <1>2. StageInv'
    BY <1>1, UndefinedAssumption DEF SessionInv, StageInv, Open, Plain
  <1>3. SetterInv'
    BY <1>1, UndefinedAssumption
       DEF SessionInv, SetterInv, InTransition, Open, Plain, Settled
  <1>4. PresentedAtFloor' /\ SurfaceBehindProjection'
    BY <1>1 DEF SessionInv, PresentedAtFloor, SurfaceBehindProjection, AtFloor, Plain
  <1>5. QED
    BY <1>2, <1>3, <1>4 DEF Core

\* The call ends with a last publication.
LEMMA SetPublishesStep ==
    ASSUME SessionInv, setter' = Idle, setter.step # "idle",
           UNCHANGED <<wire, session>>,
           NEW state \in State, publishSurface(state),
           state.status # "closed",
           ConsumersInterrupt \/ state.status \in Settled,
           AtFloor(state),
           (state.status = "active" /\ phase # "released") =>
              /\ currentSurface # Undefined
              /\ state.surface.revision <= currentSurface.revision
    PROVE  Core'
  <1> USE DEF wire, session
  <1>1. setter'.previous = Plain("inactive") /\ setter'.step = "idle"
    BY DEF Idle
  <1>2. surfaceState' = state
    BY DEF publishSurface
  <1>3. StageInv'
    BY <1>1, <1>2 DEF SessionInv, StageInv, Open, Plain
  <1>4. SetterInv'
    BY <1>1, <1>2 DEF SessionInv, SetterInv, InTransition, Open, Plain, Settled
  <1>5. PresentedAtFloor' /\ SurfaceBehindProjection'
    BY <1>1, <1>2 DEF SessionInv, PresentedAtFloor, SurfaceBehindProjection, AtFloor, Plain
  <1>6. QED
    BY <1>3, <1>4, <1>5 DEF Core

\* The call was refused and goes back to the state before it.
LEMMA SetRestoresStep ==
    ASSUME SessionInv, setter' = Idle, setter.step # "idle",
           UNCHANGED <<wire, session>>, publishSurface(Restored)
    PROVE  Core'
  <1>1. Restored \in State
    BY RestoredTypes DEF SessionInv
  <1>2. /\ Restored.status # "closed"
        /\ ConsumersInterrupt \/ Restored.status \in Settled
    BY DEF Restored, Settled, Awaiting, SessionInv, SetterInv
  <1>3. AtFloor(Restored)
    BY DEF Restored, AtFloor, Awaiting, SessionInv, PresentedAtFloor
  <1>4. (Restored.status = "active" /\ phase # "released") =>
           currentSurface # Undefined /\ Restored.surface.revision <= currentSurface.revision
    BY DEF Restored, Awaiting, SessionInv, SurfaceBehindProjection
  <1>5. QED
    BY <1>1, <1>2, <1>3, <1>4, SetPublishesStep

LEMMA SetAcknowledgedStep ==
    ASSUME SessionInv, SetAcknowledged
    PROVE  Core'
  <1> USE DEF wire, session
  <1>1. /\ setter.step = "answered" /\ setter'.step = "presenting"
        /\ setter'.reply = setter.reply /\ setter'.previous = setter.previous
        /\ surfaceState' = Awaiting(setter.reply.floor)
        /\ UNCHANGED <<wire, session>>
    BY DEF SetAcknowledged, MayResume, publishSurface, SessionInv, TypeOK, Setter
  <1>2. StageInv'
    BY <1>1 DEF SessionInv, StageInv, Open, Awaiting
  <1>3. SetterInv'
    BY <1>1 DEF SessionInv, SetterInv, InTransition, Open
  <1>4. PresentedAtFloor' /\ SurfaceBehindProjection'
    BY <1>1 DEF SessionInv, PresentedAtFloor, AtFloor, SurfaceBehindProjection, Awaiting
  <1>5. QED
    BY <1>2, <1>3, <1>4 DEF Core

LEMMA SetPresentsStep ==
    ASSUME SessionInv, SetPresents
    PROVE  Core'
  <1> USE DEF wire, session
  <1>1. setter' = Idle /\ setter.step = "presenting" /\ UNCHANGED <<wire, session>>
    BY DEF SetPresents
  <1>2. CASE Holds(setter.reply.floor)
    <2> DEFINE state == Active(setter.reply.floor, currentSurface)
    <2>1. state \in State /\ publishSurface(state)
      BY <1>2, ReplyTypes DEF SetPresents, PresentHeld, SessionInv
    <2>2. state.status = "active" /\ state.surface = currentSurface
          /\ state.floor = setter.reply.floor
      BY DEF Active
    <2>3. /\ currentSurface \in Surface /\ currentSurface # Undefined
          /\ currentSurface.boot = bootId
          /\ currentSurface.revision \in Nat
      BY <1>2, RevisionsAssumption
         DEF Holds, SessionInv, TypeOK, SurfaceBehindProjection, StageInv, Surface
    <2>4. AtFloor(state)
      BY <1>2, <2>2, <2>3 DEF AtFloor, Holds
    <2> HIDE DEF state
    <2>5. QED
      BY <1>1, <2>1, <2>2, <2>3, <2>4, SetPublishesStep DEF Settled
  <1>3. CASE ~Holds(setter.reply.floor)
    <2>1. UNCHANGED <<presented>>
      BY <1>3 DEF SetPresents, PresentHeld
    <2>2. CASE ~Open
      BY <1>1, <2>1, <2>2, SetOverStep DEF Open
    <2>3. CASE Open
      <3>1. phase # "released" /\ surfaceState = Awaiting(setter.reply.floor)
        BY <1>1, <2>3 DEF SessionInv, StageInv, SetterInv
      <3>2. setter'.previous = Plain("inactive") /\ setter'.step = "idle"
        BY <1>1 DEF Idle
      <3>3. StageInv'
        BY <1>1, <2>1, <3>2 DEF SessionInv, StageInv, Open, Plain, presented
      <3>4. SetterInv'
        BY <1>1, <2>1, <3>1, <3>2
           DEF SessionInv, SetterInv, InTransition, Open, Plain, Awaiting, Settled, presented
      <3>5. PresentedAtFloor' /\ SurfaceBehindProjection'
        BY <1>1, <2>1, <3>2
           DEF SessionInv, PresentedAtFloor, SurfaceBehindProjection, AtFloor, Plain,
               presented
      <3>6. QED
        BY <3>3, <3>4, <3>5 DEF Core
    <2>4. QED
      BY <2>2, <2>3
  <1>4. QED
    BY <1>2, <1>3

LEMMA SetResumesStep ==
    ASSUME SessionInv, SetResumes
    PROVE  Core'
  <1>1. /\ setter' = Idle /\ UNCHANGED <<reader, bootId, session>>
        /\ Open /\ setter.step # "idle"
    BY DEF SetResumes, MayResume
  <1>2. CASE publishSurface(Plain("inactive")) /\ failure' = failure
    BY <1>1, <1>2, StateTypes, SetPublishesStep DEF Plain, Settled, AtFloor, wire
  <1>3. CASE publishSurface(Restored) /\ failure' = failure
    BY <1>1, <1>3, SetRestoresStep DEF wire
  <1>4. CASE Fail("InvalidMessage") /\ UNCHANGED <<presented>>
    <2>1. failure' \in Reason /\ failure' # Undefined
      BY <1>1, <1>4, UndefinedAssumption DEF Fail, Reason
    <2>2. QED
      BY <1>1, <1>4, <2>1, SetOverStep
  <1>5. QED
    BY <1>2, <1>3, <1>4 DEF SetResumes

LEMMA SessionStep == SessionInv /\ [Next]_vars => SessionInv'
  <1> SUFFICES ASSUME SessionInv, [Next]_vars PROVE SessionInv'
    OBVIOUS
  <1> USE DEF wire, session, presented
  <1>1. SUFFICES Core'
    BY TypeStep DEF SessionInv, Core
  <1>2. ASSUME NEW p \in Projection, RejectSnapshot(p) PROVE Core'
    BY <1>2, QuietStep DEF RejectSnapshot, ReaderFails, Fail, Reason
  <1>3. ASSUME NEW p \in Projection, ReceiveSnapshot(p) PROVE Core'
    BY <1>3, SnapshotStep
  <1>4. ASSUME NEW s \in Surface, NEW resolves \in BOOLEAN, ReceiveSurface(s, resolves)
        PROVE  Core'
    BY <1>4, AcceptStep DEF ReceiveSurface
  <1>5. ASSUME NEW p \in Patch, NEW resolves \in BOOLEAN, ReceivePatch(p, resolves)
        PROVE  Core'
    BY <1>5, PatchStep
  <1>6. CASE ReceiveEvent
    BY <1>6, QuietStep DEF ReceiveEvent, ReaderFails, Fail, Reason
  <1>7. CASE ReceivePong
    BY <1>7, QuietStep DEF ReceivePong
  <1>8. ASSUME NEW r \in Reply, ReceiveReply(r) PROVE Core'
    <2>1. setter.step = "waiting" /\ setter'.step = "answered"
      BY <1>8 DEF ReceiveReply, SessionInv, TypeOK, Setter
    <2>2. setter'.active = setter.active /\ setter'.previous = setter.previous
      BY <1>8 DEF ReceiveReply, SessionInv, TypeOK, Setter
    <2>3. QED
      BY <1>8, <2>1, <2>2, SetProceedsStep DEF ReceiveReply
  <1>9. ASSUME NEW r \in Reason, ReceiveRefused(r) PROVE Core'
    BY <1>9, QuietStep DEF ReceiveRefused, ReaderFails, Fail
  <1>10. CASE FinishSnapshot
    <2>1. /\ phase = "ready" /\ phase' = "ready" /\ handling' = Undefined
          /\ UNCHANGED <<wire, currentProjection, currentSurface, presented, setter>>
      BY <1>10 DEF FinishSnapshot, CompleteSnapshot, SessionInv, StageInv
    <2>2. QED
      BY <2>1 DEF SessionInv, Core, StageInv, SetterInv, InTransition, PresentedAtFloor,
                  AtFloor, SurfaceBehindProjection, Open
  <1>11. CASE ReaderStops
    BY <1>11, QuietStep DEF ReaderStops
  <1>12. ASSUME NEW active \in BOOLEAN, SetSurface(active) PROVE Core'
    BY <1>12, SetSurfaceStep
  <1>13. CASE SetSends
    <2>1. setter.step = "announcing" /\ setter'.step = "waiting"
      BY <1>13 DEF SetSends, SessionInv, TypeOK, Setter
    <2>2. setter'.active = setter.active /\ setter'.previous = setter.previous
      BY <1>13 DEF SetSends, SessionInv, TypeOK, Setter
    <2>3. QED
      BY <1>13, <2>1, <2>2, SetProceedsStep DEF SetSends
  <1>14. CASE SetExceeds \/ SetInterrupted \/ SetFails \/ \E r \in Reason : SetAborts(r)
    <2>1. /\ setter' = Idle /\ setter.step # "idle"
          /\ UNCHANGED <<reader, bootId, session, presented>>
      BY <1>14
         DEF SetExceeds, SetInterrupted, SetFails, SetAborts, Publishing, InFlight
    <2>2. \/ failure' \in Reason /\ failure' # Undefined
          \/ failure' = failure /\ failure # Undefined
          \/ failure' = failure /\ ConsumersInterrupt
      BY <1>14, UndefinedAssumption
         DEF SetExceeds, SetInterrupted, SetFails, SetAborts, Fail, Open, Reason
    <2>3. QED
      BY <2>1, <2>2, SetOverStep
  <1>15. CASE SetUnsupported
    BY <1>15, SetRestoresStep DEF SetUnsupported
  <1>16. CASE SetAcknowledged
    BY <1>16, SetAcknowledgedStep
  <1>17. CASE SetResumes
    BY <1>17, SetResumesStep
  <1>18. CASE SetPresents
    BY <1>18, SetPresentsStep
  <1>19. ASSUME NEW w \in Watchers, AwaitReady(w) \/ WatcherTakes(w) \/ WatcherEnds(w)
         PROVE  Core'
    BY <1>19, QuietStep DEF AwaitReady, WatcherTakes, WatcherEnds
  <1>20. ASSUME NEW s \in Subscribers, Subscribe(s) \/ TakeEvents(s) \/ Unsubscribe(s)
         PROVE  Core'
    BY <1>20, QuietStep DEF Subscribe, TakeEvents, Unsubscribe
  <1>21. CASE HealthPing \/ HealthResumes
    BY <1>21, QuietStep DEF HealthPing, HealthResumes
  <1>22. CASE HealthTimeout
    BY <1>22, QuietStep DEF HealthTimeout, PongMissing, Fail, Reason
  <1>23. ASSUME NEW r \in Reason, WireFails(r) PROVE Core'
    BY <1>23, QuietStep DEF WireFails, Fail
  <1>24. CASE ConnectFails
    <2>1. failure' # Undefined /\ reader' = FALSE /\ phase' = "released"
      BY <1>24, UndefinedAssumption DEF ConnectFails, Fail, Open, Reason
    <2>2. /\ UNCHANGED <<bootId, currentProjection, currentSurface, handling, surfaceState,
                         setter>>
          /\ phase = "connecting"
      BY <1>24 DEF ConnectFails
    <2>3. handling = Undefined
      BY <2>2 DEF SessionInv, StageInv
    <2>4. QED
      BY <2>1, <2>2, <2>3
         DEF SessionInv, Core, StageInv, SetterInv, InTransition, PresentedAtFloor, AtFloor,
             SurfaceBehindProjection, Open
  <1>25. CASE Release
    <2>1. failure' # Undefined /\ reader' = FALSE /\ phase' = "released"
      BY <1>25, UndefinedAssumption DEF Release, Fail, Open, Reason
    <2>2. /\ currentProjection' = Undefined /\ currentSurface' = Undefined
          /\ surfaceState' = Plain("closed") /\ handling' = Undefined
          /\ UNCHANGED <<bootId, setter>>
      BY <1>25 DEF Release
    <2>3. QED
      BY <2>1, <2>2
         DEF SessionInv, Core, StageInv, SetterInv, InTransition, PresentedAtFloor, AtFloor,
             SurfaceBehindProjection, Open, Plain
  <1>26. CASE UNCHANGED vars
    BY <1>26, QuietStep DEF vars
  <1>27. QED
    BY <1>2, <1>3, <1>4, <1>5, <1>6, <1>7, <1>8, <1>9, <1>10, <1>11, <1>12, <1>13, <1>14,
       <1>15, <1>16, <1>17, <1>18, <1>19, <1>20, <1>21, <1>22, <1>23, <1>24, <1>25, <1>26
       DEF Next, Receive

LEMMA SessionInit == Init => SessionInv
  <1> SUFFICES ASSUME Init PROVE SessionInv
    OBVIOUS
  <1>1. TypeOK
    BY TypeInit
  <1>2. StageInv /\ SetterInv
    BY DEF Init, StageInv, SetterInv, InTransition, Plain, Idle, Open, Settled
  <1>3. PresentedAtFloor /\ SurfaceBehindProjection
    BY DEF Init, PresentedAtFloor, AtFloor, SurfaceBehindProjection, Plain, Idle
  <1>4. QED
    BY <1>1, <1>2, <1>3 DEF SessionInv

\* The session invariant holds (every action of the session).
THEOREM SessionInvariant == Spec => []SessionInv
  BY SessionInit, SessionStep, PTL DEF Spec

\* The held surface is of the bound boot and not ahead of the projection, and
\* what is presented is not ahead of what is held (acceptSurface, snapshots).
THEOREM SurfaceBehind == Spec => []SurfaceBehindProjection
  <1>1. SessionInv => SurfaceBehindProjection
    BY DEF SessionInv
  <1>2. QED
    BY <1>1, SessionInvariant, PTL

\* If no consumer interrupts the surface.set that woke it, a transition state is that
\* of a call in flight, whatever ends the call (surface.set and its tapError).
THEOREM TransitionsEnd ==
    ASSUME ConsumersInterrupt = FALSE
    PROVE  Spec => []TransitionHasSetter
  <1>1. SessionInv => TransitionHasSetter
    BY DEF SessionInv, StageInv, SetterInv, TypeOK, Setter, TransitionHasSetter,
           InTransition, Settled, Plain, Awaiting
  <1>2. QED
    BY <1>1, SessionInvariant, PTL

-----------------------------------------------------------------------------
(* What any step may do to the variables, one lemma per group.              *)

\* Only a snapshot replaces the projection, and only scope close drops it.
LEMMA ProjectionStep ==
    ASSUME [Next]_vars
    PROVE  \/ currentProjection' = currentProjection
           \/ currentProjection' = Undefined /\ phase' = "released"
           \/ \E p \in Projection : ReceiveSnapshot(p)
  BY DEF Next, Receive, vars, wire, session, presented, presentation, RejectSnapshot,
         ReceiveSurface, ReceivePatch, ReceiveEvent, ReceivePong, ReceiveReply,
         ReceiveRefused, FinishSnapshot, ReaderStops, SetSurface, SetSends,
         SetExceeds, SetInterrupted, SetUnsupported, SetAcknowledged, SetResumes,
         SetPresents, SetAborts, SetFails, AwaitReady, WatcherTakes, WatcherEnds,
         Subscribe, TakeEvents, Unsubscribe, HealthPing, HealthResumes, HealthTimeout,
         WireFails, ConnectFails, Release

\* The handler stores a surface that passed every check.
Stores(surface) ==
    /\ Reading /\ Acceptable(surface) /\ SurfaceIsNewer(surface)
    /\ StoreSurface(surface)
    /\ UNCHANGED <<bootId, phase, currentProjection, commands, handling, setter>>

\* A surface or a patch is stored, or leaves what is held and shown alone.
LEMMA ReceivesSurface ==
    ASSUME SessionInv,
           \/ \E s \in Surface, resolves \in BOOLEAN : ReceiveSurface(s, resolves)
           \/ \E p \in Patch, resolves \in BOOLEAN : ReceivePatch(p, resolves)
    PROVE  UNCHANGED <<currentSurface, presented>> \/ \E s \in Surface : Stores(s)
  <1>1. ASSUME NEW s \in Surface, NEW resolves \in BOOLEAN, ReceiveSurface(s, resolves)
        PROVE  UNCHANGED <<currentSurface, presented>> \/ Stores(s)
    BY <1>1 DEF ReceiveSurface, acceptSurface, Stores
  <1>2. ASSUME NEW p \in Patch, NEW resolves \in BOOLEAN, ReceivePatch(p, resolves)
        PROVE  UNCHANGED <<currentSurface, presented>> \/ \E s \in Surface : Stores(s)
    <2>1. CASE PatchApplies(p) /\ acceptSurface(Patched(p), resolves)
      <3>1. Patched(p) \in Surface
        BY <2>1 DEF PatchApplies, Patched, Surface, Patch, SessionInv, TypeOK
      <3>2. UNCHANGED <<currentSurface, presented>> \/ Stores(Patched(p))
        BY <1>2, <2>1 DEF ReceivePatch, acceptSurface, Stores
      <3>3. QED
        BY <3>1, <3>2
    <2>2. CASE UNCHANGED <<currentSurface, presented>>
      BY <2>2
    <2>3. QED
      BY <1>2, <2>1, <2>2 DEF ReceivePatch
  <1>3. QED
    BY <1>1, <1>2

\* Only acceptSurface replaces the held surface, by a newer one.
LEMMA SurfaceStep ==
    ASSUME SessionInv, [Next]_vars
    PROVE  \/ currentSurface' = currentSurface
           \/ currentSurface' = Undefined /\ phase' = "released"
           \/ \E s \in Surface : Stores(s)
  BY ReceivesSurface
     DEF Next, Receive, vars, wire, session, presented, RejectSnapshot, ReceiveSnapshot,
         ReceiveEvent, ReceivePong, ReceiveReply, ReceiveRefused, FinishSnapshot,
         ReaderStops, SetSurface, SetSends, SetExceeds, SetInterrupted,
         SetUnsupported, SetAcknowledged, SetResumes, SetPresents, SetAborts,
         SetFails, AwaitReady, WatcherTakes, WatcherEnds, Subscribe, TakeEvents,
         Unsubscribe, HealthPing, HealthResumes, HealthTimeout, WireFails,
         ConnectFails, Release

\* A session that has failed starts no surface.set.
LEMMA SetterStep ==
    ASSUME [Next]_vars, ~Open
    PROVE  setter' \in {setter, Idle}
  BY DEF Next, Receive, vars, wire, session, presented, presentation, RejectSnapshot,
         ReceiveSnapshot, ReceiveSurface, ReceivePatch, ReceiveEvent, ReceivePong,
         ReceiveReply, ReceiveRefused, FinishSnapshot, ReaderStops, SetSurface,
         MaySet, SetSends, SetExceeds, SetInterrupted, SetUnsupported,
         SetAcknowledged, SetResumes, MayResume, SetPresents, SetAborts, SetFails, AwaitReady,
         WatcherTakes, WatcherEnds, Subscribe, TakeEvents, Unsubscribe, HealthPing,
         HealthResumes, HealthTimeout, WireFails, ConnectFails, Release

\* A released session keeps nothing and takes nothing up.
LEMMA ReleasedStep ==
    ASSUME [Next]_vars, phase = "released", ~Open, ~reader, currentSurface = Undefined
    PROVE  UNCHANGED <<phase, currentProjection, currentSurface, surfaceState, commands>>
  BY DEF Next, Receive, vars, wire, session, presented, presentation, Reading,
         PresentHeld, Holds, RejectSnapshot, ReceiveSnapshot, ReceiveSurface, ReceivePatch, ReceiveEvent,
         ReceivePong, ReceiveReply, ReceiveRefused, FinishSnapshot, ReaderStops,
         SetSurface, MaySet, SetSends, SetExceeds, SetInterrupted, SetUnsupported,
         SetAcknowledged, SetResumes, SetPresents, MayResume, SetAborts, SetFails,
         AwaitReady, WatcherTakes, WatcherEnds, Subscribe, TakeEvents, Unsubscribe,
         HealthPing, HealthResumes, HealthTimeout, WireFails, ConnectFails, Release

-----------------------------------------------------------------------------
(* Action properties.                                                       *)

\* Neither a stale snapshot nor a stale surface or patch replaces a newer one
\* (the revision checks of the snapshot handler and of acceptSurface).
THEOREM RevisionsGrow == Spec => RevisionsOnlyGrow
  <1> DEFINE Grows ==
        phase' # "released" =>
          /\ currentProjection # Undefined =>
                /\ currentProjection'.boot = currentProjection.boot
                /\ currentProjection'.revision >= currentProjection.revision
          /\ currentSurface # Undefined =>
                currentSurface'.revision >= currentSurface.revision
  <1>1. SessionInv /\ [Next]_vars => [Grows]_vars
    <2> SUFFICES ASSUME SessionInv, [Next]_vars PROVE Grows
      OBVIOUS
    <2> SUFFICES ASSUME phase' # "released"
                 PROVE  /\ currentProjection # Undefined =>
                             /\ currentProjection'.boot = currentProjection.boot
                             /\ currentProjection'.revision >= currentProjection.revision
                        /\ currentSurface # Undefined =>
                             currentSurface'.revision >= currentSurface.revision
      OBVIOUS
    <2>1. /\ currentProjection # Undefined => currentProjection.revision \in Nat
          /\ currentSurface # Undefined => currentSurface.revision \in Nat
      BY RevisionsAssumption DEF SessionInv, TypeOK, Projection, Surface
    <2>2. ASSUME currentProjection # Undefined
          PROVE  /\ currentProjection'.boot = currentProjection.boot
                 /\ currentProjection'.revision >= currentProjection.revision
      <3>1. CASE currentProjection' = currentProjection
        BY <2>1, <2>2, <3>1
      <3>2. ASSUME NEW p \in Projection, ReceiveSnapshot(p)
            PROVE  /\ currentProjection'.boot = currentProjection.boot
                   /\ currentProjection'.revision >= currentProjection.revision
        <4>1. currentProjection' = p /\ p.revision > currentProjection.revision
          BY <2>2, <3>2 DEF ReceiveSnapshot, Newer
        <4>2. p.revision \in Nat
          BY RevisionsAssumption DEF Projection
        <4>3. currentProjection.boot = bootId /\ bootId # Undefined
          BY <2>2, UndefinedAssumption DEF SessionInv, StageInv, TypeOK, Projection
        <4>4. p.boot = bootId
          BY <3>2, <4>3 DEF ReceiveSnapshot
        <4>5. QED
          BY <2>1, <2>2, <4>1, <4>2, <4>3, <4>4
      <3>3. QED
        BY <3>1, <3>2, ProjectionStep
    <2>3. ASSUME currentSurface # Undefined
          PROVE  currentSurface'.revision >= currentSurface.revision
      <3>1. CASE currentSurface' = currentSurface
        BY <2>1, <2>3, <3>1
      <3>2. ASSUME NEW s \in Surface, Stores(s)
            PROVE  currentSurface'.revision >= currentSurface.revision
        <4>1. currentSurface' = s /\ s.revision > currentSurface.revision
          BY <2>3, <3>2 DEF Stores, StoreSurface, SurfaceIsNewer
        <4>2. s.revision \in Nat
          BY RevisionsAssumption DEF Surface
        <4>3. QED
          BY <2>1, <2>3, <4>1, <4>2
      <3>3. QED
        BY <3>1, <3>2, SurfaceStep
    <2>4. QED
      BY <2>2, <2>3
  <1>2. QED
    BY <1>1, SessionInvariant, PTL DEF Spec, RevisionsOnlyGrow

\* A failed session starts no request and takes up no projection; a released one
\* stays closed and empty (ensureOpen, bindBoot, the last finalizer).
THEOREM EndedStays == Spec => EndedStartsNothing
  <1> DEFINE
        Failed ==
            failure # Undefined =>
                /\ setter' \in {setter, Idle}
                /\ currentProjection' \in {currentProjection, Undefined}
        Released ==
            phase = "released" =>
                UNCHANGED <<phase, currentProjection, currentSurface, surfaceState, commands>>
  <1>1. ASSUME SessionInv, [Next]_vars PROVE Failed
    BY <1>1, SetterStep, ProjectionStep DEF Open, ReceiveSnapshot
  <1>2. ASSUME SessionInv, [Next]_vars PROVE Released
    BY <1>2, ReleasedStep DEF SessionInv, StageInv
  <1>3. SessionInv /\ [Next]_vars => [Failed /\ Released]_vars
    BY <1>1, <1>2
  <1>4. QED
    BY <1>3, SessionInvariant, PTL DEF Spec, EndedStartsNothing

-----------------------------------------------------------------------------
(* Consumers of the surface state.                                          *)

\* The boot is bound once.
LEMMA BootStep ==
    ASSUME [Next]_vars
    PROVE  bootId' = bootId \/ bootId = Undefined
  BY DEF Next, Receive, vars, wire, session, presented, presentation, RejectSnapshot,
         ReceiveSnapshot, ReceiveSurface, ReceivePatch, ReceiveEvent, ReceivePong,
         ReceiveReply, ReceiveRefused, FinishSnapshot, ReaderStops, SetSurface,
         SetSends, SetExceeds, SetInterrupted, SetUnsupported, SetAcknowledged,
         SetResumes, SetPresents, SetAborts, SetFails, AwaitReady, WatcherTakes,
         WatcherEnds, Subscribe, TakeEvents, Unsubscribe, HealthPing, HealthResumes,
         HealthTimeout, WireFails, ConnectFails, Release

\* A step publishes, moves one consumer, closes the session, or shows nothing.
LEMMA PresentedStep ==
    ASSUME [Next]_vars
    PROVE  \/ UNCHANGED presented
           \/ publishSurface(surfaceState')
           \/ \E w \in Watchers :
                 /\ AwaitReady(w) \/ WatcherTakes(w) \/ WatcherEnds(w)
           \/ Release
  <1>1. ASSUME NEW s \in Surface, NEW resolves \in BOOLEAN, acceptSurface(s, resolves)
        PROVE  UNCHANGED presented \/ publishSurface(surfaceState')
    BY <1>1 DEF acceptSurface, StoreSurface, publishSurface, presented
  <1>2. ASSUME NEW s, NEW resolves \in BOOLEAN, acceptSurface(s, resolves)
        PROVE  UNCHANGED presented \/ publishSurface(surfaceState')
    BY <1>2 DEF acceptSurface, StoreSurface, publishSurface, presented
  <1>3. ASSUME \/ \E s \in Surface, resolves \in BOOLEAN : ReceiveSurface(s, resolves)
               \/ \E p \in Patch, resolves \in BOOLEAN : ReceivePatch(p, resolves)
        PROVE  UNCHANGED presented \/ publishSurface(surfaceState')
    BY <1>2, <1>3 DEF ReceiveSurface, ReceivePatch, presented
  <1>4. ASSUME \E p \in Projection : ReceiveSnapshot(p)
        PROVE  UNCHANGED presented \/ publishSurface(surfaceState')
    BY <1>4 DEF ReceiveSnapshot, publishSurface
  <1>5. ASSUME \/ \E active \in BOOLEAN : SetSurface(active)
               \/ SetUnsupported \/ SetAcknowledged \/ SetResumes \/ SetPresents
        PROVE  UNCHANGED presented \/ publishSurface(surfaceState')
    BY <1>5 DEF SetSurface, SetUnsupported, SetAcknowledged, SetResumes, SetPresents,
                PresentHeld, publishSurface
  <1>6. QED
    BY <1>3, <1>4, <1>5
       DEF Next, Receive, vars, presented, RejectSnapshot, ReceiveEvent, ReceivePong,
           ReceiveReply, ReceiveRefused, FinishSnapshot, ReaderStops, SetSends, SetExceeds,
           SetInterrupted, SetAborts, SetFails, Subscribe, TakeEvents, Unsubscribe,
           HealthPing, HealthResumes, HealthTimeout, WireFails, ConnectFails

WatchersAtFloor ==
    \A w \in Watchers :
        /\ watching[w].slot # Undefined => AtFloor(watching[w].slot)
        /\ watching[w].got # Undefined =>
              watching[w].got.status = "active" /\ AtFloor(watching[w].got)

LEMMA WatchersStep ==
    SessionInv /\ SessionInv' /\ WatchersAtFloor /\ [Next]_vars => WatchersAtFloor'
  <1> SUFFICES ASSUME SessionInv, SessionInv', WatchersAtFloor, [Next]_vars,
                      NEW v \in Watchers
               PROVE  /\ watching'[v].slot # Undefined => AtFloor(watching[v].slot)'
                      /\ watching'[v].got # Undefined =>
                            watching'[v].got.status = "active" /\ AtFloor(watching[v].got)'
    BY DEF WatchersAtFloor
  <1> USE UndefinedAssumption
  <1>1. \A state \in State : AtFloor(state) => AtFloor(state)'
    BY BootStep DEF AtFloor, Surface
  <1>2. AtFloor(surfaceState)' /\ AtFloor(surfaceState)
    BY DEF SessionInv, PresentedAtFloor
  <1>3. /\ watching \in [Watchers -> Watcher]
        /\ watching[v].slot \in State \cup {Undefined}
        /\ watching[v].got \in State \cup {Undefined}
    BY DEF SessionInv, TypeOK, Watcher
  <1>4. CASE watching' = watching
    BY <1>1, <1>3, <1>4 DEF WatchersAtFloor
  <1>5. CASE publishSurface(surfaceState')
    <2>1. \/ watching'[v] = watching[v]
          \/ watching'[v] = [watching[v] EXCEPT !.slot = surfaceState']
      BY <1>5 DEF publishSurface
    <2>2. \/ watching'[v] = watching[v]
          \/ /\ watching'[v].slot = surfaceState'
             /\ watching'[v].got = watching[v].got
      BY <2>1, <1>3 DEF Watcher
    <2>3. QED
      BY <1>1, <1>2, <1>3, <2>2 DEF WatchersAtFloor
  <1>6. ASSUME NEW w \in Watchers, AwaitReady(w) \/ WatcherTakes(w) \/ WatcherEnds(w)
        PROVE  /\ watching'[v].slot # Undefined => AtFloor(watching[v].slot)'
               /\ watching'[v].got # Undefined =>
                     watching'[v].got.status = "active" /\ AtFloor(watching[v].got)'
    <2>1. \/ watching'[v] = watching[v]
          \/ watching'[v].slot = surfaceState /\ watching'[v].got = Undefined
          \/ /\ watching'[v].slot = Undefined
             /\ watching[v].slot # Undefined /\ watching[v].slot.status = "active"
             /\ watching'[v].got = watching[v].slot
          \/ watching'[v].slot = Undefined /\ watching'[v].got = watching[v].got
          \/ watching'[v].slot = Undefined /\ watching'[v].got = Undefined
      <3>1. CASE AwaitReady(w)
        BY <1>3, <3>1 DEF AwaitReady, Subscription
      <3>2. CASE WatcherTakes(w)
        BY <1>3, <3>2 DEF WatcherTakes, Watcher
      <3>3. CASE WatcherEnds(w)
        BY <1>3, <3>3 DEF WatcherEnds
      <3>4. QED
        BY <1>6, <3>1, <3>2, <3>3
    <2>2. surfaceState' = surfaceState
      BY <1>6 DEF AwaitReady, WatcherTakes, WatcherEnds
    <2>3. QED
      BY <1>1, <1>2, <1>3, <2>1, <2>2 DEF WatchersAtFloor, AtFloor
  <1>7. QED
    BY <1>4, <1>5, <1>6, PresentedStep DEF presented, Release

\* Whatever awaitReady returns, and every state a consumer may still see, is an
\* active surface at its floor and of the bound boot (surfaceStates, awaitReady).
THEOREM ActiveStatesAtFloor == Spec => []ActiveAtFloor
  <1>1. Init => WatchersAtFloor
    BY DEF Init, WatchersAtFloor
  <1>2. SessionInv /\ WatchersAtFloor => ActiveAtFloor
    BY DEF SessionInv, PresentedAtFloor, WatchersAtFloor, ActiveAtFloor
  <1>3. QED
    BY <1>1, <1>2, WatchersStep, SessionInvariant, PTL DEF Spec

LEMMA UpToDateStep ==
    SessionInv /\ SessionInv' /\ WatcherUpToDate /\ [Next]_vars => WatcherUpToDate'
  <1> SUFFICES ASSUME SessionInv, SessionInv', WatcherUpToDate, [Next]_vars,
                      phase' # "released", NEW v \in Watchers,
                      watching'[v].mode = "waiting"
               PROVE  /\ watching'[v].slot # Undefined => watching'[v].slot = surfaceState'
                      /\ watching'[v].slot = Undefined => surfaceState'.status # "active"
    BY DEF WatcherUpToDate
  <1> USE UndefinedAssumption
  <1>1. phase # "released"
    BY ReleasedStep DEF SessionInv, StageInv
  <1>2. /\ watching \in [Watchers -> Watcher]
        /\ surfaceState \in State /\ surfaceState' \in State
    BY DEF SessionInv, TypeOK
  <1>3. CASE UNCHANGED presented
    BY <1>1, <1>3 DEF WatcherUpToDate, presented
  <1>4. CASE publishSurface(surfaceState')
    BY <1>2, <1>4 DEF publishSurface, Watcher
  <1>5. ASSUME NEW w \in Watchers, AwaitReady(w) \/ WatcherTakes(w) \/ WatcherEnds(w)
        PROVE  /\ watching'[v].slot # Undefined => watching'[v].slot = surfaceState'
               /\ watching'[v].slot = Undefined => surfaceState'.status # "active"
    <2>1. surfaceState' = surfaceState
      BY <1>5 DEF AwaitReady, WatcherTakes, WatcherEnds
    <2>2. \/ watching'[v] = watching[v]
          \/ watching'[v].slot = surfaceState
          \/ /\ watching'[v].slot = Undefined /\ watching[v].mode = "waiting"
             /\ watching[v].slot # Undefined /\ watching[v].slot.status # "active"
      <3>1. CASE AwaitReady(w)
        BY <1>2, <3>1 DEF AwaitReady, Subscription
      <3>2. CASE WatcherTakes(w)
        BY <1>2, <3>2 DEF WatcherTakes, Watcher
      <3>3. CASE WatcherEnds(w)
        BY <1>2, <3>3 DEF WatcherEnds
      <3>4. QED
        BY <1>5, <3>1, <3>2, <3>3
    <2>3. QED
      BY <1>1, <1>2, <2>1, <2>2 DEF WatcherUpToDate
  <1>6. QED
    BY <1>3, <1>4, <1>5, PresentedStep DEF Release

\* No interleaving of publications and takes hides an active state from a waiting
\* consumer or leaves it an old one (the sliding(1) subscription of awaitReady).
THEOREM WatchersUpToDate == Spec => []WatcherUpToDate
  <1>1. Init => WatcherUpToDate
    BY DEF Init, WatcherUpToDate
  <1>2. QED
    BY <1>1, UpToDateStep, SessionInvariant, PTL DEF Spec

-----------------------------------------------------------------------------
(* Commands and presentation events.                                        *)

\* The commands of the projection are registered once its handler has finished.
CommandsInv ==
    /\ handling # Undefined => handling = currentProjection
    /\ (phase = "ready" /\ handling = Undefined) =>
          CommandsOf(currentProjection) \subseteq commands

LEMMA CommandsStep ==
    SessionInv /\ CommandsInv /\ [Next]_vars => CommandsInv'
  <1> SUFFICES ASSUME SessionInv, CommandsInv, [Next]_vars PROVE CommandsInv'
    OBVIOUS
  <1> USE UndefinedAssumption
  <1>1. ASSUME NEW p \in Projection, ReceiveSnapshot(p) PROVE CommandsInv'
    <2>1. handling = Undefined /\ currentProjection' = p
      BY <1>1 DEF ReceiveSnapshot, Reading
    <2>2. CASE Overtakes(p)
      BY <1>1, <2>1, <2>2 DEF ReceiveSnapshot, CommandsInv
    <2>3. CASE ~Overtakes(p)
      BY <1>1, <2>1, <2>3 DEF ReceiveSnapshot, CompleteSnapshot, CommandsInv
    <2>4. QED
      BY <2>2, <2>3
  <1>2. CASE FinishSnapshot
    BY <1>2 DEF FinishSnapshot, CompleteSnapshot, CommandsInv
  <1>3. CASE ConnectFails \/ Release
    BY <1>3 DEF ConnectFails, Release, SessionInv, StageInv, CommandsInv
  <1>4. CASE UNCHANGED <<phase, currentProjection, commands, handling>>
    BY <1>4 DEF CommandsInv, CommandsOf
  <1>5. QED
    BY <1>1, <1>2, <1>3, <1>4
       DEF Next, Receive, vars, session, RejectSnapshot, ReceiveSurface, ReceivePatch,
           ReceiveEvent, ReceivePong, ReceiveReply, ReceiveRefused, ReaderStops,
           SetSurface, SetSends, SetExceeds, SetInterrupted, SetUnsupported,
           SetAcknowledged, SetResumes, SetPresents, SetAborts, SetFails,
           AwaitReady, WatcherTakes, WatcherEnds, Subscribe, TakeEvents,
           Unsubscribe, HealthPing, HealthResumes, HealthTimeout, WireFails

\* A command handed out is not taken back before the scope closes.
LEMMA CommandsGrow ==
    ASSUME [Next]_vars, phase' = "ready"
    PROVE  commands \subseteq commands'
  BY DEF Next, Receive, vars, session, RejectSnapshot, ReceiveSnapshot, CompleteSnapshot,
         ReceiveSurface, ReceivePatch, ReceiveEvent, ReceivePong, ReceiveReply,
         ReceiveRefused, FinishSnapshot, ReaderStops, SetSurface, SetSends, SetExceeds,
         SetInterrupted, SetUnsupported, SetAcknowledged, SetResumes, SetPresents,
         SetAborts, SetFails, AwaitReady, WatcherTakes, WatcherEnds, Subscribe, TakeEvents,
         Unsubscribe, HealthPing, HealthResumes, HealthTimeout, WireFails, ConnectFails,
         Release

\* A handle of a known action that was handed out resolves for as long as its id is
\* listed, through every later projection and also inside the handler of one; those of
\* a projection from the end of its handler on (the commands WeakSet, assertCommand).
THEOREM CommandsResolve == Spec => ListedCommandsResolve
  <1> DEFINE
        Resolves ==
            (phase' = "ready" /\ Open') =>
              \A c \in Command :
                 /\ c.known
                 /\ Lists(currentProjection', c.id)
                 /\ c \in commands
                       \/ (handling' = Undefined /\ c \in CommandsOf(currentProjection)')
                 => Resolvable(c)'
  <1>1. Init => CommandsInv
    BY DEF Init, CommandsInv
  <1>2. ASSUME SessionInv', CommandsInv', [Next]_vars PROVE Resolves
    <2> SUFFICES ASSUME phase' = "ready", Open', NEW c \in Command, c.known,
                        Lists(currentProjection', c.id),
                        \/ c \in commands
                        \/ handling' = Undefined /\ c \in CommandsOf(currentProjection)'
                 PROVE  Resolvable(c)'
      OBVIOUS
    <2>1. currentProjection' # Undefined
      BY <1>2 DEF SessionInv, StageInv
    <2>2. c \in commands'
      BY <1>2, CommandsGrow DEF CommandsInv
    <2>3. QED
      BY <2>1, <2>2 DEF Resolvable, Open, Lists
  <1>3. SessionInv' /\ CommandsInv' /\ [Next]_vars => [Resolves]_vars
    BY <1>2
  <1>4. QED
    BY <1>1, <1>3, CommandsStep, SessionInvariant, PTL DEF Spec, ListedCommandsResolve

\* NoEventSkipped, and that who is not subscribed holds nothing.
EventsInv ==
    reader =>
        \A s \in Subscribers :
            IF seen[s] = Undefined THEN backlog[s] = 0 ELSE seen[s] + backlog[s] = events

LEMMA EventsStep == TypeOK /\ EventsInv /\ [Next]_vars => EventsInv'
  <1> SUFFICES ASSUME TypeOK, EventsInv, [Next]_vars, reader', NEW s \in Subscribers
               PROVE  IF seen'[s] = Undefined THEN backlog'[s] = 0
                      ELSE seen'[s] + backlog'[s] = events'
    BY DEF EventsInv
  <1>1. reader
    BY DEF Next, Receive, vars, wire, ReaderFails, RejectSnapshot, ReceiveSnapshot,
           ReceiveSurface, ReceivePatch, acceptSurface, StoreSurface, ReceiveEvent,
           ReceivePong, ReceiveReply, ReceiveRefused, FinishSnapshot, ReaderStops,
           SetSurface, SetSends, SetExceeds, SetInterrupted, SetUnsupported,
           SetAcknowledged, SetResumes, SetPresents, SetAborts, SetFails,
           AwaitReady, WatcherTakes, WatcherEnds, Subscribe, TakeEvents,
           Unsubscribe, HealthPing, HealthResumes, HealthTimeout, WireFails,
           ConnectFails, Release
  <1>2. /\ seen \in [Subscribers -> Nat \cup {Undefined}]
        /\ backlog \in [Subscribers -> 0 .. EventCapacity]
        /\ events \in Nat /\ backlog[s] \in Nat
    BY CapacityAssumption DEF TypeOK
  <1>3. IF seen[s] = Undefined THEN backlog[s] = 0 ELSE seen[s] + backlog[s] = events
    BY <1>1 DEF EventsInv
  <1>4. CASE ReceiveEvent
    <2>1. seen' = seen /\ events' = events + 1 /\ backlog' = EventDelivered
      BY <1>4 DEF ReceiveEvent, ReaderFails
    <2>2. backlog'[s] = IF seen[s] # Undefined THEN backlog[s] + 1 ELSE 0
      BY <2>1 DEF EventDelivered, Subscribed
    <2>3. CASE seen[s] = Undefined
      BY <2>1, <2>2, <2>3
    <2>4. CASE seen[s] # Undefined
      BY <1>2, <1>3, <2>1, <2>2, <2>4
    <2>5. QED
      BY <2>3, <2>4
  <1>5. ASSUME NEW t \in Subscribers, Subscribe(t) \/ TakeEvents(t) \/ Unsubscribe(t)
        PROVE  IF seen'[s] = Undefined THEN backlog'[s] = 0
               ELSE seen'[s] + backlog'[s] = events'
    <2>1. CASE Subscribe(t)
      BY <1>2, <1>3, <2>1 DEF Subscribe
    <2>2. CASE TakeEvents(t)
      <3>1. CASE t = s
        <4>1. seen[s] \in Nat /\ seen[s] + backlog[s] = events
          BY <1>2, <1>3, <2>2, <3>1 DEF TakeEvents, Subscribed
        <4>2. seen'[s] = seen[s] + backlog[s] /\ backlog'[s] = 0 /\ events' = events
          BY <1>2, <2>2, <3>1 DEF TakeEvents
        <4>3. QED
          BY <1>2, <4>1, <4>2
      <3>2. CASE t # s
        BY <1>2, <1>3, <2>2, <3>2 DEF TakeEvents
      <3>3. QED
        BY <3>1, <3>2
    <2>3. CASE Unsubscribe(t)
      BY <1>2, <1>3, <2>3 DEF Unsubscribe
    <2>4. QED
      BY <1>5, <2>1, <2>2, <2>3
  <1>6. CASE UNCHANGED presentation
    BY <1>3, <1>6 DEF presentation
  <1>7. QED
    BY <1>4, <1>5, <1>6
       DEF Next, Receive, vars, RejectSnapshot, ReceiveSnapshot, ReceiveSurface,
           ReceivePatch, ReceivePong, ReceiveReply, ReceiveRefused, FinishSnapshot,
           ReaderStops, SetSurface, SetSends, SetExceeds, SetInterrupted,
           SetUnsupported, SetAcknowledged, SetResumes, SetPresents, SetAborts,
           SetFails, AwaitReady, WatcherTakes, WatcherEnds, HealthPing,
           HealthResumes, HealthTimeout, WireFails, ConnectFails, Release

\* However slow a subscriber is, it misses no event while the reader runs (the
\* dropping backlog of presentation events).
THEOREM EventsDelivered == Spec => []NoEventSkipped
  <1>1. Init => EventsInv
    BY DEF Init, EventsInv
  <1>2. EventsInv => NoEventSkipped
    BY DEF EventsInv, NoEventSkipped, Subscribed
  <1>3. QED
    BY <1>1, <1>2, EventsStep, TypeCorrect, PTL DEF Spec

-----------------------------------------------------------------------------
(* Waiting for a surface.                                                   *)

\* What makes AwaitsOnlyMissing inductive: a held surface that is not the one
\* presented is below the floor of the active state.
MissingInv ==
    /\ AwaitsOnlyMissing
    /\ surfaceState.status = "active" /\ currentSurface # surfaceState.surface =>
          ~Holds(surfaceState.floor)
    /\ surfaceState.floor \in Nat
    /\ setter.step = "answered" => setter.reply.kind # "rejected"

LEMMA MissingStep ==
    ASSUME ServerRejects = FALSE, ConsumersInterrupt = FALSE
    PROVE  SessionInv /\ SessionInv' /\ MissingInv /\ [Next]_vars => MissingInv'
  <1> SUFFICES ASSUME SessionInv, SessionInv', MissingInv, [Next]_vars
               PROVE  MissingInv'
    OBVIOUS
  <1> DEFINE Waits ==
        /\ AwaitsOnlyMissing
        /\ surfaceState.status = "active" /\ currentSurface # surfaceState.surface =>
              ~Holds(surfaceState.floor)
  <1> USE UndefinedAssumption
  <1>1. surfaceState'.floor \in Nat
    <2>1. surfaceState' \in State
      BY DEF SessionInv, TypeOK
    <2>2. QED
      BY <2>1, RevisionsAssumption DEF State, Floor
  <1>2. setter'.step = "answered" => setter'.reply.kind # "rejected"
    <2>1. ASSUME NEW r \in Reply, ReceiveReply(r)
          PROVE  setter'.reply.kind # "rejected"
      BY <2>1 DEF ReceiveReply, SessionInv, TypeOK, Setter
    <2>2. ASSUME \/ setter' = setter
                 \/ setter' = Idle
                 \/ setter'.step \in {"announcing", "waiting", "presenting"}
          PROVE  setter'.step = "answered" => setter'.reply.kind # "rejected"
      BY <2>2 DEF MissingInv, Idle
    <2>3. ASSUME SetSends \/ SetAcknowledged
          PROVE  setter'.step \in {"waiting", "presenting"}
      BY <2>3 DEF SetSends, SetAcknowledged, SessionInv, TypeOK, Setter
    <2>4. QED
      BY <2>1, <2>2, <2>3
         DEF Next, Receive, vars, RejectSnapshot, ReceiveSnapshot, ReceiveSurface,
             ReceivePatch, ReceiveEvent, ReceivePong, ReceiveRefused, FinishSnapshot,
             ReaderStops, SetSurface, SetExceeds, SetInterrupted, SetUnsupported,
             SetResumes, SetPresents, SetAborts, SetFails, AwaitReady, WatcherTakes,
             WatcherEnds, Subscribe, TakeEvents, Unsubscribe, HealthPing, HealthResumes,
             HealthTimeout, WireFails, ConnectFails, Release
  <1>3. ASSUME UNCHANGED <<surfaceState, currentSurface>>,
               setter' = setter \/ setter.step # "presenting"
        PROVE  Waits'
    BY <1>3 DEF MissingInv, AwaitsOnlyMissing, Holds
  <1>4. ASSUME NEW s \in Surface, Stores(s) PROVE Waits'
    <2>1. currentSurface' = s /\ s.projection \in Nat /\ setter.step # "presenting"
      BY <1>4, RevisionsAssumption DEF Stores, StoreSurface, Surface, Reading, Publishing
    <2>2. CASE Presents(s)
      BY <1>4, <2>1, <2>2
         DEF Stores, StoreSurface, publishSurface, Active, AwaitsOnlyMissing
    <2>3. CASE ~Presents(s)
      <3>1. surfaceState' = surfaceState
        BY <1>4, <2>3 DEF Stores, StoreSurface, presented
      <3>2. surfaceState.status \in {"active", "awaitingSurface"} =>
               ~(s.projection >= surfaceState.floor)
        BY <2>3 DEF Presents
      <3>3. QED
        BY <2>1, <3>1, <3>2 DEF AwaitsOnlyMissing, Holds
    <2>4. QED
      BY <2>2, <2>3
  <1>5. ASSUME NEW p \in Projection, ReceiveSnapshot(p), Overtakes(p) PROVE Waits'
    <2>1. surfaceState' = Awaiting(p.revision) /\ currentSurface' = currentSurface
      BY <1>5 DEF ReceiveSnapshot, publishSurface
    <2>2. /\ p.revision \in Nat
          /\ surfaceState.surface \in Surface /\ surfaceState.surface.projection \in Nat
          /\ surfaceState.surface.projection >= surfaceState.floor
          /\ surfaceState.surface.projection < p.revision
          /\ currentSurface # Undefined => currentSurface.projection \in Nat
      BY <1>5, RevisionsAssumption
         DEF Overtakes, Projection, SessionInv, TypeOK, PresentedAtFloor, AtFloor, Surface
    <2>3. ~(currentSurface # Undefined /\ currentSurface.projection >= p.revision)
      BY <1>5, <2>2 DEF Overtakes, MissingInv, Holds
    <2>4. QED
      BY <2>1, <2>3 DEF Awaiting, AwaitsOnlyMissing, Holds
  <1>6. ASSUME SetResumes PROVE Waits'
    <2>1. /\ setter.reply.kind # "rejected" /\ setter.step = "answered"
          /\ currentSurface' = currentSurface
      BY <1>6 DEF SetResumes, MayResume, MissingInv, session
    <2>2. CASE publishSurface(Plain("inactive"))
      BY <2>2 DEF publishSurface, Plain, AwaitsOnlyMissing
    <2>3. CASE UNCHANGED <<presented>>
      BY <1>3, <2>1, <2>3 DEF presented
    <2>4. QED
      BY <1>6, <2>1, <2>2, <2>3 DEF SetResumes
  <1>7. ASSUME SetAcknowledged PROVE Waits'
    <2>1. setter'.step = "presenting" /\ surfaceState' = Awaiting(setter.reply.floor)
      BY <1>7 DEF SetAcknowledged, publishSurface, SessionInv, TypeOK, Setter
    <2>2. QED
      BY <2>1 DEF Awaiting, AwaitsOnlyMissing
  <1>8. ASSUME SetPresents PROVE Waits'
    <2>1. setter.step = "presenting" /\ currentSurface' = currentSurface
      BY <1>8 DEF SetPresents, session
    <2>2. CASE Holds(setter.reply.floor)
      <3>1. surfaceState' = Active(setter.reply.floor, currentSurface)
        BY <1>8, <2>2 DEF SetPresents, PresentHeld, publishSurface
      <3>2. QED
        BY <2>1, <3>1 DEF Active, AwaitsOnlyMissing
    <2>3. CASE ~Holds(setter.reply.floor)
      <3>1. surfaceState' = surfaceState
        BY <1>8, <2>3 DEF SetPresents, PresentHeld, presented
      <3>2. CASE phase = "released"
        BY <2>1, <3>1, <3>2 DEF SessionInv, StageInv, AwaitsOnlyMissing, Holds
      <3>3. CASE phase # "released"
        <4>1. surfaceState = Awaiting(setter.reply.floor)
          BY <2>1, <3>3 DEF SessionInv, SetterInv
        <4>2. QED
          BY <2>1, <2>3, <3>1, <4>1 DEF Awaiting, AwaitsOnlyMissing, Holds
      <3>4. QED
        BY <3>2, <3>3
    <2>4. QED
      BY <2>2, <2>3
  <1>9. ASSUME Release \/ \E active \in BOOLEAN : SetSurface(active) PROVE Waits'
    BY <1>9 DEF Release, SetSurface, publishSurface, Plain, AwaitsOnlyMissing
  <1>10. Waits'
    <2>1. ASSUME NEW p \in Projection, ReceiveSnapshot(p), ~Overtakes(p) PROVE Waits'
      BY <1>3, <2>1 DEF ReceiveSnapshot, presented
    <2>2. ASSUME ConnectFails PROVE Waits'
      BY <1>3, <2>2 DEF ConnectFails, presented
    <2>3. ASSUME NEW w \in Watchers, AwaitReady(w) \/ WatcherTakes(w) \/ WatcherEnds(w)
          PROVE  Waits'
      BY <1>3, <2>3 DEF AwaitReady, WatcherTakes, WatcherEnds, session
    <2>4. CASE UNCHANGED <<currentSurface, presented, setter>>
      BY <1>3, <2>4 DEF presented
    <2>5. CASE \/ \E s \in Surface, resolves \in BOOLEAN : ReceiveSurface(s, resolves)
               \/ \E p \in Patch, resolves \in BOOLEAN : ReceivePatch(p, resolves)
      <3>1. setter' = setter
        BY <2>5 DEF ReceiveSurface, ReceivePatch
      <3>2. QED
        BY <1>4, <2>4, <2>5, <3>1, ReceivesSurface
    <2>6. CASE SetSends \/ SetExceeds \/ SetFails \/ \E r \in Reason : SetAborts(r)
      BY <1>3, <2>6
         DEF SetSends, SetExceeds, SetFails, SetAborts, InFlight, session, presented
    <2>7. CASE \E r \in Reply : ReceiveReply(r)
      BY <1>3, <2>7 DEF ReceiveReply, session, presented
    <2>8. QED
      BY <1>5, <1>6, <1>7, <1>8, <1>9, <2>1, <2>2, <2>3, <2>4, <2>5, <2>6, <2>7
         DEF Next, Receive, vars, session, RejectSnapshot, ReceiveEvent, ReceivePong,
             ReceiveRefused, FinishSnapshot, ReaderStops, SetInterrupted, SetUnsupported,
             Subscribe, TakeEvents, Unsubscribe, HealthPing, HealthResumes, HealthTimeout,
             WireFails
  <1>11. QED
    BY <1>1, <1>2, <1>10 DEF MissingInv

\* If the peer rejects no surface.set and no consumer interrupts the one that woke it,
\* the session never waits for a surface it holds, but between the two publications of
\* a surface.set (surface.set, acceptSurface and the snapshot handler).
THEOREM AwaitsMissing ==
    ASSUME ServerRejects = FALSE, ConsumersInterrupt = FALSE
    PROVE  Spec => []AwaitsOnlyMissing
  <1>1. Init => MissingInv
    BY DEF Init, MissingInv, AwaitsOnlyMissing, Plain, Idle
  <1>2. MissingInv => AwaitsOnlyMissing
    BY DEF MissingInv
  <1>3. QED
    BY <1>1, <1>2, MissingStep, SessionInvariant, PTL DEF Spec

-----------------------------------------------------------------------------
(* The abstract specifications: every step of the session is a step of    *)
(* theirs, or leaves what they speak of alone.                             *)

\* The session's request as the contract sees it.
Asking == IF setter.step \in {"waiting", "answered"} THEN setter.step ELSE "none"
Asked == [a \in {"surface.set"} |-> Asking]

Keeps == [Contract!Next]_(Contract!vars)

-----------------------------------------------------------------------------
(* One lemma per step of the contract.                                      *)

LEMMA StutterKeeps ==
    ASSUME UNCHANGED <<failure, bootId, reader, Asking>> PROVE Keeps
  BY DEF Keeps, Contract!vars, Asking

\* The reader fails or ends the connection, or stops after somebody else did.
LEMMA EndKeeps ==
    ASSUME NEW reason \in Reason, Fail(reason), reader' = FALSE,
           UNCHANGED <<bootId, setter>>
    PROVE  Keeps
  <1>1. CASE Open
    <2>1. failure' = reason /\ failure = Undefined
      BY <1>1 DEF Fail, Open
    <2>2. Contract!Fails(reason)
      <3>1. Asked' = [a \in {"surface.set"} |-> IF a \in {} THEN "none" ELSE Asked[a]]
        BY DEF Asked, Asking
      <3>2. {} \in SUBSET {"surface.set"}
        OBVIOUS
      <3>3. QED
        BY <2>1, <3>1, <3>2 DEF Contract!Fails, Contract!Open, Asked, Asking
    <2>3. QED
      BY <2>2 DEF Keeps, Contract!Next
  <1>2. CASE ~Open
    <2>1. Contract!StopsReading
      BY <1>2 DEF Fail, Open, Contract!StopsReading, Contract!Open
    <2>2. QED
      BY <2>1 DEF Keeps, Contract!Next
  <1>3. QED
    BY <1>1, <1>2

\* Another fiber fails an open connection; the request may end with it.
LEMMA FailKeeps ==
    ASSUME NEW reason \in Reason, Open, Fail(reason), UNCHANGED <<bootId, reader>>,
           setter' = setter \/ setter'.step = "idle"
    PROVE  Keeps
  <1>1. failure' = reason /\ failure = Undefined
    BY DEF Fail, Open
  <1>2. \E ended \in SUBSET {"surface.set"} :
           Asked' = [a \in {"surface.set"} |-> IF a \in ended THEN "none" ELSE Asked[a]]
    <2>1. CASE setter' = setter
      <3>1. Asked' = [a \in {"surface.set"} |-> IF a \in {} THEN "none" ELSE Asked[a]]
        BY <2>1 DEF Asked, Asking
      <3>2. {} \in SUBSET {"surface.set"}
        OBVIOUS
      <3>3. QED
        BY <3>1, <3>2
    <2>2. CASE setter'.step = "idle"
      <3>1. Asked' = [a \in {"surface.set"} |->
                        IF a \in {"surface.set"} THEN "none" ELSE Asked[a]]
        BY <2>2 DEF Asked, Asking
      <3>2. QED
        BY <3>1
    <2>3. QED
      BY <2>1, <2>2
  <1>3. Contract!Fails(reason)
    BY <1>1, <1>2 DEF Contract!Fails, Contract!Open, Asked, Asking
  <1>4. QED
    BY <1>3 DEF Keeps, Contract!Next

\* A surface.set begins, is answered, returns, or ends in a failed connection.
LEMMA RequestKeeps ==
    ASSUME UNCHANGED <<failure, bootId, reader>>, Asking # Asking',
           \/ Open /\ bootId # Undefined /\ Asking = "none" /\ Asking' = "waiting"
           \/ Open /\ reader /\ Asking = "waiting" /\ Asking' = "answered"
           \/ Open /\ Asking = "answered" /\ Asking' = "none"
           \/ ~Open /\ Asking' = "none"
    PROVE  Keeps
  <1>1. /\ Asked["surface.set"] = Asking
        /\ Asked' = [Asked EXCEPT !["surface.set"] = Asking']
    BY DEF Asked
  <1>2. CASE Open /\ bootId # Undefined /\ Asking = "none" /\ Asking' = "waiting"
    <2>1. Contract!Asks("surface.set")
      BY <1>1, <1>2 DEF Contract!Asks, Contract!Open, Open, Asked, Asking
    <2>2. QED
      BY <2>1 DEF Keeps, Contract!Next
  <1>3. CASE Open /\ reader /\ Asking = "waiting" /\ Asking' = "answered"
    <2>1. Contract!Answers("surface.set")
      BY <1>1, <1>3 DEF Contract!Answers, Contract!Open, Open, Asked, Asking
    <2>2. QED
      BY <2>1 DEF Keeps, Contract!Next
  <1>4. CASE Open /\ Asking = "answered" /\ Asking' = "none"
    <2>1. Contract!Returns("surface.set")
      BY <1>1, <1>4 DEF Contract!Returns, Contract!Open, Open, Asked, Asking
    <2>2. QED
      BY <2>1 DEF Keeps, Contract!Next
  <1>5. CASE ~Open /\ Asking' = "none"
    <2>1. Contract!Ends("surface.set")
      BY <1>1, <1>5 DEF Contract!Ends, Contract!Open, Open, Asked, Asking
    <2>2. QED
      BY <2>1 DEF Keeps, Contract!Next
  <1>6. QED
    BY <1>2, <1>3, <1>4, <1>5

-----------------------------------------------------------------------------
(* The steps of the session.                                                *)

LEMMA ContractStep == SessionInv /\ [Next]_vars => Keeps
  <1> SUFFICES ASSUME SessionInv, [Next]_vars PROVE Keeps
    OBVIOUS
  <1> USE DEF wire
  <1>1. {"Closed", "InvalidMessage", "RequestTimeout", "TransportError"} = Reason
    BY DEF Reason
  <1>2. ASSUME NEW reason \in Reason, ReaderFails(reason), UNCHANGED <<bootId, setter>>
        PROVE  Keeps
    BY <1>2, EndKeeps DEF ReaderFails
  <1>3. ASSUME NEW p \in Projection, RejectSnapshot(p) PROVE Keeps
    BY <1>1, <1>2, <1>3 DEF RejectSnapshot
  <1>4. ASSUME NEW p \in Projection, ReceiveSnapshot(p) PROVE Keeps
    <2>1. CASE bootId = Undefined
      <3>1. /\ Open /\ bootId' = p.boot /\ p.boot \in Boots
            /\ UNCHANGED <<failure, reader, setter>>
        BY <1>4 DEF ReceiveSnapshot, Projection
      <3>2. Contract!BindsBoot
        BY <2>1, <3>1 DEF Contract!BindsBoot, Contract!Open, Open
      <3>3. QED
        BY <3>2 DEF Keeps, Contract!Next
    <2>2. CASE bootId # Undefined
      BY <1>4, <2>2, StutterKeeps DEF ReceiveSnapshot, Asking
    <2>3. QED
      BY <2>1, <2>2
  <1>5. ASSUME NEW s, NEW resolves \in BOOLEAN, acceptSurface(s, resolves),
               UNCHANGED <<bootId, setter>>
        PROVE  Keeps
    <2>1. CASE ReaderFails("InvalidMessage")
      BY <1>1, <1>2, <1>5, <2>1
    <2>2. CASE UNCHANGED <<failure, reader>>
      BY <1>5, <2>2, StutterKeeps DEF Asking
    <2>3. QED
      BY <1>5, <2>1, <2>2 DEF acceptSurface, StoreSurface
  <1>6. ASSUME NEW s \in Surface, NEW resolves \in BOOLEAN, ReceiveSurface(s, resolves)
        PROVE  Keeps
    BY <1>5, <1>6 DEF ReceiveSurface
  <1>7. ASSUME NEW p \in Patch, NEW resolves \in BOOLEAN, ReceivePatch(p, resolves)
        PROVE  Keeps
    BY <1>1, <1>2, <1>5, <1>7 DEF ReceivePatch
  <1>8. CASE ReceiveEvent
    <2>1. CASE ReaderFails("InvalidMessage")
      BY <1>1, <1>2, <1>8, <2>1 DEF ReceiveEvent
    <2>2. CASE UNCHANGED <<failure, reader>>
      BY <1>8, <2>2, StutterKeeps DEF ReceiveEvent, Asking
    <2>3. QED
      BY <1>8, <2>1, <2>2 DEF ReceiveEvent
  <1>9. ASSUME NEW r \in Reply, ReceiveReply(r) PROVE Keeps
    <2>1. setter.step = "waiting" /\ setter'.step = "answered"
      BY <1>9 DEF ReceiveReply, SessionInv, TypeOK, Setter
    <2>2. Open /\ reader /\ UNCHANGED <<failure, bootId, reader>>
      BY <1>9 DEF ReceiveReply, Reading
    <2>3. QED
      BY <2>1, <2>2, RequestKeeps DEF Asking
  <1>10. ASSUME NEW r \in Reason, ReceiveRefused(r) PROVE Keeps
    BY <1>2, <1>10 DEF ReceiveRefused
  <1>11. CASE ReaderStops
    <2>1. Contract!StopsReading
      BY <1>11 DEF ReaderStops, Contract!StopsReading, Contract!Open, Open
    <2>2. QED
      BY <2>1 DEF Keeps, Contract!Next
  <1>12. CASE SetSends
    <2>1. setter.step = "announcing" /\ setter'.step = "waiting"
      BY <1>12 DEF SetSends, SessionInv, TypeOK, Setter
    <2>2. Open /\ bootId # Undefined /\ UNCHANGED <<failure, bootId, reader>>
      BY <1>12, UndefinedAssumption
         DEF SetSends, SessionInv, StageInv, TypeOK, Projection
    <2>3. QED
      BY <2>1, <2>2, RequestKeeps DEF Asking
  <1>13. CASE SetAcknowledged \/ (SetResumes /\ UNCHANGED failure)
    <2>1. /\ Open /\ setter.step = "answered" /\ setter'.step \in {"idle", "presenting"}
          /\ UNCHANGED <<failure, bootId, reader>>
      BY <1>13
         DEF SetAcknowledged, SetResumes, MayResume, Idle, SessionInv, TypeOK, Setter
    <2>2. QED
      BY <2>1, RequestKeeps DEF Asking
  <1>14. CASE SetResumes /\ Fail("InvalidMessage")
    BY <1>1, <1>14, FailKeeps DEF SetResumes, MayResume, Idle
  <1>15. CASE SetExceeds \/ \E r \in Reason : SetAborts(r)
    BY <1>1, <1>15, FailKeeps DEF SetExceeds, SetAborts, Idle
  <1>16. CASE SetFails
    <2>1. /\ setter.step \in {"announcing", "waiting", "answered"} /\ setter'.step = "idle"
          /\ ~Open /\ UNCHANGED <<failure, bootId, reader>>
      BY <1>16 DEF SetFails, InFlight, Idle
    <2>2. QED
      BY <2>1, RequestKeeps, StutterKeeps DEF Asking
  <1>17. CASE \/ \E active \in BOOLEAN : SetSurface(active)
              \/ SetInterrupted \/ SetUnsupported \/ SetPresents
    <2>1. /\ setter.step \in {"idle", "announcing", "presenting"}
          /\ setter'.step \in {"idle", "announcing"}
          /\ UNCHANGED <<failure, bootId, reader>>
      BY <1>17
         DEF SetSurface, MaySet, SetInterrupted, Publishing, SetUnsupported, SetPresents, Idle
    <2>2. QED
      BY <2>1, StutterKeeps DEF Asking
  <1>18. CASE HealthTimeout
    BY <1>1, <1>18, FailKeeps DEF HealthTimeout, PongMissing
  <1>19. ASSUME NEW r \in Reason, WireFails(r) PROVE Keeps
    BY <1>19, FailKeeps DEF WireFails
  <1>20. CASE ConnectFails \/ Release
    BY <1>1, <1>20, EndKeeps DEF ConnectFails, Release
  <1>21. CASE UNCHANGED <<failure, bootId, reader, setter>>
    BY <1>21, StutterKeeps DEF Asking
  <1>22. SetResumes => UNCHANGED failure \/ Fail("InvalidMessage")
    BY DEF SetResumes
  <1>23. QED
    BY <1>3, <1>4, <1>6, <1>7, <1>8, <1>9, <1>10, <1>11, <1>12, <1>13, <1>14, <1>15,
       <1>16, <1>17, <1>18, <1>19, <1>20, <1>21, <1>22
       DEF Next, Receive, vars, ReceivePong, FinishSnapshot, AwaitReady, WatcherTakes,
           WatcherEnds, Subscribe, TakeEvents, Unsubscribe, HealthPing, HealthResumes

\* The session relies on no more than the contract of its connection: no step undoes
\* a failure, binds a second boot, asks without a boot, or gives up an unanswered
\* request in an open connection (ensureOpen, fail, bindBoot, surface.set).
THEOREM SessionKeepsContract == Spec => ImplementsEndpoint
  <1>1. Init => Contract!Init
    BY DEF Init, Idle, Contract!Init
  <1>2. SessionInv /\ [Next]_vars => [Contract!Next]_(Contract!vars)
    BY ContractStep DEF Keeps
  <1>3. QED
    BY <1>1, <1>2, SessionInvariant, PTL DEF Spec, ImplementsEndpoint, Contract!Spec

-----------------------------------------------------------------------------
(* The surface interest.                                                    *)

Follows == [Interest!Next]_(Interest!vars)

\* A step that shows nothing and starts no surface.set: the failure at most, and a
\* surface.set that ends with it.
LEMMA BreakFollows ==
    ASSUME UNCHANGED surfaceState,
           \/ UNCHANGED <<failure, setter>>
           \/ ~Open' /\ (setter' = setter \/ setter'.step = "idle")
    PROVE  Follows
  <1>1. CASE UNCHANGED <<failure, setter>>
    BY <1>1 DEF Follows, Interest!vars
  <1>2. CASE ~Open' /\ (setter' = setter \/ setter'.step = "idle")
    <2>1. Interest!Break
      BY <1>2 DEF Interest!Break, Open
    <2>2. QED
      BY <2>1 DEF Follows, Interest!Next
  <1>3. QED
    BY <1>1, <1>2

LEMMA StoresFollows ==
    ASSUME SessionInv, NEW s \in Surface, Stores(s) PROVE Follows
  <1>1. UNCHANGED <<failure, setter>> /\ phase # "released"
    BY DEF Stores, StoreSurface, Reading, SessionInv, StageInv
  <1>2. CASE ~Presents(s)
    BY <1>1, <1>2, BreakFollows DEF Stores, StoreSurface, presented
  <1>3. CASE Presents(s)
    <2>1. surfaceState' = Active(surfaceState.floor, s)
      BY <1>3 DEF Stores, StoreSurface, publishSurface
    <2>2. setter.step \notin {"announcing", "waiting", "answered"}
      BY <1>1, <1>3 DEF Presents, SessionInv, SetterInv, InTransition, Plain
    <2>3. surfaceState' \in Interest!Shown(surfaceState.floor)
      BY <1>3, <2>1 DEF Presents, Interest!Shown, Interest!Active, Active
    <2>4. surfaceState.status = "active" => s.revision > surfaceState.surface.revision
      <3>1. ASSUME surfaceState.status = "active"
            PROVE  s.revision > surfaceState.surface.revision
        <4>1. currentSurface # Undefined
          BY <1>1, <3>1 DEF SessionInv, SurfaceBehindProjection
        <4>2. /\ surfaceState.surface.revision <= currentSurface.revision
              /\ currentSurface.revision < s.revision
          BY <1>1, <3>1, <4>1 DEF SessionInv, SurfaceBehindProjection, Stores, SurfaceIsNewer
        <4>3. /\ surfaceState.surface.revision \in Nat /\ s.revision \in Nat
              /\ currentSurface.revision \in Nat
          BY <3>1, <4>1, RevisionsAssumption
             DEF SessionInv, TypeOK, PresentedAtFloor, AtFloor, Surface
        <4>4. QED
          BY <4>2, <4>3
      <3>2. QED
        BY <3>1
    <2>5. Interest!Deliver
      BY <1>1, <1>3, <2>1, <2>2, <2>3, <2>4 DEF Interest!Deliver, Presents, Active
    <2>6. QED
      BY <2>5 DEF Follows, Interest!Next
  <1>4. QED
    BY <1>2, <1>3

LEMMA SnapshotFollows ==
    ASSUME SessionInv, NEW p \in Projection, ReceiveSnapshot(p) PROVE Follows
  <1>1. UNCHANGED <<failure, setter>> /\ Open /\ phase # "released"
    BY DEF ReceiveSnapshot, SessionInv, StageInv
  <1>2. CASE Overtakes(p)
    <2>1. surfaceState' = Awaiting(p.revision) /\ p.revision \in Floor
      BY <1>2 DEF ReceiveSnapshot, publishSurface, Projection, Floor
    <2>2. /\ setter.step \notin {"announcing", "waiting", "answered"}
          /\ surfaceState.status = "active"
      BY <1>1, <1>2 DEF Overtakes, SessionInv, SetterInv, InTransition, Plain
    <2>3. p.revision > surfaceState.surface.projection
      <3>1. p.revision \in Nat /\ surfaceState.surface.projection \in Nat
        BY <2>2, RevisionsAssumption
           DEF SessionInv, PresentedAtFloor, AtFloor, Surface, Projection
      <3>2. QED
        BY <1>2, <3>1 DEF Overtakes
    <2>4. Interest!Overtake
      BY <1>1, <2>1, <2>2, <2>3 DEF Interest!Overtake, Interest!Awaiting, Awaiting, Open
    <2>5. QED
      BY <2>4 DEF Follows, Interest!Next
  <1>3. CASE ~Overtakes(p)
    BY <1>1, <1>3, BreakFollows DEF ReceiveSnapshot, presented
  <1>4. QED
    BY <1>2, <1>3

LEMMA SetFollows ==
    ASSUME SessionInv, NEW active \in BOOLEAN, SetSurface(active) PROVE Follows
  <1>1. /\ Open /\ UNCHANGED failure
        /\ setter.step = "idle" /\ setter'.step = "announcing"
        /\ setter'.previous = surfaceState
        /\ surfaceState' = Plain(IF active THEN "activating" ELSE "deactivating")
    BY DEF SetSurface, MaySet, publishSurface, wire
  <1>2. Interest!Ask
    BY <1>1 DEF Interest!Ask, Interest!Plain, Plain, Open
  <1>3. QED
    BY <1>2 DEF Follows, Interest!Next

LEMMA SendsFollows ==
    ASSUME SessionInv, SetSends PROVE Follows
  <1>1. /\ Open /\ UNCHANGED <<failure, surfaceState>>
        /\ setter.step = "announcing" /\ setter'.step = "waiting"
        /\ setter'.previous = setter.previous
    BY DEF SetSends, SessionInv, TypeOK, Setter, wire, presented
  <1>2. Interest!Send
    BY <1>1 DEF Interest!Send, Open
  <1>3. QED
    BY <1>2 DEF Follows, Interest!Next

\* A call interrupted from its first publication is abandoned; from its second one it
\* has been taken up already.
LEMMA InterruptedFollows ==
    ASSUME SetInterrupted PROVE Follows
  <1>1. /\ ConsumersInterrupt /\ UNCHANGED <<failure, surfaceState>>
        /\ setter.step \in {"announcing", "presenting"} /\ setter'.step = "idle"
    BY DEF SetInterrupted, Publishing, Idle, wire, presented
  <1>2. CASE setter.step = "announcing"
    <2>1. Interest!Abandon
      BY <1>1, <1>2 DEF Interest!Abandon
    <2>2. QED
      BY <2>1 DEF Follows, Interest!Next
  <1>3. CASE setter.step = "presenting"
    BY <1>1, <1>3 DEF Follows, Interest!vars
  <1>4. QED
    BY <1>1, <1>2, <1>3

LEMMA RestoresFollows ==
    ASSUME SessionInv, Open, InTransition, setter' = Idle, UNCHANGED failure,
           publishSurface(Restored)
    PROVE  Follows
  <1>1. surfaceState' = Restored /\ setter'.step = "idle"
    BY DEF publishSurface, Idle
  <1>2. \/ Restored = setter.previous
        \/ /\ setter.previous.status = "active"
           /\ \E f \in Floor : f > setter.previous.surface.projection
                               /\ Restored = Awaiting(f)
    <2>1. CASE /\ setter.previous.status = "active"
               /\ currentProjection # Undefined
               /\ setter.previous.surface.projection < currentProjection.revision
      <3>1. /\ currentProjection.revision \in Floor
            /\ currentProjection.revision \in Nat
            /\ setter.previous.surface.projection \in Nat
        BY <2>1, RevisionsAssumption
           DEF SessionInv, TypeOK, Projection, Floor, PresentedAtFloor, AtFloor, Surface
      <3>2. Restored = Awaiting(currentProjection.revision)
        BY <2>1 DEF Restored
      <3>3. QED
        BY <2>1, <3>1, <3>2
    <2>2. QED
      BY <2>1 DEF Restored
  <1>3. Interest!Reject
    BY <1>1, <1>2 DEF Interest!Reject, Interest!Awaiting, Awaiting, InTransition, Open
  <1>4. QED
    BY <1>3 DEF Follows, Interest!Next

LEMMA AcknowledgedFollows ==
    ASSUME SessionInv, SetAcknowledged PROVE Follows
  <1>1. /\ Open /\ UNCHANGED failure /\ setter.active
        /\ setter.step = "answered" /\ setter'.step = "presenting"
        /\ surfaceState' = Awaiting(setter.reply.floor)
    BY DEF SetAcknowledged, MayResume, publishSurface, SessionInv, TypeOK, Setter, wire
  <1>2. surfaceState.status = "activating"
    BY <1>1 DEF SessionInv, StageInv, SetterInv, InTransition, Plain
  <1>3. setter.reply.floor \in Floor
    BY ReplyTypes DEF SessionInv
  <1>4. Interest!Acknowledge
    BY <1>1, <1>2, <1>3 DEF Interest!Acknowledge, Interest!Awaiting, Awaiting, Open
  <1>5. QED
    BY <1>4 DEF Follows, Interest!Next

LEMMA PresentsFollows ==
    ASSUME SessionInv, SetPresents PROVE Follows
  <1>1. /\ UNCHANGED failure
        /\ setter.step = "presenting" /\ setter'.step = "idle"
    BY DEF SetPresents, Idle, wire
  <1>2. CASE Holds(setter.reply.floor)
    <2>1. surfaceState' = Active(setter.reply.floor, currentSurface)
      BY <1>2 DEF SetPresents, PresentHeld, publishSurface
    <2>2. surfaceState = Awaiting(setter.reply.floor)
      BY <1>1, <1>2 DEF Holds, SessionInv, StageInv, SetterInv
    <2>3. surfaceState.status = "awaitingSurface" /\ surfaceState.floor = setter.reply.floor
      BY <2>2 DEF Awaiting
    <2>4. currentSurface \in {t \in Surface : t.projection >= setter.reply.floor}
      BY <1>2 DEF Holds, SessionInv, TypeOK
    <2>5. surfaceState' \in Interest!Shown(surfaceState.floor)
      BY <2>1, <2>3, <2>4 DEF Interest!Shown, Interest!Active, Active
    <2>6. Interest!Deliver
      BY <1>1, <2>3, <2>5 DEF Interest!Deliver
    <2>7. QED
      BY <2>6 DEF Follows, Interest!Next
  <1>3. CASE ~Holds(setter.reply.floor)
    <2>1. UNCHANGED surfaceState
      BY <1>3 DEF SetPresents, PresentHeld, presented
    <2>2. QED
      BY <1>1, <2>1 DEF Follows, Interest!vars
  <1>4. QED
    BY <1>2, <1>3

LEMMA ResumesFollows ==
    ASSUME SessionInv, SetResumes PROVE Follows
  <1>1. /\ Open /\ setter.step = "answered" /\ setter' = Idle /\ setter'.step = "idle"
        /\ surfaceState = Plain(IF setter.active THEN "activating" ELSE "deactivating")
    BY DEF SetResumes, MayResume, Idle, SessionInv, StageInv, SetterInv, InTransition
  <1>2. CASE ~setter.active /\ publishSurface(Plain("inactive")) /\ UNCHANGED failure
    <2>1. surfaceState' = Plain("inactive")
      BY <1>2 DEF publishSurface
    <2>2. Interest!Acknowledge
      BY <1>1, <1>2, <2>1 DEF Interest!Acknowledge, Interest!Plain, Plain, Open
    <2>3. QED
      BY <2>2 DEF Follows, Interest!Next
  <1>3. CASE publishSurface(Restored) /\ UNCHANGED failure
    BY <1>1, <1>3, RestoresFollows DEF InTransition
  <1>4. CASE Fail("InvalidMessage") /\ UNCHANGED <<presented>>
    BY <1>1, <1>4, BreakFollows, UndefinedAssumption DEF Fail, Open, Reason, presented
  <1>5. QED
    BY <1>2, <1>3, <1>4 DEF SetResumes

LEMMA InterestStep == SessionInv /\ [Next]_vars => Follows
  <1> SUFFICES ASSUME SessionInv, [Next]_vars PROVE Follows
    OBVIOUS
  <1> USE DEF wire, presented
  <1>1. \A reason \in Reason : Fail(reason) => ~Open'
    BY UndefinedAssumption DEF Fail, Open
  <1>2. {"Closed", "InvalidMessage", "RequestTimeout", "TransportError"} = Reason
    BY DEF Reason
  <1>3. ASSUME \/ \E s \in Surface, resolves \in BOOLEAN : ReceiveSurface(s, resolves)
               \/ \E p \in Patch, resolves \in BOOLEAN : ReceivePatch(p, resolves)
        PROVE  Follows
    <2>1. UNCHANGED setter
      BY <1>3 DEF ReceiveSurface, ReceivePatch
    <2>2. CASE \E s \in Surface : Stores(s)
      BY <2>2, StoresFollows
    <2>3. CASE UNCHANGED <<currentSurface, presented>>
      <3>1. UNCHANGED failure \/ ~Open'
        <4>1. ASSUME NEW s, NEW resolves \in BOOLEAN, acceptSurface(s, resolves)
              PROVE  UNCHANGED failure \/ ~Open'
          BY <1>1, <1>2, <4>1 DEF acceptSurface, ReaderFails, StoreSurface
        <4>2. QED
          BY <1>1, <1>2, <1>3, <4>1 DEF ReceiveSurface, ReceivePatch, ReaderFails
      <3>2. QED
        BY <2>1, <2>3, <3>1, BreakFollows
    <2>4. QED
      BY <1>3, <2>2, <2>3, ReceivesSurface
  <1>4. ASSUME NEW p \in Projection, RejectSnapshot(p) PROVE Follows
    BY <1>1, <1>2, <1>4, BreakFollows DEF RejectSnapshot, ReaderFails
  <1>5. ASSUME NEW p \in Projection, ReceiveSnapshot(p) PROVE Follows
    BY <1>5, SnapshotFollows
  <1>6. CASE ReceiveEvent
    BY <1>1, <1>2, <1>6, BreakFollows DEF ReceiveEvent, ReaderFails
  <1>7. ASSUME NEW r \in Reply, ReceiveReply(r) PROVE Follows
    BY <1>7 DEF ReceiveReply, SessionInv, TypeOK, Setter, Follows, Interest!vars
  <1>8. ASSUME NEW r \in Reason, ReceiveRefused(r) PROVE Follows
    BY <1>1, <1>8, BreakFollows DEF ReceiveRefused, ReaderFails
  <1>9. ASSUME NEW active \in BOOLEAN, SetSurface(active) PROVE Follows
    BY <1>9, SetFollows
  <1>10. CASE SetSends
    BY <1>10, SendsFollows
  <1>11. CASE SetInterrupted
    BY <1>11, InterruptedFollows
  <1>12. CASE SetUnsupported
    BY <1>12, RestoresFollows DEF SetUnsupported, InTransition
  <1>13. CASE SetAcknowledged
    BY <1>13, AcknowledgedFollows
  <1>14. CASE SetResumes
    BY <1>14, ResumesFollows
  <1>15. CASE SetPresents
    BY <1>15, PresentsFollows
  <1>16. CASE SetExceeds \/ SetFails \/ \E r \in Reason : SetAborts(r) \/ WireFails(r)
    <2>1. ~Open' /\ UNCHANGED surfaceState /\ (setter' = setter \/ setter'.step = "idle")
      BY <1>1, <1>2, <1>16 DEF SetExceeds, SetFails, SetAborts, WireFails, Idle, Open
    <2>2. QED
      BY <2>1, BreakFollows
  <1>17. CASE HealthTimeout \/ ConnectFails
    BY <1>1, <1>2, <1>17, BreakFollows DEF HealthTimeout, PongMissing, ConnectFails
  <1>18. CASE Release
    <2>1. ~Open' /\ surfaceState' = Plain("closed") /\ UNCHANGED setter
      BY <1>1, <1>2, <1>18 DEF Release
    <2>2. Interest!Close
      BY <2>1 DEF Interest!Close, Interest!Plain, Plain, Open
    <2>3. QED
      BY <2>2 DEF Follows, Interest!Next
  <1>19. CASE UNCHANGED <<surfaceState, failure, setter>>
    BY <1>19, BreakFollows
  <1>20. QED
    BY <1>3, <1>4, <1>5, <1>6, <1>7, <1>8, <1>9, <1>10, <1>11, <1>12, <1>13, <1>14, <1>15,
       <1>16, <1>17, <1>18, <1>19
       DEF Next, Receive, vars, ReceivePong, FinishSnapshot, ReaderStops, AwaitReady,
           WatcherTakes, WatcherEnds, Subscribe, TakeEvents, Unsubscribe, HealthPing,
           HealthResumes

\* Only the promised state follows a state, whatever the peer sends and in whatever
\* order (publishSurface, surface.set, acceptSurface, the snapshot handler).
THEOREM SessionImplementsInterest == Spec => ImplementsSurfaceInterest
  <1>1. Init => Interest!Init
    BY DEF Init, Interest!Init, Interest!Plain, Plain, Idle
  <1>2. SessionInv /\ [Next]_vars => [Interest!Next]_(Interest!vars)
    BY InterestStep DEF Follows
  <1>3. QED
    BY <1>1, <1>2, SessionInvariant, PTL
       DEF Spec, ImplementsSurfaceInterest, Interest!Spec
=============================================================================
