-------------------------- MODULE SurfaceInterest --------------------------
(***************************************************************************)
(* What the owner of a client-shell session may rely on about              *)
(* ClientShellSurfaceState, whatever the peer sends and in whatever order: *)
(* which state can follow which, and what an active state contains.  It    *)
(* knows nothing of messages, locks, projections or held surfaces.         *)
(* ClientShellRefinement.tla shows that ClientShell implements it.         *)
(***************************************************************************)
EXTENDS Naturals

CONSTANTS
    Surface,    \* complete surfaces: records with a revision and a projection
    Floor,      \* projection floors
    MayAbandon, \* whether the owner may interrupt surface.set as it begins
    Undefined   \* no surface

VARIABLES
    interest,   \* the published surface state
    settled,    \* the state a rejected surface.set goes back to
    call,       \* the surface.set in flight: "none", "announced" or "sent"
    open        \* the session has not failed

vars == <<interest, settled, call, open>>

Plain(status) == [status |-> status, floor |-> 0, surface |-> Undefined]
Awaiting(floor) ==
    [status |-> "awaitingSurface", floor |-> floor, surface |-> Undefined]
Active(floor, surface) ==
    [status |-> "active", floor |-> floor, surface |-> surface]

\* Active states hold a complete surface at or above their floor.
Shown(floor) == {Active(floor, s) : s \in {t \in Surface : t.projection >= floor}}

Init ==
    /\ interest = Plain("inactive")
    /\ settled = interest
    /\ call = "none"
    /\ open = TRUE

\* A surface.set begins: its state is a transition until it is answered.
Ask ==
    /\ open
    /\ call = "none"
    /\ \E status \in {"activating", "deactivating"} : interest' = Plain(status)
    /\ settled' = interest
    /\ call' = "announced"
    /\ UNCHANGED open

Send ==
    /\ open
    /\ call = "announced"
    /\ call' = "sent"
    /\ UNCHANGED <<interest, settled, open>>

\* An owner that interrupts the call before it was sent keeps its transition.  From
\* then on no outcome of the call leaves one in an open session.
Abandon ==
    /\ MayAbandon
    /\ call = "announced"
    /\ call' = "none"
    /\ settled' = interest
    /\ UNCHANGED <<interest, open>>

\* The acknowledged interest is taken up.
Acknowledge ==
    /\ open
    /\ call = "sent"
    /\ \/ /\ interest.status = "activating"
          /\ \E f \in Floor : interest' = Awaiting(f)
       \/ /\ interest.status = "deactivating"
          /\ interest' = Plain("inactive")
    /\ settled' = interest'
    /\ call' = "none"
    /\ UNCHANGED open

\* A definite rejection leaves interest unchanged: the settled state is back,
\* or, if a newer projection made its surface stale, the wait for a new one.
Reject ==
    /\ open
    /\ call # "none"
    /\ \/ interest' = settled
       \/ /\ settled.status = "active"
          /\ \E f \in Floor : f > settled.surface.projection /\ interest' = Awaiting(f)
    /\ settled' = interest'
    /\ call' = "none"
    /\ UNCHANGED open

\* A surface at the floor is there; a later one replaces it.
Deliver ==
    /\ interest.status \in {"awaitingSurface", "active"}
    /\ interest' \in Shown(interest.floor)
    /\ interest.status = "active" =>
          interest'.surface.revision > interest.surface.revision
    /\ settled' = interest'
    /\ UNCHANGED <<call, open>>

\* A newer projection makes the presented surface stale.
Overtake ==
    /\ open
    /\ interest.status = "active"
    /\ \E f \in Floor : f > interest.surface.projection /\ interest' = Awaiting(f)
    /\ settled' = interest'
    /\ UNCHANGED <<call, open>>

\* The session fails; a surface.set in flight leaves its transition standing.
Break ==
    /\ open' = FALSE
    /\ interest' = interest
    /\ settled' \in {settled, interest}
    /\ call' \in {call, "none"}

Close ==
    /\ interest' = Plain("closed")
    /\ settled' \in {settled, interest'}
    /\ open' = FALSE
    /\ UNCHANGED call

Next ==
    \/ Ask \/ Send \/ Abandon \/ Acknowledge \/ Reject
    \/ Deliver \/ Overtake
    \/ Break \/ Close

Spec == Init /\ [][Next]_vars
=============================================================================
