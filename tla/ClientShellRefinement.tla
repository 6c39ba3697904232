------------------------ MODULE ClientShellRefinement ------------------------
(***************************************************************************)
(* ClientShell implements SurfaceInterest: its surface state is the        *)
(* interest, and from the publication of a transition to the one that      *)
(* follows it the state that surface.set read first is the settled one.    *)
(* It also keeps to EndpointContract: of its connection it relies on no    *)
(* more than EndpointConnection implements.                                *)
(***************************************************************************)
EXTENDS ClientShell

Interest == INSTANCE SurfaceInterest WITH
    MayAbandon <- ConsumersInterrupt,
    interest <- surfaceState,
    settled <- IF setter.step \in {"announcing", "waiting", "answered"}
               THEN setter.previous ELSE surfaceState,
    call <- CASE setter.step = "announcing" -> "announced"
              [] setter.step \in {"waiting", "answered"} -> "sent"
              [] OTHER -> "none",
    open <- (failure = Undefined)

\* Every behaviour of the session is one its owner was promised: publishSurface
\* is called only along the transitions of SurfaceInterest.
ImplementsSurfaceInterest == Interest!Spec

\* surface.set is the session's one request of its own.
Contract == INSTANCE EndpointContract WITH
    Askers <- {"surface.set"},
    Boot <- Boots,
    Failure <- Reason,
    None <- Undefined,
    boot <- bootId,
    reading <- reader,
    asking <- [a \in {"surface.set"} |->
                 IF setter.step \in {"waiting", "answered"} THEN setter.step ELSE "none"]

\* No step of the session undoes the first failure, binds a second boot, revives the
\* reader, asks without a boot, takes an answer of a failed connection, or gives a
\* request up that has no answer without failing the connection (ensureOpen, fail,
\* bindBoot, the tapError of surface.set).
ImplementsEndpoint == Contract!Spec
=============================================================================
