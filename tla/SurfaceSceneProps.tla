-------------------------- MODULE SurfaceSceneProps --------------------------
(***************************************************************************)
(* The correctness properties of SurfaceScene: what the session presents   *)
(* is what the server showed.                                              *)
(***************************************************************************)
EXTENDS SurfaceScene

Message ==
    SurfaceData
    \cup [kind: {"patch"}, base: Revision, revision: Revision, rows: Seq(Rows),
          panes: SUBSET (Panes \cup {Undefined})]

\* The held frame keeps its size: no patch writes beside it.
TypeOK ==
    /\ scenes \in Seq(Scene) /\ Latest <= MaxRevision
    /\ wire \in Seq(Message)
    /\ faults \in 0 .. MaxFaults
    /\ refused \in {"schema", "revision", "resource_limit", Undefined}
    /\ held # Undefined => held \in SurfaceData

\* The held surface is exactly the server's screen at its revision, whatever was lost
\* or malformed on the way: never a patch upon another base, never half of a patch,
\* never a cell or pane beside its place (applyClientShellSurfacePatch).
HeldIsShown ==
    held # Undefined => held.revision <= Latest /\ held.scene = scenes[held.revision]

\* The held surface is complete: it has the data of every asset that it places or
\* retains, that data and no other, within the limit, also for assets that came with
\* a surface long replaced (retainClientShellGraphics).
HeldIsComplete ==
    held # Undefined =>
        /\ held.assets = {Asset(key) : key \in Required(held.scene)}
        /\ TotalBytes(Required(held.scene)) <= MaxBytes

\* A server that loses nothing and stays within the limits is never refused: what it
\* counts as held by the session, the session does hold.
FaultlessNotRefused == faults = 0 => refused = Undefined

-----------------------------------------------------------------------------
(* What makes the invariants inductive.                                     *)

\* A patch that fits a screen of this size.
InPlace(patch) ==
    /\ \A i \in DOMAIN patch.rows : InFrame(patch.rows[i])
    /\ patch.panes \subseteq Panes

\* Whatever of a message may come to be held is what the screen was, as `shown`.
Truthful(message, shown) ==
    IF message.kind = "surface"
    THEN WellFormed(message) =>
            /\ message.revision <= Len(shown)
            /\ message.scene = shown[message.revision]
            /\ message.assets \subseteq {Asset(key) : key \in Assets}
    ELSE InPlace(message) =>
            /\ message.base < Len(shown)
            /\ message.revision = message.base + 1
            /\ shown[message.revision] = Patched(shown[message.base], message)

ShownInv ==
    /\ \A i \in 1 .. Len(wire) : Truthful(wire[i], scenes)
    /\ HeldIsShown
    /\ HeldIsComplete

SceneInv == TypeOK /\ ShownInv

\* A message of a server without faults, after the revision `before`, 0 for none: the
\* next screen with the data that the one before it does not need, the same screen
\* once more, or a patch of it.
Follows(message, before, shown) ==
    /\ message.kind = "surface" \/ InPlace(message)
    /\ \/ /\ message.revision = before + 1 /\ message.revision <= Len(shown)
          /\ IF message.kind = "patch" THEN message.base = before
             ELSE /\ WellFormed(message)
                  /\ \A key \in Required(message.scene) :
                        \/ Asset(key) \in message.assets
                        \/ before # 0 /\ key \in Required(shown[before])
       \/ message.kind = "surface" /\ message.revision = before /\ before # 0

HeldRevision == IF held = Undefined THEN 0 ELSE held.revision

\* The revision that the i-th message on the wire follows.
Before(i) == IF i = 1 THEN HeldRevision ELSE wire[i - 1].revision

\* The revision that the session will have come to when the wire is empty.
Coming == Before(Len(wire) + 1)

FaultlessInv ==
    faults = 0 =>
        /\ refused = Undefined
        /\ \A i \in 1 .. Latest : TotalBytes(Required(scenes[i])) <= MaxBytes
        /\ \A i \in 1 .. Len(wire) : Follows(wire[i], Before(i), scenes)
        /\ Coming = Latest
=============================================================================
