----------------------------- MODULE SurfaceScene -----------------------------
(***************************************************************************)
(* The surface a client-shell session holds, with its content: full        *)
(* surfaces and patches of a server in, complete scenes out                *)
(* (src/herdr-client-shell-state.ts and acceptSurface of                   *)
(* src/client-shell-service.ts).  ClientShell has the revisions only; here *)
(* are cells, panes and graphics assets, under one boot and projection.    *)
(*                                                                         *)
(* The server is external: it draws, and sends either what it drew or all  *)
(* of it, with the graphics data the session does not hold by its account. *)
(* Its messages keep their order.  MaxFaults times it loses a message that *)
(* it counts as sent, or sends one that is not well formed.                *)
(***************************************************************************)
EXTENDS Naturals, Sequences, FiniteSets, FiniteSetsExt, SequencesExt

CONSTANTS
    Width, Height,
    Rows,           \* rows a patch may bring, some of them beyond the frame
    Panes,          \* pane ids
    Assets,         \* graphics asset keys: an image and a fingerprint of its data
    DataLength,     \* the length of each asset's data
    MaxBytes,       \* maximumMessageBytes
    MaxRevision,    \* bound: surface revisions
    MaxWire,        \* bound: messages on their way
    MaxFaults,      \* bound: faults of the server
    Undefined       \* JavaScript's undefined

ASSUME FrameAssumption ==
    /\ Width \in Nat /\ Height \in Nat
    /\ Rows \subseteq [x: Nat, y: Nat, length: Nat]
ASSUME AssetsAssumption ==
    IsFiniteSet(Assets) /\ DataLength \in [Assets -> Nat \ {0}] /\ MaxBytes \in Nat
ASSUME BoundsAssumption ==
    MaxRevision \in Nat /\ MaxWire \in Nat /\ MaxFaults \in Nat

VARIABLES
    scenes,     \* what the server's screen was at each revision so far
    wire,       \* its messages on their way, oldest first
    faults,     \* how often it was at fault
    held,       \* currentSurface
    refused     \* why the session failed, Undefined while it is open

vars == <<scenes, wire, faults, held, refused>>

Revision == 1 .. MaxRevision
Cells == 0 .. Width * Height - 1

\* A cell and a pane's metadata are the revision that drew them last.
Scene == [cells: [Cells -> Revision], panes: [Panes -> Revision], cursor: Revision,
          placements: SUBSET Assets, retained: SUBSET Assets]

\* A surface, with whatever data came under the keys of its assets.
AssetData == [key: Assets, data: Assets \cup {Undefined}]
SurfaceData == [kind: {"surface"}, revision: Revision, scene: Scene, assets: SUBSET AssetData]

ASSUME UndefinedAssumption ==
    Undefined \notin Panes \cup Assets /\ Undefined \notin SurfaceData

Latest == Len(scenes)

Init ==
    /\ scenes = <<>>
    /\ wire = <<>>
    /\ faults = 0
    /\ held = Undefined
    /\ refused = Undefined

-----------------------------------------------------------------------------
(* Surfaces and patches.                                                    *)

\* An asset with its data; a garbled one has data of another length.
Asset(key) == [key |-> key, data |-> key]
Garbled(key) == [key |-> key, data |-> Undefined]
Bytes(asset) == IF asset.data = Undefined THEN 0 ELSE DataLength[asset.data]

Surface(revision, scene, assets) ==
    [kind |-> "surface", revision |-> revision, scene |-> scene, assets |-> assets]

Patch(base, revision, rows, panes) ==
    [kind |-> "patch", base |-> base, revision |-> revision, rows |-> rows, panes |-> panes]

\* The cell that the i-th cell of a row goes to.
Index(row, i) == row.y * Width + row.x + i

InFrame(row) == row.y < Height /\ row.x + row.length <= Width

\* An assignment to an index behind the end of the array extends it.
Draw(cells, row, revision) ==
    LET drawn == {Index(row, i) : i \in 0 .. row.length - 1}
    IN [c \in DOMAIN cells \cup drawn |-> IF c \in drawn THEN revision ELSE cells[c]]

DrawAll(cells, rows, revision) ==
    FoldLeft(LAMBDA before, row : Draw(before, row, revision), cells, rows)

Updated(panes, ids, revision) ==
    [p \in DOMAIN panes |-> IF p \in ids THEN revision ELSE panes[p]]

\* The scene a patch leaves: the graphics and the set of panes stay as they are.
Patched(scene, patch) ==
    [scene EXCEPT !.cells = DrawAll(@, patch.rows, patch.revision),
                  !.panes = Updated(@, patch.panes, patch.revision),
                  !.cursor = patch.revision]

Required(scene) == scene.placements \cup scene.retained
TotalBytes(keys) == MapThenSumSet(LAMBDA key : DataLength[key], keys)

-----------------------------------------------------------------------------
(* The server.                                                              *)

\* What it counts as held by the session: the assets of the scene it sent last.
Sent == IF scenes = <<>> THEN {} ELSE Required(scenes[Latest])

\* A row on its screen: where it begins, and behind each of its cells.
OnScreen(row) == row.y < Height /\ \A i \in 0 .. row.length : row.x + i <= Width

\* The screen with one row drawn: cells are numbered line by line.
Redrawn(scene, row, panes, revision) ==
    LET touched(c) == c \div Width = row.y /\ c % Width \in row.x .. row.x + row.length - 1
    IN [scene EXCEPT
            !.cells = [c \in Cells |-> IF touched(c) THEN revision ELSE @[c]],
            !.panes = [p \in Panes |-> IF p \in panes THEN revision ELSE @[p]],
            !.cursor = revision]

Sends(message) ==
    /\ Len(wire) < MaxWire
    /\ wire' = Append(wire, message)
    /\ UNCHANGED <<held, refused>>

IsFault == faults < MaxFaults /\ faults' = faults + 1

\* A new screen, as a full surface with all the data that is missing and perhaps more.
Show(placements, retained, extra) ==
    LET revision == Latest + 1
        scene == [cells |-> [c \in Cells |-> revision], panes |-> [p \in Panes |-> revision],
                  cursor |-> revision, placements |-> placements, retained |-> retained]
        keys == (Required(scene) \ Sent) \cup extra
    IN /\ revision \in Revision
       /\ scenes' = Append(scenes, scene)
       /\ Sends(Surface(revision, scene, {Asset(k) : k \in keys}))
       /\ IF TotalBytes(Required(scene)) > MaxBytes THEN IsFault ELSE UNCHANGED faults

\* A change of the screen, as a patch of what it showed last.
Change(row, panes) ==
    /\ scenes # <<>>
    /\ Latest + 1 \in Revision
    /\ OnScreen(row)
    /\ scenes' = Append(scenes, Redrawn(scenes[Latest], row, panes, Latest + 1))
    /\ Sends(Patch(Latest, Latest + 1, <<row>>, panes))
    /\ UNCHANGED faults

\* The same screen once more.
Repeat ==
    /\ scenes # <<>>
    /\ Sends(Surface(Latest, scenes[Latest], {}))
    /\ UNCHANGED <<scenes, faults>>

\* A message is skipped that the server counts as sent.
Lose ==
    /\ wire # <<>>
    /\ wire' = Tail(wire)
    /\ IsFault
    /\ UNCHANGED <<scenes, held, refused>>

\* A patch with a row beyond the frame, behind one within, or of an unknown pane.
Misdraw ==
    /\ scenes # <<>>
    /\ Latest + 1 \in Revision
    /\ \E row \in Rows, good \in {r \in Rows : OnScreen(r)} :
          \/ ~OnScreen(row) /\ Sends(Patch(Latest, Latest + 1, <<good, row>>, {}))
          \/ Sends(Patch(Latest, Latest + 1, <<good>>, {Undefined}))
    /\ IsFault
    /\ UNCHANGED scenes

\* A surface with an asset whose data is not as long as its key says.
Garble(key) ==
    /\ scenes # <<>>
    /\ Latest + 1 \in Revision
    /\ Sends(Surface(Latest + 1, scenes[Latest], {Garbled(key)}))
    /\ IsFault
    /\ UNCHANGED scenes

-----------------------------------------------------------------------------
(* The session.                                                             *)

\* Mutant of Identity: assets are told apart by their image alone.
Identity_ImageOnly(key) == key.image

\* graphicsIdentity.
Identity(key) == key

Identities(assets) == {Identity(a.key) : a \in assets}

\* Mutant of Available: what was held is forgotten.
Available_NewOnly(assets) ==
    [id \in Identities(assets) |-> CHOOSE a \in assets : Identity(a.key) = id]

\* The assets the session has for a surface: those it held, and the new ones.
Available(assets) ==
    LET before == IF held = Undefined THEN {} ELSE held.assets
    IN [id \in Identities(assets \cup before) |->
          CHOOSE a \in IF id \in Identities(assets) THEN assets ELSE before :
              Identity(a.key) = id]

Wanted(scene) == {Identity(key) : key \in Required(scene)}

\* What is wanted and there.
Kept(surface) ==
    LET available == Available(surface.assets)
    IN {available[id] : id \in Wanted(surface.scene) \cap DOMAIN available}

WellFormed(surface) == \A a \in surface.assets : Bytes(a) = DataLength[a.key]

Resolves(surface) == Wanted(surface.scene) \subseteq DOMAIN Available(surface.assets)

\* The assets kept for a scene stay within the message limit.
WithinLimit(surface) == MapThenSumSet(Bytes, Kept(surface)) <= MaxBytes

Refuses(reason) == refused' = reason /\ UNCHANGED held

\* acceptSurface with retainClientShellGraphics.  A scene that lacks an asset and is
\* over the limit fails for what its assets' order meets first.
acceptSurface(surface) ==
    \/ /\ held # Undefined
       /\ surface.revision <= held.revision
       /\ UNCHANGED <<held, refused>>
    \/ /\ held # Undefined => surface.revision > held.revision
       /\ \/ ~WellFormed(surface) /\ Refuses("schema")
          \/ WellFormed(surface) /\ ~Resolves(surface) /\ Refuses("revision")
          \/ WellFormed(surface) /\ ~WithinLimit(surface) /\ Refuses("resource_limit")
          \/ /\ WellFormed(surface) /\ Resolves(surface) /\ WithinLimit(surface)
             /\ held' = [surface EXCEPT !.assets = Kept(surface)]
             /\ UNCHANGED refused

\* Mutant of ExactBase: any patch that is newer is taken.
ExactBase_Newer(patch) == held # Undefined /\ patch.revision > held.revision

ExactBase(patch) ==
    held # Undefined /\ held.revision = patch.base /\ patch.revision > held.revision

Fits(patch) ==
    /\ \A i \in DOMAIN patch.rows : InFrame(patch.rows[i])
    /\ patch.panes \subseteq DOMAIN held.scene.panes

\* applyClientShellSurfacePatch: a patch applies as a whole or not at all.
applyPatch(patch) ==
    \/ /\ ExactBase(patch) /\ Fits(patch)
       /\ acceptSurface(Surface(patch.revision, Patched(held.scene, patch), held.assets))
    \/ /\ ~(ExactBase(patch) /\ Fits(patch))
       /\ Refuses("revision")

Receive ==
    /\ refused = Undefined
    /\ wire # <<>>
    /\ wire' = Tail(wire)
    /\ IF Head(wire).kind = "surface" THEN acceptSurface(Head(wire)) ELSE applyPatch(Head(wire))
    /\ UNCHANGED <<scenes, faults>>

-----------------------------------------------------------------------------
Server ==
    \/ \E placements \in SUBSET Assets :
          \E retained \in SUBSET (Assets \ placements), extra \in {{}, placements} :
              Show(placements, retained, extra)
    \/ \E row \in Rows, panes \in SUBSET Panes : Change(row, panes)
    \/ Repeat
    \/ Lose
    \/ Misdraw
    \/ \E key \in Assets : Garble(key)

Next == (refused = Undefined /\ Server) \/ Receive

Spec == Init /\ [][Next]_vars
=============================================================================
