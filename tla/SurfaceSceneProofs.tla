-------------------------- MODULE SurfaceSceneProofs --------------------------
(***************************************************************************)
(* Theorems about SurfaceScene, for every size of the screen, every set of *)
(* rows, panes and assets and every limit.                                 *)
(***************************************************************************)
EXTENDS SurfaceSceneProps, DataTheorems

-----------------------------------------------------------------------------
(* The frame: rows drawn by their index are rows drawn on the screen.       *)

LEMMA DivisionUnique ==
    ASSUME NEW n \in Nat \ {0}, NEW q \in Nat, NEW r \in 0 .. n - 1
    PROVE  (q * n + r) \div n = q /\ (q * n + r) % n = r
  OBVIOUS

LEMMA DivisionParts ==
    ASSUME NEW n \in Nat \ {0}, NEW c \in Nat
    PROVE  /\ c \div n \in Nat /\ c % n \in Nat
           /\ c = (c \div n) * n + (c % n)
  OBVIOUS

\* What the fold over a patch's rows defines, one row after the other.
IsDrawing(g, cells, rows, revision) ==
    g = [s \in SUBSET (DOMAIN rows) |->
            IF s = {} THEN cells
            ELSE Draw(g[s \ {Max(s)}], rows[Max(s)], revision)]

\* One row is drawn upon the cells as they were.
LEMMA DrawOne ==
    ASSUME NEW cells, NEW row, NEW revision
    PROVE  DrawAll(cells, <<row>>, revision) = Draw(cells, row, revision)
  <1> DEFINE rows == <<row>>
             h == [s \in SUBSET {1} |-> IF s = {} THEN cells ELSE Draw(cells, row, revision)]
  <1>1. DrawAll(cells, rows, revision)
          = (CHOOSE g : IsDrawing(g, cells, rows, revision))[DOMAIN rows]
    BY DEF DrawAll, FoldLeft, MapThenFoldSet, IsDrawing
  <1>2. DOMAIN rows = {1} /\ rows[1] = row
    OBVIOUS
  <1> HIDE DEF rows
  <1>3. Max({1}) = 1
    BY DEF Max
  <1>4. \A s \in SUBSET {1} : s = {} \/ s = {1}
    OBVIOUS
  <1>5. IsDrawing(h, cells, rows, revision)
    <2>1. ASSUME NEW s \in SUBSET {1}
          PROVE  h[s] = IF s = {} THEN cells
                        ELSE Draw(h[s \ {Max(s)}], rows[Max(s)], revision)
      <3>1. CASE s = {}
        BY <3>1
      <3>2. CASE s = {1}
        <4>1. {1} \ {Max({1})} = {} /\ rows[Max({1})] = row
          BY <1>2, <1>3
        <4>2. h[{}] = cells /\ h[{1}] = Draw(cells, row, revision)
          BY {} \in SUBSET {1}, {1} \in SUBSET {1}
        <4>3. QED
          BY <3>2, <4>1, <4>2
      <3>3. QED
        BY <1>4, <3>1, <3>2
    <2>2. h = [s \in SUBSET {1} |-> h[s]]
      OBVIOUS
    <2> HIDE DEF h
    <2>3. QED
      BY <1>2, <2>1, <2>2 DEF IsDrawing
  <1> DEFINE chosen == CHOOSE g : IsDrawing(g, cells, rows, revision)
  <1> HIDE DEF h
  <1>6. IsDrawing(chosen, cells, rows, revision)
    BY <1>5
  <1> HIDE DEF chosen
  <1>7. chosen[{}] = cells
    BY <1>6, {} \in SUBSET (DOMAIN rows) DEF IsDrawing
  <1>8. chosen[{1}] = Draw(chosen[{1} \ {Max({1})}], rows[Max({1})], revision)
    BY <1>2, <1>6, {1} \in SUBSET (DOMAIN rows), {1} # {} DEF IsDrawing
  <1>9. chosen[{1}] = Draw(cells, row, revision)
    BY <1>2, <1>3, <1>7, <1>8, {1} \ {1} = {}
  <1>10. QED
    BY <1>1, <1>2, <1>9 DEF chosen, rows

\* The cells a row draws, as the session numbers them, are those it covers.
LEMMA Covered ==
    ASSUME NEW row \in Rows, OnScreen(row), NEW c \in Nat
    PROVE  (\E i \in 0 .. row.length - 1 : c = Index(row, i))
             <=> (c \div Width = row.y /\ c % Width \in row.x .. row.x + row.length - 1)
  <1>1. /\ row.x \in Nat /\ row.y \in Nat /\ row.length \in Nat /\ Width \in Nat
        /\ row.x + row.length <= Width
    BY FrameAssumption DEF OnScreen
  <1>2. CASE row.length = 0
    BY <1>1, <1>2
  <1>3. CASE row.length # 0
    <2>1. Width \in Nat \ {0}
      BY <1>1, <1>3
    <2>2. ASSUME NEW i \in 0 .. row.length - 1, c = Index(row, i)
          PROVE  c \div Width = row.y /\ c % Width \in row.x .. row.x + row.length - 1
      <3>1. row.x + i \in 0 .. Width - 1 /\ c = row.y * Width + (row.x + i)
        BY <1>1, <2>2 DEF Index
      <3>2. c \div Width = row.y /\ c % Width = row.x + i
        BY <1>1, <2>1, <3>1, DivisionUnique
      <3>3. QED
        BY <1>1, <3>2
    <2>3. ASSUME c \div Width = row.y, c % Width \in row.x .. row.x + row.length - 1
          PROVE  \E i \in 0 .. row.length - 1 : c = Index(row, i)
      <3> DEFINE i == (c % Width) - row.x
      <3>1. i \in 0 .. row.length - 1
        BY <1>1, <2>3
      <3>2. c = (c \div Width) * Width + (c % Width) /\ c % Width \in Nat
        BY <2>1, DivisionParts
      <3>3. row.y * Width \in Nat
        BY <1>1
      <3>4. c = row.y * Width + (c % Width)
        BY <2>3, <3>2
      <3>5. c = row.y * Width + row.x + i
        <4> DEFINE line == row.y * Width
        <4>1. line \in Nat /\ c = line + (c % Width)
          BY <3>3, <3>4
        <4> HIDE DEF line
        <4>2. c = line + row.x + i
          BY <1>1, <3>2, <4>1
        <4>3. QED
          BY <4>2 DEF line
      <3>6. QED
        BY <3>1, <3>5 DEF Index
    <2>4. QED
      BY <2>2, <2>3
  <1>4. QED
    BY <1>2, <1>3

LEMMA OnScreenIsInFrame ==
    ASSUME NEW row \in Rows PROVE OnScreen(row) <=> InFrame(row)
  <1>1. row.x \in Nat /\ row.length \in Nat /\ Width \in Nat
    BY FrameAssumption
  <1>2. row.length \in 0 .. row.length
    BY <1>1
  <1>3. QED
    BY <1>1, <1>2 DEF OnScreen, InFrame

\* A patch of one row leaves the screen that it was made from.
LEMMA PatchShows ==
    ASSUME NEW scene \in Scene, NEW row \in Rows, OnScreen(row),
           NEW panes \in SUBSET Panes, NEW base, NEW revision \in Revision
    PROVE  /\ Patched(scene, Patch(base, revision, <<row>>, panes))
                = Redrawn(scene, row, panes, revision)
           /\ Redrawn(scene, row, panes, revision) \in Scene
  <1> DEFINE drawn == {Index(row, i) : i \in 0 .. row.length - 1}
             touched(c) == c \div Width = row.y /\ c % Width \in row.x .. row.x + row.length - 1
             before == scene.cells
             after == [c \in Cells |-> IF touched(c) THEN revision ELSE before[c]]
  <1>1. before \in [Cells -> Revision] /\ scene.panes \in [Panes -> Revision]
    BY DEF Scene
  <1>2. drawn \subseteq Cells
    <2>1. /\ row.x \in Nat /\ row.y \in Nat /\ row.length \in Nat /\ Width \in Nat
          /\ Height \in Nat /\ row.y < Height /\ row.x + row.length <= Width
      BY FrameAssumption, OnScreenIsInFrame DEF InFrame
    <2>2. ASSUME NEW i \in 0 .. row.length - 1 PROVE Index(row, i) \in Cells
      <3>1. row.x + i \in 0 .. Width - 1
        BY <2>1
      <3>2. (row.y + 1) * Width <= Height * Width
        BY <2>1
      <3>3. row.y * Width \in Nat /\ (row.y + 1) * Width = row.y * Width + Width
            /\ Height * Width = Width * Height /\ Width * Height \in Nat
        BY <2>1
      <3> DEFINE line == row.y * Width
                 all == Width * Height
      <3>4. line \in Nat /\ all \in Nat /\ line + Width <= all
        BY <3>2, <3>3
      <3> HIDE DEF line, all
      <3>5. line + row.x + i \in 0 .. all - 1
        BY <2>1, <3>1, <3>4
      <3>6. QED
        BY <3>5 DEF Index, Cells, line, all
    <2>3. QED
      BY <2>2
  <1>3. \A c \in Cells : c \in drawn <=> touched(c)
    <2>1. ASSUME NEW c \in Cells PROVE c \in drawn <=> touched(c)
      <3>1. c \in Nat
        BY FrameAssumption DEF Cells
      <3>2. QED
        BY <3>1, Covered
    <2>2. QED
      BY <2>1
  <1>4. Draw(before, row, revision) = after
    <2>1. Draw(before, row, revision)
            = [c \in DOMAIN before \cup drawn |-> IF c \in drawn THEN revision ELSE before[c]]
      BY DEF Draw
    <2>2. DOMAIN before \cup drawn = Cells
      BY <1>1, <1>2
    <2> HIDE DEF drawn, touched, before
    <2>3. QED
      BY <1>3, <2>1, <2>2
  <1>5. Updated(scene.panes, panes, revision)
          = [p \in Panes |-> IF p \in panes THEN revision ELSE scene.panes[p]]
    BY <1>1 DEF Updated
  <1>6. DrawAll(before, <<row>>, revision) = after
    BY <1>4, DrawOne
  <1>7. Patched(scene, Patch(base, revision, <<row>>, panes))
          = [scene EXCEPT !.cells = after,
                          !.panes = Updated(scene.panes, panes, revision),
                          !.cursor = revision]
    <2> HIDE DEF after
    <2>1. QED
      BY <1>6 DEF Patched, Patch, Scene
  <1>8. Redrawn(scene, row, panes, revision)
          = [scene EXCEPT !.cells = after,
                          !.panes = [p \in Panes |-> IF p \in panes THEN revision
                                                     ELSE scene.panes[p]],
                          !.cursor = revision]
    BY DEF Redrawn, Scene
  <1>9. after \in [Cells -> Revision]
    BY <1>1
  <1>10. [p \in Panes |-> IF p \in panes THEN revision ELSE scene.panes[p]]
            \in [Panes -> Revision]
    BY <1>1
  <1>11. Redrawn(scene, row, panes, revision) \in Scene
    <2> HIDE DEF after
    <2>1. QED
      BY <1>8, <1>9, <1>10 DEF Scene
  <1>12. QED
    BY <1>5, <1>7, <1>8, <1>11

-----------------------------------------------------------------------------
(* The graphics: a scene's assets with their data.                          *)

\* Each asset of a set of keys, with the data of its key.
Complete(keys) == {Asset(key) : key \in keys}

LEMMA AssetFacts ==
    /\ \A key, other : Asset(key) = Asset(other) => key = other
    /\ \A key : Asset(key).key = key
    /\ \A key \in Assets : Bytes(Asset(key)) = DataLength[key] /\ DataLength[key] \in Nat \ {0}
    /\ \A key \in Assets : Asset(key) \in AssetData /\ Garbled(key) \in AssetData
    /\ \A key \in Assets : Bytes(Garbled(key)) = 0 /\ Garbled(key).key = key
  BY AssetsAssumption, UndefinedAssumption DEF Asset, Garbled, Bytes, AssetData

\* Adding up the data of the assets is adding up what their keys say.
LEMMA BytesOfComplete ==
    ASSUME NEW keys \in SUBSET Assets
    PROVE  MapThenSumSet(Bytes, Complete(keys)) = TotalBytes(keys)
  <1> DEFINE S == Complete(keys)
             f == [a \in S |-> Bytes(a)]
             m == [key \in keys |-> Asset(key)]
             IsBytes(g) == g = [s \in SUBSET S |->
                                  IF s = {} THEN 0
                                  ELSE Bytes(CHOOSE x \in s : TRUE)
                                         + g[s \ {CHOOSE x \in s : TRUE}]]
  <1>1. IsFiniteSet(keys)
    BY FS_Subset, AssetsAssumption
  <1>2. /\ IsFiniteSet(S)
        /\ SumOver(f, S) = SumOver(DataLength, keys)
    <2>1. S = {m[key] : key \in keys}
      BY DEF Complete
    <2>2. \A x, y \in keys : m[x] = m[y] => x = y
      BY AssetFacts
    <2>3. \A x \in keys : DataLength[x] = f[m[x]] /\ DataLength[x] \in Nat
      BY AssetFacts DEF Complete
    <2> HIDE DEF S, f, m
    <2>4. QED
      BY <1>1, <2>1, <2>2, <2>3, SumImage
  <1>3. \A g : IsSum(g, f, S) <=> IsBytes(g)
    <2>1. \A s \in SUBSET S : s # {} => f[CHOOSE x \in s : TRUE] = Bytes(CHOOSE x \in s : TRUE)
      <3> HIDE DEF S
      <3>1. QED
        BY ChosenIsIn
    <2> HIDE DEF S, f
    <2>2. QED
      BY <2>1 DEF IsSum
  <1>4. MapThenSumSet(Bytes, S) = (CHOOSE g : IsBytes(g))[S]
    BY DEF MapThenSumSet, MapThenFoldSet
  <1> DEFINE chosen == CHOOSE g : IsBytes(g)
  <1>5. IsSum(chosen, f, S)
    <2>1. \E g : IsSum(g, f, S)
      BY <1>2, SumExists
    <2> HIDE DEF f, S, IsBytes
    <2>2. \E g : IsBytes(g)
      BY <1>3, <2>1
    <2>3. IsBytes(chosen)
      BY <2>2
    <2>4. QED
      BY <1>3, <2>3
  <1>6. SumOver(f, S) = chosen[S]
    <2> HIDE DEF S, f, chosen
    <2>1. S \in SUBSET S
      OBVIOUS
    <2>2. QED
      BY <1>2, <1>5, <2>1, SumOfSubset
  <1>7. TotalBytes(keys) = SumOver(DataLength, keys)
    BY DEF TotalBytes, SumOver
  <1>8. QED
    BY <1>2, <1>4, <1>6, <1>7

\* The keys of the assets that the session holds.
HeldKeys == IF held = Undefined THEN {} ELSE Required(held.scene)

\* With complete assets on both sides, what is available for a surface is each asset
\* once, new or held, under its own key.
LEMMA AvailableIsComplete ==
    ASSUME HeldIsComplete, NEW keys \in SUBSET Assets,
           HeldKeys \subseteq Assets
    PROVE  Available(Complete(keys))
             = [key \in keys \cup HeldKeys |-> Asset(key)]
  <1> DEFINE before == IF held = Undefined THEN {} ELSE held.assets
             side(id) == IF id \in keys THEN Complete(keys) ELSE before
  <1>1. before = Complete(HeldKeys)
    BY DEF HeldIsComplete, HeldKeys, Complete
  <1>2. ASSUME NEW some \in SUBSET Assets PROVE Identities(Complete(some)) = some
    BY AssetFacts DEF Identities, Identity, Complete
  <1>3. Complete(keys) \cup before = Complete(keys \cup HeldKeys)
    BY <1>1 DEF Complete
  <1>4. /\ Identities(Complete(keys)) = keys
        /\ Identities(Complete(keys) \cup before) = keys \cup HeldKeys
    BY <1>2, <1>3
  <1>5. ASSUME NEW id \in keys \cup HeldKeys
        PROVE  (CHOOSE a \in side(id) : Identity(a.key) = id) = Asset(id)
    <2>1. Asset(id) \in side(id)
      BY <1>1 DEF Complete
    <2>2. \A a \in side(id) : Identity(a.key) = id <=> a = Asset(id)
      BY <1>1, AssetFacts DEF Complete, Identity
    <2> HIDE DEF side
    <2>3. QED
      BY <2>1, <2>2
  <1>6. Available(Complete(keys))
          = [id \in keys \cup HeldKeys |-> CHOOSE a \in side(id) : Identity(a.key) = id]
    BY <1>4 DEF Available
  <1> HIDE DEF side
  <1>7. QED
    BY <1>5, <1>6

LEMMA KeptIsComplete ==
    ASSUME HeldIsComplete, HeldKeys \subseteq Assets,
           NEW surface, NEW keys \in SUBSET Assets, surface.assets = Complete(keys),
           Required(surface.scene) \subseteq Assets
    PROVE  /\ WellFormed(surface)
           /\ Resolves(surface) <=> Required(surface.scene) \subseteq keys \cup HeldKeys
           /\ Resolves(surface) =>
                 /\ Kept(surface) = Complete(Required(surface.scene))
                 /\ WithinLimit(surface) <=> TotalBytes(Required(surface.scene)) <= MaxBytes
  <1>1. WellFormed(surface)
    BY AssetFacts DEF WellFormed, Complete
  <1>2. Wanted(surface.scene) = Required(surface.scene)
    BY DEF Wanted, Identity
  <1> DEFINE available == Available(surface.assets)
  <1>3. available = [key \in keys \cup HeldKeys |-> Asset(key)]
    BY AvailableIsComplete
  <1>4. Resolves(surface) <=> Required(surface.scene) \subseteq keys \cup HeldKeys
    BY <1>2, <1>3 DEF Resolves
  <1>5. ASSUME Resolves(surface)
        PROVE  Kept(surface) = Complete(Required(surface.scene))
    <2>1. Kept(surface) = {available[id] : id \in Required(surface.scene) \cap DOMAIN available}
      BY <1>2 DEF Kept
    <2> HIDE DEF available
    <2>2. Required(surface.scene) \cap DOMAIN available = Required(surface.scene)
      BY <1>3, <1>4, <1>5
    <2>3. \A id \in Required(surface.scene) : available[id] = Asset(id)
      BY <1>3, <1>4, <1>5
    <2>4. QED
      BY <2>1, <2>2, <2>3 DEF Complete
  <1>6. ASSUME Resolves(surface)
        PROVE  WithinLimit(surface) <=> TotalBytes(Required(surface.scene)) <= MaxBytes
    BY <1>5, <1>6, BytesOfComplete DEF WithinLimit
  <1>7. QED
    BY <1>1, <1>4, <1>5, <1>6

\* Any set of assets with their data is the complete one of its keys.
LEMMA SomeComplete ==
    ASSUME NEW assets \in SUBSET Complete(Assets)
    PROVE  \E keys \in SUBSET Assets : assets = Complete(keys)
  <1> DEFINE keys == {key \in Assets : Asset(key) \in assets}
  <1>1. assets = Complete(keys)
    BY DEF Complete
  <1>2. QED
    BY <1>1

-----------------------------------------------------------------------------
(* The wire: what is sent, and what becomes of it as the screen changes.    *)

LEMMA SceneTypes ==
    /\ \A scene \in Scene : Required(scene) \in SUBSET Assets
    /\ \A revision \in Revision : revision \in Nat \ {0} /\ revision <= MaxRevision
    /\ \A keys \in SUBSET Assets : Complete(keys) \in SUBSET AssetData
  BY AssetFacts, BoundsAssumption DEF Scene, Required, Revision, Complete

LEMMA MessageTypes ==
    ASSUME NEW m \in Message
    PROVE  \/ m \in SurfaceData /\ m.kind = "surface"
           \/ m.kind = "patch" /\ m.base \in Revision /\ m.revision \in Revision
  BY DEF Message, SurfaceData

\* One screen sequence continues another.
Continues(next, shown) ==
    /\ next \in Seq(Scene) /\ shown \in Seq(Scene)
    /\ Len(shown) <= Len(next)
    /\ \A i \in 1 .. Len(shown) : next[i] = shown[i]

LEMMA ShowContinues ==
    ASSUME NEW shown \in Seq(Scene), NEW scene \in Scene
    PROVE  /\ Continues(Append(shown, scene), shown)
           /\ Continues(shown, shown)
           /\ Len(Append(shown, scene)) = Len(shown) + 1
           /\ Append(shown, scene)[Len(shown) + 1] = scene
  BY AppendProperties, LenProperties DEF Continues

\* What was true of the screen stays true of it.
LEMMA TruthfulStays ==
    ASSUME NEW m \in Message, NEW shown, NEW next, Continues(next, shown), Truthful(m, shown)
    PROVE  Truthful(m, next)
  <1>1. Len(shown) \in Nat /\ Len(next) \in Nat
    BY LenProperties DEF Continues
  <1>2. CASE m.kind = "surface"
    <2>1. m.revision \in Nat \ {0}
      BY MessageTypes, SceneTypes, <1>2 DEF SurfaceData
    <2>2. QED
      BY <1>1, <1>2, <2>1 DEF Truthful, Continues
  <1>3. CASE m.kind = "patch"
    <2>1. m.base \in Nat \ {0} /\ m.revision \in Nat \ {0}
      BY MessageTypes, SceneTypes, <1>3 DEF SurfaceData
    <2>2. ASSUME InPlace(m)
          PROVE  /\ m.base < Len(next) /\ m.revision = m.base + 1
                 /\ next[m.revision] = Patched(next[m.base], m)
      <3>1. /\ m.base < Len(shown) /\ m.revision = m.base + 1
            /\ shown[m.revision] = Patched(shown[m.base], m)
        BY <1>3, <2>2 DEF Truthful
      <3>2. m.base \in 1 .. Len(shown) /\ m.revision \in 1 .. Len(shown)
        BY <1>1, <2>1, <3>1
      <3>3. QED
        BY <1>1, <2>1, <3>1, <3>2 DEF Continues
    <2>3. QED
      BY <1>3, <2>2 DEF Truthful
  <1>4. QED
    BY <1>2, <1>3, MessageTypes

\* The server sends something true, or a message is lost.
LEMMA ServerKeeps ==
    ASSUME SceneInv,
           Continues(scenes', scenes), Len(scenes') <= MaxRevision, faults' \in 0 .. MaxFaults,
           \/ wire # <<>> /\ wire' = Tail(wire)
           \/ \E m \in Message : wire' = Append(wire, m) /\ Truthful(m, scenes'),
           UNCHANGED <<held, refused>>
    PROVE  SceneInv'
  <1> USE DEF SceneInv, ShownInv, TypeOK
  <1>1. wire' \in Seq(Message) /\ \A i \in 1 .. Len(wire') : Truthful(wire'[i], scenes')
    <2>1. \A i \in 1 .. Len(wire) : wire[i] \in Message /\ Truthful(wire[i], scenes')
      BY TruthfulStays, ElementOfSeq
    <2>2. CASE wire # <<>> /\ wire' = Tail(wire)
      <3>1. /\ wire' \in Seq(Message) /\ Len(wire') = Len(wire) - 1 /\ Len(wire) \in Nat
            /\ \A i \in 1 .. Len(wire') : wire'[i] = wire[i + 1]
        BY <2>2, HeadTailProperties, LenProperties
      <3>2. QED
        BY <2>1, <3>1
    <2>3. ASSUME NEW m \in Message, wire' = Append(wire, m), Truthful(m, scenes')
          PROVE  wire' \in Seq(Message) /\ \A i \in 1 .. Len(wire') : Truthful(wire'[i], scenes')
      <3>1. /\ wire' \in Seq(Message) /\ Len(wire') = Len(wire) + 1 /\ Len(wire) \in Nat
            /\ \A i \in 1 .. Len(wire) : wire'[i] = wire[i]
            /\ wire'[Len(wire) + 1] = m
        BY <2>3, AppendProperties, LenProperties
      <3>2. QED
        BY <2>1, <2>3, <3>1
    <2>4. QED
      BY <2>2, <2>3
  <1>2. HeldIsShown'
    <2>1. held # Undefined => held.revision \in Nat \ {0}
      BY SceneTypes DEF SurfaceData
    <2>2. Len(scenes) \in Nat /\ Len(scenes') \in Nat
      BY LenProperties DEF Continues
    <2>3. QED
      BY <2>1, <2>2 DEF HeldIsShown, Continues, Latest
  <1>3. HeldIsComplete'
    BY DEF HeldIsComplete
  <1>4. TypeOK'
    BY <1>1 DEF Continues, Latest
  <1>5. QED
    BY <1>1, <1>2, <1>3, <1>4

-----------------------------------------------------------------------------
(* What each action of the server sends.                                    *)

\* A message that is true of the screen from now on.
SendsTruth(m) ==
    /\ m \in Message /\ wire' = Append(wire, m) /\ Truthful(m, scenes')
    /\ Continues(scenes', scenes) /\ Len(scenes') <= MaxRevision
    /\ faults' \in 0 .. MaxFaults
    /\ UNCHANGED <<held, refused>>

\* All of these screens are within the session's limit.
Within(shown) == \A i \in 1 .. Len(shown) : TotalBytes(Required(shown[i])) <= MaxBytes

\* It is the message to follow, by a server that stays within the limit; or a fault.
InTurn(m) ==
    \/ faults' = faults + 1
    \/ /\ faults' = faults
       /\ Follows(m, Latest, scenes') /\ m.revision = Len(scenes')
       /\ Within(scenes) => Within(scenes')

LEMMA WithinGrows ==
    ASSUME NEW shown \in Seq(Scene), NEW scene \in Scene,
           TotalBytes(Required(scene)) <= MaxBytes, Within(shown)
    PROVE  Within(Append(shown, scene))
  BY AppendProperties, LenProperties DEF Within

LEMMA FaultTypes ==
    ASSUME TypeOK, IsFault PROVE faults' \in 0 .. MaxFaults /\ faults' = faults + 1
  BY BoundsAssumption DEF TypeOK, IsFault

LEMMA SurfaceTypes ==
    ASSUME NEW revision \in Revision, NEW scene \in Scene, NEW assets \in SUBSET AssetData
    PROVE  /\ Surface(revision, scene, assets) \in Message
           /\ Surface(revision, scene, assets) \in SurfaceData
  BY DEF Surface, Message, SurfaceData

LEMMA ShowSends ==
    ASSUME SceneInv, NEW placements \in SUBSET Assets, NEW retained \in SUBSET Assets,
           NEW extra \in SUBSET Assets, Show(placements, retained, extra)
    PROVE  \E m : SendsTruth(m) /\ InTurn(m)
  <1> DEFINE revision == Latest + 1
             scene == [cells |-> [c \in Cells |-> revision], panes |-> [p \in Panes |-> revision],
                       cursor |-> revision, placements |-> placements, retained |-> retained]
             keys == (Required(scene) \ Sent) \cup extra
             m == Surface(revision, scene, Complete(keys))
  <1>1. /\ revision \in Revision /\ scenes' = Append(scenes, scene) /\ Sends(m)
        /\ IF TotalBytes(Required(scene)) > MaxBytes THEN IsFault ELSE UNCHANGED faults
    BY DEF Show, Complete
  <1>2. /\ scene \in Scene /\ scene.placements = placements /\ scene.retained = retained
    BY <1>1 DEF Scene
  <1>3. scenes \in Seq(Scene) /\ Len(scenes) \in Nat /\ faults \in 0 .. MaxFaults
    BY LenProperties DEF SceneInv, TypeOK
  <1> HIDE DEF scene
  <1>4. keys \in SUBSET Assets /\ Complete(keys) \in SUBSET AssetData
    BY <1>2, SceneTypes
  <1>5. Required(scene) \in SUBSET Assets
    BY <1>2, SceneTypes
  <1>6. /\ Continues(scenes', scenes) /\ Len(scenes') = revision /\ scenes'[revision] = scene
        /\ revision <= MaxRevision
    BY <1>1, <1>2, <1>3, ShowContinues, SceneTypes DEF Latest
  <1>7. m \in Message
    BY <1>1, <1>2, <1>4, SurfaceTypes
  <1>8. /\ m.kind = "surface" /\ m.revision = revision /\ m.scene = scene
        /\ m.assets = Complete(keys)
    BY DEF Surface
  <1>9. Truthful(m, scenes')
    <2>1. m.revision <= Len(scenes') /\ m.scene = scenes'[m.revision]
      BY <1>1, <1>3, <1>6, <1>8 DEF Latest
    <2>2. m.assets \subseteq {Asset(key) : key \in Assets}
      BY <1>4, <1>8 DEF Complete
    <2> HIDE DEF m
    <2>3. QED
      BY <1>8, <2>1, <2>2 DEF Truthful
  <1>10. SendsTruth(m)
    <2>1. faults' \in 0 .. MaxFaults
      BY <1>1, <1>3, FaultTypes DEF SceneInv
    <2> HIDE DEF m
    <2>2. QED
      BY <1>1, <1>6, <1>7, <1>9, <2>1 DEF SendsTruth, Sends
  <1>11. InTurn(m)
    <2>1. CASE TotalBytes(Required(scene)) > MaxBytes
      BY <1>1, <2>1, FaultTypes DEF SceneInv, InTurn
    <2>2. CASE ~ (TotalBytes(Required(scene)) > MaxBytes)
      <3>1. TotalBytes(Required(scene)) \in Nat
        <4>1. IsFiniteSet(Required(scene)) /\ \A key \in Required(scene) : DataLength[key] \in Nat
          BY <1>5, FS_Subset, AssetsAssumption
        <4>2. SumOver(DataLength, Required(scene)) \in Nat
          BY <4>1, SumType
        <4>3. QED
          BY <4>2 DEF TotalBytes, SumOver
      <3>2. Within(scenes) => Within(scenes')
        BY <1>1, <1>2, <1>3, <2>2, <3>1, WithinGrows, AssetsAssumption
      <3>3. WellFormed(m)
        BY <1>4, <1>8, AssetFacts DEF WellFormed, Complete
      <3>4. ASSUME NEW key \in Required(m.scene)
            PROVE  Asset(key) \in m.assets \/ (Latest # 0 /\ key \in Required(scenes'[Latest]))
        <4>1. CASE key \in keys
          BY <1>8, <4>1 DEF Complete
        <4>2. CASE key \notin keys
          <5>1. key \in Sent
            BY <1>8, <3>4, <4>2
          <5>2. scenes # <<>> /\ key \in Required(scenes[Latest])
            BY <5>1 DEF Sent
          <5>3. Latest \in 1 .. Len(scenes)
            BY <1>3, <5>2 DEF Latest
          <5>4. QED
            BY <1>6, <5>2, <5>3 DEF Continues
        <4>3. QED
          BY <4>1, <4>2
      <3> HIDE DEF m
      <3>5. Follows(m, Latest, scenes')
        <4>1. m.revision = Latest + 1 /\ m.revision <= Len(scenes') /\ m.kind # "patch"
          BY <1>1, <1>3, <1>6, <1>8 DEF Latest
        <4>2. \A key \in Required(m.scene) :
                 Asset(key) \in m.assets \/ (Latest # 0 /\ key \in Required(scenes'[Latest]))
          BY <3>4
        <4>3. QED
          BY ONLY <1>8, <3>3, <4>1, <4>2 DEF Follows
      <3>6. QED
        BY <1>1, <1>6, <1>8, <2>2, <3>2, <3>5 DEF InTurn
    <2>3. QED
      BY <2>1, <2>2
  <1> HIDE DEF m
  <1>12. QED
    BY <1>10, <1>11

LEMMA PatchTypes ==
    ASSUME NEW base \in Revision, NEW revision \in Revision, NEW rows \in Seq(Rows),
           NEW panes \in SUBSET (Panes \cup {Undefined})
    PROVE  /\ Patch(base, revision, rows, panes) \in Message
           /\ Patch(base, revision, rows, panes).kind = "patch"
           /\ Patch(base, revision, rows, panes).base = base
           /\ Patch(base, revision, rows, panes).revision = revision
           /\ Patch(base, revision, rows, panes).rows = rows
           /\ Patch(base, revision, rows, panes).panes = panes
  BY DEF Patch, Message

LEMMA LatestTypes ==
    ASSUME TypeOK, scenes # <<>>
    PROVE  /\ Latest \in Nat \ {0} /\ Latest \in Revision /\ Latest \in 1 .. Len(scenes)
           /\ scenes \in Seq(Scene) /\ scenes[Latest] \in Scene
  BY LenProperties, EmptySeq, ElementOfSeq, BoundsAssumption DEF TypeOK, Latest, Revision

LEMMA ChangeSends ==
    ASSUME SceneInv, NEW row \in Rows, NEW panes \in SUBSET Panes, Change(row, panes)
    PROVE  \E m : SendsTruth(m) /\ InTurn(m)
  <1> DEFINE revision == Latest + 1
             scene == Redrawn(scenes[Latest], row, panes, revision)
             m == Patch(Latest, revision, <<row>>, panes)
  <1>1. /\ scenes # <<>> /\ revision \in Revision /\ OnScreen(row)
        /\ scenes' = Append(scenes, scene) /\ Sends(m) /\ faults' = faults
    BY DEF Change
  <1>2. /\ Latest \in Nat \ {0} /\ Latest \in Revision /\ Latest \in 1 .. Len(scenes)
        /\ scenes \in Seq(Scene) /\ scenes[Latest] \in Scene /\ faults \in 0 .. MaxFaults
    BY <1>1, LatestTypes DEF SceneInv, TypeOK
  <1>3. /\ Patched(scenes[Latest], m) = scene /\ scene \in Scene
    BY <1>1, <1>2, PatchShows
  <1>4. /\ m \in Message /\ m.kind = "patch" /\ m.base = Latest /\ m.revision = revision
        /\ m.rows = <<row>> /\ m.panes = panes
    <2> DEFINE rows == <<row>>
    <2>1. rows \in Seq(Rows) /\ panes \in SUBSET (Panes \cup {Undefined})
      OBVIOUS
    <2> HIDE DEF rows
    <2>2. /\ Patch(Latest, revision, rows, panes) \in Message
          /\ Patch(Latest, revision, rows, panes).kind = "patch"
          /\ Patch(Latest, revision, rows, panes).base = Latest
          /\ Patch(Latest, revision, rows, panes).revision = revision
          /\ Patch(Latest, revision, rows, panes).rows = rows
          /\ Patch(Latest, revision, rows, panes).panes = panes
      BY <1>1, <1>2, <2>1, PatchTypes
    <2>3. QED
      BY <2>2 DEF rows
  <1>5. Required(scene) = Required(scenes[Latest])
    BY <1>2 DEF Redrawn, Required, Scene
  <1> HIDE DEF m, scene
  <1>6. /\ Continues(scenes', scenes) /\ Len(scenes') = Len(scenes) + 1
        /\ scenes'[Len(scenes) + 1] = scene
    BY <1>1, <1>2, <1>3, ShowContinues
  <1>7. /\ scenes'[Latest] = scenes[Latest] /\ scenes'[revision] = scene
        /\ Len(scenes') = revision /\ revision <= MaxRevision
    BY <1>1, <1>2, <1>6, SceneTypes DEF Continues, Latest
  <1>8. Truthful(m, scenes')
    BY <1>2, <1>3, <1>4, <1>7 DEF Truthful
  <1>9. SendsTruth(m)
    BY <1>1, <1>2, <1>4, <1>6, <1>7, <1>8 DEF SendsTruth, Sends
  <1>10. InPlace(m)
    <2>1. InFrame(row)
      BY <1>1, OnScreenIsInFrame
    <2>2. DOMAIN <<row>> = {1} /\ <<row>>[1] = row
      OBVIOUS
    <2>3. QED
      BY <1>4, <2>1, <2>2 DEF InPlace
  <1>11. Follows(m, Latest, scenes')
    BY <1>2, <1>4, <1>7, <1>10 DEF Follows
  <1>12. Within(scenes) => Within(scenes')
    <2>1. ASSUME Within(scenes) PROVE TotalBytes(Required(scene)) <= MaxBytes
      BY <1>2, <1>5, <2>1 DEF Within
    <2>2. QED
      BY <1>1, <1>2, <1>3, <2>1, WithinGrows
  <1>13. InTurn(m)
    BY <1>1, <1>4, <1>7, <1>11, <1>12 DEF InTurn
  <1>14. QED
    BY <1>9, <1>13

LEMMA RepeatSends ==
    ASSUME SceneInv, Repeat
    PROVE  \E m : SendsTruth(m) /\ InTurn(m)
  <1> DEFINE m == Surface(Latest, scenes[Latest], {})
  <1>1. scenes # <<>> /\ Sends(m) /\ UNCHANGED <<scenes, faults>>
    BY DEF Repeat
  <1>2. /\ Latest \in Nat \ {0} /\ Latest \in Revision /\ Latest \in 1 .. Len(scenes)
        /\ scenes \in Seq(Scene) /\ scenes[Latest] \in Scene /\ faults \in 0 .. MaxFaults
        /\ Len(scenes) <= MaxRevision
    BY <1>1, LatestTypes DEF SceneInv, TypeOK, Latest
  <1>3. m \in Message
    BY <1>2, SurfaceTypes, {} \in SUBSET AssetData
  <1>4. /\ m.kind = "surface" /\ m.revision = Latest /\ m.scene = scenes[Latest]
        /\ m.assets = {}
    BY DEF Surface
  <1> HIDE DEF m
  <1>5. Continues(scenes', scenes)
    BY <1>1, <1>2, ShowContinues
  <1>6. Truthful(m, scenes')
    BY <1>1, <1>4 DEF Truthful, Latest
  <1>7. SendsTruth(m)
    BY <1>1, <1>2, <1>3, <1>5, <1>6 DEF SendsTruth, Sends
  <1>8. Follows(m, Latest, scenes')
    BY <1>2, <1>4 DEF Follows
  <1>9. InTurn(m)
    BY <1>1, <1>4, <1>8 DEF InTurn, Latest
  <1>10. QED
    BY <1>7, <1>9

\* A patch that does not fit and a surface that is not well formed are true of anything.
LEMMA FaultySends ==
    ASSUME SceneInv, Misdraw \/ \E key \in Assets : Garble(key)
    PROVE  \E m : SendsTruth(m) /\ InTurn(m)
  <1>1. /\ scenes # <<>> /\ Latest + 1 \in Revision /\ IsFault /\ scenes' = scenes
    BY DEF Misdraw, Garble
  <1>2. /\ Latest \in Nat \ {0} /\ Latest \in Revision
        /\ scenes \in Seq(Scene) /\ scenes[Latest] \in Scene
        /\ Len(scenes) <= MaxRevision
    BY <1>1, LatestTypes DEF SceneInv, TypeOK, Latest
  <1>3. faults' \in 0 .. MaxFaults /\ faults' = faults + 1
    BY <1>1, FaultTypes DEF SceneInv
  <1>4. Continues(scenes', scenes)
    BY <1>1, <1>2, ShowContinues
  <1>5. ASSUME NEW m \in Message, Sends(m), Truthful(m, scenes')
        PROVE  \E n : SendsTruth(n) /\ InTurn(n)
    BY <1>1, <1>2, <1>3, <1>4, <1>5 DEF SendsTruth, InTurn, Sends
  <1>6. ASSUME NEW row \in Rows, NEW good \in Rows, ~OnScreen(row),
               Sends(Patch(Latest, Latest + 1, <<good, row>>, {}))
        PROVE  \E m : SendsTruth(m) /\ InTurn(m)
    <2> DEFINE m == Patch(Latest, Latest + 1, <<good, row>>, {})
    <2> DEFINE rows == <<good, row>>
    <2>1. rows \in Seq(Rows) /\ {} \in SUBSET (Panes \cup {Undefined})
      OBVIOUS
    <2>2. m \in Message /\ m.kind = "patch" /\ m.rows = <<good, row>>
      <3>1. m = Patch(Latest, Latest + 1, rows, {})
        OBVIOUS
      <3> HIDE DEF m, rows
      <3>2. m \in Message /\ m.kind = "patch" /\ m.rows = rows /\ m.panes = {}
        BY <1>1, <1>2, <2>1, <3>1, PatchTypes
      <3>3. QED
        BY <3>2 DEF rows
    <2>3. 2 \in DOMAIN <<good, row>> /\ <<good, row>>[2] = row
      OBVIOUS
    <2> HIDE DEF m
    <2>4. ~InPlace(m)
      BY <1>6, <2>2, <2>3, OnScreenIsInFrame DEF InPlace
    <2>5. Truthful(m, scenes')
      BY <2>2, <2>4 DEF Truthful
    <2>6. Sends(m)
      BY <1>6 DEF m
    <2>7. QED
      BY <1>5, <2>2, <2>5, <2>6
  <1>7. ASSUME NEW good \in Rows,
               Sends(Patch(Latest, Latest + 1, <<good>>, {Undefined}))
        PROVE  \E m : SendsTruth(m) /\ InTurn(m)
    <2> DEFINE m == Patch(Latest, Latest + 1, <<good>>, {Undefined})
    <2> DEFINE rows == <<good>>
    <2>1. rows \in Seq(Rows) /\ {Undefined} \in SUBSET (Panes \cup {Undefined})
      OBVIOUS
    <2>2. m \in Message /\ m.kind = "patch" /\ m.panes = {Undefined}
      <3>1. m = Patch(Latest, Latest + 1, rows, {Undefined})
        OBVIOUS
      <3> HIDE DEF m, rows
      <3>2. m \in Message /\ m.kind = "patch" /\ m.rows = rows /\ m.panes = {Undefined}
        BY <1>1, <1>2, <2>1, <3>1, PatchTypes
      <3>3. QED
        BY <3>2 DEF rows
    <2> HIDE DEF m
    <2>3. ~InPlace(m)
      BY <2>2, UndefinedAssumption DEF InPlace
    <2>4. Truthful(m, scenes')
      BY <2>2, <2>3 DEF Truthful
    <2>5. Sends(m)
      BY <1>7 DEF m
    <2>6. QED
      BY <1>5, <2>2, <2>4, <2>5
  <1>8. ASSUME NEW key \in Assets,
               Sends(Surface(Latest + 1, scenes[Latest], {Garbled(key)}))
        PROVE  \E m : SendsTruth(m) /\ InTurn(m)
    <2> DEFINE m == Surface(Latest + 1, scenes[Latest], {Garbled(key)})
    <2>1. {Garbled(key)} \in SUBSET AssetData
      BY AssetFacts
    <2>2. m \in Message /\ m.kind = "surface" /\ m.assets = {Garbled(key)}
      BY <1>1, <1>2, <2>1, SurfaceTypes DEF Surface
    <2> HIDE DEF m
    <2>3. ~WellFormed(m)
      BY <2>2, AssetFacts DEF WellFormed
    <2>4. Truthful(m, scenes')
      BY <2>2, <2>3 DEF Truthful
    <2>5. Sends(m)
      BY <1>8 DEF m
    <2>6. QED
      BY <1>5, <2>2, <2>4, <2>5
  <1>9. QED
    BY <1>6, <1>7, <1>8 DEF Misdraw, Garble

LEMMA ServerSends ==
    ASSUME SceneInv, Server
    PROVE  \/ wire # <<>> /\ Lose
           \/ \E m : SendsTruth(m) /\ InTurn(m)
  <1>1. CASE \E placements \in SUBSET Assets :
               \E retained \in SUBSET (Assets \ placements), extra \in {{}, placements} :
                  Show(placements, retained, extra)
    BY <1>1, ShowSends
  <1>2. CASE \E row \in Rows, panes \in SUBSET Panes : Change(row, panes)
    BY <1>2, ChangeSends
  <1>3. CASE Repeat
    BY <1>3, RepeatSends
  <1>4. CASE Misdraw \/ \E key \in Assets : Garble(key)
    BY <1>4, FaultySends
  <1>5. CASE Lose
    BY <1>5 DEF Lose
  <1>6. QED
    BY <1>1, <1>2, <1>3, <1>4, <1>5 DEF Server

-----------------------------------------------------------------------------
(* What the session holds.                                                  *)

\* HeldIsShown, HeldIsComplete and the type of what is held.
HeldInv ==
    /\ held # Undefined => held \in SurfaceData
    /\ HeldIsShown
    /\ HeldIsComplete
    /\ refused \in {"schema", "revision", "resource_limit", Undefined}

LEMMA HeldKeysTypes ==
    ASSUME TypeOK PROVE HeldKeys \in SUBSET Assets
  BY SceneTypes DEF TypeOK, HeldKeys, SurfaceData

\* A well-formed true surface, by its keys.
LEMMA TrueSurface ==
    ASSUME SceneInv, NEW surface \in SurfaceData, Truthful(surface, scenes),
           WellFormed(surface)
    PROVE  /\ surface.revision <= Latest /\ surface.scene = scenes[surface.revision]
           /\ \E keys \in SUBSET Assets : surface.assets = Complete(keys)
           /\ Required(surface.scene) \in SUBSET Assets
  <1>1. /\ surface.revision <= Latest /\ surface.scene = scenes[surface.revision]
        /\ surface.assets \in SUBSET Complete(Assets)
    BY DEF SurfaceData, Truthful, Latest, Complete
  <1>2. Required(surface.scene) \in SUBSET Assets
    BY SceneTypes DEF SurfaceData
  <1>3. QED
    BY <1>1, <1>2, SomeComplete

\* A surface is refused, ignored, or held whole.
LEMMA AcceptKeeps ==
    ASSUME SceneInv, NEW surface \in SurfaceData, Truthful(surface, scenes),
           acceptSurface(surface), scenes' = scenes
    PROVE  HeldInv'
  <1> USE DEF SceneInv, ShownInv
  <1>1. HeldInv
    BY DEF TypeOK, HeldInv, SurfaceData
  <1>2. CASE UNCHANGED <<held, refused>>
    BY <1>1, <1>2 DEF HeldInv, HeldIsShown, HeldIsComplete, Latest
  <1>3. CASE held' = held /\ refused' \in {"schema", "revision", "resource_limit"}
    BY <1>1, <1>3 DEF HeldInv, HeldIsShown, HeldIsComplete, Latest
  <1>4. CASE /\ WellFormed(surface) /\ Resolves(surface) /\ WithinLimit(surface)
             /\ held' = [surface EXCEPT !.assets = Kept(surface)] /\ refused' = refused
    <2>1. PICK keys \in SUBSET Assets : surface.assets = Complete(keys)
      BY <1>4, TrueSurface
    <2>2. /\ surface.revision <= Latest /\ surface.scene = scenes[surface.revision]
          /\ Required(surface.scene) \in SUBSET Assets
      BY <1>4, TrueSurface
    <2>3. /\ Kept(surface) = Complete(Required(surface.scene))
          /\ TotalBytes(Required(surface.scene)) <= MaxBytes
      BY <1>4, <2>1, <2>2, HeldKeysTypes, KeptIsComplete
    <2>4. Kept(surface) \in SUBSET AssetData
      BY <2>2, <2>3, SceneTypes
    <2>5. /\ held' \in SurfaceData /\ held'.revision = surface.revision
          /\ held'.scene = surface.scene /\ held'.assets = Kept(surface)
      BY <1>4, <2>4 DEF SurfaceData
    <2>6. HeldIsShown'
      BY <2>2, <2>5 DEF HeldIsShown, Latest
    <2>7. HeldIsComplete'
      BY <2>3, <2>5 DEF HeldIsComplete, Complete
    <2>8. QED
      BY <1>1, <1>4, <2>5, <2>6, <2>7 DEF HeldInv
  <1>5. QED
    BY <1>2, <1>3, <1>4 DEF acceptSurface, Refuses

\* The surface that an accepted patch leaves is a true one.
LEMMA PatchedIsTrue ==
    ASSUME SceneInv, NEW patch \in Message, patch.kind = "patch", Truthful(patch, scenes),
           ExactBase(patch), Fits(patch)
    PROVE  LET surface == Surface(patch.revision, Patched(held.scene, patch), held.assets)
           IN  surface \in SurfaceData /\ Truthful(surface, scenes)
  <1> DEFINE surface == Surface(patch.revision, Patched(held.scene, patch), held.assets)
  <1>1. /\ held # Undefined /\ held \in SurfaceData /\ held.revision = patch.base
        /\ held.scene = scenes[patch.base] /\ held.assets = Complete(Required(held.scene))
        /\ held.scene \in Scene /\ held.assets \in SUBSET AssetData
    BY DEF SceneInv, ShownInv, TypeOK, HeldIsShown, HeldIsComplete, ExactBase, SurfaceData,
           Complete
  <1>2. patch.base \in Nat \ {0} /\ patch.revision \in Revision
    BY MessageTypes, SceneTypes
  <1>3. InPlace(patch)
    BY <1>1 DEF Fits, InPlace, Scene
  <1>4. /\ patch.base < Latest /\ patch.revision = patch.base + 1
        /\ scenes[patch.revision] = Patched(held.scene, patch)
    BY <1>1, <1>3 DEF Truthful, Latest
  <1>5. scenes \in Seq(Scene) /\ Latest \in Nat
    BY LenProperties DEF SceneInv, TypeOK, Latest
  <1>6. patch.revision \in 1 .. Len(scenes) /\ scenes[patch.revision] \in Scene
    BY <1>2, <1>4, <1>5, ElementOfSeq DEF Latest
  <1>7. surface \in SurfaceData
    BY <1>1, <1>2, <1>4, <1>6, SurfaceTypes
  <1>8. Required(held.scene) \in SUBSET Assets
    BY <1>1, SceneTypes
  <1>9. /\ surface.kind = "surface" /\ surface.revision = patch.revision
        /\ surface.scene = scenes[patch.revision]
        /\ surface.assets \subseteq {Asset(key) : key \in Assets}
    BY <1>1, <1>4, <1>8 DEF Surface, Complete
  <1> HIDE DEF surface
  <1>10. Truthful(surface, scenes)
    BY <1>5, <1>6, <1>9 DEF Truthful
  <1>11. QED
    BY <1>7, <1>10 DEF surface

LEMMA PatchKeeps ==
    ASSUME SceneInv, NEW patch \in Message, patch.kind = "patch", Truthful(patch, scenes),
           applyPatch(patch), scenes' = scenes
    PROVE  HeldInv'
  <1>1. CASE /\ ExactBase(patch) /\ Fits(patch)
             /\ acceptSurface(Surface(patch.revision, Patched(held.scene, patch), held.assets))
    BY <1>1, PatchedIsTrue, AcceptKeeps
  <1>2. CASE Refuses("revision")
    BY <1>2 DEF SceneInv, ShownInv, TypeOK, HeldInv, SurfaceData, Refuses, HeldIsShown,
                HeldIsComplete, Latest
  <1>3. QED
    BY <1>1, <1>2 DEF applyPatch

LEMMA ReceiveKeeps ==
    ASSUME SceneInv, Receive PROVE SceneInv'
  <1> USE DEF SceneInv, ShownInv
  <1>1. /\ wire # <<>> /\ wire' = Tail(wire) /\ scenes' = scenes /\ faults' = faults
    BY DEF Receive
  <1>2. /\ wire \in Seq(Message) /\ Head(wire) = wire[1] /\ 1 \in 1 .. Len(wire)
        /\ wire[1] \in Message /\ Truthful(wire[1], scenes)
    <2>1. wire \in Seq(Message) /\ Len(wire) \in Nat \ {0}
      BY <1>1, EmptySeq DEF TypeOK
    <2>2. QED
      BY <2>1, ElementOfSeq
  <1>3. /\ wire' \in Seq(Message) /\ Len(wire') = Len(wire) - 1 /\ Len(wire) \in Nat
        /\ \A i \in 1 .. Len(wire') : wire'[i] = wire[i + 1]
    BY <1>1, <1>2, HeadTailProperties, LenProperties
  <1>4. \A i \in 1 .. Len(wire') : Truthful(wire'[i], scenes')
    BY <1>1, <1>3
  <1>5. HeldInv'
    <2>1. CASE Head(wire).kind = "surface"
      <3>1. wire[1] \in SurfaceData /\ acceptSurface(wire[1])
        BY <1>2, <2>1, MessageTypes DEF Receive
      <3>2. QED
        BY <1>1, <1>2, <3>1, AcceptKeeps
    <2>2. CASE Head(wire).kind # "surface"
      <3>1. wire[1].kind = "patch" /\ applyPatch(wire[1])
        BY <1>2, <2>2, MessageTypes DEF Receive
      <3>2. QED
        BY <1>1, <1>2, <3>1, PatchKeeps
    <2>3. QED
      BY <2>1, <2>2
  <1>6. TypeOK'
    BY <1>1, <1>3, <1>5 DEF TypeOK, HeldInv, SurfaceData, Latest
  <1>7. QED
    BY <1>1, <1>4, <1>5, <1>6 DEF HeldInv

LEMMA SceneStep ==
    ASSUME SceneInv, [Next]_vars PROVE SceneInv'
  <1>1. CASE Server
    <2>1. CASE Lose
      <3>1. /\ wire # <<>> /\ wire' = Tail(wire) /\ IsFault /\ UNCHANGED <<scenes, held, refused>>
        BY <2>1 DEF Lose
      <3>2. faults' \in 0 .. MaxFaults
        BY <3>1, FaultTypes DEF SceneInv
      <3>3. Continues(scenes', scenes) /\ Len(scenes') <= MaxRevision
        BY <3>1 DEF SceneInv, TypeOK, Continues, Latest
      <3>4. QED
        BY <3>1, <3>2, <3>3, ServerKeeps
    <2>2. ASSUME NEW m, SendsTruth(m) PROVE SceneInv'
      BY <2>2, ServerKeeps DEF SendsTruth
    <2>3. QED
      BY <1>1, <2>1, <2>2, ServerSends
  <1>2. CASE Receive
    BY <1>2, ReceiveKeeps
  <1>3. CASE UNCHANGED vars
    BY <1>3 DEF vars, SceneInv, ShownInv, TypeOK, HeldIsShown, HeldIsComplete, Latest
  <1>4. QED
    BY <1>1, <1>2, <1>3 DEF Next

LEMMA SceneInit == Init => SceneInv
  BY EmptySeq, BoundsAssumption
     DEF Init, SceneInv, ShownInv, TypeOK, HeldIsShown, HeldIsComplete, Latest

\* What is held is the server's screen, with all its graphics, whatever messages came.
THEOREM SceneInvariant == Spec => []SceneInv
  BY SceneInit, SceneStep, PTL DEF Spec

\* What the session presents is what the server showed (applyClientShellSurfacePatch).
THEOREM HeldSurfaceIsShown == Spec => []HeldIsShown
  <1>1. SceneInv => HeldIsShown
    BY DEF SceneInv, ShownInv
  <1>2. QED
    BY <1>1, SceneInvariant, PTL

\* It has the data of all its assets, within the limit (retainClientShellGraphics).
THEOREM HeldSurfaceIsComplete == Spec => []HeldIsComplete
  <1>1. SceneInv => HeldIsComplete
    BY DEF SceneInv, ShownInv
  <1>2. QED
    BY <1>1, SceneInvariant, PTL

-----------------------------------------------------------------------------
(* A server without faults.                                                 *)

LEMMA RevisionTypes ==
    ASSUME TypeOK
    PROVE  /\ HeldRevision \in Nat
           /\ \A i \in 1 .. Len(wire) : wire[i] \in Message /\ wire[i].revision \in Nat \ {0}
           /\ \A i \in 1 .. Len(wire) + 1 : Before(i) \in Nat
  <1>1. HeldRevision \in Nat
    BY SceneTypes DEF TypeOK, HeldRevision, SurfaceData
  <1>2. ASSUME NEW i \in 1 .. Len(wire)
        PROVE  wire[i] \in Message /\ wire[i].revision \in Nat \ {0}
    <2>1. wire[i] \in Message
      BY ElementOfSeq DEF TypeOK
    <2>2. QED
      BY <2>1, MessageTypes, SceneTypes DEF SurfaceData
  <1>3. Len(wire) \in Nat
    BY LenProperties DEF TypeOK
  <1>4. QED
    BY <1>1, <1>2, <1>3 DEF Before

\* A message follows what it followed, whatever is shown after it.
LEMMA FollowsStays ==
    ASSUME NEW m \in Message, NEW before \in Nat, NEW shown, NEW next,
           Continues(next, shown), Follows(m, before, shown)
    PROVE  Follows(m, before, next)
  <1>1. Len(shown) \in Nat /\ Len(next) \in Nat
    BY LenProperties DEF Continues
  <1>2. CASE m.kind = "surface" /\ m.revision = before /\ before # 0
    BY <1>2 DEF Follows
  <1>3. CASE m.revision = before + 1 /\ m.revision <= Len(shown)
    <2>1. before # 0 => next[before] = shown[before]
      BY <1>1, <1>3 DEF Continues
    <2>2. m.revision <= Len(next)
      BY <1>1, <1>3 DEF Continues
    <2>3. m.revision # before
      BY <1>3
    <2>4. QED
      BY <1>3, <2>1, <2>2, <2>3 DEF Follows
  <1>4. QED
    BY <1>2, <1>3 DEF Follows

LEMMA FaultlessSend ==
    ASSUME SceneInv, FaultlessInv, refused = Undefined, NEW m, SendsTruth(m), InTurn(m)
    PROVE  FaultlessInv'
  <1> SUFFICES ASSUME faults' = 0 PROVE FaultlessInv'
    BY DEF FaultlessInv
  <1>1. faults = 0 /\ Follows(m, Latest, scenes') /\ m.revision = Len(scenes')
        /\ (Within(scenes) => Within(scenes'))
    BY DEF InTurn, SceneInv, TypeOK
  <1>2. /\ m \in Message /\ wire' = Append(wire, m) /\ Continues(scenes', scenes)
        /\ held' = held /\ refused' = refused
    BY DEF SendsTruth
  <1>3. /\ \A i \in 1 .. Latest : TotalBytes(Required(scenes[i])) <= MaxBytes
        /\ \A i \in 1 .. Len(wire) : Follows(wire[i], Before(i), scenes)
        /\ Before(Len(wire) + 1) = Latest
    BY <1>1 DEF FaultlessInv, Coming
  <1>4. /\ Len(wire') = Len(wire) + 1 /\ Len(wire) \in Nat
        /\ \A i \in 1 .. Len(wire) : wire'[i] = wire[i]
        /\ wire'[Len(wire) + 1] = m
    BY <1>2, AppendProperties, LenProperties DEF SceneInv, TypeOK
  <1>5. \A i \in 1 .. Len(wire) + 1 : Before(i)' = Before(i)
    BY <1>2, <1>4 DEF Before, HeldRevision
  <1>6. Coming' = Len(scenes')
    BY <1>1, <1>4 DEF Before, Coming
  <1>7. ASSUME NEW i \in 1 .. Len(wire') PROVE Follows(wire'[i], Before(i)', scenes')
    <2>1. CASE i \in 1 .. Len(wire)
      <3>1. wire[i] \in Message /\ Before(i) \in Nat
        BY <1>4, <2>1, RevisionTypes DEF SceneInv
      <3>2. Follows(wire[i], Before(i), scenes')
        BY <1>2, <1>3, <2>1, <3>1, FollowsStays
      <3>3. wire'[i] = wire[i] /\ Before(i)' = Before(i)
        BY <1>4, <1>5, <2>1
      <3>4. QED
        BY <3>2, <3>3
    <2>2. CASE i = Len(wire) + 1
      <3>1. wire'[i] = m /\ Before(i)' = Latest
        BY <1>3, <1>4, <1>5, <2>2
      <3>2. QED
        BY <1>1, <3>1
    <2>3. QED
      BY <1>4, <2>1, <2>2
  <1>8. \A i \in 1 .. Latest' : TotalBytes(Required(scenes'[i])) <= MaxBytes
    BY <1>1, <1>3 DEF Within, Latest
  <1>9. refused' = Undefined
    BY <1>2
  <1>10. QED
    BY <1>6, <1>7, <1>8, <1>9 DEF FaultlessInv, Latest

\* A surface that is next, well formed, within the limit, and with the data that the
\* session does not hold, is held.
LEMMA AcceptsNext ==
    ASSUME SceneInv, NEW surface \in SurfaceData, Truthful(surface, scenes),
           WellFormed(surface), surface.revision = HeldRevision + 1, Within(scenes),
           \A key \in Required(surface.scene) :
              Asset(key) \in surface.assets \/ key \in HeldKeys,
           acceptSurface(surface), refused = Undefined
    PROVE  refused' = Undefined /\ HeldRevision' = surface.revision
  <1>1. /\ surface.revision <= Latest /\ surface.scene = scenes[surface.revision]
        /\ Required(surface.scene) \in SUBSET Assets
    BY TrueSurface
  <1>2. PICK keys \in SUBSET Assets : surface.assets = Complete(keys)
    BY TrueSurface
  <1>3. surface.revision \in Nat \ {0} /\ Latest \in Nat
    BY SceneTypes, LenProperties DEF SurfaceData, SceneInv, TypeOK, Latest
  <1>4. Required(surface.scene) \subseteq keys \cup HeldKeys
    BY <1>2, AssetFacts DEF Complete
  <1>5. TotalBytes(Required(surface.scene)) <= MaxBytes
    BY <1>1, <1>3 DEF Within, Latest
  <1>6. /\ Resolves(surface) /\ WithinLimit(surface)
        /\ Kept(surface) = Complete(Required(surface.scene))
    BY <1>1, <1>2, <1>4, <1>5, HeldKeysTypes, KeptIsComplete DEF SceneInv, ShownInv
  <1>7. ~(held # Undefined /\ surface.revision <= held.revision)
    BY <1>3, RevisionTypes DEF HeldRevision, SceneInv
  <1>8. held' = [surface EXCEPT !.assets = Kept(surface)] /\ refused' = refused
    BY <1>6, <1>7 DEF acceptSurface
  <1>9. held' \in SurfaceData /\ held'.revision = surface.revision
    BY <1>1, <1>6, <1>8, SceneTypes DEF SurfaceData
  <1>10. held' # Undefined
    BY <1>9, UndefinedAssumption
  <1>11. QED
    BY <1>8, <1>9, <1>10 DEF HeldRevision

LEMMA AcceptsFollowing ==
    ASSUME SceneInv, NEW surface \in SurfaceData, Truthful(surface, scenes),
           Follows(surface, HeldRevision, scenes), Within(scenes),
           acceptSurface(surface), refused = Undefined
    PROVE  refused' = Undefined /\ HeldRevision' = surface.revision
  <1>1. HeldRevision \in Nat /\ surface.kind = "surface"
    BY RevisionTypes DEF SceneInv, SurfaceData
  <1>2. CASE surface.revision = HeldRevision /\ HeldRevision # 0
    <2>1. held # Undefined /\ surface.revision = held.revision /\ held.revision \in Nat
      BY <1>1, <1>2 DEF HeldRevision
    <2>2. UNCHANGED <<held, refused>>
      BY <2>1 DEF acceptSurface
    <2>3. QED
      BY <1>2, <2>2 DEF HeldRevision
  <1>3. CASE ~(surface.revision = HeldRevision /\ HeldRevision # 0)
    <2>1. /\ surface.revision = HeldRevision + 1 /\ WellFormed(surface)
          /\ \A key \in Required(surface.scene) :
                \/ Asset(key) \in surface.assets
                \/ HeldRevision # 0 /\ key \in Required(scenes[HeldRevision])
      BY <1>1, <1>3 DEF Follows
    <2>2. HeldRevision # 0 => HeldKeys = Required(scenes[HeldRevision])
      BY DEF HeldRevision, HeldKeys, SceneInv, ShownInv, HeldIsShown
    <2>3. QED
      BY <2>1, <2>2, AcceptsNext
  <1>4. QED
    BY <1>2, <1>3

LEMMA AppliesFollowing ==
    ASSUME SceneInv, NEW patch \in Message, patch.kind = "patch", Truthful(patch, scenes),
           Follows(patch, HeldRevision, scenes), Within(scenes),
           applyPatch(patch), refused = Undefined
    PROVE  refused' = Undefined /\ HeldRevision' = patch.revision
  <1> DEFINE surface == Surface(patch.revision, Patched(held.scene, patch), held.assets)
  <1>1. /\ InPlace(patch) /\ patch.base = HeldRevision /\ patch.revision = HeldRevision + 1
    BY DEF Follows
  <1>2. patch.base \in Nat \ {0}
    BY MessageTypes, SceneTypes DEF SurfaceData
  <1>3. /\ held # Undefined /\ held.revision = HeldRevision /\ held \in SurfaceData
        /\ held.scene \in Scene /\ held.assets = Complete(HeldKeys)
        /\ HeldKeys = Required(held.scene) /\ HeldKeys \in SUBSET Assets
    BY <1>1, <1>2, HeldKeysTypes DEF HeldRevision, HeldKeys, SceneInv, ShownInv, TypeOK,
       HeldIsComplete, Complete, SurfaceData
  <1>4. ExactBase(patch)
    BY <1>1, <1>2, <1>3 DEF ExactBase
  <1>5. Fits(patch)
    BY <1>1, <1>3 DEF Fits, InPlace, Scene
  <1>6. acceptSurface(surface)
    BY <1>4, <1>5 DEF applyPatch
  <1>7. surface \in SurfaceData /\ Truthful(surface, scenes)
    BY <1>4, <1>5, PatchedIsTrue
  <1>8. /\ surface.revision = patch.revision /\ surface.assets = Complete(HeldKeys)
        /\ surface.scene = Patched(held.scene, patch)
    BY <1>3 DEF Surface
  <1>9. Required(surface.scene) = HeldKeys
    BY <1>3, <1>8 DEF Patched, Required, Scene
  <1> HIDE DEF surface
  <1>10. WellFormed(surface)
    BY <1>3, <1>8, AssetFacts DEF WellFormed, Complete
  <1>11. QED
    BY <1>1, <1>6, <1>7, <1>8, <1>9, <1>10, AcceptsNext

LEMMA FaultlessReceive ==
    ASSUME SceneInv, FaultlessInv, Receive
    PROVE  FaultlessInv'
  <1> SUFFICES ASSUME faults' = 0 PROVE FaultlessInv'
    BY DEF FaultlessInv
  <1>1. /\ wire # <<>> /\ wire' = Tail(wire) /\ scenes' = scenes /\ faults = 0
        /\ refused = Undefined
    BY DEF Receive
  <1>2. /\ \A i \in 1 .. Latest : TotalBytes(Required(scenes[i])) <= MaxBytes
        /\ \A i \in 1 .. Len(wire) : Follows(wire[i], Before(i), scenes)
        /\ Before(Len(wire) + 1) = Latest
    BY <1>1 DEF FaultlessInv, Coming
  <1>3. /\ wire \in Seq(Message) /\ Len(wire) \in Nat \ {0} /\ Head(wire) = wire[1]
        /\ Len(wire') = Len(wire) - 1 /\ \A i \in 1 .. Len(wire') : wire'[i] = wire[i + 1]
    <2>1. wire \in Seq(Message)
      BY DEF SceneInv, TypeOK
    <2>2. QED
      BY <1>1, <2>1, HeadTailProperties, LenProperties, EmptySeq
  <1>4. /\ wire[1] \in Message /\ Truthful(wire[1], scenes)
        /\ Follows(wire[1], HeldRevision, scenes) /\ Within(scenes)
    <2>1. 1 \in 1 .. Len(wire) /\ Before(1) = HeldRevision
      BY <1>3 DEF Before
    <2>2. QED
      BY <1>2, <1>3, <2>1, ElementOfSeq DEF SceneInv, ShownInv, Within, Latest
  <1>5. refused' = Undefined /\ HeldRevision' = wire[1].revision
    <2>1. CASE Head(wire).kind = "surface"
      <3>1. wire[1] \in SurfaceData /\ acceptSurface(wire[1])
        BY <1>3, <1>4, <2>1, MessageTypes DEF Receive
      <3>2. QED
        BY <1>1, <1>4, <3>1, AcceptsFollowing
    <2>2. CASE Head(wire).kind # "surface"
      <3>1. wire[1].kind = "patch" /\ applyPatch(wire[1])
        BY <1>3, <1>4, <2>2, MessageTypes DEF Receive
      <3>2. QED
        BY <1>1, <1>4, <3>1, AppliesFollowing
    <2>3. QED
      BY <2>1, <2>2
  <1>6. ASSUME NEW i \in 1 .. Len(wire') + 1 PROVE Before(i)' = Before(i + 1)
    BY <1>3, <1>5 DEF Before
  <1>7. \A i \in 1 .. Len(wire') : Follows(wire'[i], Before(i)', scenes')
    BY <1>1, <1>2, <1>3, <1>6
  <1>8. Coming' = Latest'
    <2>1. Coming' = Before(Len(wire) + 1)
      BY <1>3, <1>5 DEF Coming, Before
    <2>2. QED
      BY <1>1, <1>2, <2>1 DEF Latest
  <1>9. QED
    BY <1>1, <1>2, <1>5, <1>7, <1>8 DEF FaultlessInv, Latest

LEMMA FaultlessStep ==
    ASSUME SceneInv, FaultlessInv, [Next]_vars PROVE FaultlessInv'
  <1>1. CASE refused = Undefined /\ Server
    <2>1. CASE Lose
      <3>1. faults' # 0
        BY <2>1 DEF Lose, IsFault, SceneInv, TypeOK
      <3>2. QED
        BY <3>1 DEF FaultlessInv
    <2>2. ASSUME NEW m, SendsTruth(m), InTurn(m) PROVE FaultlessInv'
      BY <1>1, <2>2, FaultlessSend
    <2>3. QED
      BY <1>1, <2>1, <2>2, ServerSends
  <1>2. CASE Receive
    BY <1>2, FaultlessReceive
  <1>3. CASE UNCHANGED vars
    BY <1>3 DEF vars, FaultlessInv, Latest, Coming, Before, HeldRevision
  <1>4. QED
    BY <1>1, <1>2, <1>3 DEF Next

LEMMA FaultlessInit == Init => FaultlessInv
  BY EmptySeq DEF Init, FaultlessInv, Coming, Before, HeldRevision, Latest

\* A server that loses nothing, sends nothing malformed and stays within the limit is
\* never refused: its account of what the session holds is the session's own.
THEOREM FaultlessServed == Spec => []FaultlessNotRefused
  <1>1. FaultlessInv => FaultlessNotRefused
    BY DEF FaultlessInv, FaultlessNotRefused
  <1>2. QED
    BY <1>1, FaultlessInit, FaultlessStep, SceneInvariant, PTL DEF Spec
===============================================================================
