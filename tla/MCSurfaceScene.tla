--------------------------- MODULE MCSurfaceScene ---------------------------
(* SurfaceScene with its properties, for TLC. *)
EXTENDS SurfaceSceneProps

Row(x, y, length) == [x |-> x, y |-> y, length |-> length]

\* A frame of three by two: rows within it, one too long, one too low.
MCRows == {Row(0, 0, 1), Row(1, 1, 2), Row(2, 0, 2), Row(0, 2, 1)}

\* Two assets of one image, and one of another.
MCAssets == {[image |-> 1, print |-> 1], [image |-> 1, print |-> 2], [image |-> 2, print |-> 1]}
MCDataLength == [key \in MCAssets |-> 1]
=============================================================================
