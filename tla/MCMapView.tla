------------------------------ MODULE MCMapView ------------------------------
(* MapView on a far zoom with one tile and a near zoom with two, seen one at a *)
(* time and too far apart to be kept together.                                 *)
EXTENDS MapView

CONSTANTS far, west, east, atFar, atWest, atEast, w, d1, d2

MCZoom  == [t \in Tiles |-> IF t = far THEN 0 ELSE 1]
MCAbove == [t \in Tiles |-> IF t = far THEN {} ELSE {far}]
MCWindow == [v \in Views |-> IF v = atFar THEN {far} ELSE IF v = atWest THEN {west} ELSE {east}]
MCBuffer == MCWindow
MCHasPicture == {[world |-> w, dim |-> d1], [world |-> w, dim |-> d2]} \X (Tiles \ {east})
                \cup {<<[world |-> w, dim |-> d1], east>>}
=============================================================================
