------------------------------ MODULE MCCanSat ------------------------------
(***************************************************************************)
(* Values for model checking CanSat.                                       *)
(***************************************************************************)
EXTENDS CanSatClaims

\* Three points of the launch site, with 0.7 between A and B, 0.8 between B and C
\* and 1.5 between A and C: with the reset position, far from all of them, every
\* threshold separates two distances.  Any two differ in both coordinates.
PointA == [lat |-> 401400, lon |-> 1400200]
PointB == [lat |-> 408400, lon |-> 1400230]
PointC == [lat |-> 416400, lon |-> 1400250]

MCFixesFar == {PointA, PointC}
MCFixesGoal == {PointB, PointC}

MCTargetAtA == PointA     \* a goal that has been set
MCTargetUnset == NoFix    \* DEST_LAT = DEST_LON = 0.0f, as in the source
=============================================================================
