------------------------------ MODULE MCFlight ------------------------------
(***************************************************************************)
(* Values for model checking Flight.                                       *)
(***************************************************************************)
EXTENDS Flight

\* Two positions far enough apart that a drive between them counts as moved.
MCFixes == {[lat |-> 401400, lon |-> 1400200], [lat |-> 416400, lon |-> 1400250]}
MCTarget == NoFix    \* DEST_LAT = DEST_LON = 0.0f, as in the source
=============================================================================
