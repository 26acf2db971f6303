----------------------------- MODULE MCSteering -----------------------------
(***************************************************************************)
(* Values for model checking Steering.                                     *)
(***************************************************************************)
EXTENDS Steering

\* Five of the eight directions, and both ends of the band of 2 degrees around two
\* of them.
MCHeadings == {0, 2, 3, 45, 88, 90, 180, 270, 358}
=============================================================================
