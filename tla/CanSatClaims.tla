---------------------------- MODULE CanSatClaims ----------------------------
(***************************************************************************)
(* What comments and telemetry texts of the repository say the software    *)
(* does, and the code does not do.  Each is refuted by a run of its own.   *)
(***************************************************************************)
EXTENDS CanSat

\* components.sencer/GPS用コード.cpp:176: gps_mux protects the two coordinates.
\* The arguments of every call of Stuck are read without it.
StuckReadsAreWhole == pc = "stuck_left" => before \in WholeFix

\* main/ProGram_RUN.cpp:240 reports the arrival at the goal.  The distance it rests
\* on is measured from Here, where the rover stood before the drive, or earlier.
ArrivalIsAtGoal ==
  [][currentState # "GOAL" /\ currentState' = "GOAL"
       => Dist(Target, coord) < One]_vars

\* main/ProGram_RUN.cpp:240 reports the move to GOAL.  When the cone drops out
\* of sight in the same pass, the rover spins in search of it instead.
GoalIsEntered == currentState = "GOAL" ~> pc = "goal"
=============================================================================
