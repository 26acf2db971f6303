---------------------------- MODULE MCGpsDriver ----------------------------
(***************************************************************************)
(* Values for model checking GpsDriver.                                    *)
(***************************************************************************)
EXTENDS GpsDriver

\* A point north-east and one south-west of (0, 0), in minutes of arc.
MCFixes == {[lat |-> 2141, lon |-> 8385], [lat |-> -2010, lon |-> -4265]}

\* The two sentences that gpsTask reads.
MCBurst == <<"RMC", "GGA">>
=============================================================================
