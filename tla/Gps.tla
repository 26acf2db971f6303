-------------------------------- MODULE Gps --------------------------------
(***************************************************************************)
(* gpsTask as the programs see it: after a valid fix it stores latitude,   *)
(* then longitude, inside one critical section of gps_mux.  A reader that  *)
(* takes gps_mux runs between two sections; one that does not may run      *)
(* between the two stores.  A period without a valid fix stores nothing.   *)
(***************************************************************************)
EXTENDS CanSatGlobals

StoreLatitude(f) ==
  /\ pc # "boot"
  /\ MuxFree
  /\ writing' = {f}
  /\ coord' = [coord EXCEPT !.lat = f.lat]
  /\ UNCHANGED <<currentState, pc, out, envVars, imuVars, elapsed,
                 bodySet, manoeuvre, runVars, ESP32S3>>

StoreLongitude(f) ==
  /\ f \in writing
  /\ coord' = [coord EXCEPT !.lon = f.lon]
  /\ writing' = {}
  /\ UNCHANGED <<currentState, pc, out, envVars, imuVars, elapsed, bodySet,
                 manoeuvre, runVars, ESP32S3>>

GpsTask == \E f \in Fixes : StoreLatitude(f) \/ StoreLongitude(f)
=============================================================================
