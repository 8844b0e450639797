-------------------------- MODULE CopcWriterClaims --------------------------
(***************************************************************************)
(* What the documentation, the comments and the tests of the crate say of  *)
(* the writer, and the code does not do.  Each claim is refuted by a run.  *)
(***************************************************************************)
EXTENDS CopcWriter

(***************************************************************************)
(* The fields of CopcInfo: "Minimum of GPSTime", "Maximum of GPSTime".  A  *)
(* point that lowers the minimum is not looked at for the maximum.         *)
(***************************************************************************)
GpsTimeExtremes ==
  is_closed /\ answer = "Ok" /\ faults = 0 =>
    LET times == { GpsTime[p] : p \in batch }
    IN  /\ copc_info.gpstime_minimum \in times
        /\ copc_info.gpstime_maximum \in times
        /\ \A t \in times : /\ copc_info.gpstime_minimum <= t
                            /\ t <= copc_info.gpstime_maximum

(***************************************************************************)
(* The error PointNotAddedToAnyNode: "Should not be possible".  A point on *)
(* the upper face of the root, or within a rounding error of it, may be in *)
(* the root and in none of its children.                                   *)
(***************************************************************************)
EveryPointFindsANode == result # NotAdded
=============================================================================
