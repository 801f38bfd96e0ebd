-------------------------- MODULE MCMasterFirmware --------------------------
(***************************************************************************)
(* MasterFirmware with a window of two reports, one report for each level  *)
(* of evidence, and a clock that wraps after five loops: enough for the    *)
(* heartbeat timer to run out, be set again at every tick and be crossed   *)
(* by the wrap.                                                            *)
(***************************************************************************)
EXTENDS MasterFirmware

MCReports ==
    { [rf_detected |-> FALSE, freq_mhz |-> 0, ncc |-> 0, sds |-> 0],
      [rf_detected |-> TRUE, freq_mhz |-> 5780, ncc |-> 0, sds |-> 90],
      [rf_detected |-> TRUE, freq_mhz |-> 5780, ncc |-> 0, sds |-> 140] }
=============================================================================
