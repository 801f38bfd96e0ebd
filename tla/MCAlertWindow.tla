---------------------------- MODULE MCAlertWindow ----------------------------
(***************************************************************************)
(* AlertWindow with the constants of hal_entry.c.  SDS is in hundredths,   *)
(* NCC in thousandths.  The frequencies are 60 MHz apart, so that the      *)
(* outer two agree with the middle one and not with each other.            *)
(***************************************************************************)
EXTENDS AlertWindow

Rf(freq, ncc, sds) ==
    [rf_detected |-> TRUE, freq_mhz |-> freq, ncc |-> ncc, sds |-> sds]

MCReports ==
    { [rf_detected |-> FALSE, freq_mhz |-> 5780, ncc |-> 0, sds |-> 110],
      Rf(5780, 0, 84),      \* below weak
      Rf(5780, 0, 85),      \* weak
      Rf(5720, 0, 100),     \* medium, one side
      Rf(5840, 0, 100),     \* medium, the other side
      Rf(0, 0, 100),        \* medium, frequency unknown
      Rf(5780, 50, 84) }    \* strong by NCC alone
=============================================================================
