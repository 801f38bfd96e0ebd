----------------------------- MODULE MCHubControl -----------------------------
(***************************************************************************)
(* HubControl with two scan threads and one or two calibrations alive at   *)
(* once, and the master's messages numbered modulo two.                    *)
(***************************************************************************)
EXTENDS HubControl

CONSTANTS scan1, scan2, work1, work2
=============================================================================
