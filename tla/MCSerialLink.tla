---------------------------- MODULE MCSerialLink ----------------------------
(***************************************************************************)
(* SerialLink with the control thread, which also starts the link, a scan  *)
(* thread that only sends, and up to three ports alive at once.            *)
(***************************************************************************)
EXTENDS SerialLink, TLC

CONSTANTS port1, port2, port3

PortSymmetry == Permutations({port1, port2, port3})
=============================================================================
