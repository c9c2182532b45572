---------------------------- MODULE MCNeatoScan ----------------------------
(* A run of NeatoScan takes its constants from the configuration.          *)
EXTENDS NeatoScan
=============================================================================
