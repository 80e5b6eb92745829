--------------------------- MODULE MCRcpRecovery ---------------------------
(* Power-up with any RCP and any pair of files of which one is a complete  *)
(* image of a version that boots; nothing is downloaded, and so the        *)
(* OpenThread task alone calls the update API.  A file that ends between   *)
(* its version and its firmware is left to the run MCRcpTorn.cfg.          *)
EXTENDS RcpUpdate

Recoverable == WayBack /\ \A s \in 0..1 : file[s].part # "header"

RecoveryInit == UpdateInitState /\ Recoverable

RecoverySpec == RecoveryInit /\ [][UpdateNext]_vars /\ WF_vars(MainStep)
=============================================================================
