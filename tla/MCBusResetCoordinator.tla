----------------------- MODULE MCBusResetCoordinator -----------------------
(* Model of BusResetCoordinator for TLC. *)
EXTENDS BusResetCoordinator

=============================================================================
