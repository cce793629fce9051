------------------------------ MODULE MCCarpool ------------------------------
(***************************************************************************)
(* Small instances of Carpool for TLC.                                     *)
(***************************************************************************)
EXTENDS CarpoolMoney, CarpoolEscrow

CONSTANTS own, rid, drv, oth      \* owner, rider, driver, a second rider

NoContract == {}

=============================================================================
