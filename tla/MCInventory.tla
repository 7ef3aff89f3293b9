------------------------------ MODULE MCInventory ------------------------------
(* The instance of Inventory for TLC; the values are in the .cfg file.        *)
EXTENDS Inventory
=============================================================================
