------------------------- MODULE MC_TenantManager -------------------------
(* Small instance of TenantManager for TLC: the constants are fixed in the  *)
(* .cfg files; the instances differ only in NestedLock and the bounds.      *)
EXTENDS TenantManager
=============================================================================
