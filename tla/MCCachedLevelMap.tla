--------------------------- MODULE MCCachedLevelMap ---------------------------
(***************************************************************************)
(* CachedLevelMap with three keys and two values.                          *)
(***************************************************************************)
EXTENDS CachedLevelMap

===============================================================================
