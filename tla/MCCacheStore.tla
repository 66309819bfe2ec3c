--------------------------- MODULE MCCacheStore ---------------------------
(***************************************************************************)
(* Small instances of CacheStore.                                          *)
(***************************************************************************)
EXTENDS CacheStore, TLC

KeySymmetry == Permutations(Keys)
===========================================================================
