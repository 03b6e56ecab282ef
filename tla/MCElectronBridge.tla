-------------------------- MODULE MCElectronBridge ---------------------------
(***************************************************************************)
(* ElectronBridge for TLC.  Namespaces and webContents are only compared,  *)
(* and every property is an invariant: states that differ in their names   *)
(* alone are checked once.                                                 *)
(***************************************************************************)
EXTENDS ElectronBridge, TLC

Symmetry == Permutations(Namespaces) \cup Permutations(Contents)
=============================================================================
