---------------------------- MODULE MCXrayService ----------------------------
(***************************************************************************)
(* XrayService for TLC.  Threads, process slots and clients are            *)
(* interchangeable: nothing in the specification tells two of them apart.  *)
(* The symmetry is used by the runs that check no liveness.                *)
(***************************************************************************)
EXTENDS XrayService, TLC

Symmetry ==
    Permutations(Thread) \cup Permutations(Proc) \cup Permutations(Client)
==============================================================================
