-------------------------- MODULE MCServiceRegistry --------------------------
(***************************************************************************)
(* Instances of ServiceRegistry for TLC.  Service ids are interchangeable  *)
(* in every definition of ServiceRegistry, and so are reader threads.      *)
(***************************************************************************)
EXTENDS ServiceRegistry, TLC

Symmetry == Permutations(ServiceId) \cup Permutations(Reader)
=============================================================================
