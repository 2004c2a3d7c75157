----------------------------- MODULE MCXlapLink -----------------------------
(***************************************************************************)
(* Model values and symmetry for the runs of XlapLink.                     *)
(***************************************************************************)
EXTENDS XlapDelivery, TLC

Symmetry == Permutations(Conn)
=============================================================================
