-------------------------------- MODULE MCCrew --------------------------------
(***************************************************************************)
(* An instance of Crew: two certifications on offer, for two vehicle types, *)
(* one that expires before the license and one after.                       *)
(***************************************************************************)
EXTENDS Crew

MCOffered == {[type |-> "compactor", until |-> 1], [type |-> "sweeper", until |-> 3]}

=============================================================================
