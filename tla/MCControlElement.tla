-------------------------- MODULE MCControlElement --------------------------
(* Instances of ControlElement for TLC: protocol addresses are symmetric.  *)
EXTENDS ControlElement, TLC

Symmetry == Permutations(Protos)

=============================================================================
