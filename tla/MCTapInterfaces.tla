-------------------------- MODULE MCTapInterfaces --------------------------
(* TapInterfaces on small instances: ports are model values.               *)
EXTENDS TapInterfaces

=============================================================================
