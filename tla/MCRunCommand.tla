---------------------------- MODULE MCRunCommand ----------------------------
(* Instances of RunCommand for TLC: the sizes come from the cfg files. *)
EXTENDS RunCommand
=============================================================================
