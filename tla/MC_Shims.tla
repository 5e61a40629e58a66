------------------------------ MODULE MC_Shims ------------------------------
(* Shims for TLC, where bindings.toml puts the shims in a directory of its own. *)
EXTENDS Shims

CustomDir == {[primary |-> "custom", fragment |-> Absent]}
=============================================================================
