------------------------------ MODULE MCFpmRequest ------------------------------
(* Instances of FpmRequest for TLC; the cfgs choose the timeouts, what      *)
(* clients and scripts may do, and the bounds on the clock.                 *)
EXTENDS FpmRequest

=============================================================================
