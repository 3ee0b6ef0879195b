----------------------------- MODULE MCFpmEvents -----------------------------
(* An instance of FpmEvents for TLC: as many fds as the children need, with  *)
(* two for the writing ends of the last, so that the numbers of closed pipes *)
(* are used again at once.                                                   *)
EXTENDS FpmEvents

MCFds == 1 .. (2 * pm_max_children + 2)
=============================================================================
