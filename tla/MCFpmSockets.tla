----------------------------- MODULE MCFpmSockets -----------------------------
(* Instances of FpmSockets for TLC: pools that appear, disappear and share  *)
(* an address from one configuration to the next.                           *)
EXTENDS FpmSockets, TLC

CONSTANTS m1, m2, inet, unix, comma, s1, s2, s3, s4, s5

MCConfig == 
  {<<unix, inet>>, <<unix, unix>>, <<inet>>, <<comma, unix>>,
   <<inet, unix, comma>>}

MCSymmetry == Permutations(Master) \cup Permutations(Sock)
===============================================================================
