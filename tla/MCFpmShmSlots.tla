------------------------------ MODULE MCFpmShmSlots ------------------------------
(* Instance of FpmShmSlots for TLC; no symmetry, as the run checks liveness. *)
EXTENDS FpmShmSlots

=============================================================================
