----------------------------- MODULE MCVkExecutor -----------------------------
(* Instances of VkExecutor for TLC. *)
EXTENDS VkExecutor

===============================================================================
