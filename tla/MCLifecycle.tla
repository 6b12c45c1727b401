---------------------------- MODULE MCLifecycle ----------------------------
(***************************************************************************)
(* A small instance of Lifecycle: two servers and a tool.                  *)
(***************************************************************************)
EXTENDS Lifecycle

CONSTANTS s1, s2, tool, k1, k2

============================================================================
