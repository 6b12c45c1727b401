---------------------------- MODULE MCEventPages ---------------------------
(***************************************************************************)
(* A small instance of EventPages: an agent that sees one of two hosts, a  *)
(* log of two events, pages of one or two, and a restart.                  *)
(***************************************************************************)
EXTENDS EventPages, TLC

CONSTANTS h1, h2, agent

SeesOne == agent :> {h1}

============================================================================
