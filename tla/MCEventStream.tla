--------------------------- MODULE MCEventStream ---------------------------
(***************************************************************************)
(* A small instance of EventStream: one agent that sees one of two hosts,  *)
(* a log of three events, a channel of two and a replay of at most two,    *)
(* all of which overflow within the bound on the number of events.         *)
(***************************************************************************)
EXTENDS EventStream, TLC

CONSTANTS h1, h2, agent

SeesOne == agent :> {h1}

============================================================================
