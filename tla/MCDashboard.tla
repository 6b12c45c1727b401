---------------------------- MODULE MCDashboard ----------------------------
(***************************************************************************)
(* A small instance of Dashboard: one browser, two hosts, and reloads that *)
(* reorder the hosts, drop one of them, or hide one from the principal.    *)
(***************************************************************************)
EXTENDS Dashboard, TLC

CONSTANTS a, b, viewer

Reloads == {[hosts |-> <<a, b>>, sees |-> {a, b}],
            [hosts |-> <<b, a>>, sees |-> {a, b}],
            [hosts |-> <<b>>, sees |-> {a, b}],
            [hosts |-> <<a, b>>, sees |-> {a}]}

============================================================================
