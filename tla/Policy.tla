------------------------------- MODULE Policy -------------------------------
(***************************************************************************)
(* What a configuration permits (internal/config/config.go), and which     *)
(* configuration may replace which without a restart                       *)
(* (internal/config/pointer.go).  Pure operators on a configuration c:     *)
(*                                                                         *)
(*   hosts, pins     the configured hosts; the actions that each forbids   *)
(*   auth            auth.enabled                                          *)
(*   users, tokens   the groups of each user and of each API token         *)
(*   groups          the hosts and the actions of each group               *)
(*   listen, ca, key, hostKey   the fields that only a restart can change  *)
(*                                                                         *)
(* Abstracted: names and hashes are values; the order of lists, since names*)
(* are unique; the settings that no decision depends on.                   *)
(***************************************************************************)

Wildcard == "*"

\* The identity of a request: Nobody, or someone with groups.
Nobody == [named |-> FALSE, groups |-> {}]
Somebody(gs) == [named |-> TRUE, groups |-> gs]

\* The host's own flags no_wake and no_shutdown.
HostActionForbidden(c, h, a) ==
    /\ h \in c.hosts
    /\ a \in {"wake", "shutdown"}
    /\ a \in c.pins[h]

\* A group that the configuration no longer has grants nothing.
GroupsCan(c, gs, h, a) ==
    \E g \in gs \cap DOMAIN c.groups :
        /\ c.groups[g].hosts \cap {h, Wildcard} # {}
        /\ c.groups[g].actions \cap {a, Wildcard} # {}

PrincipalCan(c, p, h, a) ==
    /\ ~HostActionForbidden(c, h, a)
    /\ c.auth => GroupsCan(c, p.groups, h, a)

UserCan(c, u, h, a) ==
    /\ ~HostActionForbidden(c, h, a)
    /\ c.auth => u \in DOMAIN c.users /\ GroupsCan(c, c.users[u], h, a)

VisibleHosts(c, p) == {h \in c.hosts : PrincipalCan(c, p, h, "status")}

\* Mutant: turning the certificate authority on counts as compatible.
ReloadCompatibleAnyCA(prev, next) ==
    /\ prev.listen = next.listen
    /\ prev.key = next.key
    /\ prev.hostKey = next.hostKey

ReloadCompatible(prev, next) ==
    /\ prev.listen = next.listen
    /\ prev.ca = next.ca
    /\ prev.key = next.key
    /\ prev.hostKey = next.hostKey

\* What Load requires of the parts above.
Valid(c) ==
    /\ c.ca => c.key # ""
    /\ c.auth =>
        /\ DOMAIN c.users \cup DOMAIN c.tokens # {}
        /\ \A u \in DOMAIN c.users : c.users[u] \subseteq DOMAIN c.groups
        /\ \A t \in DOMAIN c.tokens :
               c.tokens[t] # {} /\ c.tokens[t] \subseteq DOMAIN c.groups
        /\ \A g \in DOMAIN c.groups :
               /\ c.groups[g].hosts \subseteq c.hosts \cup {Wildcard}
               /\ c.groups[g].actions \subseteq
                      {"status", "wake", "shutdown", "ssh-cert", "ca-bootstrap", Wildcard}

=============================================================================
