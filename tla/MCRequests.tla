---------------------------- MODULE MCRequests ----------------------------
(***************************************************************************)
(* Small instances of Requests: one request at a time, one host, and       *)
(* configurations that differ in authentication, in the rights of the      *)
(* user and of the token, in pins, hosts and restart-only fields.          *)
(***************************************************************************)
EXTENDS Requests, TLC

CONSTANTS h, u, t, client

Roles == [ops  |-> [hosts |-> {Wildcard}, actions |-> {Wildcard}],
          view |-> [hosts |-> {h}, actions |-> {"status", "ssh-cert"}],
          mint |-> [hosts |-> {h}, actions |-> {"ssh-cert"}]]

\* The user may do everything, the token may look and ask for certificates.
Base == [hosts |-> {h}, pins |-> h :> {}, auth |-> TRUE,
         users |-> u :> {"ops"}, tokens |-> t :> {"view"}, groups |-> Roles,
         listen |-> "tcp", ca |-> TRUE, key |-> "k", hostKey |-> ""]

\* The user may not even look, the token may do everything; the host is pinned.
Swapped == [Base EXCEPT !.users = u :> {"mint"}, !.tokens = t :> {"ops"},
                        !.pins = h :> {"shutdown"}]

\* No authentication, and the host pinned.
Open == [Base EXCEPT !.auth = FALSE, !.pins = h :> {"wake", "shutdown"}]

\* No authentication, no host, no user and no token.
Shrunk == [Base EXCEPT !.auth = FALSE, !.hosts = {}, !.pins = <<>>,
                       !.users = <<>>, !.tokens = <<>>]

\* The certificate authority is off, which only a restart can change.
NoCA == [Base EXCEPT !.auth = FALSE, !.ca = FALSE, !.pins = h :> {"wake"}]

Reloads == {Base, Swapped, Shrunk, NoCA}
AuthReloads == {Base, Open}

Request(route, cookie, bearer) ==
    [route |-> route, host |-> h, cookie |-> cookie, bearer |-> bearer, right |-> TRUE]

Requested ==
    {Request("card", None, None), Request("shutdown", u, None),
     Request("apiShutdown", u, t), Request("apiCert", u, None), Request("cert", u, None),
     Request("login", u, None)}

ByUser == {Request("shutdown", u, None), Request("login", u, None)}

===========================================================================
