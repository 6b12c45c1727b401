---------------------------- MODULE MCCertCache ----------------------------
(***************************************************************************)
(* A small instance of CertCache: two calls on one host.  Reloads leave    *)
(* the TTL to its default, lower it to another one, or make it negative,   *)
(* and change the user that the host is logged in to as, or leave none.    *)
(***************************************************************************)
EXTENDS CertCache, TLC

CONSTANTS h, root, maint, d1, d2

Plain == [name |-> h, user |-> NoUser, ssh |-> NoUser]
Own == [name |-> h, user |-> maint, ssh |-> root]

Files ==
    {[ttl |-> 0, user |-> root, hosts |-> {Own}],
     [ttl |-> 3, user |-> root, hosts |-> {Plain}],
     [ttl |-> -4, user |-> NoUser, hosts |-> {Plain}]}

BothDials == {d1, d2}
DialSymmetry == Permutations(BothDials)

============================================================================
