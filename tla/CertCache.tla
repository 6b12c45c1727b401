----------------------------- MODULE CertCache -----------------------------
(***************************************************************************)
(* The certificates that braingler mints for its own SSH connections, and  *)
(* their cache: Manager.Dial (internal/sshx/manager.go) and SignUserCert   *)
(* (internal/sshca/sshca.go), called by the workers of the monitor and by  *)
(* the requests that shut a host down, while reloads change the lifetime   *)
(* of a certificate and the user that braingler logs in as.                *)
(*                                                                         *)
(* Time is counted in ticks, HalfSecond of which make half a second: half  *)
(* of a TTL, a number of seconds, is a number of ticks.                    *)
(*                                                                         *)
(* Abstracted: key material, the verification of the host's certificate,   *)
(* and what is done over the connection.  The CA is enabled; without it    *)
(* Dial uses a key file, and there is no certificate.                      *)
(***************************************************************************)
EXTENDS Integers

CONSTANTS
    Dials,          \* the goroutines that connect
    Names, Users,   \* the hosts and the users on them
    NoUser,         \* the user is not set
    Configs,        \* the configurations that the operator may write
    DefaultTTL,     \* seconds; stands for a maintenance TTL of 0 in the file
    SignerTTL,      \* seconds; stands for a TTL that SignUserCert does not accept
    HalfSecond,     \* ticks in half a second
    MaxTime,        \* bound: the last tick
    MaxDelay        \* bound: the ticks that a call may take

\* A host as a configuration has it, with its maintenance_user and ssh.user.
Host == [name : Names, user : Users \cup {NoUser}, ssh : Users \cup {NoUser}]
Config == [ttl : Int, user : Users \cup {NoUser}, hosts : SUBSET Host]

ASSUME ConfigsAssumption == Configs \subseteq Config
ASSUME NoUserAssumption == NoUser \notin Users
ASSUME TimeAssumption ==
    /\ HalfSecond \in Nat \ {0} /\ MaxTime \in Nat /\ MaxDelay \in Nat
    /\ DefaultTTL \in Nat \ {0} /\ SignerTTL \in Nat \ {0}

VARIABLES
    now,        \* the clock
    config,     \* what cfgPtr holds
    cache,      \* Manager.cache: the entry of each key, as a set of at most one
    call        \* each call of Dial: where it stands, and its locals

vars == <<now, config, cache, call>>

\* The host and the user that a certificate, or an entry of the cache, is for.
Keys == Names \X Users
Cert == [key : Keys, before : Int]
Entry == [cert : Cert, expires : Int]

\* `asked` is the local `now`, `ttl` the TTL that was loaded last.
Call ==
    [pc : {"idle"}]
        \cup [pc : {"look", "mint"}, key : Keys, asked : Nat]
        \cup [pc : {"decide"}, key : Keys, asked : Nat, found : Entry]
        \cup [pc : {"store", "connect"}, key : Keys, asked : Nat, ttl : Int, cert : Cert]

TypeOK ==
    /\ now \in Nat
    /\ config \in Configs
    /\ cache \in [Keys -> SUBSET Entry]
    /\ call \in [Dials -> Call]

Init ==
    /\ now = 0
    /\ config \in Configs
    /\ cache = [k \in Keys |-> {}]
    /\ call = [d \in Dials |-> [pc |-> "idle"]]

----------------------------------------------------------------------------
Second == 2 * HalfSecond

\* The ticks of half a TTL, and of a whole one.
Half(seconds) == seconds * HalfSecond
Ticks(seconds) == 2 * Half(seconds)

\* A certificate says in whole seconds until when it is valid.
Floor(t) == t - (t % Second)

\* The maintenance TTL as applyDefaults leaves it: only 0 is replaced.
MaintenanceTTL(c) == IF c.ttl = 0 THEN DefaultTTL ELSE c.ttl

\* Config.MaintenanceUser, on top of EffectiveSSH: the first that is set.
MaintenanceUser(c, h) ==
    IF h.user # NoUser THEN h.user ELSE IF h.ssh # NoUser THEN h.ssh ELSE c.user

\* The lifetime that SignUserCert gives a certificate.
Lifetime(seconds) == IF seconds <= 0 THEN SignerTTL ELSE seconds

\* SignUserCert, at this moment.
Signed(key, seconds) == [key |-> key, before |-> Floor(now + Ticks(Lifetime(seconds)))]

\* Mutant: the user is left out of the key.
SlotOfHost(key) == <<key[1], CHOOSE u \in Users : TRUE>>

\* The key of the cache: the host's name and the user.
Slot(key) == key

Become(d, r) == call' = [call EXCEPT ![d] = r]

----------------------------------------------------------------------------
(* Manager.Dial and maintenanceCertSigner.                                 *)

\* Dial is called, for a host of this configuration or of one that was in force
\* when the caller looked the host up.  Without a user it returns an error.
Resolve(d) ==
    /\ call[d].pc = "idle"
    /\ \E c \in Configs : \E h \in c.hosts :
           LET u == MaintenanceUser(config, h)
           IN  /\ u # NoUser
               /\ Become(d, [pc |-> "look", key |-> <<h.name, u>>, asked |-> now])
    /\ UNCHANGED <<now, config, cache>>

\* The cache is read under the lock.
Look(d) ==
    /\ call[d].pc = "look"
    /\ LET key == call[d].key
           asked == call[d].asked
       IN  \/ /\ cache[Slot(key)] = {}
              /\ Become(d, [pc |-> "mint", key |-> key, asked |-> asked])
           \/ \E e \in cache[Slot(key)] :
                  Become(d, [pc |-> "decide", key |-> key, asked |-> asked, found |-> e])
    /\ UNCHANGED <<now, config, cache>>

\* Mutant: an entry serves until it expires.
FreshToTheEnd(entry, asked, seconds) == asked < entry.expires

\* An entry serves while more than half of the TTL of this moment is left.
Fresh(entry, asked, seconds) == asked + Half(seconds) < entry.expires

\* The test is made without the lock, on a TTL loaded after it was released.
Decide(d) ==
    /\ call[d].pc = "decide"
    /\ LET r == call[d]
           seconds == MaintenanceTTL(config)
       IN  Become(d, IF Fresh(r.found, r.asked, seconds)
                     THEN [pc |-> "connect", key |-> r.key, asked |-> r.asked,
                           ttl |-> seconds, cert |-> r.found.cert]
                     ELSE [pc |-> "mint", key |-> r.key, asked |-> r.asked])
    /\ UNCHANGED <<now, config, cache>>

\* The TTL is loaded again.  SignUserCert or NewCertSigner may fail, and Dial with it.
Mint(d) ==
    /\ call[d].pc = "mint"
    /\ LET r == call[d]
           seconds == MaintenanceTTL(config)
       IN  \/ Become(d, [pc |-> "store", key |-> r.key, asked |-> r.asked,
                         ttl |-> seconds, cert |-> Signed(r.key, seconds)])
           \/ Become(d, [pc |-> "idle"])
    /\ UNCHANGED <<now, config, cache>>

\* The entry replaces, under the lock, whichever another call has stored meanwhile.
Store(d) ==
    /\ call[d].pc = "store"
    /\ LET r == call[d]
       IN  /\ cache' = [cache EXCEPT ![Slot(r.key)] =
                           {[cert |-> r.cert, expires |-> r.asked + Ticks(r.ttl)]}]
           /\ Become(d, [r EXCEPT !.pc = "connect"])
    /\ UNCHANGED <<now, config>>

\* dialWithSigner has connected and presented the certificate, or has failed.
Connected(d) ==
    /\ call[d].pc = "connect"
    /\ Become(d, [pc |-> "idle"])
    /\ UNCHANGED <<now, config, cache>>

----------------------------------------------------------------------------
StoreConfig ==
    /\ config' \in Configs
    /\ UNCHANGED <<now, cache, call>>

Tick ==
    /\ now < MaxTime
    /\ \A d \in Dials : call[d].pc # "idle" => now < call[d].asked + MaxDelay
    /\ now' = now + 1
    /\ UNCHANGED <<config, cache, call>>

DialStep(d) ==
    Resolve(d) \/ Look(d) \/ Decide(d) \/ Mint(d) \/ Store(d) \/ Connected(d)

Next == Tick \/ StoreConfig \/ \E d \in Dials : DialStep(d)

Spec == Init /\ [][Next]_vars

----------------------------------------------------------------------------
(* Properties.                                                             *)

Presenting(d) == call[d].pc \in {"store", "connect"}

\* The certificate that a call of Dial presents ends more than half of the TTL that the
\* call has gone by after the call began, but for the second that its end is rounded
\* down: whether it was minted or came from the cache, whatever other calls have stored
\* there, and whatever TTL was in force when it was minted.  Under a negative TTL this
\* says how long ago an expired one from the cache may have ended.  One that was just
\* minted is good for its whole lifetime (manager.go 117-150, sshca.go 112-135).
ValidWhenUsed ==
    \A d \in Dials :
        LET r == call[d]
        IN  /\ Presenting(d) => r.asked + Half(r.ttl) < r.cert.before + Second
            /\ r.pc = "store" => r.asked + Ticks(Lifetime(r.ttl)) < r.cert.before + Second

\* A call that logs in as one user of one host never presents a certificate that was
\* minted for another host or another user, though a reload may change the user while
\* the old user's certificate is in the cache (manager.go 91, 118, 131-133).
CertIsForUser == \A d \in Dials : Presenting(d) => call[d].cert.key = call[d].key

----------------------------------------------------------------------------
(* The inductive invariant.                                                *)

\* The entry does not expire later than its certificate, but for the rounding.
Honest(e, key) == e.cert.key = key /\ e.expires < e.cert.before + Second

\* Every entry is honest, in the cache and in the hands of a call, and so is the one
\* that a call is about to store; a certificate that was just minted has its lifetime
\* before it; a call began in the past (manager.go 117-150).
CertInv ==
    /\ \A k \in Keys : \A e \in cache[Slot(k)] : Honest(e, k)
    /\ \A d \in Dials :
           LET r == call[d]
           IN  /\ r.pc # "idle" => r.asked <= now
               /\ r.pc = "decide" => Honest(r.found, r.key)
               /\ r.pc = "store" =>
                      /\ r.asked + Ticks(r.ttl) < r.cert.before + Second
                      /\ r.asked + Ticks(Lifetime(r.ttl)) < r.cert.before + Second
               /\ Presenting(d) => /\ r.cert.key = r.key
                                   /\ r.asked + Half(r.ttl) < r.cert.before + Second

============================================================================
