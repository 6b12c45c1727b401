------------------------------ MODULE Requests ------------------------------
(***************************************************************************)
(* How the server decides on a request while SIGHUP replaces the           *)
(* configuration: the SIGHUP goroutine (main.go, internal/config), the     *)
(* authentication of a request (internal/server/middleware.go), the routes *)
(* that show a host, act on it or mint a certificate for it (handlers.go,  *)
(* api_actions.go, api_ssh_cert.go, ssh_cert_handlers.go), and the login   *)
(* (auth_handlers.go).                                                     *)
(*                                                                         *)
(* A handler loads the configuration anew at every question it asks, up to *)
(* a dozen times; a reload may fall between any two.                       *)
(*                                                                         *)
(* Abstracted: request bodies are well formed; a wake, a shutdown or a     *)
(* certificate is its outcome; a session cookie is the name it was issued  *)
(* for and has not expired.  The process is not being stopped.             *)
(***************************************************************************)
EXTENDS Policy, Naturals, Sequences

CONSTANTS
    Clients,    \* one request at a time each
    Calls,      \* the requests that a client may make
    Configs,    \* the configurations that config.Load accepts
    Invalid,    \* a file that config.Load refuses
    None        \* no cookie, no bearer token

\* The actions that a route asks permission for, in this order.
Needs ==
    [card        |-> <<"status">>,
     wake        |-> <<"wake">>,
     shutdown    |-> <<"shutdown">>,
     cert        |-> <<"ssh-cert">>,
     apiHost     |-> <<"status">>,
     apiWake     |-> <<"status", "wake">>,
     apiShutdown |-> <<"status", "shutdown">>,
     apiCert     |-> <<"status", "ssh-cert", "shutdown">>]

Api == {"apiHost", "apiWake", "apiShutdown", "apiCert"}
Looking == {"card", "apiHost"}
Minting == {"cert", "apiCert"}
Acting == {"wake", "shutdown", "apiWake", "apiShutdown"}

\* A call: its route ("login" or one of Needs), the host it names, the cookie and
\* the bearer token it carries; for a login, the user, and whether the password is right.
ASSUME CallsAssumption ==
    /\ Calls # {}
    /\ \A q \in Calls : /\ q.route \in DOMAIN Needs \cup {"login"}
                        /\ q.right \in BOOLEAN
ASSUME ConfigsAssumption ==
    \A c \in Configs : /\ Valid(c)
                       /\ c.auth \in BOOLEAN /\ c.ca \in BOOLEAN
                       /\ None \notin DOMAIN c.users \cup DOMAIN c.tokens
ASSUME InvalidAssumption == Invalid \notin Configs

VARIABLES
    file,       \* the configuration file
    hup,        \* a signal waits in hupCh, which holds one
    reloader,   \* the SIGHUP goroutine: "idle", "load" or "swap"
    next,       \* the configuration it has loaded; cfg again once it is dealt with
    cfg,        \* what config.Pointer holds
    boot,       \* what runServe started with: authenticator, CA and socket are made from it
    pc,         \* where each handler stands; "none": it does not run
    call,       \* the request
    who,        \* the principal of the request
    need,       \* the position in Needs of the permission in question
    reply,      \* the outcome
    logged,     \* the event log has an entry for the attempt
    seen        \* history: the configurations in force until the decision

reload == <<file, hup, reloader, next, cfg, boot>>
request == <<call, who, need, reply, logged>>
vars == <<reload, pc, request, seen>>

PC == {"none", "login", "verify", "gate", "bearer", "cookie", "find", "pins",
       "enabled", "grant", "attempt", "record", "done"}
Replies == {"none", "cookie", "home", "unauthorized", "disabled", "notFound",
            "forbidden", "shown", "sent", "failed"}

TypeOK ==
    /\ file \in Configs \cup {Invalid}
    /\ hup \in BOOLEAN
    /\ reloader \in {"idle", "load", "swap"}
    /\ next \in Configs /\ cfg \in Configs /\ boot \in Configs
    /\ pc \in [Clients -> PC]
    /\ call \in [Clients -> Calls]
    /\ DOMAIN who = Clients /\ \A r \in Clients : who[r].named \in BOOLEAN
    /\ need \in [Clients -> 1 .. 3]
    /\ reply \in [Clients -> Replies]
    /\ logged \in [Clients -> BOOLEAN]
    /\ seen \in [Clients -> SUBSET Configs]

\* The value of call while no request is there.
SomeCall == CHOOSE c \in Calls : TRUE

Init ==
    /\ boot \in Configs
    /\ cfg = boot /\ next = boot /\ file = boot
    /\ hup = FALSE
    /\ reloader = "idle"
    /\ pc = [r \in Clients |-> "none"]
    /\ call = [r \in Clients |-> SomeCall]
    /\ who = [r \in Clients |-> Nobody]
    /\ need = [r \in Clients |-> 1]
    /\ reply = [r \in Clients |-> "none"]
    /\ logged = [r \in Clients |-> FALSE]
    /\ seen = [r \in Clients |-> {}]

-----------------------------------------------------------------------------
(* The operator and the SIGHUP goroutine.                                  *)

Edit(f) ==
    /\ f # file
    /\ file' = f
    /\ UNCHANGED <<hup, reloader, next, cfg, boot, pc, request, seen>>

\* A signal that finds another one waiting is dropped.
Hangup ==
    /\ hup' = TRUE
    /\ UNCHANGED <<file, reloader, next, cfg, boot, pc, request, seen>>

TakeHangup ==
    /\ reloader = "idle"
    /\ hup
    /\ hup' = FALSE
    /\ reloader' = "load"
    /\ UNCHANGED <<file, next, cfg, boot, pc, request, seen>>

\* Mutant: the error of config.Load is not looked at.
LoadFileAnything ==
    /\ reloader = "load"
    /\ next' = file
    /\ reloader' = "swap"
    /\ UNCHANGED <<file, hup, cfg, boot, pc, request, seen>>

\* config.Load of whatever the file holds by now.
LoadFile ==
    /\ reloader = "load"
    /\ \/ /\ file = Invalid
          /\ reloader' = "idle"
          /\ UNCHANGED next
       \/ /\ file # Invalid
          /\ next' = file
          /\ reloader' = "swap"
    /\ UNCHANGED <<file, hup, cfg, boot, pc, request, seen>>

Deciding(r) == pc[r] \notin {"none", "attempt", "record", "done"}

\* Mutant: a signal that waits is discarded together with the one just served.
SwapDrains ==
    /\ reloader = "swap"
    /\ cfg' = IF ReloadCompatible(cfg, next) THEN next ELSE cfg
    /\ next' = cfg'
    /\ hup' = FALSE
    /\ reloader' = "idle"
    /\ seen' = [r \in Clients |-> IF Deciding(r) THEN seen[r] \cup {cfg'} ELSE seen[r]]
    /\ UNCHANGED <<file, boot, pc, request>>

\* The configuration is replaced, if it may be, under every handler.
Swap ==
    /\ reloader = "swap"
    /\ cfg' = IF ReloadCompatible(cfg, next) THEN next ELSE cfg
    /\ next' = cfg'
    /\ reloader' = "idle"
    /\ seen' = [r \in Clients |-> IF Deciding(r) THEN seen[r] \cup {cfg'} ELSE seen[r]]
    /\ UNCHANGED <<file, hup, boot, pc, request>>

-----------------------------------------------------------------------------
(* A request comes in and is authenticated.                                *)

Goto(r, l) == pc' = [pc EXCEPT ![r] = l]

Answer(r, a) ==
    /\ Goto(r, "done")
    /\ reply' = [reply EXCEPT ![r] = a]

Arrive(r, c) ==
    /\ pc[r] = "none"
    /\ Goto(r, IF c.route = "login" THEN "login" ELSE "gate")
    /\ call' = [call EXCEPT ![r] = c]
    /\ seen' = [seen EXCEPT ![r] = {cfg}]
    /\ UNCHANGED <<reload, who, need, reply, logged>>

\* requireAuth and requireAPIAuth let everyone in when auth is off.
Gate(r) ==
    /\ pc[r] = "gate"
    /\ Goto(r, IF ~cfg.auth THEN "find"
               ELSE IF call[r].route \in Api THEN "bearer" ELSE "cookie")
    /\ UNCHANGED <<reload, request, seen>>

\* resolveBearer
Bearer(r) ==
    /\ pc[r] = "bearer"
    /\ \/ /\ call[r].bearer \in DOMAIN cfg.tokens
          /\ who' = [who EXCEPT ![r] = Somebody(cfg.tokens[call[r].bearer])]
          /\ Goto(r, "find")
       \/ /\ call[r].bearer \notin DOMAIN cfg.tokens
          /\ Goto(r, "cookie")
          /\ UNCHANGED who
    /\ UNCHANGED <<reload, call, need, reply, logged, seen>>

\* The authenticator exists when auth was enabled at the start.
HasAuthenticator == boot.auth

\* resolveCookie: the cookie may outlive its user.
Cookie(r) ==
    /\ pc[r] = "cookie"
    /\ \/ /\ HasAuthenticator
          /\ call[r].cookie \in DOMAIN cfg.users
          /\ who' = [who EXCEPT ![r] = Somebody(cfg.users[call[r].cookie])]
          /\ Goto(r, "find")
          /\ UNCHANGED reply
       \/ /\ ~HasAuthenticator \/ call[r].cookie \notin DOMAIN cfg.users
          /\ Answer(r, "unauthorized")
          /\ UNCHANGED who
    /\ UNCHANGED <<reload, call, need, logged, seen>>

\* handleLoginPost
Login(r) ==
    /\ pc[r] = "login"
    /\ \/ /\ cfg.auth /\ HasAuthenticator
          /\ Goto(r, "verify")
          /\ UNCHANGED reply
       \/ /\ ~cfg.auth \/ ~HasAuthenticator
          /\ Answer(r, "home")
    /\ UNCHANGED <<reload, call, who, need, logged, seen>>

\* VerifyCredentials, and the cookie for the user it finds.
Verify(r) ==
    /\ pc[r] = "verify"
    /\ Answer(r, IF call[r].right /\ call[r].cookie \in DOMAIN cfg.users
                 THEN "cookie" ELSE "unauthorized")
    /\ UNCHANGED <<reload, call, who, need, logged, seen>>

-----------------------------------------------------------------------------
(* The decision: HostByName, then canDo for each permission needed.        *)

Action(r) == Needs[call[r].route][need[r]]

\* The user CA exists when ssh_ca was enabled at the start.
Find(r) ==
    /\ pc[r] = "find"
    /\ \/ /\ call[r].route \in Minting /\ ~boot.ca
          /\ Answer(r, "disabled")
       \/ /\ call[r].route \in Minting => boot.ca
          /\ call[r].host \notin cfg.hosts
          /\ Answer(r, "notFound")
       \/ /\ call[r].route \in Minting => boot.ca
          /\ call[r].host \in cfg.hosts
          /\ Goto(r, "pins")
          /\ UNCHANGED reply
    /\ UNCHANGED <<reload, call, who, need, logged, seen>>

\* Mutant: the API does not hide a host that its caller may not see.
DenyOpenly(r) ==
    /\ Answer(r, IF call[r].route \in Api THEN "forbidden" ELSE "notFound")
    /\ UNCHANGED need

\* canDo said no: the API tells a host it may not act on from one it may not see.
Deny(r) ==
    /\ Answer(r, IF call[r].route \in Api /\ need[r] > 1 THEN "forbidden" ELSE "notFound")
    /\ UNCHANGED need

\* Mutant: the last permission is not asked for.
GrantedEarly(r) ==
    \/ /\ need[r] < Len(Needs[call[r].route]) - 1
       /\ need' = [need EXCEPT ![r] = @ + 1]
       /\ Goto(r, "pins")
       /\ UNCHANGED reply
    \/ /\ need[r] >= Len(Needs[call[r].route]) - 1
       /\ IF call[r].route \in Looking THEN Answer(r, "shown")
                                       ELSE Goto(r, "attempt") /\ UNCHANGED reply
       /\ UNCHANGED need

\* canDo said yes: the next permission, or the deed.
Granted(r) ==
    \/ /\ need[r] < Len(Needs[call[r].route])
       /\ need' = [need EXCEPT ![r] = @ + 1]
       /\ Goto(r, "pins")
       /\ UNCHANGED reply
    \/ /\ need[r] = Len(Needs[call[r].route])
       /\ IF call[r].route \in Looking THEN Answer(r, "shown")
                                       ELSE Goto(r, "attempt") /\ UNCHANGED reply
       /\ UNCHANGED need

\* canDo, first load: the host's own pins.
Pins(r) ==
    /\ pc[r] = "pins"
    /\ \/ /\ HostActionForbidden(cfg, call[r].host, Action(r))
          /\ Deny(r)
       \/ /\ ~HostActionForbidden(cfg, call[r].host, Action(r))
          /\ Goto(r, "enabled")
          /\ UNCHANGED <<need, reply>>
    /\ UNCHANGED <<reload, call, who, logged, seen>>

\* canDo, second load: is authentication on?
Enabled(r) ==
    /\ pc[r] = "enabled"
    /\ \/ /\ ~cfg.auth
          /\ Granted(r)
       \/ /\ cfg.auth /\ ~who[r].named
          /\ Deny(r)
       \/ /\ cfg.auth /\ who[r].named
          /\ Goto(r, "grant")
          /\ UNCHANGED <<need, reply>>
    /\ UNCHANGED <<reload, call, who, logged, seen>>

\* canDo, third load: PrincipalCan.
Grant(r) ==
    /\ pc[r] = "grant"
    /\ \/ /\ PrincipalCan(cfg, who[r], call[r].host, Action(r))
          /\ Granted(r)
       \/ /\ ~PrincipalCan(cfg, who[r], call[r].host, Action(r))
          /\ Deny(r)
    /\ UNCHANGED <<reload, call, who, logged, seen>>

-----------------------------------------------------------------------------
(* The deed.                                                               *)

\* The wake packet, the remote shutdown or the signature succeeds or fails.  The API
\* goes on to record a wake or a shutdown; the browser's handlers do not.
Attempt(r) ==
    /\ pc[r] = "attempt"
    /\ reply' \in {[reply EXCEPT ![r] = a] : a \in {"sent", "failed"}}
    /\ Goto(r, IF call[r].route \in Api \cap Acting THEN "record" ELSE "done")
    /\ UNCHANGED <<reload, call, who, need, logged, seen>>

\* recordEvent, before the response is written.
Record(r) ==
    /\ pc[r] = "record"
    /\ logged' = [logged EXCEPT ![r] = TRUE]
    /\ Goto(r, "done")
    /\ UNCHANGED <<reload, call, who, need, reply, seen>>

\* The response is out; what the handler knew goes out of scope.
Return(r) ==
    /\ pc[r] = "done"
    /\ Goto(r, "none")
    /\ call' = [call EXCEPT ![r] = SomeCall]
    /\ who' = [who EXCEPT ![r] = Nobody]
    /\ need' = [need EXCEPT ![r] = 1]
    /\ reply' = [reply EXCEPT ![r] = "none"]
    /\ logged' = [logged EXCEPT ![r] = FALSE]
    /\ seen' = [seen EXCEPT ![r] = {}]
    /\ UNCHANGED reload

-----------------------------------------------------------------------------
Reloader == TakeHangup \/ LoadFile \/ Swap

\* The steps of a handler but for the deed.
Handler(r) ==
    \/ Gate(r) \/ Bearer(r) \/ Cookie(r) \/ Login(r) \/ Verify(r)
    \/ Find(r) \/ Pins(r) \/ Enabled(r) \/ Grant(r) \/ Record(r) \/ Return(r)

Next ==
    \/ \E f \in Configs \cup {Invalid} : Edit(f)
    \/ Hangup
    \/ Reloader
    \/ \E r \in Clients :
           \/ \E c \in Calls : Arrive(r, c)
           \/ Handler(r)
           \/ Attempt(r)

Spec == Init /\ [][Next]_vars

\* The goroutine of SIGHUP computes, reads a file, and waits for signals only.
Fairness == WF_vars(Reloader)

FairSpec == Spec /\ Fairness

-----------------------------------------------------------------------------
(* Properties.                                                             *)

\* Whom the token, and whom the cookie, of a request names in c: nobody or one.
TokenOf(c, q) ==
    {Somebody(c.tokens[t]) : t \in {b \in DOMAIN c.tokens : b = q.bearer /\ q.route \in Api}}
UserOf(c, q) ==
    {Somebody(c.users[u]) : u \in {v \in DOMAIN c.users : v = q.cookie /\ boot.auth}}

\* Who a request is under c.
CallerOf(c, q) ==
    IF ~c.auth THEN {Nobody} ELSE IF TokenOf(c, q) # {} THEN TokenOf(c, q) ELSE UserOf(c, q)

Unpinned(c, q) == \A i \in DOMAIN Needs[q.route] :
                      ~HostActionForbidden(c, q.host, Needs[q.route][i])

Entitled(c, p, q, i) == c.auth => p.named /\ GroupsCan(c, p.groups, q.host, Needs[q.route][i])

\* What one configuration, by itself, says of a request.
Allowed(c, q) ==
    /\ q.host \in c.hosts
    /\ Unpinned(c, q)
    /\ \E p \in CallerOf(c, q) : \A i \in DOMAIN Needs[q.route] : Entitled(c, p, q, i)

Visible(c, q) == q.host \in c.hosts /\ \E p \in CallerOf(c, q) : Entitled(c, p, q, 1)

Asks(r) == call[r].route # "login"
Success == {"shown", "sent", "failed"}

\* The answer that c prescribes: all the permissions of the route and no pin for a
\* success, 404 for a host that the API's caller may not see, 403 for one it may only
\* see, 401 for a stranger.
Prescribed(r, c) ==
    LET q == call[r]
    IN  /\ reply[r] = "unauthorized" <=> CallerOf(c, q) = {}
        /\ reply[r] # "disabled" => (reply[r] \in Success <=> Allowed(c, q))
        /\ reply[r] = "forbidden" => q.route \in Api /\ Visible(c, q)
        /\ reply[r] = "notFound" /\ q.route \in Api => ~Visible(c, q)

\* A request that no reload disturbs gets the answer its configuration prescribes,
\* and the event log has what the API attempted, and nothing else (middleware.go
\* 27-100, api_actions.go 30-106, server.go 199-214).
QuietReply ==
    \A r \in Clients : \A c \in Configs :
        pc[r] = "done" /\ Asks(r) /\ seen[r] = {c} =>
            /\ Prescribed(r, c)
            /\ logged[r] <=> call[r].route \in Api \cap Acting /\ reply[r] \in {"sent", "failed"}

\* One configuration identified the caller, or let everyone in.
Identified(r) ==
    \E c \in seen[r] : \/ ~c.auth /\ who[r] = Nobody
                      \/ who[r] \in TokenOf(c, call[r]) \cup UserOf(c, call[r])

\* Permission i of the route was unpinned in one configuration, and granted to the
\* caller in one.
PieceGranted(r, i) ==
    /\ \E c \in seen[r] : ~HostActionForbidden(c, call[r].host, Needs[call[r].route][i])
    /\ \E c \in seen[r] : Entitled(c, who[r], call[r], i)

\* Whatever reloads fall into a request, what it does was granted piece by piece: a
\* configuration in force during the request knew the host, one identified the
\* caller, and each permission of the route was unpinned in one and granted to that
\* caller in one (server.go 199-214, middleware.go 64-100).
RightsNeverInvented ==
    \A r \in Clients : pc[r] \in {"attempt", "record"} =>
        /\ \E c \in seen[r] : call[r].host \in c.hosts
        /\ Identified(r)
        /\ \A i \in DOMAIN Needs[call[r].route] : PieceGranted(r, i)

\* The live configuration never disagrees with the sockets and the keys that the
\* process was started with, however many reloads have been applied (pointer.go
\* 28-54, main.go 156-173).
RestartOnlyFieldsHold ==
    /\ cfg.listen = boot.listen
    /\ cfg.ca = boot.ca /\ cfg.key = boot.key /\ cfg.hostKey = boot.hostKey

\* Signals coalesce, yet the last edit that a signal followed comes into force, if it
\* may: no edit is lost because its signal was dropped, or arrived while the file
\* was being read (main.go 156-178).
ReloadTakesEffect ==
    \A f \in Configs :
        [](hup /\ ReloadCompatible(boot, f) /\ [](file = f) => <>[](cfg = f))

-----------------------------------------------------------------------------
(* The inductive invariant.                                                *)

\* A handler on its way to a decision works on the configurations in force: the
\* current one is among them, and what it has found out so far each held in one.
DecisionSound(r) ==
    /\ Deciding(r) => cfg \in seen[r]
    /\ pc[r] \in PC \ {"none", "login", "verify", "done"} =>
           call[r].route \in DOMAIN Needs /\ need[r] \in DOMAIN Needs[call[r].route]
    /\ pc[r] \in {"none", "gate", "bearer", "cookie"} => who[r] = Nobody
    /\ pc[r] = "bearer" => call[r].route \in Api
    /\ pc[r] \in {"none", "gate", "bearer", "cookie", "find"} => need[r] = 1
    /\ pc[r] \in {"find", "pins", "enabled", "grant", "attempt", "record"} => Identified(r)
    /\ pc[r] \in {"pins", "enabled", "grant", "attempt", "record"} =>
           \E c \in seen[r] : call[r].host \in c.hosts
    /\ pc[r] \in {"pins", "enabled", "grant"} =>
           \A i \in 1 .. need[r] - 1 : PieceGranted(r, i)
    /\ pc[r] \in {"enabled", "grant"} =>
           \E c \in seen[r] : ~HostActionForbidden(c, call[r].host, Action(r))
    /\ pc[r] = "grant" => who[r].named
    /\ pc[r] \in {"attempt", "record"} =>
           \A i \in DOMAIN Needs[call[r].route] : PieceGranted(r, i)

\* Every handler decides on what some configuration in force said (middleware.go
\* 64-100, server.go 199-214, api_actions.go 30-106).
DecisionInv == \A r \in Clients : DecisionSound(r)

\* The first n permissions of the route are granted by c.
Passed(r, c, n) ==
    \A i \in 1 .. n : /\ ~HostActionForbidden(c, call[r].host, Needs[call[r].route][i])
                      /\ Entitled(c, who[r], call[r], i)

\* What a request has found out is what c, the only configuration it saw, says.
QuietSound(r, c) ==
    /\ pc[r] \in {"bearer", "cookie", "grant"} => c.auth
    /\ pc[r] = "cookie" => TokenOf(c, call[r]) = {}
    /\ pc[r] \in {"find", "pins", "enabled", "grant", "attempt", "record"} =>
           CallerOf(c, call[r]) = {who[r]}
    /\ pc[r] \in {"pins", "enabled", "grant", "attempt", "record"} => call[r].host \in c.hosts
    /\ pc[r] \in {"pins", "enabled", "grant"} => Passed(r, c, need[r] - 1)
    /\ pc[r] \in {"enabled", "grant"} => ~HostActionForbidden(c, call[r].host, Action(r))
    /\ pc[r] \in {"attempt", "record"} => Passed(r, c, Len(Needs[call[r].route]))
    /\ pc[r] = "done" => Prescribed(r, c)

\* Where the outcome of a request stands.
Pending(r) ==
    /\ pc[r] \in {"login", "verify"} => ~Asks(r)
    /\ pc[r] \notin {"record", "done"} => reply[r] = "none"
    /\ pc[r] # "done" => ~logged[r]
    /\ pc[r] = "record" => call[r].route \in Api \cap Acting /\ reply[r] \in {"sent", "failed"}
    /\ pc[r] = "done" /\ Asks(r) =>
           (logged[r] <=> call[r].route \in Api \cap Acting /\ reply[r] \in {"sent", "failed"})

\* A request that no reload disturbs finds out what its one configuration says
\* (middleware.go 27-100, api_actions.go 30-106, server.go 199-214).
QuietInv ==
    \A r \in Clients :
        /\ Pending(r)
        /\ \A c \in Configs : Asks(r) /\ seen[r] = {c} => QuietSound(r, c)

-----------------------------------------------------------------------------
(* What comments of the code claim, and the code does not do.              *)

\* pointer.go 28-29: a compatible configuration "can replace prev without a full
\* process restart": where it enables authentication, its users can log in.
UsersCanLogIn ==
    \A r \in Clients :
        /\ pc[r] = "done" /\ call[r].route = "login" /\ call[r].right
        /\ \A c \in seen[r] : c.auth /\ call[r].cookie \in DOMAIN c.users
        => reply[r] = "cookie"

=============================================================================
