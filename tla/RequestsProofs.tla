--------------------------- MODULE RequestsProofs ---------------------------
(***************************************************************************)
(* Proofs about Requests, for any clients, calls and configurations that   *)
(* config.Load accepts.                                                    *)
(***************************************************************************)
EXTENDS Requests, TLAPS

(***************************************************************************)
(* What only a restart can change.                                         *)
(***************************************************************************)

\* However many reloads are applied, the live configuration agrees with the one of
\* the start in the fields that only a restart can change (pointer.go 28-54).
THEOREM RestartOnly == Spec => []RestartOnlyFieldsHold
<1>1. Init => RestartOnlyFieldsHold
  BY DEF Init, RestartOnlyFieldsHold
<1>2. RestartOnlyFieldsHold /\ [Next]_vars => RestartOnlyFieldsHold'
  <2> SUFFICES ASSUME RestartOnlyFieldsHold, [Next]_vars PROVE RestartOnlyFieldsHold'
    OBVIOUS
  <2>1. boot' = boot
    BY DEF Next, Reloader, Handler, vars, reload, Edit, Hangup, TakeHangup, LoadFile, Swap,
           Arrive, Gate, Bearer, Cookie, Login, Verify, Find, Pins, Enabled, Grant, Record,
           Return, Attempt
  <2>2. CASE Swap
    BY <2>1, <2>2 DEF Swap, ReloadCompatible, RestartOnlyFieldsHold
  <2>3. CASE ~Swap
    <3>1. cfg' = cfg
      BY <2>3 DEF Next, Reloader, Handler, vars, reload, Edit, Hangup, TakeHangup, LoadFile,
                  Arrive, Gate, Bearer, Cookie, Login, Verify, Find, Pins, Enabled, Grant,
                  Record, Return, Attempt
    <3>2. QED
      BY <2>1, <3>1 DEF RestartOnlyFieldsHold
  <2>4. QED
    BY <2>2, <2>3
<1>3. QED
  BY <1>1, <1>2, PTL DEF Spec

(***************************************************************************)
(* Facts about the operators the model is built from.                      *)
(***************************************************************************)

\* Every route needs one to three permissions.
LEMMA NeedsShape ==
    ASSUME NEW n \in DOMAIN Needs
    PROVE  /\ DOMAIN Needs[n] = 1 .. Len(Needs[n])
           /\ Len(Needs[n]) \in 1 .. 3
  BY DEF Needs

\* The permission that follows one that is not the last is one of the route's.
LEMMA NextNeeded ==
    ASSUME NEW l \in 1 .. 3, NEW i \in 1 .. l, i < l
    PROVE  i + 1 \in 1 .. l /\ i + 1 \in 1 .. 3
  OBVIOUS

\* A principal that may act is entitled, or authentication is off.
LEMMA CanIsEntitled ==
    ASSUME NEW c, NEW p, NEW q, NEW i,
           ~c.auth \/ (p.named /\ PrincipalCan(c, p, q.host, Needs[q.route][i]))
    PROVE  Entitled(c, p, q, i)
  BY DEF Entitled, PrincipalCan

\* What a request has found out stays found out while it keeps its identity.
LEMMA Kept ==
    ASSUME NEW r \in Clients, boot' = boot, call'[r] = call[r], who'[r] = who[r],
           seen[r] \subseteq seen'[r]
    PROVE  /\ Identified(r) => Identified(r)'
           /\ \A i : PieceGranted(r, i) => PieceGranted(r, i)'
           /\ (\E c \in seen[r] : call[r].host \in c.hosts)
                  => \E c \in seen'[r] : call'[r].host \in c.hosts
<1>1. Identified(r) => Identified(r)'
  BY DEF Identified, TokenOf, UserOf
<1>2. ASSUME NEW i, PieceGranted(r, i) PROVE PieceGranted(r, i)'
  BY <1>2 DEF PieceGranted, Entitled
<1>3. QED
  BY <1>1, <1>2

\* A request that does not move stays sound, whatever happens around it.
LEMMA Undisturbed ==
    ASSUME NEW r \in Clients, DecisionSound(r), boot' = boot, pc'[r] = pc[r],
           call'[r] = call[r], who'[r] = who[r], need'[r] = need[r],
           seen[r] \subseteq seen'[r], Deciding(r) => cfg' \in seen'[r]
    PROVE  DecisionSound(r)'
<1>1. /\ Identified(r) => Identified(r)'
      /\ \A i : PieceGranted(r, i) => PieceGranted(r, i)'
      /\ (\E c \in seen[r] : call[r].host \in c.hosts)
             => \E c \in seen'[r] : call'[r].host \in c.hosts
  BY Kept
<1>2. (\E c \in seen[r] : ~HostActionForbidden(c, call[r].host, Action(r)))
          => (\E c \in seen[r] : ~HostActionForbidden(c, call[r].host, Action(r)))'
  BY DEF Action
<1>3. Deciding(r)' <=> Deciding(r)
  BY DEF Deciding
<1>4. QED
  BY <1>1, <1>2, <1>3 DEF DecisionSound

\* A configuration that is current when a permission is granted makes the grant of
\* that permission part of the story.
LEMMA GrantedSound ==
    ASSUME TypeOK, NEW r \in Clients, DecisionSound(r), pc[r] \in {"enabled", "grant"},
           Entitled(cfg, who[r], call[r], need[r]), Granted(r),
           UNCHANGED <<reload, call, who, logged, seen>>
    PROVE  DecisionSound(r)' /\ need' \in [Clients -> 1 .. 3]
<1> DEFINE n == Needs[call[r].route]
<1>1. /\ call[r].route \in DOMAIN Needs
      /\ DOMAIN n = 1 .. Len(n)
      /\ Len(n) \in 1 .. 3
      /\ need[r] \in 1 .. Len(n)
  BY NeedsShape DEF DecisionSound, PC
<1>2. cfg \in seen[r]
  BY DEF DecisionSound, Deciding
<1>3. PieceGranted(r, need[r])
  BY <1>2 DEF DecisionSound, PieceGranted, Action
<1>4. \A i \in 1 .. need[r] : PieceGranted(r, i)
  BY <1>1, <1>3 DEF DecisionSound
<1>5. /\ Identified(r)'
      /\ \A i : PieceGranted(r, i) => PieceGranted(r, i)'
      /\ \E c \in seen'[r] : call'[r].host \in c.hosts
  BY Kept DEF reload, DecisionSound
<1>6. CASE need[r] < Len(n)
  <2>1. need'[r] = need[r] + 1 /\ pc'[r] = "pins"
    BY <1>1, <1>6 DEF Granted, Goto, TypeOK
  <2>2. \A i \in 1 .. need'[r] - 1 : PieceGranted(r, i)'
    BY <1>1, <1>4, <1>5, <2>1
  <2>3. need' \in [Clients -> 1 .. 3] /\ need'[r] \in DOMAIN n
    <3>1. need[r] + 1 \in 1 .. Len(n) /\ need[r] + 1 \in 1 .. 3
      BY <1>1, <1>6, NextNeeded
    <3>2. need' = [need EXCEPT ![r] = need[r] + 1]
      BY <1>1, <1>6 DEF Granted
    <3>3. need \in [Clients -> 1 .. 3]
      BY DEF TypeOK
    <3>4. need' \in [Clients -> 1 .. 3]
      BY <3>1, <3>2, <3>3
    <3>5. QED
      BY <1>1, <2>1, <3>1, <3>4
  <2>4. QED
    BY <1>1, <1>2, <1>5, <2>1, <2>2, <2>3 DEF DecisionSound, Deciding, reload, PC
<1>7. CASE ~(need[r] < Len(n))
  <2>1. need' = need /\ pc'[r] \in {"done", "attempt"}
    BY <1>1, <1>7 DEF Granted, Goto, Answer, TypeOK
  <2>2. \A i \in DOMAIN n : PieceGranted(r, i)'
    BY <1>1, <1>4, <1>5, <1>7
  <2>3. QED
    BY <1>1, <1>5, <2>1, <2>2 DEF DecisionSound, Deciding, TypeOK, PC
<1>8. QED
  BY <1>6, <1>7

\* A request that was refused, answered or never decided has nothing to account for.
LEMMA AnsweredSound ==
    ASSUME NEW r \in Clients, pc'[r] = "done"
    PROVE  DecisionSound(r)'
  BY DEF DecisionSound, Deciding, PC

\* A refusal is an answer.
LEMMA DenyAnswers ==
    ASSUME TypeOK, NEW r \in Clients, Deny(r)
    PROVE  pc' = [pc EXCEPT ![r] = "done"] /\ need' = need /\ reply' \in [Clients -> Replies]
  BY DEF Deny, Answer, Goto, TypeOK, Replies

(***************************************************************************)
(* The operator and the SIGHUP goroutine.                                  *)
(***************************************************************************)

LEMMA InvInit == Init => TypeOK /\ DecisionInv
<1> SUFFICES ASSUME Init PROVE TypeOK /\ DecisionInv
  OBVIOUS
<1>1. SomeCall \in Calls
  BY CallsAssumption DEF SomeCall
<1>2. /\ file \in Configs \cup {Invalid} /\ next \in Configs /\ cfg \in Configs
      /\ boot \in Configs /\ hup \in BOOLEAN /\ reloader \in {"idle", "load", "swap"}
  BY DEF Init
<1>3. DOMAIN who = Clients /\ \A r \in Clients : who[r].named \in BOOLEAN
  BY DEF Init, Nobody
<1>4. /\ pc \in [Clients -> PC] /\ call \in [Clients -> Calls]
      /\ need \in [Clients -> 1 .. 3] /\ reply \in [Clients -> Replies]
      /\ logged \in [Clients -> BOOLEAN] /\ seen \in [Clients -> SUBSET Configs]
  BY <1>1 DEF Init, PC, Replies
<1>5. DecisionInv
  BY DEF Init, DecisionInv, DecisionSound, Deciding, PC
<1>6. QED
  BY <1>2, <1>3, <1>4, <1>5 DEF TypeOK

\* No step of the SIGHUP goroutine or of the operator disturbs a request: a new
\* configuration joins those in force for every handler that still decides.
LEMMA InvReload ==
    ASSUME TypeOK, DecisionInv,
           (\E f \in Configs \cup {Invalid} : Edit(f)) \/ Hangup \/ Reloader
    PROVE  TypeOK' /\ DecisionInv'
<1>1. CASE Swap
  <2>1. cfg' \in Configs
    BY <1>1 DEF Swap, TypeOK
  <2>2. seen' \in [Clients -> SUBSET Configs]
    BY <1>1, <2>1 DEF Swap, TypeOK
  <2>3. TypeOK'
    BY <1>1, <2>1, <2>2 DEF Swap, TypeOK, request
  <2>4. ASSUME NEW r \in Clients PROVE DecisionSound(r)'
    <3>1. seen[r] \subseteq seen'[r] /\ (Deciding(r) => cfg' \in seen'[r])
      BY <1>1 DEF Swap
    <3>2. QED
      BY <1>1, <3>1, Undisturbed DEF Swap, request, DecisionInv
  <2>5. QED
    BY <2>3, <2>4 DEF DecisionInv
<1>2. CASE ~Swap
  <2>1. UNCHANGED <<cfg, boot, pc, request, seen>>
    BY <1>2 DEF Reloader, Edit, Hangup, TakeHangup, LoadFile
  <2>2. /\ file' \in Configs \cup {Invalid} /\ hup' \in BOOLEAN
        /\ reloader' \in {"idle", "load", "swap"} /\ next' \in Configs
    BY <1>2 DEF Reloader, Edit, Hangup, TakeHangup, LoadFile, TypeOK
  <2>3. TypeOK'
    BY <2>1, <2>2 DEF TypeOK, request
  <2>4. ASSUME NEW r \in Clients PROVE DecisionSound(r)'
    BY <2>1, Undisturbed DEF request, DecisionInv, DecisionSound
  <2>5. QED
    BY <2>3, <2>4 DEF DecisionInv
<1>3. QED
  BY <1>1, <1>2

(***************************************************************************)
(* The handlers.                                                           *)
(***************************************************************************)

\* A step that concerns one request only leaves the others sound.
LEMMA RowOnly ==
    ASSUME DecisionInv, NEW r \in Clients, UNCHANGED <<boot, cfg>>, DecisionSound(r)',
           \A q \in Clients \ {r} :
               /\ pc'[q] = pc[q] /\ call'[q] = call[q] /\ who'[q] = who[q]
               /\ need'[q] = need[q] /\ seen'[q] = seen[q]
    PROVE  DecisionInv'
<1>1. ASSUME NEW q \in Clients \ {r} PROVE DecisionSound(q)'
  <2>1. DecisionSound(q)
    BY DEF DecisionInv
  <2>2. seen[q] \subseteq seen'[q] /\ (Deciding(q) => cfg' \in seen'[q])
    BY <2>1 DEF DecisionSound
  <2>3. QED
    BY <2>1, <2>2, Undisturbed
<1>2. QED
  BY <1>1 DEF DecisionInv

\* Identifying a caller keeps every principal well formed.
LEMMA WhoTyped ==
    ASSUME DOMAIN who = Clients, \A q \in Clients : who[q].named \in BOOLEAN,
           NEW r \in Clients, NEW gs, who' = [who EXCEPT ![r] = Somebody(gs)]
    PROVE  DOMAIN who' = Clients /\ \A q \in Clients : who'[q].named \in BOOLEAN
<1>1. ASSUME NEW q \in Clients PROVE who'[q] = IF q = r THEN Somebody(gs) ELSE who[q]
  OBVIOUS
<1>2. Somebody(gs).named \in BOOLEAN
  BY DEF Somebody
<1>3. QED
  BY <1>1, <1>2

\* A request comes in and its caller is identified.
LEMMA InvAuthenticate ==
    ASSUME TypeOK, DecisionInv, NEW r \in Clients,
           (\E c \in Calls : Arrive(r, c)) \/ Gate(r) \/ Bearer(r) \/ Cookie(r)
               \/ Login(r) \/ Verify(r)
    PROVE  TypeOK' /\ DecisionInv'
<1>1. UNCHANGED reload /\ UNCHANGED <<boot, cfg>>
  BY DEF Arrive, Gate, Bearer, Cookie, Login, Verify, reload
<1>2. DecisionSound(r)
  BY DEF DecisionInv
<1>3. CASE \E c \in Calls : Arrive(r, c)
  <2> PICK c \in Calls : Arrive(r, c)
    BY <1>3
  <2>1. /\ pc' \in [Clients -> PC] /\ call' \in [Clients -> Calls]
        /\ seen' \in [Clients -> SUBSET Configs]
    BY DEF Arrive, Goto, TypeOK, PC
  <2>2. TypeOK'
    BY <1>1, <2>1 DEF Arrive, TypeOK, reload
  <2>3. /\ call'[r] = c /\ seen'[r] = {cfg} /\ who'[r] = Nobody /\ need'[r] = 1
        /\ pc'[r] = IF c.route = "login" THEN "login" ELSE "gate"
    BY <1>2 DEF Arrive, Goto, TypeOK, DecisionSound
  <2>4. c.route # "login" => c.route \in DOMAIN Needs /\ 1 \in DOMAIN Needs[c.route]
    BY CallsAssumption, NeedsShape
  <2>5. DecisionSound(r)'
    BY <1>1, <2>3, <2>4 DEF DecisionSound, Deciding, PC
  <2>6. QED
    BY <1>1, <2>2, <2>5, RowOnly DEF Arrive, Goto, TypeOK
<1>4. CASE Gate(r)
  <2>1. pc' \in [Clients -> PC]
    BY <1>4 DEF Gate, Goto, TypeOK, PC
  <2>2. TypeOK'
    BY <1>1, <1>4, <2>1 DEF Gate, TypeOK, reload, request
  <2>3. /\ who'[r] = Nobody /\ need'[r] = 1 /\ cfg \in seen'[r]
        /\ call'[r].route \in DOMAIN Needs /\ need'[r] \in DOMAIN Needs[call'[r].route]
        /\ \/ pc'[r] = "find" /\ ~cfg.auth
           \/ pc'[r] = "bearer" /\ call'[r].route \in Api
           \/ pc'[r] = "cookie"
    BY <1>2, <1>4 DEF Gate, Goto, TypeOK, DecisionSound, Deciding, request, PC
  <2>4. ~cfg.auth => Identified(r)'
    BY <2>3 DEF Identified
  <2>5. DecisionSound(r)'
    BY <1>1, <2>3, <2>4 DEF DecisionSound, Deciding, PC
  <2>6. QED
    BY <1>1, <1>4, <2>2, <2>5, RowOnly DEF Gate, Goto, TypeOK, request
<1>5. CASE Bearer(r)
  <2>1. /\ pc' \in [Clients -> PC]
        /\ DOMAIN who' = Clients /\ \A q \in Clients : who'[q].named \in BOOLEAN
    <3>1. pc' \in [Clients -> PC]
      BY <1>5 DEF Bearer, Goto, TypeOK, PC
    <3>2. who' = who \/ \E gs : who' = [who EXCEPT ![r] = Somebody(gs)]
      BY <1>5 DEF Bearer
    <3>3. QED
      BY <3>1, <3>2, WhoTyped DEF TypeOK
  <2>2. TypeOK'
    BY <1>1, <1>5, <2>1 DEF Bearer, TypeOK, reload
  <2>3. /\ need'[r] = 1 /\ cfg \in seen'[r]
        /\ call'[r].route \in DOMAIN Needs /\ need'[r] \in DOMAIN Needs[call'[r].route]
        /\ \/ pc'[r] = "cookie" /\ who'[r] = Nobody
           \/ /\ pc'[r] = "find"
              /\ call'[r].bearer \in DOMAIN cfg.tokens
              /\ call'[r].route \in Api
              /\ who'[r] = Somebody(cfg.tokens[call'[r].bearer])
    BY <1>2, <1>5 DEF Bearer, Goto, TypeOK, DecisionSound, Deciding, PC
  <2>4. pc'[r] = "find" => who'[r] \in TokenOf(cfg, call'[r])
    BY <2>3 DEF TokenOf
  <2>5. pc'[r] = "find" => Identified(r)'
    BY <1>1, <2>3, <2>4 DEF Identified, TokenOf
  <2>6. DecisionSound(r)'
    BY <1>1, <2>3, <2>5 DEF DecisionSound, Deciding, PC
  <2>7. QED
    BY <1>1, <1>5, <2>2, <2>6, RowOnly DEF Bearer, Goto, TypeOK
<1>6. CASE Cookie(r)
  <2>1. /\ pc' \in [Clients -> PC] /\ reply' \in [Clients -> Replies]
        /\ DOMAIN who' = Clients /\ \A q \in Clients : who'[q].named \in BOOLEAN
    <3>1. pc' \in [Clients -> PC] /\ reply' \in [Clients -> Replies]
      BY <1>6 DEF Cookie, Answer, Goto, TypeOK, PC, Replies
    <3>2. who' = who \/ \E gs : who' = [who EXCEPT ![r] = Somebody(gs)]
      BY <1>6 DEF Cookie
    <3>3. QED
      BY <3>1, <3>2, WhoTyped DEF TypeOK
  <2>2. TypeOK'
    BY <1>1, <1>6, <2>1 DEF Cookie, TypeOK, reload
  <2>3. /\ need'[r] = 1 /\ cfg \in seen'[r]
        /\ call'[r].route \in DOMAIN Needs /\ need'[r] \in DOMAIN Needs[call'[r].route]
        /\ \/ pc'[r] = "done"
           \/ /\ pc'[r] = "find"
              /\ call'[r].cookie \in DOMAIN cfg.users
              /\ boot.auth
              /\ who'[r] = Somebody(cfg.users[call'[r].cookie])
    BY <1>2, <1>6 DEF Cookie, Answer, Goto, TypeOK, DecisionSound, Deciding, PC,
                      HasAuthenticator
  <2>4. pc'[r] = "find" => who'[r] \in UserOf(cfg, call'[r])
    BY <2>3 DEF UserOf
  <2>5. pc'[r] = "find" => Identified(r)'
    BY <1>1, <2>3, <2>4 DEF Identified, UserOf
  <2>6. DecisionSound(r)'
    BY <1>1, <2>3, <2>5 DEF DecisionSound, Deciding, PC
  <2>7. QED
    BY <1>1, <1>6, <2>2, <2>6, RowOnly DEF Cookie, Answer, Goto, TypeOK
<1>7. CASE Login(r) \/ Verify(r)
  <2>1. pc' \in [Clients -> PC] /\ reply' \in [Clients -> Replies]
    BY <1>7 DEF Login, Verify, Answer, Goto, TypeOK, PC, Replies
  <2>2. TypeOK'
    BY <1>1, <1>7, <2>1 DEF Login, Verify, TypeOK, reload
  <2>3. /\ pc'[r] \in {"verify", "done"} /\ cfg' \in seen'[r]
    BY <1>1, <1>2, <1>7 DEF Login, Verify, Answer, Goto, TypeOK, DecisionSound, Deciding
  <2>4. DecisionSound(r)'
    BY <2>3 DEF DecisionSound, Deciding, PC
  <2>5. QED
    BY <1>1, <1>7, <2>2, <2>4, RowOnly DEF Login, Verify, Answer, Goto, TypeOK
<1>8. QED
  BY <1>3, <1>4, <1>5, <1>6, <1>7

\* What canDo may say of the permission in question leaves the state well typed.
LEMMA TypeAsk ==
    ASSUME TypeOK, NEW r \in Clients, DecisionSound(r), Pins(r) \/ Enabled(r) \/ Grant(r),
           need' \in [Clients -> 1 .. 3]
    PROVE  TypeOK'
<1>1. pc' \in [Clients -> PC] /\ reply' \in [Clients -> Replies]
  BY DEF Pins, Enabled, Grant, Deny, Granted, Answer, Goto, TypeOK, PC, Replies
<1>2. UNCHANGED <<reload, call, who, logged, seen>>
  BY DEF Pins, Enabled, Grant
<1>3. QED
  BY <1>1, <1>2 DEF TypeOK, reload

\* Only the request that asks moves.
LEMMA AskRow ==
    ASSUME TypeOK, NEW r \in Clients, Pins(r) \/ Enabled(r) \/ Grant(r)
    PROVE  /\ UNCHANGED <<reload, call, who, logged, seen>> /\ UNCHANGED <<boot, cfg>>
           /\ \A q \in Clients \ {r} : pc'[q] = pc[q] /\ need'[q] = need[q]
  BY DEF Pins, Enabled, Grant, Deny, Granted, Answer, Goto, TypeOK, reload

\* canDo, one load of the configuration at a time.
LEMMA InvAsk ==
    ASSUME TypeOK, DecisionInv, NEW r \in Clients, Pins(r) \/ Enabled(r) \/ Grant(r)
    PROVE  TypeOK' /\ DecisionInv'
<1>1. /\ UNCHANGED <<reload, call, who, logged, seen>> /\ UNCHANGED <<boot, cfg>>
      /\ \A q \in Clients \ {r} : pc'[q] = pc[q] /\ need'[q] = need[q]
  BY AskRow
<1>2. DecisionSound(r)
  BY DEF DecisionInv
<1>3. SUFFICES DecisionSound(r)' /\ need' \in [Clients -> 1 .. 3]
  BY <1>1, <1>2, TypeAsk, RowOnly
<1>4. CASE Deny(r)
  <2>1. pc' = [pc EXCEPT ![r] = "done"] /\ need' = need
    BY <1>4, DenyAnswers
  <2>2. pc'[r] = "done" /\ need' \in [Clients -> 1 .. 3]
    BY <2>1 DEF TypeOK
  <2>3. QED
    BY <2>2, AnsweredSound
<1>5. CASE Granted(r) /\ pc[r] \in {"enabled", "grant"}
                      /\ (~cfg.auth \/ PrincipalCan(cfg, who[r], call[r].host, Action(r)))
                      /\ (pc[r] = "enabled" => ~cfg.auth)
  <2>1. ~cfg.auth \/ who[r].named
    BY <1>2, <1>5 DEF DecisionSound
  <2>2. Entitled(cfg, who[r], call[r], need[r])
    BY <1>5, <2>1, CanIsEntitled DEF Action
  <2>3. QED
    BY <1>1, <1>2, <1>5, <2>2, GrantedSound
<1>6. CASE need' = need /\ Pins(r) /\ pc'[r] = "enabled"
           /\ ~HostActionForbidden(cfg, call[r].host, Action(r))
  <2>1. pc[r] = "pins" /\ cfg \in seen[r]
    BY <1>2, <1>6 DEF Pins, DecisionSound, Deciding
  <2>2. /\ Identified(r) => Identified(r)'
        /\ \A i : PieceGranted(r, i) => PieceGranted(r, i)'
    BY <1>1, Kept
  <2>3. (\E c \in seen[r] : ~HostActionForbidden(c, call[r].host, Action(r)))'
    BY <1>1, <1>6, <2>1 DEF Action
  <2>4. QED
    BY <1>1, <1>2, <1>6, <2>1, <2>2, <2>3 DEF DecisionSound, Deciding, PC, TypeOK
<1>7. CASE need' = need /\ Enabled(r) /\ pc'[r] = "grant" /\ who[r].named
  <2>1. pc[r] = "enabled" /\ cfg \in seen[r]
    BY <1>2, <1>7 DEF Enabled, DecisionSound, Deciding
  <2>2. /\ Identified(r) => Identified(r)'
        /\ \A i : PieceGranted(r, i) => PieceGranted(r, i)'
    BY <1>1, Kept
  <2>3. (\E c \in seen[r] : ~HostActionForbidden(c, call[r].host, Action(r)))'
    BY <1>1, <1>2, <1>7, <2>1 DEF Action, DecisionSound
  <2>4. QED
    BY <1>1, <1>2, <1>7, <2>1, <2>2, <2>3 DEF DecisionSound, Deciding, PC, TypeOK
<1>8. QED
  <2>1. CASE Pins(r)
    BY <1>4, <1>6, <2>1 DEF Pins, Goto, TypeOK
  <2>2. CASE Enabled(r)
    BY <1>4, <1>5, <1>7, <2>2 DEF Enabled, Goto, TypeOK
  <2>3. CASE Grant(r)
    BY <1>4, <1>5, <2>3 DEF Grant
  <2>4. QED
    BY <2>1, <2>2, <2>3

\* The host is looked up; and, once it is decided, the deed, its record and the
\* response.
LEMMA InvServe ==
    ASSUME TypeOK, DecisionInv, NEW r \in Clients,
           Find(r) \/ Attempt(r) \/ Record(r) \/ Return(r)
    PROVE  TypeOK' /\ DecisionInv'
<1>1. UNCHANGED reload /\ UNCHANGED <<boot, cfg>>
  BY DEF Find, Attempt, Record, Return, reload
<1>2. DecisionSound(r)
  BY DEF DecisionInv
<1>3. CASE Find(r)
  <2>1. pc' \in [Clients -> PC] /\ reply' \in [Clients -> Replies]
    BY <1>3 DEF Find, Answer, Goto, TypeOK, PC, Replies
  <2>2. TypeOK'
    BY <1>1, <1>3, <2>1 DEF Find, TypeOK, reload
  <2>3. cfg \in seen[r] /\ need[r] = 1 /\ UNCHANGED <<call, who, need, seen>>
    BY <1>2, <1>3 DEF Find, DecisionSound, Deciding
  <2>4. pc'[r] = "done" \/ (pc'[r] = "pins" /\ call[r].host \in cfg.hosts)
    BY <1>3 DEF Find, Answer, Goto, TypeOK
  <2>5. Identified(r)'
    BY <1>1, <1>2, <1>3, <2>3, Kept DEF Find, DecisionSound
  <2>6. DecisionSound(r)'
    BY <1>1, <1>2, <1>3, <2>3, <2>4, <2>5 DEF Find, DecisionSound, Deciding, PC
  <2>7. QED
    BY <1>1, <1>3, <2>2, <2>6, RowOnly DEF Find, Answer, Goto, TypeOK
<1>4. CASE Attempt(r)
  <2>1. pc' \in [Clients -> PC] /\ reply' \in [Clients -> Replies]
    BY <1>4 DEF Attempt, Goto, TypeOK, PC, Replies
  <2>2. TypeOK'
    BY <1>1, <1>4, <2>1 DEF Attempt, TypeOK, reload
  <2>3. pc[r] = "attempt" /\ pc'[r] \in {"record", "done"} /\ UNCHANGED <<call, who, need, seen>>
    BY <1>4 DEF Attempt, Goto, TypeOK
  <2>4. /\ Identified(r) => Identified(r)'
        /\ \A i : PieceGranted(r, i) => PieceGranted(r, i)'
    BY <1>1, <2>3, Kept
  <2>5. DecisionSound(r)'
    BY <1>1, <1>2, <2>3, <2>4 DEF DecisionSound, Deciding, PC
  <2>6. QED
    BY <1>1, <1>4, <2>2, <2>5, RowOnly DEF Attempt, Goto, TypeOK
<1>5. CASE Record(r)
  <2>1. pc' \in [Clients -> PC] /\ logged' \in [Clients -> BOOLEAN] /\ pc'[r] = "done"
    BY <1>5 DEF Record, Goto, TypeOK, PC
  <2>2. TypeOK'
    BY <1>1, <1>5, <2>1 DEF Record, TypeOK, reload
  <2>3. QED
    BY <1>1, <1>5, <2>1, <2>2, AnsweredSound, RowOnly DEF Record, Goto, TypeOK
<1>6. CASE Return(r)
  <2>1. /\ pc' \in [Clients -> PC] /\ call' \in [Clients -> Calls]
        /\ need' \in [Clients -> 1 .. 3] /\ reply' \in [Clients -> Replies]
        /\ logged' \in [Clients -> BOOLEAN] /\ seen' \in [Clients -> SUBSET Configs]
    BY <1>6, CallsAssumption DEF Return, Goto, TypeOK, PC, Replies, SomeCall
  <2>2. DOMAIN who' = Clients /\ \A q \in Clients : who'[q].named \in BOOLEAN
    <3>1. ASSUME NEW q \in Clients PROVE who'[q] = IF q = r THEN Nobody ELSE who[q]
      BY <1>6 DEF Return, TypeOK
    <3>2. Nobody.named \in BOOLEAN
      BY DEF Nobody
    <3>3. QED
      BY <1>6, <3>1, <3>2 DEF Return, TypeOK
  <2>3. TypeOK'
    BY <1>1, <2>1, <2>2 DEF TypeOK, reload
  <2>4. pc'[r] = "none" /\ who'[r] = Nobody /\ need'[r] = 1
    BY <1>6 DEF Return, Goto, TypeOK
  <2>5. DecisionSound(r)'
    BY <2>4 DEF DecisionSound, Deciding, PC
  <2>6. QED
    BY <1>1, <1>6, <2>3, <2>5, RowOnly DEF Return, Goto, TypeOK
<1>7. QED
  BY <1>3, <1>4, <1>5, <1>6

(***************************************************************************)
(* The theorems.                                                           *)
(***************************************************************************)

LEMMA InvNext == TypeOK /\ DecisionInv /\ [Next]_vars => TypeOK' /\ DecisionInv'
<1> SUFFICES ASSUME TypeOK, DecisionInv, [Next]_vars PROVE TypeOK' /\ DecisionInv'
  OBVIOUS
<1>1. CASE (\E f \in Configs \cup {Invalid} : Edit(f)) \/ Hangup \/ Reloader
  BY <1>1, InvReload
<1>2. ASSUME NEW r \in Clients, (\E c \in Calls : Arrive(r, c)) \/ Handler(r) \/ Attempt(r)
      PROVE  TypeOK' /\ DecisionInv'
  BY <1>2, InvAuthenticate, InvAsk, InvServe DEF Handler
<1>3. CASE UNCHANGED vars
  <2>1. TypeOK'
    BY <1>3 DEF TypeOK, vars, reload, request
  <2>2. ASSUME NEW r \in Clients PROVE DecisionSound(r)'
    BY <1>3, Undisturbed DEF vars, reload, request, DecisionInv, DecisionSound
  <2>3. QED
    BY <2>1, <2>2 DEF DecisionInv
<1>4. QED
  BY <1>1, <1>2, <1>3 DEF Next

\* The variables of the request handlers and of the reload keep their types.
THEOREM TypeCorrect == Spec => []TypeOK
  BY InvInit, InvNext, PTL DEF Spec

\* Every handler decides on what configurations in force said, whatever reloads fall
\* between the loads that it makes (middleware.go 64-100, server.go 199-214).
THEOREM Decisions == Spec => []DecisionInv
  BY InvInit, InvNext, PTL DEF Spec

\* No reload invents a right: each piece of what lets a request through was granted
\* by a configuration in force during the request (server.go 199-214).
THEOREM NoRightInvented == Spec => []RightsNeverInvented
<1>1. DecisionInv => RightsNeverInvented
  BY DEF DecisionInv, DecisionSound, RightsNeverInvented
<1>2. QED
  BY <1>1, Decisions, PTL

(***************************************************************************)
(* Requests that no reload disturbs.                                       *)
(***************************************************************************)

\* Whom a configuration takes the caller for, and what it grants, does not change
\* while the request keeps what it has.
LEMMA QuietFrame ==
    ASSUME NEW r \in Clients, NEW c, boot' = boot, call'[r] = call[r]
    PROVE  /\ TokenOf(c, call[r])' = TokenOf(c, call[r])
           /\ CallerOf(c, call[r])' = CallerOf(c, call[r])
           /\ Allowed(c, call[r])' <=> Allowed(c, call[r])
           /\ Visible(c, call[r])' <=> Visible(c, call[r])
           /\ Asks(r)' <=> Asks(r)
           /\ who'[r] = who[r] => \A n : Passed(r, c, n)' <=> Passed(r, c, n)
           /\ reply'[r] = reply[r] => (Prescribed(r, c)' <=> Prescribed(r, c))
           /\ need'[r] = need[r] => Action(r)' = Action(r)
<1>1. TokenOf(c, call[r])' = TokenOf(c, call[r]) /\ UserOf(c, call[r])' = UserOf(c, call[r])
  BY DEF TokenOf, UserOf
<1>2. CallerOf(c, call[r])' = CallerOf(c, call[r])
  BY <1>1 DEF CallerOf
<1>3. Allowed(c, call[r])' <=> Allowed(c, call[r])
  BY <1>2 DEF Allowed, Unpinned, Entitled
<1>4. Visible(c, call[r])' <=> Visible(c, call[r])
  BY <1>2 DEF Visible, Entitled
<1>5. who'[r] = who[r] => \A n : Passed(r, c, n)' <=> Passed(r, c, n)
  BY DEF Passed, Entitled
<1>6. reply'[r] = reply[r] => (Prescribed(r, c)' <=> Prescribed(r, c))
  BY <1>2, <1>3, <1>4 DEF Prescribed
<1>7. QED
  BY <1>1, <1>2, <1>3, <1>4, <1>5, <1>6 DEF Asks, Action

\* A request that does not move keeps what it has found out, unless a reload disturbs it.
LEMMA QuietUndisturbed ==
    ASSUME NEW r \in Clients, boot' = boot, pc'[r] = pc[r], call'[r] = call[r],
           who'[r] = who[r], need'[r] = need[r], reply'[r] = reply[r], logged'[r] = logged[r],
           \A c \in Configs : seen'[r] = {c} => seen[r] = {c},
           Pending(r), \A c \in Configs : Asks(r) /\ seen[r] = {c} => QuietSound(r, c)
    PROVE  /\ Pending(r)'
           /\ \A c \in Configs : (Asks(r) /\ seen[r] = {c} => QuietSound(r, c))'
<1>1. Pending(r)'
  BY DEF Pending, Asks
<1>2. ASSUME NEW c \in Configs, Asks(r)', seen'[r] = {c}
      PROVE  QuietSound(r, c)'
  <2>1. QuietSound(r, c)
    BY <1>2, QuietFrame
  <2>2. /\ TokenOf(c, call[r])' = TokenOf(c, call[r])
        /\ CallerOf(c, call[r])' = CallerOf(c, call[r])
        /\ \A n : Passed(r, c, n)' <=> Passed(r, c, n)
        /\ Prescribed(r, c)' <=> Prescribed(r, c)
        /\ Action(r)' = Action(r)
    BY QuietFrame
  <2>3. QED
    BY <2>1, <2>2 DEF QuietSound
<1>3. QED
  BY <1>1, <1>2

\* The configuration of the moment is the only one that a quiet request has seen.
LEMMA QuietConfig ==
    ASSUME NEW r \in Clients, DecisionSound(r), Deciding(r), NEW c \in Configs, seen[r] = {c}
    PROVE  cfg = c
  BY DEF DecisionSound

\* Once the last permission is granted, and only then, c allows the request.
LEMMA PassedIsAllowed ==
    ASSUME NEW r \in Clients, NEW c \in Configs, call[r].route \in DOMAIN Needs,
           CallerOf(c, call[r]) = {who[r]}, call[r].host \in c.hosts
    PROVE  Allowed(c, call[r]) <=> Passed(r, c, Len(Needs[call[r].route]))
<1>1. DOMAIN Needs[call[r].route] = 1 .. Len(Needs[call[r].route])
  BY NeedsShape
<1>2. QED
  BY <1>1 DEF Allowed, Passed, Unpinned

\* What the API needs first is to see the host, which no pin forbids.
LEMMA ApiLooksFirst ==
    ASSUME NEW n \in Api
    PROVE  n \in DOMAIN Needs /\ 1 \in DOMAIN Needs[n] /\ Needs[n][1] = "status"
  BY DEF Api, Needs

\* A refusal is what the only configuration prescribes.
LEMMA DenyIsPrescribed ==
    ASSUME TypeOK, NEW r \in Clients, NEW c \in Configs, Deny(r), boot' = boot,
           call'[r] = call[r], call[r].route \in DOMAIN Needs,
           need[r] \in DOMAIN Needs[call[r].route],
           CallerOf(c, call[r]) = {who[r]}, call[r].host \in c.hosts,
           Passed(r, c, need[r] - 1),
           \/ HostActionForbidden(c, call[r].host, Action(r))
           \/ ~Entitled(c, who[r], call[r], need[r])
    PROVE  Prescribed(r, c)'
<1>1. /\ DOMAIN Needs[call[r].route] = 1 .. Len(Needs[call[r].route])
      /\ Len(Needs[call[r].route]) \in 1 .. 3
      /\ need[r] \in 1 .. Len(Needs[call[r].route])
  BY NeedsShape
<1>2. reply'[r] = IF call[r].route \in Api /\ need[r] > 1 THEN "forbidden" ELSE "notFound"
  BY DEF Deny, Answer, TypeOK
<1>3. ~Allowed(c, call[r])
  BY <1>1 DEF Allowed, Unpinned, Action
<1>4. ASSUME need[r] > 1
      PROVE  Visible(c, call[r])
  <2>1. 1 \in 1 .. need[r] - 1
    BY <1>1, <1>4
  <2>2. QED
    BY <2>1 DEF Passed, Visible
<1>5. ASSUME call[r].route \in Api, need[r] = 1
      PROVE  ~Visible(c, call[r])
  <2>1. ~HostActionForbidden(c, call[r].host, Action(r))
    BY <1>5, ApiLooksFirst DEF HostActionForbidden, Action
  <2>2. QED
    BY <1>5, <2>1 DEF Visible
<1>6. /\ CallerOf(c, call[r])' # {}
      /\ Allowed(c, call[r])' <=> Allowed(c, call[r])
      /\ Visible(c, call[r])' <=> Visible(c, call[r])
  BY QuietFrame
<1>7. call[r].route \in Api /\ ~(need[r] > 1) => need[r] = 1
  BY <1>1
<1>8. QED
  BY <1>2, <1>3, <1>4, <1>5, <1>6, <1>7 DEF Prescribed, Success

\* A permission that is granted takes a quiet request one step further.
LEMMA GrantedIsQuiet ==
    ASSUME TypeOK, NEW r \in Clients, NEW c \in Configs, Granted(r), boot' = boot,
           call'[r] = call[r], who'[r] = who[r], call[r].route \in DOMAIN Needs,
           need[r] \in DOMAIN Needs[call[r].route],
           CallerOf(c, call[r]) = {who[r]}, call[r].host \in c.hosts,
           Passed(r, c, need[r] - 1),
           ~HostActionForbidden(c, call[r].host, Action(r)),
           Entitled(c, who[r], call[r], need[r])
    PROVE  QuietSound(r, c)'
<1> DEFINE l == Len(Needs[call[r].route])
<1>1. /\ DOMAIN Needs[call[r].route] = 1 .. l /\ l \in 1 .. 3 /\ need[r] \in 1 .. l
  BY NeedsShape
<1>2. Passed(r, c, need[r])
  <2>1. \A i \in 1 .. need[r] : i \in 1 .. need[r] - 1 \/ i = need[r]
    BY <1>1
  <2>2. QED
    BY <2>1 DEF Passed, Action
<1>3. /\ CallerOf(c, call[r])' = {who'[r]}
      /\ \A n : Passed(r, c, n)' <=> Passed(r, c, n)
      /\ Allowed(c, call[r])' <=> Allowed(c, call[r])
  BY QuietFrame
<1>4. CASE need[r] < l
  <2>1. pc'[r] = "pins" /\ need'[r] = need[r] + 1
    BY <1>1, <1>4 DEF Granted, Goto, TypeOK
  <2>2. need'[r] - 1 = need[r]
    BY <1>1, <2>1
  <2>3. Passed(r, c, need[r] - 1)'
    BY <1>2, <1>3, <2>2
  <2>4. QED
    BY <1>3, <2>1, <2>3 DEF QuietSound
<1>5. CASE ~(need[r] < l)
  <2>1. need[r] = l
    BY <1>1, <1>5
  <2>2. \/ pc'[r] = "attempt"
        \/ pc'[r] = "done" /\ reply'[r] = "shown"
    BY <2>1 DEF Granted, Goto, Answer, TypeOK
  <2>3. Allowed(c, call[r])
    BY <1>2, <2>1, PassedIsAllowed
  <2>4. pc'[r] = "attempt" => Passed(r, c, Len(Needs[call[r].route]))'
    BY <1>2, <1>3, <2>1
  <2>5. pc'[r] = "done" => Prescribed(r, c)'
    BY <1>3, <2>2, <2>3 DEF Prescribed, Success
  <2>6. QED
    BY <1>3, <2>2, <2>4, <2>5 DEF QuietSound
<1>6. QED
  BY <1>4, <1>5

\* canDo, for a quiet request.
LEMMA QuietAsk ==
    ASSUME TypeOK, NEW r \in Clients, NEW c \in Configs, Pins(r) \/ Enabled(r) \/ Grant(r),
           DecisionSound(r), Pending(r), QuietSound(r, c), Asks(r), cfg = c
    PROVE  Pending(r)' /\ QuietSound(r, c)'
<1>1. /\ call'[r] = call[r] /\ who'[r] = who[r] /\ boot' = boot /\ logged' = logged
      /\ pc[r] \in {"pins", "enabled", "grant"}
      /\ reply[r] = "none" /\ ~logged[r]
      /\ call[r].route \in DOMAIN Needs /\ need[r] \in DOMAIN Needs[call[r].route]
      /\ CallerOf(c, call[r]) = {who[r]} /\ call[r].host \in c.hosts
      /\ Passed(r, c, need[r] - 1)
  BY DEF Pins, Enabled, Grant, reload, Pending, DecisionSound, QuietSound, PC
<1>2. CASE Deny(r) /\ \/ HostActionForbidden(c, call[r].host, Action(r))
                      \/ ~Entitled(c, who[r], call[r], need[r])
  <2>1. Prescribed(r, c)'
    BY <1>1, <1>2, DenyIsPrescribed
  <2>2. pc'[r] = "done" /\ reply'[r] \in {"forbidden", "notFound"}
    BY <1>2 DEF Deny, Answer, Goto, TypeOK
  <2>3. QED
    BY <1>1, <2>1, <2>2 DEF Pending, QuietSound
<1>3. CASE Granted(r) /\ ~HostActionForbidden(c, call[r].host, Action(r))
                      /\ Entitled(c, who[r], call[r], need[r])
  <2>1. QuietSound(r, c)'
    BY <1>1, <1>3, GrantedIsQuiet
  <2>2. \/ pc'[r] \in {"pins", "attempt"} /\ reply'[r] = "none"
        \/ pc'[r] = "done" /\ reply'[r] = "shown"
    BY <1>1, <1>3 DEF Granted, Goto, Answer, TypeOK
  <2>3. QED
    BY <1>1, <2>1, <2>2 DEF Pending
<1>4. CASE /\ pc'[r] \in {"enabled", "grant"} /\ UNCHANGED <<need, reply>>
           /\ ~HostActionForbidden(c, call[r].host, Action(r))
           /\ pc'[r] = "grant" => c.auth
  <2>1. /\ CallerOf(c, call[r])' = {who'[r]}
        /\ Passed(r, c, need[r] - 1)'
        /\ Action(r)' = Action(r)
    BY <1>1, <1>4, QuietFrame
  <2>2. QED
    BY <1>1, <1>4, <2>1 DEF Pending, QuietSound
<1>5. CASE Pins(r)
  BY <1>1, <1>2, <1>4, <1>5 DEF Pins, Goto, TypeOK
<1>6. CASE Enabled(r)
  <2>1. pc[r] = "enabled" /\ ~HostActionForbidden(c, call[r].host, Action(r))
    BY <1>6 DEF Enabled, QuietSound
  <2>2. CASE ~c.auth /\ Granted(r)
    BY <1>3, <2>1, <2>2 DEF Entitled
  <2>3. CASE c.auth /\ ~who[r].named /\ Deny(r)
    BY <1>2, <2>3 DEF Entitled
  <2>4. CASE c.auth /\ Goto(r, "grant") /\ UNCHANGED <<need, reply>>
    BY <1>4, <2>1, <2>4 DEF Goto, TypeOK
  <2>5. QED
    BY <1>6, <2>2, <2>3, <2>4 DEF Enabled
<1>7. CASE Grant(r)
  <2>1. /\ pc[r] = "grant" /\ c.auth /\ who[r].named
        /\ ~HostActionForbidden(c, call[r].host, Action(r))
    BY <1>7 DEF Grant, QuietSound, DecisionSound
  <2>2. PrincipalCan(c, who[r], call[r].host, Action(r))
            <=> Entitled(c, who[r], call[r], need[r])
    BY <2>1 DEF PrincipalCan, Entitled, Action
  <2>3. QED
    BY <1>2, <1>3, <1>7, <2>1, <2>2 DEF Grant
<1>8. QED
  BY <1>5, <1>6, <1>7

\* A quiet request is identified as its configuration has it.
LEMMA QuietAuthenticate ==
    ASSUME TypeOK, NEW r \in Clients, NEW c \in Configs, Gate(r) \/ Bearer(r) \/ Cookie(r),
           DecisionSound(r), Pending(r), QuietSound(r, c), Asks(r), cfg = c
    PROVE  Pending(r)' /\ QuietSound(r, c)'
<1>1. /\ call'[r] = call[r] /\ boot' = boot /\ logged' = logged
      /\ pc[r] \in {"gate", "bearer", "cookie"} /\ who[r] = Nobody
      /\ reply[r] = "none" /\ ~logged[r]
  BY DEF Gate, Bearer, Cookie, reload, request, Pending, DecisionSound
<1>2. /\ TokenOf(c, call[r])' = TokenOf(c, call[r])
      /\ CallerOf(c, call[r])' = CallerOf(c, call[r])
  BY <1>1, QuietFrame
<1>3. CASE Gate(r)
  <2>1. /\ who'[r] = who[r] /\ reply'[r] = "none"
        /\ \/ pc'[r] = "find" /\ ~c.auth
           \/ pc'[r] = "bearer" /\ c.auth
           \/ pc'[r] = "cookie" /\ c.auth /\ call[r].route \notin Api
    BY <1>1, <1>3 DEF Gate, Goto, TypeOK, request
  <2>2. pc'[r] = "find" => CallerOf(c, call[r]) = {who'[r]}
    BY <1>1, <2>1 DEF CallerOf
  <2>3. pc'[r] = "cookie" => TokenOf(c, call[r]) = {}
    BY <2>1 DEF TokenOf
  <2>4. QED
    BY <1>1, <1>2, <2>1, <2>2, <2>3 DEF Pending, QuietSound
<1>4. CASE Bearer(r)
  <2>1. /\ reply'[r] = "none" /\ c.auth /\ call[r].route \in Api
        /\ \/ /\ pc'[r] = "find" /\ call[r].bearer \in DOMAIN c.tokens
              /\ who'[r] = Somebody(c.tokens[call[r].bearer])
           \/ pc'[r] = "cookie" /\ call[r].bearer \notin DOMAIN c.tokens
    BY <1>1, <1>4 DEF Bearer, Goto, TypeOK, QuietSound, DecisionSound
  <2>2. pc'[r] = "find" => TokenOf(c, call[r]) = {who'[r]}
    BY <2>1 DEF TokenOf
  <2>3. pc'[r] = "find" => CallerOf(c, call[r]) = {who'[r]}
    BY <2>1, <2>2 DEF CallerOf
  <2>4. pc'[r] = "cookie" => TokenOf(c, call[r]) = {}
    BY <2>1 DEF TokenOf
  <2>5. QED
    BY <1>1, <1>2, <2>1, <2>3, <2>4 DEF Pending, QuietSound
<1>5. CASE Cookie(r)
  <2>1. /\ c.auth /\ TokenOf(c, call[r]) = {}
        /\ \/ /\ pc'[r] = "find" /\ reply'[r] = "none"
              /\ call[r].cookie \in DOMAIN c.users /\ boot.auth
              /\ who'[r] = Somebody(c.users[call[r].cookie])
           \/ /\ pc'[r] = "done" /\ reply'[r] = "unauthorized"
              /\ ~boot.auth \/ call[r].cookie \notin DOMAIN c.users
    BY <1>1, <1>5 DEF Cookie, Answer, Goto, TypeOK, QuietSound, HasAuthenticator
  <2>2. pc'[r] = "find" => UserOf(c, call[r]) = {who'[r]}
    BY <2>1 DEF UserOf
  <2>3. pc'[r] = "find" => CallerOf(c, call[r]) = {who'[r]}
    BY <2>1, <2>2 DEF CallerOf
  <2>4. pc'[r] = "done" => UserOf(c, call[r]) = {}
    BY <2>1 DEF UserOf
  <2>5. pc'[r] = "done" => CallerOf(c, call[r]) = {}
    BY <2>1, <2>4 DEF CallerOf
  <2>6. pc'[r] = "done" => Prescribed(r, c)'
    <3>1. /\ Allowed(c, call[r])' <=> Allowed(c, call[r])
          /\ Visible(c, call[r])' <=> Visible(c, call[r])
      BY <1>1, QuietFrame
    <3>2. pc'[r] = "done" => ~Allowed(c, call[r])
      BY <2>5 DEF Allowed
    <3>3. QED
      BY <1>2, <2>1, <2>5, <3>1, <3>2 DEF Prescribed, Success
  <2>7. QED
    BY <1>1, <1>2, <2>1, <2>3, <2>6 DEF Pending, QuietSound
<1>6. QED
  BY <1>3, <1>4, <1>5

\* The lookup of the host, the deed and its record, for a quiet request.
LEMMA QuietServe ==
    ASSUME TypeOK, NEW r \in Clients, NEW c \in Configs, Find(r) \/ Attempt(r) \/ Record(r),
           DecisionSound(r), Pending(r), QuietSound(r, c), Asks(r),
           Find(r) => cfg = c
    PROVE  Pending(r)' /\ QuietSound(r, c)'
<1>1. /\ call'[r] = call[r] /\ who'[r] = who[r] /\ need'[r] = need[r] /\ boot' = boot
      /\ ~logged[r] /\ CallerOf(c, call[r]) = {who[r]}
      /\ call[r].route \in DOMAIN Needs
  BY DEF Find, Attempt, Record, reload, Pending, DecisionSound, QuietSound, PC
<1>2. /\ CallerOf(c, call[r])' = {who'[r]}
      /\ Allowed(c, call[r])' <=> Allowed(c, call[r])
      /\ Visible(c, call[r])' <=> Visible(c, call[r])
      /\ \A n : Passed(r, c, n)' <=> Passed(r, c, n)
  BY <1>1, QuietFrame
<1>3. CASE Find(r)
  <2>1. need[r] = 1 /\ reply[r] = "none"
    BY <1>3 DEF Find, Pending, DecisionSound
  <2>2. /\ logged' = logged
        /\ \/ pc'[r] = "done" /\ reply'[r] = "disabled"
           \/ pc'[r] = "done" /\ reply'[r] = "notFound" /\ call[r].host \notin c.hosts
           \/ pc'[r] = "pins" /\ reply'[r] = "none" /\ call[r].host \in c.hosts
    BY <1>3, <2>1 DEF Find, Answer, Goto, TypeOK
  <2>3. call[r].host \notin c.hosts => ~Allowed(c, call[r]) /\ ~Visible(c, call[r])
    BY DEF Allowed, Visible
  <2>4. pc'[r] = "done" => Prescribed(r, c)'
    BY <1>2, <2>2, <2>3 DEF Prescribed, Success
  <2>5. Passed(r, c, need[r] - 1)'
    BY <1>1, <2>1 DEF Passed
  <2>6. QED
    BY <1>1, <1>2, <2>2, <2>4, <2>5 DEF Pending, QuietSound
<1>4. CASE Attempt(r)
  <2>1. /\ pc[r] = "attempt" /\ reply'[r] \in {"sent", "failed"} /\ logged' = logged
        /\ pc'[r] = IF call[r].route \in Api \cap Acting THEN "record" ELSE "done"
    BY <1>4 DEF Attempt, Goto, TypeOK
  <2>2. call[r].host \in c.hosts /\ Passed(r, c, Len(Needs[call[r].route]))
    BY <2>1 DEF QuietSound
  <2>3. Allowed(c, call[r])
    BY <1>1, <2>2, PassedIsAllowed
  <2>4. Prescribed(r, c)'
    BY <1>2, <2>1, <2>3 DEF Prescribed, Success
  <2>5. Passed(r, c, Len(Needs[call[r].route]))'
    BY <1>1, <1>2, <2>2
  <2>6. QED
    BY <1>1, <1>2, <2>1, <2>2, <2>4, <2>5 DEF Pending, QuietSound
<1>5. CASE Record(r)
  <2>1. /\ pc[r] = "record" /\ pc'[r] = "done" /\ reply'[r] = reply[r] /\ logged'[r] = TRUE
        /\ call[r].route \in Api \cap Acting /\ reply[r] \in {"sent", "failed"}
    BY <1>5 DEF Record, Goto, TypeOK, Pending
  <2>2. call[r].host \in c.hosts /\ Passed(r, c, Len(Needs[call[r].route]))
    BY <2>1 DEF QuietSound
  <2>3. Allowed(c, call[r])
    BY <1>1, <2>2, PassedIsAllowed
  <2>4. Prescribed(r, c)'
    BY <1>2, <2>1, <2>3 DEF Prescribed, Success
  <2>5. QED
    BY <1>1, <2>1, <2>4 DEF Pending, QuietSound
<1>6. QED
  BY <1>3, <1>4, <1>5

\* A request comes in, logs in, or goes out of scope: it has found out nothing.
LEMMA QuietFresh ==
    ASSUME TypeOK, NEW r \in Clients, DecisionSound(r), Pending(r),
           (\E q \in Calls : Arrive(r, q)) \/ Login(r) \/ Verify(r) \/ Return(r)
    PROVE  Pending(r)' /\ \A c \in Configs : (Asks(r) /\ seen[r] = {c} => QuietSound(r, c))'
<1>1. CASE \E q \in Calls : Arrive(r, q)
  <2> PICK q \in Calls : Arrive(r, q)
    BY <1>1
  <2>1. /\ call'[r] = q /\ reply'[r] = "none" /\ ~logged'[r]
        /\ pc'[r] = IF q.route = "login" THEN "login" ELSE "gate"
    BY DEF Arrive, Goto, TypeOK, Pending
  <2>2. QED
    BY <2>1 DEF Pending, QuietSound, Asks
<1>2. CASE Login(r) \/ Verify(r)
  <2>1. /\ call'[r] = call[r] /\ logged' = logged /\ ~Asks(r) /\ ~logged[r] /\ reply[r] = "none"
        /\ pc'[r] = "done" \/ (pc'[r] = "verify" /\ reply'[r] = "none")
    BY <1>2 DEF Login, Verify, Answer, Goto, TypeOK, Pending
  <2>2. QED
    BY <2>1 DEF Pending, Asks
<1>3. CASE Return(r)
  <2>1. pc'[r] = "none" /\ reply'[r] = "none" /\ ~logged'[r]
    BY <1>3 DEF Return, Goto, TypeOK
  <2>2. QED
    BY <2>1 DEF Pending, QuietSound
<1>4. QED
  BY <1>1, <1>2, <1>3

\* The step of one request leaves the others as they are.
LEMMA OneMoves ==
    ASSUME TypeOK, NEW r \in Clients, (\E c \in Calls : Arrive(r, c)) \/ Handler(r) \/ Attempt(r)
    PROVE  /\ boot' = boot
           /\ \A q \in Clients \ {r} :
                  /\ pc'[q] = pc[q] /\ call'[q] = call[q] /\ who'[q] = who[q]
                  /\ need'[q] = need[q] /\ reply'[q] = reply[q] /\ logged'[q] = logged[q]
                  /\ seen'[q] = seen[q]
<1>1. CASE \E c \in Calls : Arrive(r, c)
  BY <1>1 DEF Arrive, Goto, TypeOK, reload
<1>2. CASE Gate(r) \/ Bearer(r) \/ Cookie(r) \/ Login(r) \/ Verify(r)
  BY <1>2 DEF Gate, Bearer, Cookie, Login, Verify, Answer, Goto, TypeOK, reload, request
<1>3. CASE Find(r) \/ Attempt(r) \/ Record(r) \/ Return(r)
  BY <1>3 DEF Find, Attempt, Record, Return, Answer, Goto, TypeOK, reload
<1>4. CASE Pins(r) \/ Enabled(r) \/ Grant(r)
  BY <1>4 DEF Pins, Enabled, Grant, Deny, Granted, Answer, Goto, TypeOK, reload
<1>5. QED
  BY <1>1, <1>2, <1>3, <1>4 DEF Handler

\* The outcome of a request stands where its handler has got to, reloads or not.
LEMMA PendingStep ==
    ASSUME TypeOK, NEW r \in Clients, DecisionSound(r), Pending(r),
           \/ Gate(r) \/ Bearer(r) \/ Cookie(r) \/ Find(r) \/ Pins(r) \/ Enabled(r)
           \/ Grant(r) \/ Attempt(r) \/ Record(r)
    PROVE  Pending(r)'
<1>1. CASE Gate(r) \/ Bearer(r)
  <2>1. /\ call'[r] = call[r] /\ reply'[r] = "none" /\ ~logged'[r]
        /\ pc'[r] \in {"find", "bearer", "cookie"}
    BY <1>1 DEF Gate, Bearer, Goto, TypeOK, Pending, request
  <2>2. QED
    BY <2>1 DEF Pending
<1>2. CASE Cookie(r) \/ Find(r)
  <2>1. /\ call'[r] = call[r] /\ ~logged'[r]
        /\ \/ pc'[r] \in {"find", "pins"} /\ reply'[r] = "none"
           \/ pc'[r] = "done" /\ reply'[r] \in {"unauthorized", "disabled", "notFound"}
    BY <1>2 DEF Cookie, Find, Answer, Goto, TypeOK, Pending
  <2>2. QED
    BY <2>1 DEF Pending
<1>3. CASE Pins(r) \/ Enabled(r) \/ Grant(r)
  <2>1. /\ call'[r] = call[r] /\ ~logged'[r] /\ reply[r] = "none"
        /\ \/ pc'[r] \in {"enabled", "grant"} /\ reply'[r] = "none"
           \/ Granted(r)
           \/ Deny(r)
    BY <1>3 DEF Pins, Enabled, Grant, Goto, TypeOK, Pending
  <2>2. CASE pc'[r] \in {"enabled", "grant"} /\ reply'[r] = "none"
    BY <2>1, <2>2 DEF Pending
  <2>3. CASE Granted(r)
    <3>1. \/ pc'[r] \in {"pins", "attempt"} /\ reply'[r] = "none"
          \/ pc'[r] = "done" /\ reply'[r] = "shown"
      BY <2>1, <2>3 DEF Granted, Answer, Goto, TypeOK
    <3>2. QED
      BY <2>1, <3>1 DEF Pending
  <2>4. CASE Deny(r)
    <3>1. pc'[r] = "done" /\ reply'[r] \in {"forbidden", "notFound"}
      BY <2>4 DEF Deny, Answer, Goto, TypeOK
    <3>2. QED
      BY <2>1, <3>1 DEF Pending
  <2>5. QED
    BY <2>1, <2>2, <2>3, <2>4
<1>4. CASE Attempt(r)
  <2>1. /\ call'[r] = call[r] /\ ~logged'[r] /\ reply'[r] \in {"sent", "failed"}
        /\ pc'[r] = IF call[r].route \in Api \cap Acting THEN "record" ELSE "done"
    BY <1>4 DEF Attempt, Goto, TypeOK, Pending
  <2>2. QED
    BY <2>1 DEF Pending
<1>5. CASE Record(r)
  <2>1. /\ call'[r] = call[r] /\ logged'[r] = TRUE /\ reply'[r] = reply[r]
        /\ pc[r] = "record" /\ pc'[r] = "done"
    BY <1>5 DEF Record, Goto, TypeOK
  <2>2. QED
    BY <2>1 DEF Pending
<1>6. QED
  BY <1>1, <1>2, <1>3, <1>4, <1>5

\* A handler's step, for the request that it serves.
LEMMA QuietHandler ==
    ASSUME TypeOK, DecisionInv, QuietInv, NEW r \in Clients,
           (\E c \in Calls : Arrive(r, c)) \/ Handler(r) \/ Attempt(r)
    PROVE  Pending(r)' /\ \A c \in Configs : (Asks(r) /\ seen[r] = {c} => QuietSound(r, c))'
<1>1. /\ DecisionSound(r) /\ Pending(r)
      /\ \A c \in Configs : Asks(r) /\ seen[r] = {c} => QuietSound(r, c)
  BY DEF DecisionInv, QuietInv
<1>2. CASE (\E c \in Calls : Arrive(r, c)) \/ Login(r) \/ Verify(r) \/ Return(r)
  BY <1>1, <1>2, QuietFresh
<1>3. CASE \/ Gate(r) \/ Bearer(r) \/ Cookie(r) \/ Find(r) \/ Pins(r) \/ Enabled(r)
           \/ Grant(r) \/ Attempt(r) \/ Record(r)
  <2>1. call'[r] = call[r] /\ seen'[r] = seen[r] /\ boot' = boot
    BY <1>3 DEF Gate, Bearer, Cookie, Find, Pins, Enabled, Grant, Attempt, Record, reload,
                request
  <2>2. ASSUME NEW c \in Configs, Asks(r)', seen'[r] = {c}
        PROVE  Pending(r)' /\ QuietSound(r, c)'
    <3>1. Asks(r) /\ seen[r] = {c} /\ QuietSound(r, c)
      BY <1>1, <2>1, <2>2 DEF Asks
    <3>2. ~(Attempt(r) \/ Record(r)) => cfg = c
      <4>1. ~(Attempt(r) \/ Record(r)) => Deciding(r)
        BY <1>3 DEF Gate, Bearer, Cookie, Find, Pins, Enabled, Grant, Deciding
      <4>2. QED
        BY <1>1, <3>1, <4>1, QuietConfig
    <3>3. CASE Gate(r) \/ Bearer(r) \/ Cookie(r)
      <4>1. ~(Attempt(r) \/ Record(r))
        BY <3>3 DEF Gate, Bearer, Cookie, Attempt, Record
      <4>2. QED
        BY <1>1, <3>1, <3>2, <3>3, <4>1, QuietAuthenticate
    <3>4. CASE Pins(r) \/ Enabled(r) \/ Grant(r)
      <4>1. ~(Attempt(r) \/ Record(r))
        BY <3>4 DEF Pins, Enabled, Grant, Attempt, Record
      <4>2. QED
        BY <1>1, <3>1, <3>2, <3>4, <4>1, QuietAsk
    <3>5. CASE Find(r) \/ Attempt(r) \/ Record(r)
      <4>1. Find(r) => ~(Attempt(r) \/ Record(r))
        BY DEF Find, Attempt, Record
      <4>2. QED
        BY <1>1, <3>1, <3>2, <3>5, <4>1, QuietServe
    <3>6. QED
      BY <1>3, <3>3, <3>4, <3>5
  <2>3. Pending(r)'
    BY <1>1, <1>3, PendingStep
  <2>4. QED
    BY <2>2, <2>3
<1>4. QED
  BY <1>2, <1>3 DEF Handler

\* A reload that falls into a request ends its quiet, or leaves the configuration.
LEMMA SwapDisturbs ==
    ASSUME TypeOK, NEW r \in Clients, DecisionSound(r), Swap, NEW c \in Configs, seen'[r] = {c}
    PROVE  seen[r] = {c}
<1>1. CASE Deciding(r)
  <2>1. seen'[r] = seen[r] \cup {cfg'} /\ cfg \in seen[r]
    BY <1>1 DEF Swap, TypeOK, DecisionSound
  <2>2. QED
    BY <2>1
<1>2. CASE ~Deciding(r)
  BY <1>2 DEF Swap, TypeOK
<1>3. QED
  BY <1>1, <1>2

LEMMA QuietInit == Init => QuietInv
<1> SUFFICES ASSUME Init, NEW r \in Clients
             PROVE  /\ Pending(r)
                    /\ \A c \in Configs : Asks(r) /\ seen[r] = {c} => QuietSound(r, c)
  BY DEF QuietInv
<1>1. pc[r] = "none" /\ reply[r] = "none" /\ ~logged[r] /\ seen[r] = {}
  BY DEF Init
<1>2. QED
  BY <1>1 DEF Pending

LEMMA QuietStep == TypeOK /\ DecisionInv /\ QuietInv /\ [Next]_vars => QuietInv'
<1> SUFFICES ASSUME TypeOK, DecisionInv, QuietInv, [Next]_vars, NEW r \in Clients
             PROVE  /\ Pending(r)'
                    /\ \A c \in Configs : (Asks(r) /\ seen[r] = {c} => QuietSound(r, c))'
  BY DEF QuietInv
<1>1. /\ DecisionSound(r) /\ Pending(r)
      /\ \A c \in Configs : Asks(r) /\ seen[r] = {c} => QuietSound(r, c)
  BY DEF DecisionInv, QuietInv
<1>2. CASE \/ \E f \in Configs \cup {Invalid} : Edit(f)
           \/ Hangup \/ Reloader
           \/ UNCHANGED vars
  <2>1. /\ boot' = boot /\ pc' = pc /\ call' = call /\ who' = who
        /\ need' = need /\ reply' = reply /\ logged' = logged
        /\ seen' = seen \/ Swap
    BY <1>2 DEF Edit, Hangup, Reloader, TakeHangup, LoadFile, Swap, vars, reload, request
  <2>2. \A c \in Configs : seen'[r] = {c} => seen[r] = {c}
    BY <1>1, <2>1, SwapDisturbs
  <2>3. QED
    BY <1>1, <2>1, <2>2, QuietUndisturbed
<1>3. ASSUME NEW q \in Clients, (\E c \in Calls : Arrive(q, c)) \/ Handler(q) \/ Attempt(q)
      PROVE  /\ Pending(r)'
             /\ \A c \in Configs : (Asks(r) /\ seen[r] = {c} => QuietSound(r, c))'
  <2>1. CASE q = r
    BY <1>3, <2>1, QuietHandler
  <2>2. CASE q # r
    BY <1>1, <1>3, <2>2, OneMoves, QuietUndisturbed
  <2>3. QED
    BY <2>1, <2>2
<1>4. QED
  BY <1>2, <1>3 DEF Next

\* A request that no reload disturbs finds out what its one configuration says, and
\* only what the API attempts enters the event log (middleware.go 27-100,
\* api_actions.go 30-106).
THEOREM QuietRequests == Spec => []QuietInv
<1>1. Spec => [](TypeOK /\ DecisionInv)
  BY TypeCorrect, Decisions, PTL
<1>2. TypeOK /\ DecisionInv /\ QuietInv /\ [Next]_vars => QuietInv'
  BY QuietStep
<1>3. QED
  BY <1>1, <1>2, QuietInit, PTL DEF Spec

\* The answer to a request that no reload disturbs is the one that its configuration
\* prescribes: no 200 without every permission, no 404 for a host that the caller of
\* the API may see, no 403 for one it may not (api_actions.go 30-106, server.go
\* 199-214).
THEOREM QuietAnswers == Spec => []QuietReply
<1>1. QuietInv => QuietReply
  BY DEF QuietInv, QuietSound, Pending, QuietReply
<1>2. QED
  BY <1>1, QuietRequests, PTL

(***************************************************************************)
(* What must eventually happen.  The prover knows nothing of ENABLED, so    *)
(* the fairness of Requests is stated with its enabling condition written   *)
(* out: FairGuards says that it is strong enough.                           *)
(***************************************************************************)

\* The goroutine of SIGHUP has work.
CanReload == reloader # "idle" \/ hup

\* This condition is strong enough.
FairGuards == CanReload => ENABLED <<Reloader>>_vars

\* WF_vars(Reloader), with this condition.
ReloaderRuns == []<>~CanReload \/ []<><<Reloader>>_vars

\* The fairness of the code gives that much, as long as the condition is strong enough.
LEMMA FairnessRuns == FairSpec /\ []FairGuards => Spec /\ ReloaderRuns
<1>1. FairGuards /\ CanReload => ENABLED <<Reloader>>_vars
  BY DEF FairGuards
<1>2. QED
  BY <1>1, PTL DEF FairSpec, Fairness, ReloaderRuns

\* A reload that has the file f before it: the goroutine is busy with an earlier one,
\* takes the signal, reads f, has read f, or f is in force.
Held(f) == cfg = f /\ next = f
Awaited(l) == hup /\ reloader = l
Read(f) == reloader = "swap" /\ next = f

\* The way of a file that does not change any more, and that may replace the first
\* configuration, from the signal to the configuration in force.
LEMMA ReloadSteps ==
    ASSUME TypeOK, RestartOnlyFieldsHold, NEW f \in Configs, ReloadCompatible(boot, f),
           file = f, [Next]_vars
    PROVE  /\ ReloadCompatible(boot, f)'
           /\ Awaited("swap") => Awaited("swap")' \/ Awaited("idle")'
           /\ Awaited("idle") => Awaited("idle")' \/ (reloader = "load")'
           /\ reloader = "load" => (reloader = "load")' \/ Read(f)'
           /\ Read(f) => Read(f)' \/ Held(f)'
           /\ Held(f) => Held(f)'
           /\ Reloader =>
                  /\ Awaited("swap") => Awaited("idle")'
                  /\ Awaited("idle") => (reloader = "load")'
                  /\ reloader = "load" => Read(f)'
                  /\ Read(f) => Held(f)'
<1>1. f # Invalid /\ reloader \in {"idle", "load", "swap"}
  BY InvalidAssumption DEF TypeOK
<1>2. CASE Reloader
  <2>1. boot' = boot
    BY <1>2 DEF Reloader, TakeHangup, LoadFile, Swap
  <2>2. CASE TakeHangup
    BY <1>1, <2>1, <2>2 DEF TakeHangup, Awaited, Read, Held
  <2>3. CASE LoadFile
    BY <1>1, <2>1, <2>3 DEF LoadFile, Awaited, Read, Held
  <2>4. CASE Swap
    <3>1. next = f => cfg' = f /\ next' = f
      BY <2>4 DEF Swap, ReloadCompatible, RestartOnlyFieldsHold
    <3>2. QED
      BY <1>1, <2>1, <2>4, <3>1 DEF Swap, Awaited, Read, Held
  <2>5. QED
    BY <1>2, <2>2, <2>3, <2>4 DEF Reloader
<1>3. CASE ~Reloader
  <2>1. /\ UNCHANGED <<reloader, next, cfg, boot>>
        /\ hup => hup'
    BY <1>3 DEF Next, Handler, vars, reload, Edit, Hangup, Arrive, Gate, Bearer, Cookie,
       Login, Verify, Find, Pins, Enabled, Grant, Record, Return, Attempt
  <2>2. QED
    BY <1>3, <2>1 DEF Awaited, Read, Held
<1>4. QED
  BY <1>2, <1>3

\* Signals coalesce and files are read while they are edited, yet the last edit that a
\* signal followed comes into force, if it may (main.go 156-178, pointer.go 28-54).
THEOREM ReloadComes == FairSpec /\ []FairGuards => ReloadTakesEffect
<1> SUFFICES ASSUME NEW f \in Configs
             PROVE  Spec /\ ReloaderRuns =>
                        [](hup /\ ReloadCompatible(boot, f) /\ [](file = f) => <>[](cfg = f))
  BY FairnessRuns DEF ReloadTakesEffect
<1> DEFINE Still == TypeOK /\ RestartOnlyFieldsHold /\ file = f
           May == ReloadCompatible(boot, f)
           Loads == reloader = "load"
<1>1. Still /\ May /\ [Next]_vars =>
          /\ May'
          /\ Awaited("swap") => Awaited("swap")' \/ Awaited("idle")'
          /\ Awaited("idle") => Awaited("idle")' \/ Loads'
          /\ Loads => Loads' \/ Read(f)'
          /\ Read(f) => Read(f)' \/ Held(f)'
          /\ Held(f) => Held(f)'
  BY ReloadSteps
<1>2. Still /\ May /\ <<Reloader>>_vars /\ [Next]_vars =>
          /\ Awaited("swap") => Awaited("idle")'
          /\ Awaited("idle") => Loads'
          /\ Loads => Read(f)'
          /\ Read(f) => Held(f)'
  BY ReloadSteps
<1>3. TypeOK /\ hup => Awaited("swap") \/ Awaited("idle") \/ Loads
  BY DEF TypeOK, Awaited
<1>4. Awaited("swap") \/ Awaited("idle") \/ Loads \/ Read(f) => CanReload
  BY DEF Awaited, Read, CanReload
<1>5. Held(f) => cfg = f
  BY DEF Held
<1> HIDE DEF May, Loads
<1>6. Spec /\ ReloaderRuns => [](hup /\ May /\ [](file = f) => <>[](cfg = f))
  BY <1>1, <1>2, <1>3, <1>4, <1>5, TypeCorrect, RestartOnly, PTL DEF Spec, ReloaderRuns, Still
<1>7. QED
  BY <1>6, PTL DEF May

=============================================================================
