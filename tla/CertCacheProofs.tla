-------------------------- MODULE CertCacheProofs --------------------------
(***************************************************************************)
(* Proofs about CertCache, for any hosts, users, configurations and        *)
(* lifetimes, any number of calls, and a clock of any resolution.          *)
(***************************************************************************)
EXTENDS CertCache, TLAPS

(***************************************************************************)
(* Arithmetic of time.                                                     *)
(***************************************************************************)

LEMMA SecondPositive == Second \in Nat \ {0}
  BY TimeAssumption DEF Second

LEMMA HalfSign ==
    ASSUME NEW s \in Int
    PROVE  /\ Half(s) \in Int /\ Ticks(s) \in Int
           /\ Ticks(s) = Half(s) + Half(s)
           /\ s >= 0 => Half(s) >= 0
           /\ s <= 0 => Half(s) <= 0
<1>1. Half(s) \in Int
  BY TimeAssumption DEF Half
<1>2. s >= 0 => s * HalfSecond >= 0
  BY TimeAssumption
<1>3. s <= 0 => s * HalfSecond <= 0
  BY TimeAssumption
<1>4. QED
  BY <1>1, <1>2, <1>3 DEF Half, Ticks

\* Rounding down loses less than a second.
LEMMA FloorBounds ==
    ASSUME NEW t \in Int
    PROVE  /\ Floor(t) \in Int
           /\ t < Floor(t) + Second
<1>1. t % Second \in Int /\ t % Second < Second
  BY SecondPositive
<1>2. QED
  BY <1>1, SecondPositive DEF Floor

LEMMA TTLType == ASSUME NEW c \in Configs PROVE MaintenanceTTL(c) \in Int
  BY ConfigsAssumption, TimeAssumption DEF MaintenanceTTL, Config

\* A certificate that is signed now lives as long as its lifetime, counted from a call
\* that began before, which is as long as its TTL, and longer if that is none.
LEMMA SignedLives ==
    ASSUME TypeOK, NEW key \in Keys, NEW s \in Int, NEW asked \in Nat, asked <= now
    PROVE  /\ Signed(key, s) \in Cert
           /\ Signed(key, s).key = key
           /\ asked + Ticks(Lifetime(s)) < Signed(key, s).before + Second
           /\ asked + Ticks(s) < Signed(key, s).before + Second
           /\ asked + Half(s) < Signed(key, s).before + Second
<1> DEFINE life == Lifetime(s)
<1>1. life \in Int /\ life >= 0 /\ (s > 0 => life = s)
  BY TimeAssumption DEF Lifetime
<1>2. now + Ticks(life) \in Int /\ now \in Int
  BY <1>1, HalfSign DEF TypeOK
<1>3. /\ Floor(now + Ticks(life)) \in Int
      /\ now + Ticks(life) < Floor(now + Ticks(life)) + Second
  BY <1>2, FloorBounds
<1>4. Signed(key, s) = [key |-> key, before |-> Floor(now + Ticks(life))]
  BY DEF Signed
<1>5. /\ asked + Ticks(life) <= now + Ticks(life)
      /\ asked + Ticks(s) <= now + Ticks(life)
      /\ asked + Half(s) <= now + Ticks(life)
  <2>1. CASE s > 0
    BY <2>1, <1>1, <1>2, HalfSign
  <2>2. CASE s <= 0
    BY <2>2, <1>1, <1>2, HalfSign
  <2>3. QED
    BY <2>1, <2>2
<1>6. /\ Ticks(s) \in Int /\ Half(s) \in Int /\ Ticks(life) \in Int
      /\ Second \in Int
  BY <1>1, HalfSign, SecondPositive
<1>7. QED
  BY <1>2, <1>3, <1>4, <1>5, <1>6 DEF Cert

(***************************************************************************)
(* Type correctness.                                                       *)
(***************************************************************************)

LEMMA TypeInit == Init => TypeOK
  BY DEF Init, TypeOK, Call

LEMMA UserType ==
    ASSUME NEW c \in Configs, NEW h \in Host
    PROVE  MaintenanceUser(c, h) \in Users \cup {NoUser}
  BY ConfigsAssumption DEF MaintenanceUser, Config, Host

\* What a call is, by where it stands.
LEMMA CallFields ==
    ASSUME TypeOK, NEW d \in Dials
    PROVE  /\ call[d].pc # "idle" => call[d].key \in Keys /\ call[d].asked \in Nat
           /\ call[d].pc = "decide" => call[d].found \in Entry
           /\ Presenting(d) => call[d].ttl \in Int /\ call[d].cert \in Cert
  BY DEF TypeOK, Call, Presenting

LEMMA TypeStep == TypeOK /\ [Next]_vars => TypeOK'
<1> SUFFICES ASSUME TypeOK, [Next]_vars PROVE TypeOK'
  OBVIOUS
<1>1. ASSUME NEW d \in Dials, NEW r \in Call, Become(d, r), UNCHANGED <<now, config, cache>>
      PROVE  TypeOK'
  BY <1>1 DEF TypeOK, Become
<1>2. CASE Tick
  BY <1>2 DEF Tick, TypeOK
<1>3. CASE StoreConfig
  BY <1>3 DEF StoreConfig, TypeOK
<1>4. CASE UNCHANGED vars
  BY <1>4 DEF vars, TypeOK
<1>5. ASSUME NEW d \in Dials, DialStep(d) PROVE TypeOK'
  <2>1. CASE Resolve(d)
    <3>0. PICK c \in Configs : \E h \in c.hosts :
              /\ MaintenanceUser(config, h) # NoUser
              /\ Become(d, [pc |-> "look", key |-> <<h.name, MaintenanceUser(config, h)>>,
                            asked |-> now])
      BY <2>1 DEF Resolve
    <3>1. PICK h \in c.hosts :
              /\ MaintenanceUser(config, h) # NoUser
              /\ Become(d, [pc |-> "look", key |-> <<h.name, MaintenanceUser(config, h)>>,
                            asked |-> now])
      BY <3>0
    <3>2. h \in Host /\ config \in Configs
      BY <3>1, ConfigsAssumption DEF Config, TypeOK
    <3>3. <<h.name, MaintenanceUser(config, h)>> \in Keys /\ now \in Nat
      BY <3>1, <3>2, UserType DEF Keys, Host, TypeOK
    <3>4. QED
      BY <1>1, <2>1, <3>1, <3>3 DEF Resolve, Call
  <2>2. CASE Look(d)
    <3>1. call[d].key \in Keys /\ call[d].asked \in Nat
      BY <2>2, CallFields DEF Look
    <3>2. cache[Slot(call[d].key)] \subseteq Entry
      BY <3>1 DEF TypeOK, Slot
    <3>3. QED
      BY <1>1, <2>2, <3>1, <3>2 DEF Look, Call
  <2>3. CASE Decide(d)
    <3>1. /\ call[d].key \in Keys /\ call[d].asked \in Nat
          /\ call[d].found.cert \in Cert /\ MaintenanceTTL(config) \in Int
      BY <2>3, CallFields, TTLType DEF Decide, Entry, TypeOK
    <3>2. QED
      BY <1>1, <2>3, <3>1 DEF Decide, Call
  <2>4. CASE Mint(d)
    <3>1. /\ call[d].key \in Keys /\ call[d].asked \in Nat
          /\ MaintenanceTTL(config) \in Int
      BY <2>4, CallFields, TTLType DEF Mint, TypeOK
    <3>2. Signed(call[d].key, MaintenanceTTL(config)) \in Cert
      BY <3>1, SignedLives DEF TypeOK
    <3>3. QED
      BY <1>1, <2>4, <3>1, <3>2 DEF Mint, Call
  <2>5. CASE Store(d)
    <3>1. /\ call[d].key \in Keys /\ call[d].cert \in Cert
          /\ call[d].asked + Ticks(call[d].ttl) \in Int
      BY <2>5, CallFields, HalfSign DEF Store, Presenting
    <3>2. cache' \in [Keys -> SUBSET Entry]
      BY <2>5, <3>1 DEF Store, TypeOK, Entry, Slot
    <3>3. [call[d] EXCEPT !.pc = "connect"] \in Call
      BY <2>5 DEF Store, Call, TypeOK
    <3>4. QED
      BY <2>5, <3>2, <3>3 DEF Store, Become, TypeOK
  <2>6. CASE Connected(d)
    BY <1>1, <2>6 DEF Connected, Call
  <2>7. QED
    BY <1>5, <2>1, <2>2, <2>3, <2>4, <2>5, <2>6 DEF DialStep
<1>6. QED
  BY <1>2, <1>3, <1>4, <1>5 DEF Next

\* Every call and every entry of the cache has its form, for a host and a user that is
\* set (manager.go 86-150).
THEOREM TypeCorrect == Spec => []TypeOK
  BY TypeInit, TypeStep, PTL DEF Spec

(***************************************************************************)
(* The certificates.                                                       *)
(***************************************************************************)

LEMMA CertInit == Init => CertInv
  BY DEF Init, CertInv, Presenting, Slot

\* What CertInv says of one call.
CallInv(d) ==
    LET r == call[d]
    IN  /\ r.pc # "idle" => r.asked <= now
        /\ r.pc = "decide" => Honest(r.found, r.key)
        /\ r.pc = "store" =>
               /\ r.asked + Ticks(r.ttl) < r.cert.before + Second
               /\ r.asked + Ticks(Lifetime(r.ttl)) < r.cert.before + Second
        /\ Presenting(d) => /\ r.cert.key = r.key
                            /\ r.asked + Half(r.ttl) < r.cert.before + Second

LEMMA CertStep == TypeOK /\ CertInv /\ [Next]_vars => CertInv'
<1> SUFFICES ASSUME TypeOK, CertInv, [Next]_vars PROVE CertInv'
  OBVIOUS
<1>0. /\ \A k \in Keys : \A e \in cache[Slot(k)] : Honest(e, k)
      /\ \A d \in Dials : CallInv(d)
  BY DEF CertInv, CallInv
<1>1. SUFFICES /\ \A k \in Keys : \A e \in cache'[Slot(k)] : Honest(e, k)
               /\ \A d \in Dials : CallInv(d)'
  BY DEF CertInv, CallInv, Honest, Slot
\* A step of one call that leaves the cache alone.
<1>2. ASSUME NEW d \in Dials, UNCHANGED <<now, config, cache>>,
             NEW r, Become(d, r), CallInv(d)'
      PROVE  \A c \in Dials : CallInv(c)'
  <2>1. ASSUME NEW c \in Dials, c # d PROVE CallInv(c)'
    <3>1. call'[c] = call[c] /\ now' = now
      BY <1>2, <2>1 DEF Become, TypeOK
    <3>2. QED
      BY <1>0, <3>1 DEF CallInv, Presenting
  <2>2. QED
    BY <1>2, <2>1
<1>3. CASE Tick
  <2>1. now \in Nat /\ now' = now + 1 /\ call' = call /\ cache' = cache
    BY <1>3 DEF Tick, TypeOK
  <2>2. ASSUME NEW d \in Dials PROVE CallInv(d)'
    <3>1. call[d].pc # "idle" => call[d].asked \in Nat
      BY CallFields
    <3>2. QED
      BY <1>0, <2>1, <3>1 DEF CallInv, Presenting
  <2>3. QED
    BY <1>0, <2>1, <2>2
<1>4. CASE StoreConfig
  BY <1>0, <1>4 DEF StoreConfig, CallInv, Presenting
<1>5. CASE UNCHANGED vars
  BY <1>0, <1>5 DEF vars, CallInv, Presenting
<1>6. ASSUME NEW d \in Dials, DialStep(d)
      PROVE  /\ \A k \in Keys : \A e \in cache'[Slot(k)] : Honest(e, k)
             /\ \A c \in Dials : CallInv(c)'
  <2>1. CASE Resolve(d)
    <3>1. PICK u : Become(d, [pc |-> "look", key |-> u, asked |-> now])
      BY <2>1 DEF Resolve
    <3>2. CallInv(d)'
      BY <2>1, <3>1 DEF Resolve, Become, CallInv, Presenting, TypeOK
    <3>3. QED
      BY <1>0, <1>2, <2>1, <3>1, <3>2 DEF Resolve
  <2>2. CASE Look(d)
    <3>1. call[d].key \in Keys /\ call[d].asked <= now
      BY <1>0, <2>2, CallFields DEF Look, CallInv
    <3>2. CallInv(d)'
      BY <1>0, <2>2, <3>1 DEF Look, Become, CallInv, Presenting, TypeOK, Honest
    <3>3. QED
      BY <1>0, <1>2, <2>2, <3>2 DEF Look
  <2>3. CASE Decide(d)
    <3> DEFINE s == MaintenanceTTL(config)
               r == call[d]
               e == r.found
    <3>1. /\ r.key \in Keys /\ r.asked \in Nat /\ r.asked <= now
          /\ e.cert.key = r.key /\ e.expires < e.cert.before + Second
      BY <1>0, <2>3, CallFields DEF Decide, CallInv, Honest
    <3>2. e.expires \in Int /\ e.cert.before \in Int /\ Half(s) \in Int /\ Second \in Int
      BY <2>3, CallFields, TTLType, HalfSign, SecondPositive DEF Decide, Entry, Cert, TypeOK
    <3>3. CASE Fresh(e, r.asked, s)
      <4>1. r.asked + Half(s) < e.cert.before + Second
        BY <3>1, <3>2, <3>3 DEF Fresh
      <4>2. Become(d, [pc |-> "connect", key |-> r.key, asked |-> r.asked,
                       ttl |-> s, cert |-> e.cert])
        BY <2>3, <3>3 DEF Decide
      <4>3. CallInv(d)'
        BY <2>3, <3>1, <4>1, <4>2 DEF Decide, Become, CallInv, Presenting, TypeOK
      <4>4. QED
        BY <1>0, <1>2, <2>3, <4>2, <4>3 DEF Decide
    <3>4. CASE ~Fresh(e, r.asked, s)
      <4>1. Become(d, [pc |-> "mint", key |-> r.key, asked |-> r.asked])
        BY <2>3, <3>4 DEF Decide
      <4>2. CallInv(d)'
        BY <2>3, <3>1, <4>1 DEF Decide, Become, CallInv, Presenting, TypeOK
      <4>3. QED
        BY <1>0, <1>2, <2>3, <4>1, <4>2 DEF Decide
    <3>5. QED
      BY <3>3, <3>4
  <2>4. CASE Mint(d)
    <3> DEFINE s == MaintenanceTTL(config)
               r == call[d]
               new == [pc |-> "store", key |-> r.key, asked |-> r.asked,
                       ttl |-> s, cert |-> Signed(r.key, s)]
    <3>1. r.key \in Keys /\ r.asked \in Nat /\ r.asked <= now /\ s \in Int
      BY <1>0, <2>4, CallFields, TTLType DEF Mint, CallInv, TypeOK
    <3>2. /\ Signed(r.key, s).key = r.key
          /\ r.asked + Ticks(s) < Signed(r.key, s).before + Second
          /\ r.asked + Ticks(Lifetime(s)) < Signed(r.key, s).before + Second
          /\ r.asked + Half(s) < Signed(r.key, s).before + Second
      BY <3>1, SignedLives
    <3>3. CASE Become(d, new)
      <4>1. CallInv(d)'
        BY <2>4, <3>1, <3>2, <3>3 DEF Mint, Become, CallInv, Presenting, TypeOK
      <4>2. QED
        BY <1>0, <1>2, <2>4, <3>3, <4>1 DEF Mint
    <3>4. CASE Become(d, [pc |-> "idle"])
      <4>1. CallInv(d)'
        BY <2>4, <3>4 DEF Mint, Become, CallInv, Presenting, TypeOK
      <4>2. QED
        BY <1>0, <1>2, <2>4, <3>4, <4>1 DEF Mint
    <3>5. QED
      BY <2>4, <3>3, <3>4 DEF Mint
  <2>5. CASE Store(d)
    <3> DEFINE r == call[d]
               new == [cert |-> r.cert, expires |-> r.asked + Ticks(r.ttl)]
    <3>1. r.key \in Keys /\ CallInv(d) /\ r \in Call /\ r.pc = "store"
      BY <1>0, <2>5, CallFields DEF Store, TypeOK
    <3>2. Honest(new, r.key)
      BY <3>1 DEF CallInv, Honest, Presenting
    <3>3. \A k \in Keys : cache'[k] = IF k = r.key THEN {new} ELSE cache[k]
      BY <2>5, <3>1 DEF Store, TypeOK, Slot
    <3>4. \A k \in Keys : \A e \in cache'[Slot(k)] : Honest(e, k)
      BY <1>0, <3>2, <3>3 DEF Slot
    <3>5. /\ call' = [call EXCEPT ![d] = [r EXCEPT !.pc = "connect"]]
          /\ now' = now
      BY <2>5 DEF Store, Become
    <3>6. ASSUME NEW c \in Dials, c # d PROVE CallInv(c)'
      BY <1>0, <3>5, <3>6 DEF CallInv, Presenting, TypeOK
    <3>7. /\ call'[d].pc = "connect" /\ call'[d].key = r.key /\ call'[d].ttl = r.ttl
          /\ call'[d].asked = r.asked /\ call'[d].cert = r.cert
      BY <3>1, <3>5 DEF TypeOK, Call
    <3>8. CallInv(d)'
      BY <3>1, <3>5, <3>7 DEF CallInv, Presenting
    <3>9. QED
      BY <3>4, <3>6, <3>8
  <2>6. CASE Connected(d)
    <3>1. CallInv(d)'
      BY <2>6 DEF Connected, Become, CallInv, Presenting, TypeOK
    <3>2. QED
      BY <1>0, <1>2, <2>6, <3>1 DEF Connected
  <2>7. QED
    BY <1>6, <2>1, <2>2, <2>3, <2>4, <2>5, <2>6 DEF DialStep
<1>7. QED
  BY <1>3, <1>4, <1>5, <1>6 DEF Next

\* Every entry expires with its certificate or before it, but for the rounding, and is
\* kept under the host and the user that it was minted for (manager.go 117-150).
THEOREM CertsCorrect == Spec => []CertInv
  BY TypeInit, TypeStep, CertInit, CertStep, PTL DEF Spec

LEMMA CertInvSuffices == CertInv => ValidWhenUsed /\ CertIsForUser
  BY DEF CertInv, ValidWhenUsed, CertIsForUser

\* A certificate that is presented ends more than half of the TTL after the call of Dial
\* began, but for the rounding, and a new one has its whole lifetime before it, under any
\* interleaving of calls and reloads (manager.go 117-150, sshca.go 112-135).
THEOREM Valid == Spec => []ValidWhenUsed
  BY CertsCorrect, CertInvSuffices, PTL

\* A call presents a certificate for the host and the user that it connects as
\* (manager.go 91, 118, 131-133).
THEOREM ForUser == Spec => []CertIsForUser
  BY CertsCorrect, CertInvSuffices, PTL

============================================================================
