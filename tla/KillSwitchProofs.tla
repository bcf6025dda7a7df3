-------------------------- MODULE KillSwitchProofs --------------------------
(***************************************************************************)
(* First the cache of SwitchCache, for every number of callers, every time *)
(* to live, every query latency and every history of writes: the inductive *)
(* invariant CacheInv and its three consequences.  Then what a push        *)
(* achieves, for every set of Actors and every history of armed sets: the  *)
(* kill switch uses the cache as SwitchCache says, and with the cache's    *)
(* theorems nobody a push has covered is connected through the handshake   *)
(* or answered "active".                                                   *)
(***************************************************************************)
EXTENDS KillSwitch, TLAPS

-----------------------------------------------------------------------------
(* The cache.                                                              *)

\* What is cached or has been read was stored, and if it no longer is, it was
\* overwritten at most one query before the cache was filled.
AgeInv ==
  /\ cache.full => /\ cache.v <= db
                   /\ cache.v < db => gone[cache.v] <= cache.age + Latency
  /\ query.pc = "read" => /\ query.v <= db
                          /\ query.v < db => gone[query.v] <= query.age

\* A query is outstanding only while nothing fresh is cached: single flight.
FlightInv == query.pc # "none" => ~Fresh

\* Neither the cache nor the query is behind what was shown or invalidated.
OrderInv ==
  /\ unsaid \subseteq 0..db
  /\ shown <= db /\ quiet <= db
  /\ cache.full => shown <= cache.v /\ quiet <= cache.v
  /\ query.pc = "read" => shown <= query.v /\ quiet <= query.v

CacheInv == CacheTypeOK /\ AgeInv /\ FlightInv /\ OrderInv

\* An age stays within its cap.
LEMMA OlderType ==
  ASSUME NEW cap \in Nat, NEW age \in 0..cap
  PROVE  Older(age, cap) \in 0..cap
BY DEF Older

\* An age under its cap has room for one more tick, and a tick adds at most one.
LEMMA RoomForOne ==
  ASSUME NEW cap \in Nat, NEW age \in 0..cap, age < cap
  PROVE  age + 1 \in 0..cap
OBVIOUS

LEMMA OlderStep ==
  ASSUME NEW cap \in Nat, NEW age \in 0..cap
  PROVE  Older(age, cap) \in Nat /\ Older(age, cap) <= age + 1
BY DEF Older

\* Two ages advance together: a lead of at most `lag` stays one, also when
\* either has reached its cap.
LEMMA OlderPair ==
  ASSUME NEW cap \in Nat, NEW lag \in Nat, NEW age \in 0..cap,
         NEW lead \in 0..(cap + lag), lead <= age + lag
  PROVE  Older(lead, cap + lag) <= Older(age, cap) + lag
BY DEF Older

\* The types are kept by every step.
LEMMA TypeStep == CacheTypeOK /\ [CacheNext]_cacheVars => CacheTypeOK'
<1> SUFFICES ASSUME CacheTypeOK, [CacheNext]_cacheVars PROVE CacheTypeOK'
  OBVIOUS
<1> USE CacheAssumption DEF CacheTypeOK, Version, Horizon
<1>1. CASE UNCHANGED cacheVars
  BY <1>1 DEF cacheVars
<1>2. ASSUME NEW r \in Reader, Hit(r) PROVE CacheTypeOK'
  BY <1>2 DEF Hit, Larger
<1>3. ASSUME NEW r \in Reader, Miss(r) PROVE CacheTypeOK'
  BY <1>3 DEF Miss, Wait, Sent
<1>4. CASE DbRead
  BY <1>4 DEF DbRead
<1>5. CASE Resolve
  BY <1>5 DEF Resolve, NoQuery, Larger
<1>6. CASE Reject
  BY <1>6 DEF Reject, NoQuery
<1>7. ASSUME NEW own \in BOOLEAN, Commit(own) PROVE CacheTypeOK'
  BY <1>7 DEF Commit
<1>8. ASSUME NEW v \in Version, NEW C \in SUBSET Reader, Invalidate(v, C)
      PROVE CacheTypeOK'
  BY <1>8 DEF Invalidate, Wait, Sent, NoEntry, Larger
<1>9. CASE Tick
  <2>1. cache' \in [full : BOOLEAN, v : Version, age : 0..Ttl]
    <3>1. Older(cache.age, Ttl) \in 0..Ttl
      BY OlderType
    <3>2. cache' = [cache EXCEPT !.age = Older(cache.age, Ttl)]
      BY <1>9 DEF Tick
    <3> QED
      BY <3>1, <3>2
  <2>2. query' \in [pc : {"none", "sent", "read"}, v : Version, age : 0..Latency]
    <3>1. CASE query.pc = "none"
      BY <1>9, <3>1 DEF Tick
    <3>2. CASE query.pc # "none"
      <4>1. query.age \in 0..Latency /\ query.age < Latency
        BY <1>9, <3>2 DEF Tick
      <4>2. query' = [query EXCEPT !.age = query.age + 1]
        BY <1>9, <3>2 DEF Tick
      <4>3. query.age + 1 \in 0..Latency
        <5> HIDE DEF CacheTypeOK
        <5> QED
          BY <4>1, RoomForOne
      <4> QED
        BY <4>2, <4>3
    <3> QED
      BY <3>1, <3>2
  <2>3. gone' \in [Version -> 0..Horizon]
    <3>1. Horizon \in Nat
      OBVIOUS
    <3> HIDE DEF Horizon
    <3>2. \A v \in Version : Older(gone[v], Horizon) \in 0..Horizon
      BY <3>1, OlderType
    <3> QED
      BY <1>9, <3>1, <3>2 DEF Tick
  <2> QED
    BY <1>9, <2>1, <2>2, <2>3 DEF Tick
<1>10. ASSUME NEW v \in Version, NEW r \in Reader, Invalidate(v, {r})
       PROVE CacheTypeOK'
  BY <1>8, <1>10
<1>11. ASSUME NEW v \in Version, Invalidate(v, {}) PROVE CacheTypeOK'
  BY <1>8, <1>11
<1> QED
  BY <1>1, <1>2, <1>3, <1>4, <1>5, <1>6, <1>7, <1>9, <1>10, <1>11
  DEF CacheNext

\* Every step keeps AgeInv: time adds as much to an entry's age as to the age
\* of the write that overtook it.
LEMMA AgeStep == CacheInv /\ [CacheNext]_cacheVars => AgeInv'
<1> SUFFICES ASSUME CacheInv, [CacheNext]_cacheVars PROVE AgeInv'
  OBVIOUS
<1> USE CacheAssumption DEF CacheInv, CacheTypeOK, AgeInv, Version, Horizon
<1>1. CASE UNCHANGED cacheVars
  BY <1>1 DEF cacheVars
<1>2. ASSUME NEW r \in Reader, Hit(r) PROVE AgeInv'
  BY <1>2 DEF Hit
<1>3. ASSUME NEW r \in Reader, Miss(r) PROVE AgeInv'
  BY <1>3 DEF Miss, Wait, Sent
<1>4. CASE DbRead
  <2>1. /\ query' = [query EXCEPT !.pc = "read", !.v = db]
        /\ UNCHANGED <<cache, db, gone>>
    BY <1>4 DEF DbRead
  <2>2. query'.v = db
    BY <2>1
  <2>3. cache'.full => /\ cache'.v <= db'
                       /\ cache'.v < db' => gone'[cache'.v] <= cache'.age + Latency
    BY <2>1
  <2>4. db' = db /\ db \in Nat
    BY <2>1
  <2> HIDE DEF CacheInv, CacheTypeOK
  <2>5. query'.v <= db' /\ ~(query'.v < db')
    BY <2>2, <2>4
  <2> QED
    BY <2>3, <2>5
<1>5. CASE Resolve
  BY <1>5 DEF Resolve, NoQuery
<1>6. CASE Reject
  BY <1>6 DEF Reject, NoQuery
<1>7. ASSUME NEW own \in BOOLEAN, Commit(own) PROVE AgeInv'
  <2>1. /\ db' = db + 1 /\ gone'[db] = 0
        /\ \A v \in Version : v # db => gone'[v] = gone[v]
        /\ UNCHANGED <<cache, query>>
    BY <1>7 DEF Commit
  <2>2. cache.full => /\ cache.v <= db'
                      /\ gone'[cache.v] <= cache.age + Latency
    BY <2>1
  <2>3. query.pc = "read" => /\ query.v <= db'
                             /\ gone'[query.v] <= query.age
    BY <2>1
  <2> QED
    BY <2>1, <2>2, <2>3
<1>8. ASSUME NEW v \in Version, NEW C \in SUBSET Reader, Invalidate(v, C)
      PROVE AgeInv'
  BY <1>8 DEF Invalidate, Wait, Sent, NoEntry
<1>9. CASE Tick
  <2>1. /\ cache'.full = cache.full /\ cache'.v = cache.v
        /\ cache'.age = Older(cache.age, Ttl)
    BY <1>9 DEF Tick
  <2>2. query.pc = "read" => /\ query'.pc = "read" /\ query'.v = query.v
                             /\ query'.age = query.age + 1
    BY <1>9 DEF Tick
  <2>3. query.pc # "read" => query'.pc # "read"
    BY <1>9 DEF Tick
  <2>4. \A v \in Version : v < db => gone'[v] = Older(gone[v], Ttl + Latency)
    BY <1>9 DEF Tick
  <2>5. db' = db
    BY <1>9 DEF Tick
  <2>6. cache.full /\ cache.v < db => gone'[cache.v] <= cache'.age + Latency
    <3> SUFFICES ASSUME cache.full, cache.v < db
                 PROVE  gone'[cache.v] <= cache'.age + Latency
      OBVIOUS
    <3>1. Older(gone[cache.v], Ttl + Latency) <= Older(cache.age, Ttl) + Latency
      BY OlderPair
    <3> QED
      BY <2>1, <2>4, <3>1
  <2>7. query.pc = "read" /\ query.v < db => gone'[query.v] <= query'.age
    <3> SUFFICES ASSUME query.pc = "read", query.v < db
                 PROVE  gone'[query.v] <= query'.age
      OBVIOUS
    <3>1. /\ query'.age = query.age + 1 /\ query.age \in Nat
          /\ gone'[query.v] = Older(gone[query.v], Ttl + Latency)
      BY <2>2, <2>4
    <3>2. /\ gone[query.v] \in 0..(Ttl + Latency) /\ gone[query.v] \in Nat
          /\ gone[query.v] <= query.age
      OBVIOUS
    <3> DEFINE cap == Ttl + Latency  past == gone[query.v]
    <3> HIDE DEF CacheInv, CacheTypeOK, AgeInv, Version, Horizon
    <3>3. /\ Older(gone[query.v], Ttl + Latency) \in Nat
          /\ Older(gone[query.v], Ttl + Latency) <= gone[query.v] + 1
      <4>1. cap \in Nat /\ past \in 0..cap
        BY <3>2
      <4> HIDE DEF cap, past
      <4>2. Older(past, cap) \in Nat /\ Older(past, cap) <= past + 1
        BY <4>1, OlderStep
      <4> QED
        BY <4>2 DEF cap, past
    <3> QED
      BY <3>1, <3>2, <3>3
  <2> QED
    BY <2>1, <2>2, <2>3, <2>5, <2>6, <2>7
<1>10. ASSUME NEW v \in Version, NEW r \in Reader, Invalidate(v, {r})
       PROVE AgeInv'
  BY <1>8, <1>10
<1>11. ASSUME NEW v \in Version, Invalidate(v, {}) PROVE AgeInv'
  BY <1>8, <1>11
<1> QED
  BY <1>1, <1>2, <1>3, <1>4, <1>5, <1>6, <1>7, <1>9, <1>10, <1>11
  DEF CacheNext

\* Every step keeps the query exclusive of a fresh cache.
LEMMA FlightStep == CacheInv /\ [CacheNext]_cacheVars => FlightInv'
<1> SUFFICES ASSUME CacheInv, [CacheNext]_cacheVars PROVE FlightInv'
  OBVIOUS
<1> USE CacheAssumption DEF CacheInv, CacheTypeOK, FlightInv, Fresh
<1>1. CASE UNCHANGED cacheVars
  BY <1>1 DEF cacheVars
<1>2. ASSUME NEW r \in Reader, Hit(r) PROVE FlightInv'
  BY <1>2 DEF Hit
<1>3. ASSUME NEW r \in Reader, Miss(r) PROVE FlightInv'
  BY <1>3 DEF Miss
<1>4. CASE DbRead
  BY <1>4 DEF DbRead
<1>5. CASE Resolve
  BY <1>5 DEF Resolve, NoQuery
<1>6. CASE Reject
  BY <1>6 DEF Reject, NoQuery
<1>7. ASSUME NEW own \in BOOLEAN, Commit(own) PROVE FlightInv'
  BY <1>7 DEF Commit
<1>8. ASSUME NEW v \in Version, NEW C \in SUBSET Reader, Invalidate(v, C)
      PROVE FlightInv'
  BY <1>8 DEF Invalidate, NoEntry
<1>9. CASE Tick
  BY <1>9 DEF Tick, Older
<1>10. ASSUME NEW v \in Version, NEW r \in Reader, Invalidate(v, {r})
       PROVE FlightInv'
  BY <1>8, <1>10
<1>11. ASSUME NEW v \in Version, Invalidate(v, {}) PROVE FlightInv'
  BY <1>8, <1>11
<1> QED
  BY <1>1, <1>2, <1>3, <1>4, <1>5, <1>6, <1>7, <1>9, <1>10, <1>11
  DEF CacheNext

\* Every step keeps the order of what is shown, invalidated, cached and read.
LEMMA OrderStep == CacheInv /\ [CacheNext]_cacheVars => OrderInv'
<1> SUFFICES ASSUME CacheInv, [CacheNext]_cacheVars PROVE OrderInv'
  OBVIOUS
<1> USE CacheAssumption DEF CacheInv, CacheTypeOK, OrderInv, Version
<1>1. CASE UNCHANGED cacheVars
  BY <1>1 DEF cacheVars
<1>2. ASSUME NEW r \in Reader, Hit(r) PROVE OrderInv'
  <2>1. /\ cache.full /\ query.pc = "none"
        /\ shown' = Larger(shown, cache.v)
        /\ UNCHANGED <<db, cache, query, unsaid, quiet>>
    BY <1>2 DEF Hit, FlightInv, Fresh
  <2>2. shown <= cache.v /\ cache.v <= db
    BY <2>1 DEF AgeInv
  <2>3. shown' = cache.v
    BY <2>1, <2>2 DEF Larger
  <2>4. /\ cache.v \in Nat /\ unsaid \subseteq 0..db
        /\ quiet <= db /\ quiet <= cache.v
    BY <2>1
  <2> HIDE DEF CacheInv, CacheTypeOK
  <2> QED
    BY <2>1, <2>2, <2>3, <2>4
<1>3. ASSUME NEW r \in Reader, Miss(r) PROVE OrderInv'
  BY <1>3 DEF Miss, Wait, Sent
<1>4. CASE DbRead
  BY <1>4 DEF DbRead
<1>5. CASE Resolve
  <2>1. /\ query.pc = "read" /\ cache'.v = query.v /\ query'.pc = "none"
        /\ shown' = Larger(shown, query.v)
        /\ UNCHANGED <<db, unsaid, quiet>>
    BY <1>5 DEF Resolve, NoQuery
  <2>2. shown <= query.v /\ query.v <= db
    BY <2>1 DEF AgeInv
  <2>3. shown' = query.v
    BY <2>1, <2>2 DEF Larger
  <2>4. /\ query.v \in Nat /\ unsaid \subseteq 0..db
        /\ quiet <= db /\ quiet <= query.v
    BY <2>1
  <2> HIDE DEF CacheInv, CacheTypeOK
  <2> QED
    BY <2>1, <2>2, <2>3, <2>4
<1>6. CASE Reject
  BY <1>6 DEF Reject, NoQuery
<1>7. ASSUME NEW own \in BOOLEAN, Commit(own) PROVE OrderInv'
  BY <1>7 DEF Commit
<1>8. ASSUME NEW v \in Version, NEW C \in SUBSET Reader, Invalidate(v, C)
      PROVE OrderInv'
  <2>1. /\ v \in unsaid /\ unsaid' = unsaid \ {v} /\ cache'.full = FALSE
        /\ UNCHANGED <<db, shown>>
    BY <1>8 DEF Invalidate, NoEntry
  <2>2. CASE query.pc = "none"
    <3>1. query'.pc # "read"
      BY <1>8, <2>2 DEF Invalidate, Wait, Sent
    <3>2. quiet' = Larger(quiet, v)
      BY <1>8, <2>2 DEF Invalidate
    <3>3. quiet' <= db
      BY <2>1, <3>2 DEF Larger
    <3> QED
      BY <2>1, <3>1, <3>3
  <2>3. CASE query.pc # "none"
    <3>1. query' = query /\ quiet' = quiet
      BY <1>8, <2>3 DEF Invalidate, Wait
    <3> QED
      BY <2>1, <3>1
  <2> QED
    BY <2>2, <2>3
<1>9. CASE Tick
  BY <1>9 DEF Tick
<1>10. ASSUME NEW v \in Version, NEW r \in Reader, Invalidate(v, {r})
       PROVE OrderInv'
  BY <1>8, <1>10
<1>11. ASSUME NEW v \in Version, Invalidate(v, {}) PROVE OrderInv'
  BY <1>8, <1>11
<1> QED
  BY <1>1, <1>2, <1>3, <1>4, <1>5, <1>6, <1>7, <1>9, <1>10, <1>11
  DEF CacheNext

\* CacheInv is an invariant of the cache.
THEOREM CacheInvariant == CacheSpec => []CacheInv
<1>1. CacheInit => CacheInv
  BY CacheAssumption
  DEF CacheInit, CacheInv, CacheTypeOK, AgeInv, FlightInv, OrderInv, Fresh,
      NoEntry, NoQuery, Version, Horizon
<1>2. CacheInv /\ [CacheNext]_cacheVars => CacheInv'
  BY TypeStep, AgeStep, FlightStep, OrderStep DEF CacheInv
<1> QED
  BY <1>1, <1>2, PTL DEF CacheSpec

\* The cached state is well formed (getKillSwitchState).
THEOREM CacheTypeCorrect == CacheSpec => []CacheTypeOK
<1>1. CacheInv => CacheTypeOK
  BY DEF CacheInv
<1> QED
  BY <1>1, CacheInvariant, PTL

\* No caller is answered with a state that was overwritten Ttl + Latency ago or
\* earlier: "the TTL only bounds out-of-band changes" (kill-switch.ts).
THEOREM StalenessIsBounded == CacheSpec => []BoundedStaleness
<1>1. CacheInv => BoundedStaleness
  BY CacheAssumption
  DEF CacheInv, CacheTypeOK, AgeInv, BoundedStaleness, Served, Fresh, Horizon,
      Version
<1> QED
  BY <1>1, CacheInvariant, PTL

\* No caller is answered with an older state than another caller already was.
THEOREM AnswersAreMonotone == CacheSpec => []AnswersMoveForward
<1>1. CacheInv => AnswersMoveForward
  BY DEF CacheInv, CacheTypeOK, OrderInv, AnswersMoveForward, Served, Fresh
<1> QED
  BY <1>1, CacheInvariant, PTL

\* An invalidation that finds no query outstanding is honoured by every later
\* answer (invalidateKillSwitchCache).
THEOREM QuietInvalidationHolds == CacheSpec => []QuietInvalidationHonoured
<1>1. CacheInv => QuietInvalidationHonoured
  BY DEF CacheInv, CacheTypeOK, OrderInv, QuietInvalidationHonoured, Served,
         Fresh
<1> QED
  BY <1>1, CacheInvariant, PTL

-----------------------------------------------------------------------------
(* The switch.                                                             *)

\* Every step of the kill switch is a step of the cache, or leaves it alone.
LEMMA StepOfCache == [Next]_vars => [CacheNext]_cacheVars
<1> SUFFICES ASSUME Next PROVE [CacheNext]_cacheVars
  BY DEF vars
<1>1. ASSUME NEW a \in Actor, HandshakeKnown(a) PROVE CacheNext
  <2>1. <<a, "gate">> \in Reader
    BY KillSwitchAssumption DEF Call
  <2> QED
    BY <1>1, <2>1 DEF HandshakeKnown, CacheNext
<1>2. ASSUME NEW a \in Actor, NEW b \in Actor, StatusRequest(a, b) PROVE CacheNext
  <2>1. <<a, "status">> \in Reader
    BY KillSwitchAssumption DEF Call
  <2> QED
    BY <1>2, <2>1 DEF StatusRequest, CacheNext
<1>3. ASSUME NEW a \in Actor, ApproveRequest(a) PROVE CacheNext
  <2>1. <<a, "approve">> \in Reader
    BY KillSwitchAssumption DEF Call
  <2> QED
    BY <1>3, <2>1 DEF ApproveRequest, CacheNext
<1>4. ASSUME NEW a \in Actor,
             HandshakeUnknown(a) \/ StatusAnswer(a) \/ Deliver(a)
               \/ Complete(a) \/ Mint(a) \/ Drop(a)
      PROVE  UNCHANGED cacheVars
  BY <1>4 DEF HandshakeUnknown, StatusAnswer, Deliver, Complete, Mint, Drop
<1>5. ASSUME NEW s \in Scope, NEW own \in BOOLEAN, Arm(s, own) \/ Disarm(s, own)
      PROVE  CacheNext
  BY <1>5 DEF Arm, Disarm, Write, CacheNext
<1>6. ASSUME NEW v \in 1..MaxWrites, InvalidateAndPush(v) PROVE CacheNext
  <2>1. <<v, "notify">> \in Reader /\ v \in Version
    BY KillSwitchAssumption DEF Call, Version
  <2> QED
    BY <1>6, <2>1 DEF InvalidateAndPush, CacheNext
<1>7. ASSUME NEW v \in 1..MaxWrites, InvalidateOnly(v) PROVE CacheNext
  <2>1. v \in Version
    BY DEF Version
  <2> QED
    BY <1>7, <2>1 DEF InvalidateOnly, CacheNext
<1>8. ASSUME NEW v \in 1..MaxWrites, PushClose(v) PROVE UNCHANGED cacheVars
  BY <1>8 DEF PushClose
<1>9. CASE Resumed \/ Failed \/ Background
  BY <1>9 DEF Resumed, Failed, Background, CacheNext
<1> QED
  BY <1>1, <1>2, <1>3, <1>4, <1>5, <1>6, <1>7, <1>8, <1>9 DEF Next

\* lib/kill-switch.ts as its callers use it: the gate, the status answers, the
\* approvals and the pushes are callers of the cache and nothing else touches it.
THEOREM SwitchUsesCache == Spec => CacheSpec
<1>1. Init => CacheInit
  BY DEF Init
<1> QED
  BY <1>1, StepOfCache, PTL DEF Spec, CacheSpec

\* So the cache's guarantees are the kill switch's: no answer older than the time
\* to live and a query, none older than one already given, none from before an
\* invalidation that met no query.
THEOREM SwitchAnswersAreSound ==
  Spec => [](BoundedStaleness /\ AnswersMoveForward /\ QuietInvalidationHonoured)
BY SwitchUsesCache, StalenessIsBounded, AnswersAreMonotone, QuietInvalidationHolds, PTL

-----------------------------------------------------------------------------
\* Who has a certificate-status request outstanding is connected.
AskerInv == \A a \in Actor : status[a].pc # "none" => a \in Online

\* What was pushed, and what a push is acting on, was shown to a caller; so no
\* caller will be answered with anything older.
PushInv ==
  /\ pushed <= shown
  /\ \A w \in Version : notify[w].pc = "looking" => notify[w].v <= shown

\* In(r, a): what a push that covers r and a must put an end to, r's connection or
\* the answer it is about to get.
In(r, a) == conn[r] = "seated" \/ Told(r, a)
Both(r, a, v) == CoveredSince(r, v) /\ CoveredSince(a, v)

\* A push under way has caught everyone it must close who is in.
LookInv ==
  \A w \in Version : notify[w].pc = "looking" =>
    \A r, a \in Actor : Both(r, a, notify[w].v) /\ In(r, a) => r \in notify[w].targets

\* A push that was made keeps everyone it covers out.
DoneInv == \A r, a \in Actor : Both(r, a, pushed) => ~In(r, a)

SwitchInv == TypeOK /\ CacheInv /\ AskerInv /\ PushInv /\ LookInv /\ DoneInv

-----------------------------------------------------------------------------
\* Versions are written once, so that who is covered since a version in the past
\* was covered since then all along.
LEMMA CoverageShrinks ==
  ASSUME TypeOK, CacheInv, [Next]_vars
  PROVE  /\ db <= db' /\ shown <= shown'
         /\ \A v \in 0..db : content'[v] = content[v]
         /\ \A a \in Actor, v \in 0..db :
              CoveredSince(a, v)' => CoveredSince(a, v)
<1> USE CacheAssumption DEF Version
<1>1. /\ db \in 0..MaxWrites /\ shown \in 0..MaxWrites /\ content \in [0..MaxWrites -> SUBSET Scope]
  BY DEF TypeOK, CacheTypeOK
<1>2. db <= db' /\ shown <= shown'
  <2>1. [CacheNext]_cacheVars
    BY StepOfCache
  <2>2. ASSUME CacheNext PROVE db <= db' /\ shown <= shown'
    <3>1. ASSUME NEW v \in Version, NEW C, Invalidate(v, C) PROVE db <= db' /\ shown <= shown'
      BY <1>1, <3>1 DEF Invalidate
    <3>2. ASSUME NEW r \in Reader, Hit(r) \/ Miss(r) PROVE db <= db' /\ shown <= shown'
      <4>1. /\ db' = db /\ (shown' = Larger(shown, cache.v) \/ shown' = shown)
            /\ cache.v \in Version
        BY <3>2 DEF Hit, Miss, CacheInv, CacheTypeOK
      <4> QED
        BY <1>1, <4>1 DEF Larger
    <3>3. CASE Resolve
      <4>1. db' = db /\ shown' = Larger(shown, query.v) /\ query.v \in Version
        BY <3>3 DEF Resolve, CacheInv, CacheTypeOK
      <4> QED
        BY <1>1, <4>1 DEF Larger
    <3>4. CASE DbRead \/ Reject \/ Tick \/ \E own \in BOOLEAN : Commit(own)
      BY <1>1, <3>4 DEF DbRead, Reject, Tick, Commit
    <3> QED
      BY <2>2, <3>1, <3>2, <3>3, <3>4 DEF CacheNext
  <2> QED
    BY <1>1, <2>1, <2>2 DEF cacheVars
<1>3. \A v \in 0..db : content'[v] = content[v]
  <2>1. ASSUME NEW S, NEW own \in BOOLEAN, Write(S, own)
        PROVE  \A v \in 0..db : content'[v] = content[v]
    BY <1>1, <2>1 DEF Write, Commit
  <2>2. CASE UNCHANGED content
    BY <2>2
  <2>3. CASE \E s \in Scope, own \in BOOLEAN : Arm(s, own) \/ Disarm(s, own)
    BY <2>1, <2>3 DEF Arm, Disarm
  <2> QED
    BY <2>2, <2>3 DEF Next, vars, HandshakeKnown, HandshakeUnknown, StatusRequest,
      StatusAnswer, ApproveRequest, Deliver, Complete, Mint, Drop, InvalidateAndPush,
      InvalidateOnly, PushClose, Resumed, Failed, Background
<1>4. ASSUME NEW a \in Actor, NEW v \in 0..db, CoveredSince(a, v)'
      PROVE  CoveredSince(a, v)
  <2>0. db' \in 0..MaxWrites
    BY StepOfCache, TypeStep DEF CacheInv, CacheTypeOK
  <2>1. \A u \in v..db : Covered(a, u)'
    BY <1>1, <1>2, <1>4, <2>0 DEF CoveredSince
  <2>2. \A u \in v..db : Covered(a, u)' <=> Covered(a, u)
    BY <1>1, <1>3 DEF Covered
  <2> QED
    BY <2>1, <2>2 DEF CoveredSince
<1> QED
  BY <1>2, <1>3, <1>4

\* The types are kept by every step.
LEMMA SwitchTypeStep == TypeOK /\ [Next]_vars => TypeOK'
<1> SUFFICES ASSUME TypeOK, [Next]_vars PROVE TypeOK'
  OBVIOUS
<1> USE CacheAssumption
<1> DEFINE OwnTypeOK ==
      /\ content \in [Version -> SUBSET Scope]
      /\ notify \in [Version -> [pc : {"none", "asking", "looking"},
                                 v : Version, targets : SUBSET Actor]]
      /\ pushed \in Version
      /\ conn \in [Actor -> {"off", "gate", "awaiting", "seated", "promoted"}]
      /\ status \in [Actor -> [pc : {"none", "asking", "active", "revoked"}, of : Actor]]
      /\ grant \in [Actor -> {"none", "unknown", "pending", "gate", "approved",
                              "exchange", "complete", "minted"}]
<1>1. CacheTypeOK'
  <2>1. CacheTypeOK /\ [CacheNext]_cacheVars
    BY StepOfCache DEF TypeOK
  <2> QED
    BY <2>1, TypeStep
<1>2. TypeOK <=> CacheTypeOK /\ OwnTypeOK
  BY DEF TypeOK
<1>3. OwnTypeOK'
  <2> USE <1>2
  <2>1. CASE UNCHANGED vars
    BY <2>1 DEF vars
  <2>2. ASSUME NEW a \in Actor, HandshakeKnown(a) PROVE OwnTypeOK'
    BY <2>2 DEF HandshakeKnown, Gate
  <2>3. ASSUME NEW a \in Actor, HandshakeUnknown(a) PROVE OwnTypeOK'
    BY <2>3 DEF HandshakeUnknown
  <2>4. ASSUME NEW a \in Actor, NEW b \in Actor, StatusRequest(a, b) PROVE OwnTypeOK'
    BY <2>4 DEF StatusRequest, Answer, About
  <2>5. ASSUME NEW a \in Actor, StatusAnswer(a) PROVE OwnTypeOK'
    BY <2>5 DEF StatusAnswer, Idle, About
  <2>6. ASSUME NEW a \in Actor, ApproveRequest(a) PROVE OwnTypeOK'
    BY <2>6 DEF ApproveRequest, Approve
  <2>7. ASSUME NEW a \in Actor, Deliver(a) \/ Complete(a) \/ Mint(a) PROVE OwnTypeOK'
    BY <2>7 DEF Deliver, Complete, Mint
  <2>8. ASSUME NEW a \in Actor, Drop(a) PROVE OwnTypeOK'
    <3>1. \A b \in Actor : Idle(b) \in [pc : {"none", "asking", "active", "revoked"}, of : Actor]
      BY DEF Idle, About
    <3>2. /\ conn' = [b \in Actor |-> IF b \in {a} THEN "off" ELSE conn[b]]
          /\ status' = [b \in Actor |-> IF b \in {a} THEN Idle(b) ELSE status[b]]
          /\ grant' = [b \in Actor |-> IF b \in {a} /\ grant[b] = "exchange"
                                          THEN "approved" ELSE grant[b]]
          /\ notify' = [v \in Version |-> [notify[v] EXCEPT !.targets = @ \ {a}]]
          /\ content' = content /\ pushed' = pushed
      BY <2>8 DEF Drop, Disconnect
    <3>3. /\ conn' \in [Actor -> {"off", "gate", "awaiting", "seated", "promoted"}]
          /\ grant' \in [Actor -> {"none", "unknown", "pending", "gate", "approved",
                                   "exchange", "complete", "minted"}]
      BY <3>2
    <3>4. status' \in [Actor -> [pc : {"none", "asking", "active", "revoked"}, of : Actor]]
      BY <3>1, <3>2
    <3>5. notify' \in [Version -> [pc : {"none", "asking", "looking"},
                                    v : Version, targets : SUBSET Actor]]
      <4> DEFINE Push == [pc : {"none", "asking", "looking"},
                          v : Version, targets : SUBSET Actor]
                 lost(w) == [notify[w] EXCEPT !.targets = @ \ {a}]
      <4>1. \A w \in Version : lost(w) \in Push
        OBVIOUS
      <4>2. notify' = [w \in Version |-> lost(w)]
        BY <3>2
      <4> HIDE DEF Push, lost, OwnTypeOK
      <4>3. notify' \in [Version -> Push]
        BY <4>1, <4>2
      <4> QED
        BY <4>3 DEF Push
    <3> QED
      BY <3>2, <3>3, <3>4, <3>5
  <2>9. ASSUME NEW s \in Scope, NEW own \in BOOLEAN, Arm(s, own) \/ Disarm(s, own)
        PROVE  OwnTypeOK'
    <3>1. db \in Version /\ db' \in Version
      BY <1>1, <1>2 DEF CacheTypeOK
    <3> QED
      BY <2>9, <3>1 DEF Arm, Disarm, Write
  <2>10. ASSUME NEW v \in 1..MaxWrites, InvalidateAndPush(v) \/ InvalidateOnly(v)
         PROVE  OwnTypeOK'
    BY <2>10 DEF InvalidateAndPush, InvalidateOnly
  <2>11. ASSUME NEW v \in 1..MaxWrites, PushClose(v) PROVE OwnTypeOK'
    <3>1. v \in Version /\ 0 \in Version
      BY DEF Version
    <3>2. pushed' \in Version
      BY <2>11, <3>1 DEF PushClose, Larger
    <3>3. notify' \in [Version -> [pc : {"none", "asking", "looking"},
                                   v : Version, targets : SUBSET Actor]]
      <4> DEFINE Push == [pc : {"none", "asking", "looking"},
                          v : Version, targets : SUBSET Actor]
                 lost(w) == [notify[w] EXCEPT !.targets = @ \ notify[v].targets]
      <4>1. Quiet \in Push
        BY <3>1 DEF Quiet
      <4>2. \A w \in Version : lost(w) \in Push
        OBVIOUS
      <4>3. notify' = [w \in Version |-> IF w = v THEN Quiet ELSE lost(w)]
        BY <2>11 DEF PushClose
      <4> HIDE DEF Push, lost, OwnTypeOK
      <4>4. notify' \in [Version -> Push]
        BY <4>1, <4>2, <4>3
      <4> QED
        BY <4>4 DEF Push
    <3> QED
      BY <2>11, <3>2, <3>3 DEF PushClose, Disconnect, Idle, About
  <2>12. CASE Resumed
    <3> DEFINE v == query.v
               c == [a \in Actor |-> IF conn[a] = "gate" THEN Gate(a, v) ELSE conn[a]]
               s == [a \in Actor |->
                       IF status[a].pc = "asking"
                         THEN About(status[a].of, Answer(status[a].of, v)) ELSE status[a]]
               g == [a \in Actor |->
                       IF grant[a] = "gate" THEN Approve(a, v) ELSE grant[a]]
               asking == {w \in Version : notify[w].pc = "asking"}
               targets == {a \in Actor : c[a] \in {"seated", "promoted"} /\ Covered(a, v)}
               now == asking # {} /\ "global" \in content[v]
    <3>1. /\ Disconnect(IF now THEN targets ELSE {}, c, s, g)
          /\ notify' = [w \in Version |->
               CASE w \in asking /\ now  -> Quiet
                 [] w \in asking /\ ~now ->
                      [pc |-> "looking", v |-> v, targets |-> targets]
                 [] OTHER -> [notify[w] EXCEPT !.targets =
                                   IF now THEN @ \ targets ELSE @]]
          /\ pushed' = IF now THEN Larger(pushed, v) ELSE pushed
          /\ content' = content
      BY <2>12 DEF Resumed
    <3>2. v \in Version /\ 0 \in Version
      BY DEF CacheTypeOK, Version
    <3>3. /\ c \in [Actor -> {"off", "gate", "awaiting", "seated", "promoted"}]
          /\ s \in [Actor -> [pc : {"none", "asking", "active", "revoked"}, of : Actor]]
          /\ g \in [Actor -> {"none", "unknown", "pending", "gate", "approved",
                              "exchange", "complete", "minted"}]
      BY DEF Gate, Answer, Approve, About
    <3>4. targets \in SUBSET Actor
      OBVIOUS
    <3> HIDE DEF v, c, s, g, asking, targets, now
    <3>5. /\ conn' \in [Actor -> {"off", "gate", "awaiting", "seated", "promoted"}]
          /\ status' \in [Actor -> [pc : {"none", "asking", "active", "revoked"}, of : Actor]]
          /\ grant' \in [Actor -> {"none", "unknown", "pending", "gate", "approved",
                              "exchange", "complete", "minted"}]
      BY <3>1, <3>3 DEF Disconnect, Idle, About
    <3>6. notify' \in [Version -> [pc : {"none", "asking", "looking"},
                                   v : Version, targets : SUBSET Actor]]
      <4> DEFINE Push == [pc : {"none", "asking", "looking"},
                          v : Version, targets : SUBSET Actor]
                 looking == [pc |-> "looking", v |-> v, targets |-> targets]
                 less(w) == [notify[w] EXCEPT !.targets = IF now THEN @ \ targets ELSE @]
      <4>1. Quiet \in Push /\ looking \in Push
        BY <3>2, <3>4 DEF Quiet
      <4>2. \A w \in Version : less(w) \in Push
        OBVIOUS
      <4>3. notify' = [w \in Version |-> CASE w \in asking /\ now  -> Quiet
                                           [] w \in asking /\ ~now -> looking
                                           [] OTHER -> less(w)]
        BY <3>1
      <4> HIDE DEF Push, looking, less, OwnTypeOK
      <4>4. \A w \in Version : notify'[w] \in {Quiet, looking, less(w)}
        BY <4>3
      <4>5. notify' = [w \in Version |-> notify'[w]]
        BY <4>3
      <4>6. \A w \in Version : notify'[w] \in Push
        BY <4>1, <4>2, <4>4
      <4>7. notify' \in [Version -> Push]
        BY <4>5, <4>6
      <4> QED
        BY <4>7 DEF Push
    <3>7. pushed' \in Version
      BY <3>1, <3>2 DEF Larger
    <3> QED
      BY <3>1, <3>5, <3>6, <3>7
  <2>13. CASE Failed
    <3>1. Quiet \in [pc : {"none", "asking", "looking"}, v : Version, targets : SUBSET Actor]
      BY DEF Quiet, Version
    <3> QED
      BY <2>13, <3>1 DEF Failed, Idle, About
  <2>14. CASE Background
    BY <2>14 DEF Background
  <2> HIDE DEF OwnTypeOK
  <2> QED
    BY <2>1, <2>2, <2>3, <2>4, <2>5, <2>6, <2>7, <2>8, <2>9, <2>10, <2>11, <2>12,
       <2>13, <2>14 DEF Next
<1>4. TypeOK' <=> CacheTypeOK' /\ OwnTypeOK'
  BY DEF TypeOK
<1> QED
  BY <1>1, <1>3, <1>4

\* Every step keeps requests to those that are connected.
LEMMA AskerStep == TypeOK /\ AskerInv /\ [Next]_vars => AskerInv'
<1> SUFFICES ASSUME TypeOK, AskerInv, [Next]_vars PROVE AskerInv'
  OBVIOUS
<1> USE DEF TypeOK, AskerInv, Online
<1>1. CASE UNCHANGED <<conn, status>>
  BY <1>1
<1>2. ASSUME NEW a \in Actor,
             HandshakeKnown(a) \/ HandshakeUnknown(a)
               \/ (\E b \in Actor : StatusRequest(a, b)) \/ StatusAnswer(a) \/ ApproveRequest(a) \/ Deliver(a)
      PROVE  AskerInv'
  BY <1>2 DEF HandshakeKnown, HandshakeUnknown, StatusRequest, StatusAnswer,
              ApproveRequest, Deliver, Idle, About
<1>3. ASSUME NEW a \in Actor, Complete(a) \/ Mint(a) PROVE AskerInv'
  BY <1>1, <1>3 DEF Complete, Mint
<1>4. ASSUME NEW S, Disconnect(S, conn, status, grant) PROVE AskerInv'
  BY <1>4 DEF Disconnect, Idle, About
<1>5. CASE Resumed
  <2>1. PICK S : Disconnect(S,
          [a \in Actor |-> IF conn[a] = "gate" THEN Gate(a, query.v) ELSE conn[a]],
          [a \in Actor |-> IF status[a].pc = "asking"
             THEN About(status[a].of, Answer(status[a].of, query.v)) ELSE status[a]],
          [a \in Actor |-> IF grant[a] = "gate" THEN Approve(a, query.v) ELSE grant[a]])
    BY <1>5 DEF Resumed
  <2> QED
    BY <2>1 DEF Disconnect, Idle, About
<1>6. CASE Failed
  BY <1>6 DEF Failed, Idle, About
<1> QED
  BY <1>1, <1>2, <1>3, <1>4, <1>5, <1>6
  DEF Next, vars, Drop, PushClose, Arm, Disarm, Write, InvalidateAndPush,
      InvalidateOnly, Background

\* Who is covered since a version is covered by every later one.
LEMMA CoveredLater ==
  ASSUME NEW a, NEW v \in Nat, NEW x \in v..db, CoveredSince(a, v)
  PROVE  Covered(a, x)
BY DEF CoveredSince

\* A step that lets nobody in who is covered by what callers are answered with
\* now, and takes nobody out of a push's sight who stays in, keeps the promise of
\* every push, made or under way.
LEMMA StaysOut ==
  ASSUME SwitchInv, [Next]_vars, pushed' = pushed,
         NEW x \in shown..db,
         \A r, a \in Actor : In(r, a)' => In(r, a) \/ ~Covered(r, x) \/ ~Covered(a, x),
         \A w \in Version : notify'[w].pc = "looking" =>
           /\ notify[w].pc = "looking" /\ notify'[w].v = notify[w].v
           /\ \A r, a \in Actor :
                In(r, a)' /\ r \in notify[w].targets => r \in notify'[w].targets
  PROVE  PushInv' /\ LookInv' /\ DoneInv'
<1> USE DEF SwitchInv
<1>1. /\ db <= db' /\ shown <= shown'
      /\ \A a \in Actor, v \in 0..db : CoveredSince(a, v)' => CoveredSince(a, v)
  BY CoverageShrinks
<1>2. /\ db \in Nat /\ shown \in Nat /\ pushed \in Nat /\ pushed <= shown /\ shown <= db
      /\ \A w \in Version : notify[w].v \in Nat
  BY CacheAssumption DEF TypeOK, CacheTypeOK, Version, PushInv, CacheInv, OrderInv
<1>3. shown' \in Nat
  BY StepOfCache, TypeStep, CacheAssumption DEF CacheInv, CacheTypeOK, Version
<1>4. PushInv'
  BY <1>1, <1>2, <1>3 DEF PushInv
<1>5. ASSUME NEW v \in Nat, v <= shown, NEW r \in Actor, NEW a \in Actor,
             Both(r, a, v)', In(r, a)'
      PROVE  Both(r, a, v) /\ In(r, a)
  <2>1. CoveredSince(a, v) /\ CoveredSince(r, v)
    BY <1>1, <1>2, <1>5 DEF Both
  <2>2. Covered(a, x) /\ Covered(r, x)
    BY <1>2, <1>5, <2>1, CoveredLater
  <2> QED
    BY <1>5, <2>1, <2>2 DEF Both
<1>6. DoneInv'
  BY <1>2, <1>5 DEF DoneInv
<1>7. LookInv'
  <2> SUFFICES ASSUME NEW w \in Version, notify'[w].pc = "looking", NEW r \in Actor,
                      NEW a \in Actor, Both(r, a, notify[w].v)', In(r, a)'
               PROVE  r \in notify'[w].targets
    BY DEF LookInv
  <2>1. notify[w].pc = "looking" /\ notify[w].v <= shown
    BY DEF PushInv
  <2>2. r \in notify[w].targets
    BY <1>2, <1>5, <2>1 DEF LookInv
  <2> QED
    BY <2>2
<1> QED
  BY <1>4, <1>6, <1>7

\* What a caller answered from the cache, or by the query, acts on.
LEMMA AnswerVersion ==
  ASSUME SwitchInv
  PROVE  /\ db \in shown..db
         /\ Fresh => cache.v \in shown..db
         /\ query.pc = "read" => query.v \in shown..db
BY CacheAssumption
DEF SwitchInv, CacheInv, CacheTypeOK, AgeInv, OrderInv, Fresh, Version

\* The push of the snapshot closes everyone it had to.
LEMMA PushKeeps ==
  ASSUME SwitchInv, [Next]_vars, NEW v \in 1..MaxWrites, PushClose(v)
  PROVE  PushInv' /\ LookInv' /\ DoneInv'
<1> USE DEF SwitchInv
<1> DEFINE closed == notify[v].targets
<1>1. v \in Version /\ notify[v].pc = "looking" /\ notify[v].v <= shown
  BY DEF PushClose, Version, PushInv
<1>2. /\ \A a \in Actor : conn'[a] = IF a \in closed THEN "off" ELSE conn[a]
      /\ \A a \in Actor : status'[a] = IF a \in closed THEN Idle(a) ELSE status[a]
      /\ pushed' = Larger(pushed, notify[v].v)
      /\ UNCHANGED <<db, shown, content>>
  BY DEF PushClose, Disconnect, cacheVars
<1>3. \A w \in Version : notify'[w].pc = "looking" =>
        /\ notify[w].pc = "looking" /\ notify'[w].v = notify[w].v
        /\ notify'[w].targets = notify[w].targets \ closed
  <2>1. \A w \in Version : notify'[w] =
          IF w = v THEN Quiet ELSE [notify[w] EXCEPT !.targets = @ \ closed]
    BY DEF PushClose
  <2>2. \A w \in Version : notify[w] \in [pc : {"none", "asking", "looking"},
                                          v : Version, targets : SUBSET Actor]
    BY DEF TypeOK
  <2>3. notify'[v].pc = "none"
    <3>1. notify'[v] = Quiet
      BY <1>1, <2>1, Zenon
    <3> QED
      BY <3>1 DEF Quiet
  <2>4. \A w \in Version \ {v} : /\ notify'[w].pc = notify[w].pc
                                 /\ notify'[w].v = notify[w].v
                                 /\ notify'[w].targets = notify[w].targets \ closed
    BY <2>1, <2>2
  <2> QED
    BY <2>3, <2>4
<1>4. \A r, a \in Actor : In(r, a)' => In(r, a) /\ r \notin closed
  <2>1. \A r, a \in Actor : Idle(r) # About(a, "active")
    BY DEF Idle, About
  <2> QED
    BY <1>2, <2>1 DEF In, Told
<1>5. \A r, a \in Actor, u \in Version : Both(r, a, u)' => Both(r, a, u)
  BY <1>2 DEF CoveredSince, Covered, Both
<1>6. pushed \in Nat /\ shown \in Nat /\ notify[v].v \in Nat
  BY <1>1, CacheAssumption DEF TypeOK, CacheTypeOK, Version
<1>7. PushInv'
  BY <1>1, <1>2, <1>3, <1>6 DEF PushInv, Larger
<1>8. LookInv'
  <2> SUFFICES ASSUME NEW w \in Version, notify'[w].pc = "looking", NEW r \in Actor,
                      NEW a \in Actor, Both(r, a, notify[w].v)', In(r, a)'
               PROVE  r \in notify'[w].targets
    BY <1>3 DEF LookInv
  <2>1. notify[w].v \in Version
    BY DEF TypeOK
  <2>2. r \in notify[w].targets
    BY <1>3, <1>4, <1>5, <2>1 DEF LookInv
  <2> QED
    BY <1>3, <1>4, <2>2
<1>9. DoneInv'
  <2> SUFFICES ASSUME NEW r \in Actor, NEW a \in Actor, Both(r, a, pushed'), db' = db,
                      content' = content, In(r, a)'
               PROVE  FALSE
    BY <1>2 DEF DoneInv, CoveredSince, Covered, Both
  <2>1. CASE pushed' = pushed
    BY <1>4, <2>1 DEF DoneInv
  <2>2. CASE pushed' = notify[v].v
    BY <1>1, <1>4, <2>2 DEF LookInv
  <2> QED
    BY <1>2, <2>1, <2>2 DEF Larger
<1> QED
  BY <1>7, <1>8, <1>9

\* The callers of a query act on what it read: a push looks for whom to close, or
\* closes them at once.
LEMMA ResumedKeeps ==
  ASSUME SwitchInv, [Next]_vars, Resumed
  PROVE  PushInv' /\ LookInv' /\ DoneInv'
<1> USE DEF SwitchInv
<1> DEFINE v == query.v
           c == [a \in Actor |-> IF conn[a] = "gate" THEN Gate(a, v) ELSE conn[a]]
           s == [a \in Actor |->
                   IF status[a].pc = "asking"
                     THEN About(status[a].of, Answer(status[a].of, v)) ELSE status[a]]
           g == [a \in Actor |->
                   IF grant[a] = "gate" THEN Approve(a, v) ELSE grant[a]]
           asking == {w \in Version : notify[w].pc = "asking"}
           targets == {a \in Actor : c[a] \in {"seated", "promoted"} /\ Covered(a, v)}
           now == asking # {} /\ "global" \in content[v]
           closed == IF now THEN targets ELSE {}
\* What the step does.
<1>1. /\ Disconnect(closed, c, s, g)
      /\ notify' = [w \in Version |->
           CASE w \in asking /\ now  -> Quiet
             [] w \in asking /\ ~now ->
                  [pc |-> "looking", v |-> v, targets |-> targets]
             [] OTHER -> [notify[w] EXCEPT !.targets = IF now THEN @ \ targets ELSE @]]
      /\ pushed' = IF now THEN Larger(pushed, v) ELSE pushed
  BY DEF Resumed
<1>2. shown' = Larger(shown, v) /\ db' = db /\ content' = content
  BY DEF Resumed, Resolve
<1>3. v \in shown..db
  BY AnswerVersion DEF Resumed, Resolve
<1>4. /\ db \in Nat /\ shown \in Nat /\ pushed \in Nat /\ pushed <= shown
      /\ \A w \in Version : notify[w].v \in Version
  BY CacheAssumption DEF TypeOK, CacheTypeOK, Version, PushInv
<1>5. shown' = v /\ v \in Nat
  BY <1>2, <1>3, <1>4 DEF Larger
<1>6. \A r, a \in Actor : \A u : Both(r, a, u)' <=> Both(r, a, u)
  BY <1>2 DEF CoveredSince, Covered, Both
\* Whoever is in afterwards was not closed, and was in, or it or the one it asked
\* about is not covered by what was read.
<1>7. \A r, a \in Actor :
        In(r, a)' => r \notin closed /\ (c[r] = "seated" \/ s[r] = About(a, "active"))
  BY <1>1 DEF Disconnect, In, Told, Idle, About
<1>8. \A r, a \in Actor : c[r] = "seated" \/ s[r] = About(a, "active")
                            => In(r, a) \/ ~Covered(r, v) \/ ~Covered(a, v)
  BY DEF In, Told, Gate, Answer, About
<1>9. \A r, a \in Actor : c[r] = "seated" \/ s[r] = About(a, "active")
                            => c[r] \in {"seated", "promoted"}
  BY DEF AskerInv, Online, TypeOK, Answer, About
<1>10. \A r, a \in Actor : In(r, a)' /\ Covered(r, v) /\ Covered(a, v)
                             => r \in targets \ closed /\ In(r, a)
  BY <1>7, <1>8, <1>9
\* What the pushes do.
<1>11. \A w \in Version : notify'[w].pc = "looking" =>
         \/ ~now /\ notify'[w].v = v /\ notify'[w].targets = targets
         \/ /\ notify[w].pc = "looking" /\ notify'[w].v = notify[w].v
            /\ notify'[w].targets = notify[w].targets \ closed
  <2>0. \A w \in Version : notify[w] \in [pc : {"none", "asking", "looking"},
                                          v : Version, targets : SUBSET Actor]
    BY DEF TypeOK
  <2> SUFFICES ASSUME NEW w \in Version, notify'[w].pc = "looking"
               PROVE  \/ ~now /\ notify'[w].v = v /\ notify'[w].targets = targets
                      \/ /\ notify[w].pc = "looking" /\ notify'[w].v = notify[w].v
                         /\ notify'[w].targets = notify[w].targets \ closed
    OBVIOUS
  <2> HIDE DEF v, targets, now
  <2>1. CASE w \in asking /\ now
    BY <1>1, <2>1 DEF Quiet
  <2>2. CASE w \in asking /\ ~now
    BY <1>1, <2>2
  <2>3. CASE w \notin asking
    BY <1>1, <2>0, <2>3
  <2> QED
    BY <2>1, <2>2, <2>3
<1> HIDE DEF c, s, g, asking, targets, closed, now
<1>12. PushInv'
  BY <1>1, <1>3, <1>4, <1>5, <1>11 DEF PushInv, Larger, Version
<1>13. \A a \in Actor, u \in Nat : u <= v /\ CoveredSince(a, u) => Covered(a, v)
  BY <1>3, CoveredLater
<1>14. LookInv'
  <2> SUFFICES ASSUME NEW w \in Version, notify'[w].pc = "looking", NEW r \in Actor,
                      NEW a \in Actor, Both(r, a, notify'[w].v), In(r, a)'
               PROVE  r \in notify'[w].targets
    BY <1>6 DEF LookInv, Both, CoveredSince
  <2>1. notify'[w].v \in Nat /\ notify'[w].v <= v
    BY <1>3, <1>4, <1>5, <1>11 DEF PushInv, Version
  <2>2. In(r, a) /\ r \in targets \ closed
    BY <1>10, <1>13, <2>1 DEF Both
  <2> QED
    BY <1>11, <2>2 DEF LookInv
<1>15. DoneInv'
  <2> SUFFICES ASSUME NEW r \in Actor, NEW a \in Actor, Both(r, a, pushed'), In(r, a)'
               PROVE  FALSE
    BY <1>6 DEF DoneInv, Both, CoveredSince
  <2>1. pushed' \in Nat /\ pushed' <= v /\ (now => pushed' = v)
    BY <1>1, <1>3, <1>4 DEF Larger
  <2>2. In(r, a) /\ r \in targets \ closed
    BY <1>10, <1>13, <2>1 DEF Both
  <2>3. ~now
    BY <2>2 DEF closed
  <2> QED
    BY <1>1, <2>2, <2>3 DEF DoneInv
<1> QED
  BY <1>12, <1>14, <1>15

\* Every other step lets in only who is not covered by what it was answered with.
LEMMA PromiseStep == SwitchInv /\ [Next]_vars => PushInv' /\ LookInv' /\ DoneInv'
<1> SUFFICES ASSUME SwitchInv, [Next]_vars PROVE PushInv' /\ LookInv' /\ DoneInv'
  OBVIOUS
<1> DEFINE Pushes == \A w \in Version : notify'[w].pc = "looking" =>
             /\ notify[w].pc = "looking" /\ notify'[w].v = notify[w].v
             /\ \A r, a \in Actor :
                  In(r, a)' /\ r \in notify[w].targets => r \in notify'[w].targets
           Goal == PushInv' /\ LookInv' /\ DoneInv'
<1>0. TypeOK
  BY DEF SwitchInv
\* A step that lets nobody in.
<1>1. ASSUME pushed' = pushed, Pushes, \A r, a \in Actor : In(r, a)' => In(r, a) PROVE Goal
  BY <1>1, AnswerVersion, StaysOut
<1>2. CASE UNCHANGED <<notify, pushed, conn, status>>
  BY <1>1, <1>2 DEF In, Told
<1>3. ASSUME NEW a \in Actor, HandshakeKnown(a) PROVE Goal
  <2>1. CASE Hit(<<a, "gate">>) /\ conn' = [conn EXCEPT ![a] = Gate(a, cache.v)]
    <3>1. \A r, b \in Actor : In(r, b)' => In(r, b) \/ ~Covered(r, cache.v)
      BY <1>0, <1>3, <2>1 DEF HandshakeKnown, In, Told, Gate, TypeOK
    <3>2. Pushes /\ pushed' = pushed
      BY <1>3 DEF HandshakeKnown
    <3>3. cache.v \in shown..db
      BY <2>1, AnswerVersion DEF Hit
    <3> QED
      BY <3>1, <3>2, <3>3, StaysOut
  <2>2. CASE conn' = [conn EXCEPT ![a] = "gate"]
    BY <1>0, <1>1, <1>3, <2>2 DEF HandshakeKnown, In, Told, TypeOK
  <2> QED
    BY <1>3, <2>1, <2>2 DEF HandshakeKnown
<1>4. ASSUME NEW r \in Actor, NEW a \in Actor, StatusRequest(r, a) PROVE Goal
  <2>1. CASE Hit(<<r, "status">>) /\ status' = [status EXCEPT ![r] = About(a, Answer(a, cache.v))]
    <3>1. \A p, b \in Actor : In(p, b)' => In(p, b) \/ ~Covered(b, cache.v)
      BY <1>0, <1>4, <2>1 DEF StatusRequest, In, Told, About, Answer, TypeOK
    <3>2. Pushes /\ pushed' = pushed
      BY <1>4 DEF StatusRequest
    <3>3. cache.v \in shown..db
      BY <2>1, AnswerVersion DEF Hit
    <3> QED
      BY <3>1, <3>2, <3>3, StaysOut
  <2>2. CASE status' = [status EXCEPT ![r] = About(a, "asking")]
    BY <1>0, <1>1, <1>4, <2>2 DEF StatusRequest, In, Told, About, TypeOK
  <2> QED
    BY <1>4, <2>1, <2>2 DEF StatusRequest
<1>5. ASSUME NEW a \in Actor, HandshakeUnknown(a) \/ Deliver(a) PROVE Goal
  BY <1>0, <1>1, <1>5 DEF HandshakeUnknown, Deliver, In, Told, TypeOK
<1>6. ASSUME NEW a \in Actor, StatusAnswer(a) PROVE Goal
  BY <1>0, <1>1, <1>6 DEF StatusAnswer, In, Told, Idle, About, TypeOK
<1>7. ASSUME NEW a \in Actor, Drop(a) PROVE Goal
  <2>1. \A r, b \in Actor : In(r, b)' => In(r, b) /\ r # a
    BY <1>7 DEF Drop, Disconnect, In, Told, Idle, About
  <2>2. Pushes
    BY <1>0, <1>7, <2>1 DEF Drop, TypeOK
  <2> QED
    BY <1>1, <1>7, <2>1, <2>2 DEF Drop
<1>8. ASSUME NEW v \in 1..MaxWrites, InvalidateAndPush(v) PROVE Goal
  <2>1. Pushes
    BY <1>0, <1>8 DEF InvalidateAndPush, TypeOK
  <2> QED
    BY <1>1, <1>8, <2>1 DEF InvalidateAndPush, In, Told
<1>9. ASSUME NEW v \in 1..MaxWrites, PushClose(v) PROVE Goal
  BY <1>9, PushKeeps
<1>10. CASE Resumed
  BY <1>10, ResumedKeeps
<1>11. CASE Failed
  <2>1. Pushes
    BY <1>0, <1>11 DEF Failed, TypeOK, Quiet
  <2>2. \A r, a \in Actor : In(r, a)' => In(r, a)
    BY <1>11 DEF Failed, In, Told, Idle, About
  <2> QED
    BY <1>1, <1>11, <2>1, <2>2 DEF Failed
<1> HIDE DEF Pushes
<1> QED
  BY <1>2, <1>3, <1>4, <1>5, <1>6, <1>7, <1>8, <1>9, <1>10, <1>11
  DEF Next, vars, ApproveRequest, Complete, Mint, Arm, Disarm, Write, InvalidateOnly,
      Background

\* SwitchInv is an invariant of the kill switch.
THEOREM SwitchInvariant == Spec => []SwitchInv
<1>1. Init => SwitchInv
  <2> SUFFICES ASSUME Init PROVE SwitchInv
    OBVIOUS
  <2>1. CacheInv
    BY CacheAssumption
    DEF Init, CacheInit, CacheInv, CacheTypeOK, AgeInv, FlightInv, OrderInv, Fresh,
        NoEntry, NoQuery, Version, Horizon
  <2>2. TypeOK
    BY <2>1, CacheAssumption DEF Init, TypeOK, CacheInv, Quiet, Version, Idle, About
  <2>3. AskerInv /\ PushInv /\ LookInv /\ DoneInv
    BY DEF Init, CacheInit, AskerInv, PushInv, LookInv, DoneInv, In, Told, Quiet, Idle, About
  <2> QED
    BY <2>1, <2>2, <2>3 DEF SwitchInv
<1>2. SwitchInv /\ [Next]_vars => SwitchInv'
  <2>1. CacheInv /\ [CacheNext]_cacheVars => CacheInv'
    BY TypeStep, AgeStep, FlightStep, OrderStep DEF CacheInv
  <2> QED
    BY <2>1, StepOfCache, SwitchTypeStep, AskerStep, PromiseStep DEF SwitchInv
<1> QED
  BY <1>1, <1>2, PTL DEF Spec

\* The state of the kill switch is well formed.
THEOREM SwitchTypeCorrect == Spec => []TypeOK
<1>1. SwitchInv => TypeOK
  BY DEF SwitchInv
<1> QED
  BY <1>1, SwitchInvariant, PTL

\* ws-server.ts, notifyKillSwitchArmed and handleAuthChallenge: once a push has
\* acted, nobody it covers is connected through the handshake until disarmed.
THEOREM CoveredAreCutOff == Spec => []CutOff
<1>1. SwitchInv => CutOff
  BY DEF SwitchInv, DoneInv, Both, In, CutOff
<1> QED
  BY <1>1, SwitchInvariant, PTL

\* An answer "active" that a step computes is by an armed set no older than the last one
\* a push acted on, so the one it is about is not covered since then.
LEMMA NewAnswers ==
  ASSUME SwitchInv, PushInv', [Next]_vars, NEW r \in Actor, NEW a \in Actor,
         Told(r, a)', ~Told(r, a)
  PROVE  ~CoveredSince(a, pushed)'
<1>1. TypeOK /\ AskerInv /\ PushInv /\ pushed \in Nat /\ shown \in Nat /\ db \in Nat
  <2>1. TypeOK /\ AskerInv /\ PushInv
    BY DEF SwitchInv
  <2>2. pushed \in Nat /\ shown \in Nat /\ db \in Nat
    BY <2>1, CacheAssumption DEF TypeOK, CacheTypeOK, Version
  <2> QED
    BY <2>1, <2>2
<1>2. CASE \E p, b \in Actor : StatusRequest(p, b)
  <2>1. PICK p \in Actor, b \in Actor : StatusRequest(p, b)
    BY <1>2
  <2>2. /\ p = r /\ b = a /\ Hit(<<p, "status">>) /\ Answer(a, cache.v) = "active"
        /\ UNCHANGED <<content, pushed, db>>
    BY <1>1, <2>1 DEF StatusRequest, Told, About, TypeOK, Hit
  <2>3. cache.v \in shown..db
    BY <2>2, AnswerVersion DEF Hit
  <2>4. ~Covered(a, cache.v) /\ cache.v \in pushed..db
    BY <1>1, <2>2, <2>3 DEF Answer, PushInv
  <2> QED
    BY <2>2, <2>4 DEF CoveredSince, Covered
<1>3. CASE Resumed
  <2>1. PICK S : Disconnect(S,
          [b \in Actor |-> IF conn[b] = "gate" THEN Gate(b, query.v) ELSE conn[b]],
          [b \in Actor |-> IF status[b].pc = "asking"
             THEN About(status[b].of, Answer(status[b].of, query.v)) ELSE status[b]],
          [b \in Actor |-> IF grant[b] = "gate" THEN Approve(b, query.v) ELSE grant[b]])
    BY <1>3 DEF Resumed
  <2>2. Answer(a, query.v) = "active"
    BY <2>1 DEF Disconnect, Told, Idle, About
  <2>3. /\ UNCHANGED <<content, db>> /\ shown' = Larger(shown, query.v)
        /\ query.v \in shown..db
    BY <1>3, AnswerVersion DEF Resumed, Resolve
  <2>4. pushed' \in {pushed, Larger(pushed, query.v)}
    BY <1>3 DEF Resumed
  <2>5. query.v \in pushed'..db
    BY <1>1, <2>3, <2>4 DEF Larger, PushInv
  <2> QED
    BY <2>2, <2>3, <2>5 DEF Answer, CoveredSince, Covered
<1>4. ASSUME NEW S, Disconnect(S, conn, status, grant) PROVE FALSE
  BY <1>4 DEF Disconnect, Told, Idle, About
<1>5. CASE \E p \in Actor : StatusAnswer(p)
  BY <1>1, <1>5 DEF StatusAnswer, Told, Idle, About, TypeOK
<1>6. CASE Failed
  BY <1>6 DEF Failed, Told, Idle, About
<1>7. CASE UNCHANGED status
  BY <1>7 DEF Told
<1> QED
  BY <1>2, <1>3, <1>4, <1>5, <1>6, <1>7
  DEF Next, vars, HandshakeKnown, HandshakeUnknown, ApproveRequest, Deliver, Complete,
      Mint, Drop, PushClose, Arm, Disarm, Write, InvalidateAndPush, InvalidateOnly,
      Background

\* ws-server.ts, handleCertStatusRequest: ... nor called "active", whoever asks, in any
\* answer computed since, nor in an older one to a requester the push covered.
THEOREM CoveredAreNotActive == Spec => NoActiveAnswer
<1>1. ASSUME SwitchInv, SwitchInv', [Next]_vars
      PROVE  \A r, a \in Actor :
               Told(r, a)' /\ CoveredSince(a, pushed)'
                 => Told(r, a) /\ ~CoveredSince(r, pushed)'
  <2> SUFFICES ASSUME NEW r \in Actor, NEW a \in Actor,
                      Told(r, a)', CoveredSince(a, pushed)'
               PROVE  Told(r, a) /\ ~CoveredSince(r, pushed)'
    OBVIOUS
  <2>1. Told(r, a)
    BY <1>1, NewAnswers DEF SwitchInv
  <2>2. ~CoveredSince(r, pushed)'
    BY <1>1 DEF SwitchInv, DoneInv, Both, In
  <2> QED
    BY <2>1, <2>2
<1>2. SwitchInv /\ SwitchInv' /\ [Next]_vars =>
        [\A r, a \in Actor :
           Told(r, a)' /\ CoveredSince(a, pushed)'
             => Told(r, a) /\ ~CoveredSince(r, pushed)']_vars
  BY <1>1
<1> QED
  BY <1>2, SwitchInvariant, PTL DEF Spec, NoActiveAnswer
=============================================================================
