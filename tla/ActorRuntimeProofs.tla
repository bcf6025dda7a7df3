-------------------------- MODULE ActorRuntimeProofs --------------------------
(***************************************************************************)
(* What an Actor may still authorize, for every number of certificates,    *)
(* every bound on the age of a status, every timeout, every latency and    *)
(* every number of revocations, switches, late messages, lost connections  *)
(* and restarts.  RuntimeInv is inductive; the freshness of decisions and  *)
(* the hold of a kill switch follow from it.  WaitInv is about the         *)
(* requests in flight.                                                     *)
(***************************************************************************)
EXTENDS ActorRuntime, SequenceTheorems, TLAPS

JobRow == [at: 0..(NumCerts + 1), age: 0..Timeout]

Typed ==
  /\ ledger \in [Certs -> Status] /\ armed \in BOOLEAN
  /\ gone \in [Certs -> 0..Old] /\ barred \in 0..Old
  /\ held \in [Certs -> Belief] /\ saved = held
  /\ window \in {Fallback, MaxStatusAge} /\ task \in 0..NumCerts
  /\ asked \in [Certs -> Nat] /\ reading \in [Certs -> [Status -> Nat]]
  /\ job \in [Jobs -> JobRow] /\ seen \subseteq Certs
  /\ wire \in Seq(Message) /\ resumes \in Seq(Resumed)

\* A refresh is idle, over, or about one of the certificates.
JobInv == \A p \in Jobs: job[p] \in {Idle, Deciding} \/ job[p].at \in Certs

\* Nothing is asked, read or redelivered but for a connection the server has.
AtDesk == asked # Quiet \/ reading # NobodyReads \/ task # 0 \/ owes
DeskInv == AtDesk => Serves

\* Nothing follows a kill switch or the end of the connection.
LinkInv ==
  /\ link = "down" => wire = <<>>
  /\ \A i \in DOMAIN wire: wire[i].what \in {"kill", "bye"} => i = Len(wire)

\* A row that is active is not gone; without a switch the actor is not barred.
StandingInv ==
  /\ \A c \in Certs: ledger[c] = "active" => gone[c] = 0
  /\ ~armed => barred = 0

\* What a handler read as active was so in this tick, what it is about to redeliver was sent
\* for or is excused.
ReadInv == \A c \in Certs:
  /\ reading[c]["active"] > 0 => gone[c] = 0
  /\ task = c => Current(c, 0)

\* A message that says "active" was true when it was sent.
True(m) ==
  /\ m.what \in {"active", "revoked", "issued"} => m.cert \in Certs
  /\ m.what \in {"active", "issued"} => Current(m.cert, m.age)
WireInv == \A i \in DOMAIN wire: True(wire[i])
HandInv == \A i \in DOMAIN resumes: True(resumes[i])

\* A certificate believed active was in good standing when it was checked.
AgeInv == \A c \in Certs:
  held[c].st = "active" /\ held[c].age < Stale => Current(c, held[c].age + Latency)

\* What the permission check has seen is no older than its requests took, and one message.
Spent == (job["check"].at - 1) * Timeout + job["check"].age
SeenInv == \A c \in seen:
  /\ job["check"] # Idle
  /\ held[c].st = "active" => Current(c, Spent + Latency)

\* A switch that was obeyed is armed still, and keeps its Actor out; what may still come
\* back was in hand.
CutInv == cut =>
  /\ armed /\ (link = "down" \/ Arrives({"bye"}))
  /\ \A i \in DOMAIN resumes: resumes[i].what = "active" => resumes[i].cert \in undone
  /\ \A c \in Certs \ undone: held[c].st = "revoked"

RuntimeInv ==
  /\ Typed /\ JobInv /\ DeskInv /\ LinkInv /\ StandingInv /\ ReadInv /\ WireInv /\ HandInv
  /\ AgeInv /\ SeenInv /\ CutInv

-----------------------------------------------------------------------------
(* Numbers.                                                                *)

LEMMA Product == \A a, b \in Nat: a * b \in Nat
OBVIOUS

LEMMA OldType ==
  /\ Old \in Nat /\ Stale \in Nat \ {0} /\ Latency \in Nat
  /\ Fallback < Stale /\ MaxStatusAge < Stale
<1>1. NumCerts * Timeout \in Nat BY ActorRuntimeAssumption, Product
<1> QED BY <1>1, ActorRuntimeAssumption DEF Old, Stale, Larger

\* A tick adds at most one to an age.
LEMMA OlderType ==
  ASSUME NEW n \in Nat, NEW a \in 0..n
  PROVE  Older(a, n) \in 0..n /\ Older(a, n) <= a + 1 /\ Older(a, n) \in {n, a + 1}
BY DEF Older

LEMMA LongerBound ==
  \A s, t, l, n \in Nat: s <= t /\ n <= s + l => n <= t + l
OBVIOUS

\* Each request takes at most Timeout.
LEMMA RoundsAdd ==
  ASSUME NEW i \in Nat, NEW n \in Nat, NEW t \in Nat, i <= n
  PROVE  i * t <= n * t /\ (i - 1) * t + t = i * t
<1>1. PICK k \in Nat : n = i + k
  <2>1. n - i \in Nat /\ n = i + (n - i) OBVIOUS
  <2> QED BY <2>1
<1>2. k * t \in Nat /\ i * t \in Nat BY Product
<1>3. (i + k) * t = i * t + k * t OBVIOUS
<1>4. i * t <= n * t BY <1>1, <1>2, <1>3
<1>5. (i - 1) * t + t = i * t OBVIOUS
<1> QED BY <1>4, <1>5

\* A request that ends moves the check on by no less than it took.
LEMMA SpentGrows ==
  ASSUME NEW i \in Certs, NEW a \in 0..Timeout, NEW j \in {i + 1, NumCerts + 1}
  PROVE  (i - 1) * Timeout + a <= (j - 1) * Timeout + 0
<1>1. i \in Nat /\ NumCerts \in Nat /\ Timeout \in Nat /\ i <= NumCerts
  BY ActorRuntimeAssumption DEF Certs
<1>2. i * Timeout <= NumCerts * Timeout /\ (i - 1) * Timeout + Timeout = i * Timeout
  BY <1>1, RoundsAdd
<1>3. i * Timeout \in Nat /\ NumCerts * Timeout \in Nat BY <1>1, Product
<1>4. (i - 1) * Timeout \in Nat
  <2>1. i - 1 \in Nat BY <1>1 DEF Certs
  <2> QED BY <1>1, <2>1, Product
<1>5. (i - 1) * Timeout + a <= i * Timeout BY <1>1, <1>2, <1>4
<1>6. j - 1 = i \/ j - 1 = NumCerts BY <1>1
<1>7. (j - 1) * Timeout = i * Timeout \/ (j - 1) * Timeout = NumCerts * Timeout BY <1>6
<1> QED BY <1>1, <1>2, <1>3, <1>4, <1>5, <1>7

LEMMA SpentType ==
  ASSUME Typed, JobInv, job["check"] # Idle
  PROVE  Spent \in Nat
<1>1. job["check"].at - 1 \in Nat /\ job["check"].age \in Nat
  <2>1. CASE job["check"] = Deciding BY <2>1, ActorRuntimeAssumption DEF Deciding
  <2>2. CASE job["check"].at \in Certs BY <2>2 DEF Typed, JobRow, Jobs, Certs
  <2> QED BY <2>1, <2>2 DEF JobInv, Jobs
<1>2. (job["check"].at - 1) * Timeout \in Nat BY <1>1, ActorRuntimeAssumption, Product
<1> QED BY <1>1, <1>2 DEF Spent

-----------------------------------------------------------------------------
(* What most steps leave as it was.                                        *)

\* No time passes; a switch may go, and a redelivery may be excused.
Kept ==
  /\ gone' = gone
  /\ (barred' = barred /\ excused \subseteq excused') \/ barred' = 0

LEMMA TruthKept ==
  ASSUME Typed, Kept, NEW c \in Certs, NEW n \in Nat, Current(c, n)
  PROVE  gone'[c] <= n /\ (c \in excused' \/ barred' <= n)
BY OldType DEF Typed, Kept, Current

\* A message that was true stays true.
LEMMA MessageKept ==
  ASSUME Typed, Kept, NEW m \in Message \union Resumed, True(m)
  PROVE  /\ m.what \in {"active", "revoked", "issued"} => m.cert \in Certs
         /\ m.what \in {"active", "issued"} =>
              gone'[m.cert] <= m.age /\ (m.cert \in excused' \/ barred' <= m.age)
<1>1. m.age \in Nat BY OldType DEF Message, Resumed
<1> QED BY <1>1, TruthKept DEF True

LEMMA TailFacts ==
  ASSUME NEW S, NEW q \in Seq(S), q # <<>>
  PROVE  /\ Tail(q) \in Seq(S) /\ Head(q) \in S /\ Head(q) = q[1] /\ 1 \in DOMAIN q
         /\ Len(q) \in Nat \ {0} /\ Len(Tail(q)) = Len(q) - 1
         /\ \A i \in DOMAIN Tail(q): i + 1 \in DOMAIN q /\ Tail(q)[i] = q[i + 1]
<1>1. /\ Len(q) \in Nat \ {0} /\ DOMAIN q = 1..Len(q) /\ Tail(q) \in Seq(S)
      /\ DOMAIN Tail(q) = 1..(Len(q) - 1) /\ Len(Tail(q)) = Len(q) - 1
      /\ \A i \in 1..(Len(q) - 1): Tail(q)[i] = q[i + 1]
  OBVIOUS
<1> QED BY <1>1

\* Messages that were under way, but for the first or for all.
LEMMA WireKept ==
  ASSUME Typed, WireInv, Kept, wire' = wire \/ (wire # <<>> /\ wire' = Tail(wire)) \/ wire' = <<>>
  PROVE  wire' \in Seq(Message) /\ WireInv'
<1>0. wire \in Seq(Message) BY DEF Typed
<1>1. wire' \in Seq(Message)
  <2>1. wire # <<>> => Tail(wire) \in Seq(Message) BY <1>0, TailFacts
  <2>2. <<>> \in Seq(Message) OBVIOUS
  <2> QED BY <1>0, <2>1, <2>2
<1>2. ASSUME NEW i \in DOMAIN wire' PROVE \E j \in DOMAIN wire: wire'[i] = wire[j]
  <2>1. CASE wire' = wire BY <2>1
  <2>2. CASE wire # <<>> /\ wire' = Tail(wire) BY <2>2, TailFacts DEF Typed
  <2>3. CASE wire' = <<>> BY <2>3
  <2> QED BY <2>1, <2>2, <2>3
<1>3. ASSUME NEW i \in DOMAIN wire' PROVE True(wire[i])'
  <2>1. PICK j \in DOMAIN wire: wire'[i] = wire[j] BY <1>2
  <2>2. wire[j] \in Message /\ True(wire[j]) BY DEF Typed, WireInv
  <2> QED BY <2>1, <2>2, MessageKept DEF True, Current
<1> QED BY <1>1, <1>3 DEF WireInv

LEMMA HandKept ==
  ASSUME Typed, HandInv, Kept,
         resumes' = resumes \/ (resumes # <<>> /\ resumes' = Tail(resumes))
  PROVE  resumes' \in Seq(Resumed) /\ HandInv'
<1>0. resumes \in Seq(Resumed) BY DEF Typed
<1>1. resumes' \in Seq(Resumed)
  <2>1. resumes # <<>> => Tail(resumes) \in Seq(Resumed) BY <1>0, TailFacts
  <2>2. <<>> \in Seq(Resumed) OBVIOUS
  <2> QED BY <1>0, <2>1, <2>2
<1>2. ASSUME NEW i \in DOMAIN resumes' PROVE \E j \in DOMAIN resumes: resumes'[i] = resumes[j]
  <2>1. CASE resumes' = resumes BY <2>1
  <2>2. CASE resumes # <<>> /\ resumes' = Tail(resumes)
    BY <2>2, TailFacts DEF Typed
  <2> QED BY <2>1, <2>2
<1>3. ASSUME NEW i \in DOMAIN resumes' PROVE True(resumes[i])'
  <2>1. PICK j \in DOMAIN resumes: resumes'[i] = resumes[j] BY <1>2
  <2>2. resumes[j] \in Resumed /\ True(resumes[j]) BY DEF Typed, HandInv
  <2> QED BY <2>1, <2>2, MessageKept DEF True, Current
<1> QED BY <1>1, <1>3 DEF HandInv

LEMMA AgeKept ==
  ASSUME Typed, AgeInv, Kept, held' = held
  PROVE  AgeInv'
<1>1. ASSUME NEW c \in Certs, held[c].st = "active", held[c].age < Stale
      PROVE  Current(c, held[c].age + Latency)'
  <2>1. held[c].age + Latency \in Nat BY OldType DEF Typed, Belief
  <2> QED BY <1>1, <2>1, TruthKept DEF AgeInv, Current
<1> QED BY <1>1 DEF AgeInv

\* The check goes on to its next certificate, or to its decision.
Upcoming == job["check"].at + 1
Advances ==
  \/ job'["check"] = Deciding
  \/ Upcoming \in Certs /\ job'["check"] = [at |-> Upcoming, age |-> 0]

LEMMA CheckAdvances ==
  ASSUME Typed, JobInv, job["check"] # Idle, Advances \/ job'["check"] = job["check"]
  PROVE  job'["check"] # Idle /\ Spent <= Spent' /\ Spent \in Nat /\ Spent' \in Nat
<1>1. Spent \in Nat BY SpentType
<1>2. CASE job'["check"] = job["check"] BY <1>1, <1>2 DEF Spent
<1>3. CASE job["check"] = Deciding /\ Advances
  <2>1. Upcoming = NumCerts + 2
    BY <1>3, ActorRuntimeAssumption DEF Upcoming, Deciding
  <2>2. Upcoming \notin Certs BY <2>1, ActorRuntimeAssumption DEF Certs
  <2>3. job'["check"] = job["check"] BY <1>3, <2>2 DEF Advances
  <2> QED BY <1>2, <2>3
<1>4. CASE job["check"] # Deciding /\ Advances
  <2> DEFINE i == job["check"].at
             a == job["check"].age
  <2>1. i \in Certs /\ a \in 0..Timeout BY <1>4 DEF Typed, JobInv, JobRow, Jobs
  <2>2. PICK j \in {i + 1, NumCerts + 1} : job'["check"] = [at |-> j, age |-> 0]
    BY <1>4 DEF Advances, Deciding, Upcoming
  <2>3. (i - 1) * Timeout + a <= (j - 1) * Timeout + 0 BY <2>1, SpentGrows
  <2>4. Spent = (i - 1) * Timeout + a BY DEF Spent
  <2>5. Spent' = (j - 1) * Timeout + 0 BY <2>2 DEF Spent
  <2>6. j - 1 \in Nat /\ Timeout \in Nat /\ j # 0
    BY <2>1, ActorRuntimeAssumption DEF Certs
  <2>7. (j - 1) * Timeout \in Nat BY <2>6, Product
  <2>8. Spent' \in Nat BY <2>5, <2>6, <2>7
  <2>9. job'["check"].at # Idle.at BY <2>2, <2>6 DEF Idle
  <2> QED BY <1>1, <2>3, <2>4, <2>5, <2>8, <2>9
<1> QED BY <1>2, <1>3, <1>4

LEMMA SeenKept ==
  ASSUME Typed, JobInv, SeenInv, Kept, held' = held, seen' \subseteq seen,
         seen' = {} \/ Advances \/ job'["check"] = job["check"]
  PROVE  SeenInv'
<1>1. ASSUME NEW c \in seen'
      PROVE  /\ job'["check"] # Idle
             /\ held[c].st = "active" => Current(c, Spent + Latency)'
  <2>1. c \in Certs /\ job["check"] # Idle BY <1>1 DEF Typed, SeenInv
  <2>2. job'["check"] # Idle /\ Spent <= Spent' /\ Spent \in Nat /\ Spent' \in Nat
    BY <1>1, <2>1, CheckAdvances
  <2>3. ASSUME held[c].st = "active" PROVE Current(c, Spent + Latency)'
    <3>1. Current(c, Spent + Latency) /\ Spent + Latency \in Nat
      BY <1>1, <2>2, <2>3, OldType DEF SeenInv
    <3>2. gone'[c] <= Spent + Latency /\ (c \in excused' \/ barred' <= Spent + Latency)
      <4> DEFINE n == Spent + Latency
      <4> HIDE DEF n
      <4>1. n \in Nat /\ Current(c, n) BY <3>1 DEF n
      <4>2. gone'[c] <= n /\ (c \in excused' \/ barred' <= n) BY <2>1, <4>1, TruthKept
      <4> QED BY <4>2 DEF n
    <3>3. gone'[c] \in Nat /\ (barred' \in Nat)
      BY <2>1, OldType DEF Kept, Typed
    <3>4. \A n \in Nat: n <= Spent + Latency => n <= Spent' + Latency
      BY <2>2, OldType, LongerBound
    <3>5. gone'[c] <= Spent' + Latency /\ (c \in excused' \/ barred' <= Spent' + Latency)
      BY <3>2, <3>3, <3>4
    <3> QED BY <3>5 DEF Current
  <2> QED BY <2>2, <2>3
<1> QED BY <1>1 DEF SeenInv

\* A connection that keeps its messages, or loses them all.
LEMMA CutKept ==
  ASSUME CutInv, UNCHANGED <<armed, cut, undone, held, resumes>>,
         UNCHANGED <<link, wire>> \/ link' = "down"
  PROVE  CutInv'
BY DEF CutInv, Arrives

\* Whoever reads a message that is not the last one of its connection is not cut off.
LEMMA NotCut ==
  ASSUME CutInv, LinkInv, wire # <<>>, ~Arrives({"bye"})
  PROVE  ~cut
BY DEF CutInv, LinkInv

\* The first message is taken; nothing else changes on the connection.
LEMMA TakenKeeps ==
  ASSUME Typed, LinkInv, wire # <<>>, wire' = Tail(wire), link = "down" <=> link' = "down"
  PROVE  LinkInv' /\ (Serves => Serves')
<1>1. /\ Len(wire) \in Nat \ {0} /\ DOMAIN wire = 1..Len(wire)
      /\ Len(wire') = Len(wire) - 1 /\ DOMAIN wire' = 1..(Len(wire) - 1)
      /\ \A i \in 1..(Len(wire) - 1): wire'[i] = wire[i + 1]
  BY DEF Typed
<1>2. \A i \in DOMAIN wire': i + 1 \in DOMAIN wire /\ wire'[i] = wire[i + 1] BY <1>1
<1>3. LinkInv'
  <2>1. link' # "down" BY DEF LinkInv
  <2>2. ASSUME NEW i \in DOMAIN wire', wire'[i].what \in {"kill", "bye"} PROVE i = Len(wire')
    <3>1. i + 1 = Len(wire) BY <1>2, <2>2 DEF LinkInv
    <3> QED BY <1>1, <2>2, <3>1
  <2> QED BY <2>1, <2>2 DEF LinkInv
<1>4. Serves => Serves' BY <1>2 DEF Serves
<1> QED BY <1>3, <1>4

\* A message is sent over a connection the server has; nothing but the last of them ends it.
LEMMA SentKeeps ==
  ASSUME Typed, LinkInv, WireInv, Kept, Serves, NEW m \in Message, wire' = Append(wire, m),
         link' = link,
         m.what \in {"active", "revoked", "issued"} => m.cert \in Certs,
         m.what \in {"active", "issued"} => Current(m.cert, 0)
  PROVE  /\ wire' \in Seq(Message) /\ LinkInv' /\ WireInv'
         /\ m.what \notin {"kill", "bye"} => Serves'
<1>1. /\ wire' \in Seq(Message) /\ Len(wire) \in Nat /\ DOMAIN wire = 1..Len(wire)
      /\ Len(wire') = Len(wire) + 1 /\ DOMAIN wire' = 1..(Len(wire) + 1)
      /\ wire'[Len(wire) + 1] = m /\ \A i \in 1..Len(wire): wire'[i] = wire[i]
  BY DEF Typed
<1>2. \A i \in DOMAIN wire': \/ i = Len(wire') /\ wire'[i] = m
                             \/ i \in DOMAIN wire /\ wire'[i] = wire[i]
  BY <1>1
<1>3. LinkInv'
  <2>1. link' # "down" BY DEF Serves
  <2> QED BY <1>2, <2>1 DEF LinkInv, Serves
<1>4. m.what \notin {"kill", "bye"} => Serves' BY <1>2 DEF Serves
<1>5. WireInv'
  <2>1. ASSUME NEW i \in DOMAIN wire' PROVE True(wire[i])'
    <3>1. CASE wire'[i] = m
      <4>1. m.age \in Nat BY OldType DEF Message
      <4>2. m.what \in {"active", "issued"} =>
              gone'[m.cert] <= 0 /\ (m.cert \in excused' \/ barred' <= 0)
        BY TruthKept
      <4>3. m.what \in {"active", "issued"} => gone'[m.cert] \in Nat /\ barred' \in Nat
        BY OldType DEF Kept, Typed
      <4> QED BY <3>1, <4>1, <4>2, <4>3 DEF True, Current
    <3>2. CASE i \in DOMAIN wire /\ wire'[i] = wire[i]
      <4>1. wire[i] \in Message /\ True(wire[i]) BY <3>2 DEF Typed, WireInv
      <4> QED BY <3>2, <4>1, MessageKept DEF True, Current
    <3> QED BY <1>2, <2>1, <3>1, <3>2
  <2> QED BY <2>1 DEF WireInv
<1> QED BY <1>1, <1>3, <1>4, <1>5

\* What the actor believes and what it has in hand.
LEMMA BeliefKept ==
  ASSUME RuntimeInv, Kept, UNCHANGED <<held, job, seen, resumes>>
  PROVE  JobInv' /\ HandInv' /\ AgeInv' /\ SeenInv'
<1>1. HandInv' BY HandKept DEF RuntimeInv
<1>2. AgeInv' BY AgeKept DEF RuntimeInv
<1>3. SeenInv' BY SeenKept DEF RuntimeInv
<1>4. JobInv' BY DEF RuntimeInv, JobInv
<1> QED BY <1>1, <1>2, <1>3, <1>4

-----------------------------------------------------------------------------
(* Refreshes.                                                              *)

\* What a refresh does to the jobs and to what is asked.
Moves ==
  /\ job' \in [Jobs -> JobRow] /\ JobInv'
  /\ asked' \in [Certs -> Nat] /\ (~Serves => asked' = asked)

LEMMA ProceedMoves ==
  ASSUME Typed, JobInv, NEW p, NEW i, p \in Jobs => i \in Nat \ {0}, NEW q, Proceed(p, i, q)
  PROVE  /\ Moves
         /\ p # "check" => job'["check"] = job["check"]
         /\ p = "check" => \/ job'["check"] = Deciding
                           \/ i \in Certs /\ job'["check"] = [at |-> i, age |-> 0]
<1> DEFINE again == p = "loop" /\ i > NumCerts /\ due > 0
           at == IF again THEN 1 ELSE i
           asks == Identified /\ at <= NumCerts
           row == IF asks THEN [at |-> at, age |-> 0] ELSE IF p = "check" THEN Deciding ELSE Idle
<1>1. /\ job' = [job EXCEPT ![p] = row]
      /\ asked' = IF asks /\ Serves THEN [asked EXCEPT ![at] = @ + 1] ELSE asked
  BY DEF Proceed
<1>2. NumCerts \in Nat \ {0} /\ Timeout \in Nat BY ActorRuntimeAssumption
<1>3. job \in [Jobs -> JobRow] /\ asked \in [Certs -> Nat] BY DEF Typed
<1>4. p \in Jobs /\ asks => at \in Certs BY <1>2 DEF Certs
<1>5. p = "check" => at = i OBVIOUS
<1> HIDE DEF asks, at
<1>7. p \in Jobs => row \in JobRow /\ (row \in {Idle, Deciding} \/ row.at \in Certs)
  BY <1>2, <1>4 DEF JobRow, Idle, Deciding, Certs
<1> HIDE DEF row
<1>8. job' \in [Jobs -> JobRow] /\ JobInv' BY <1>1, <1>3, <1>7 DEF JobInv
<1>9. asked' \in [Certs -> Nat]
  <2>1. \A c \in Certs: asked[c] \in Nat /\ asked[c] + 1 \in Nat BY <1>3
  <2> QED BY <1>1, <1>3, <2>1
<1>10. Moves BY <1>1, <1>8, <1>9 DEF Moves
<1>11. p # "check" => job'["check"] = job["check"] BY <1>1, <1>3 DEF Jobs
<1>12. ASSUME p = "check"
       PROVE  \/ job'["check"] = Deciding
              \/ i \in Certs /\ job'["check"] = [at |-> i, age |-> 0]
  <2>1. job'["check"] = row BY <1>1, <1>3, <1>12 DEF Jobs
  <2>2. p \in Jobs BY <1>12 DEF Jobs
  <2> QED BY <1>4, <1>5, <1>12, <2>1, <2>2 DEF row
<1> QED BY <1>10, <1>11, <1>12

\* One of the two goes on to its next certificate.
LEMMA GoesOn ==
  ASSUME Typed, JobInv, NEW p \in Jobs, NEW q, Proceed(p, job[p].at + 1, q)
  PROVE  Moves /\ (Advances \/ job'["check"] = job["check"])
<1>1. job[p].at + 1 \in Nat \ {0} BY ActorRuntimeAssumption DEF Typed, JobRow
<1>2. /\ Moves
      /\ p # "check" => job'["check"] = job["check"]
      /\ p = "check" => \/ job'["check"] = Deciding
                        \/ /\ job[p].at + 1 \in Certs
                           /\ job'["check"] = [at |-> job[p].at + 1, age |-> 0]
  BY <1>1, ProceedMoves
<1> QED BY <1>2 DEF Advances, Upcoming

LEMMA RefreshMoves ==
  ASSUME Typed, JobInv, Refresh
  PROVE  Moves /\ job'["check"] = job["check"]
<1>1. CASE Proceed("loop", 1, waiters)
  <2>1. "loop" # "check" /\ 1 \in Nat \ {0} OBVIOUS
  <2> QED BY <1>1, <2>1, ProceedMoves
<1>2. CASE UNCHANGED <<job, waiters, asked>>
  BY <1>2 DEF Moves, Typed, JobInv
<1> QED BY <1>1, <1>2 DEF Refresh

-----------------------------------------------------------------------------
(* What the actor does.                                                    *)

\* A certificate may have been learnt, if what was learnt was true at most one message ago.
Learnt(c) == held'[c].st = "active" => Current(c, Latency)
LearnsTruly ==
  /\ held' \in [Certs -> Belief] /\ saved' = held' /\ seen' \subseteq Certs
  /\ \A c \in Certs: held'[c] = held[c] \/ Learnt(c)
  /\ \A c \in seen': \/ job["check"] # Idle /\ Learnt(c)
                     \/ c \in seen /\ held'[c] = held[c]
  /\ cut => \A c \in Certs \ undone: held'[c] = held[c] \/ held'[c].st = "revoked"

\* A message that does not end the connection is taken, or none.
Takes == wire # <<>> /\ wire' = Tail(wire) /\ ~Arrives({"kill", "bye"})

\* What is in hand was sent truly, and after a kill switch it was in hand before.
HandsTruly ==
  /\ resumes' \in Seq(Resumed) /\ HandInv'
  /\ cut => \A i \in DOMAIN resumes':
              resumes'[i].what = "active" => resumes'[i].cert \in undone

LEMMA ActorKeeps ==
  ASSUME RuntimeInv, LearnsTruly, HandsTruly, Moves, Takes \/ wire' = wire,
         seen' = {} \/ Advances \/ job'["check"] = job["check"],
         link = "down" <=> link' = "down",
         UNCHANGED <<ledger, armed, gone, barred, reading, task, owes, past, window>>
  PROVE  RuntimeInv'
<1>1. /\ Typed /\ JobInv /\ DeskInv /\ LinkInv /\ StandingInv /\ ReadInv /\ WireInv
      /\ AgeInv /\ SeenInv /\ CutInv
  BY DEF RuntimeInv
<1>2. Kept /\ UNCHANGED <<cut, undone, excused>> BY DEF Kept, past
<1>3. wire' \in Seq(Message) /\ WireInv' BY <1>1, <1>2, WireKept DEF Takes
<1>4. Typed' BY <1>1, <1>3 DEF Typed, LearnsTruly, HandsTruly, Moves
<1>5. LinkInv' /\ (Serves => Serves')
  <2>1. CASE Takes BY <1>1, <2>1, TakenKeeps DEF Takes
  <2>2. CASE wire' = wire BY <1>1, <2>2 DEF LinkInv, Serves
  <2> QED BY <2>1, <2>2
<1>6. DeskInv' BY <1>1, <1>5 DEF DeskInv, AtDesk, Moves
<1>7. StandingInv' /\ ReadInv' BY <1>1, <1>2 DEF StandingInv, ReadInv, Current
<1>8. AgeInv'
  <2>1. ASSUME NEW c \in Certs, held'[c].st = "active", held'[c].age < Stale
        PROVE  Current(c, held[c].age + Latency)'
    <3>1. CASE held'[c] = held[c] BY <1>1, <1>2, <2>1, <3>1 DEF AgeInv, Current
    <3>2. CASE Learnt(c)
      <4>1. held'[c].age \in Nat /\ Latency \in Nat BY OldType DEF LearnsTruly, Belief
      <4>2. Current(c, Latency) BY <2>1, <3>2 DEF Learnt
      <4>3. gone[c] \in Nat /\ barred \in Nat BY <1>1, OldType DEF Typed
      <4> QED BY <1>2, <4>1, <4>2, <4>3 DEF Current
    <3> QED BY <2>1, <3>1, <3>2 DEF LearnsTruly
  <2> QED BY <2>1 DEF AgeInv
<1>9. SeenInv'
  <2>1. ASSUME NEW c \in seen'
        PROVE  /\ job'["check"] # Idle
               /\ held'[c].st = "active" => Current(c, Spent + Latency)'
    <3>1. c \in Certs /\ job["check"] # Idle BY <1>1, <2>1 DEF LearnsTruly, SeenInv
    <3>2. job'["check"] # Idle /\ Spent <= Spent' /\ Spent \in Nat /\ Spent' \in Nat
      BY <1>1, <2>1, <3>1, CheckAdvances
    <3>3. gone[c] \in Nat /\ barred \in Nat BY <1>1, <3>1, OldType DEF Typed
    <3>4. ASSUME held'[c].st = "active"
          PROVE  \E s \in Nat: s <= Spent' /\ Current(c, s + Latency)
      <4>1. CASE Learnt(c)
        <5>1. Current(c, 0 + Latency) BY <3>4, <4>1, OldType DEF Learnt
        <5> QED BY <3>2, <5>1
      <4>2. CASE c \in seen /\ held'[c] = held[c] BY <1>1, <3>2, <3>4, <4>2 DEF SeenInv
      <4> QED BY <2>1, <4>1, <4>2 DEF LearnsTruly
    <3>5. ASSUME held'[c].st = "active" PROVE Current(c, Spent + Latency)'
      <4>1. PICK s \in Nat: s <= Spent' /\ Current(c, s + Latency) BY <3>4, <3>5
      <4>2. \A n \in Nat: n <= s + Latency => n <= Spent' + Latency
        BY <3>2, <4>1, OldType, LongerBound
      <4>3. gone[c] <= Spent' + Latency /\ (c \in excused \/ barred <= Spent' + Latency)
        BY <3>3, <4>1, <4>2 DEF Current
      <4> QED BY <1>2, <4>3 DEF Current
    <3> QED BY <3>2, <3>5
  <2> QED BY <2>1 DEF SeenInv
<1>10. CutInv'
  <2>1. ASSUME cut PROVE link' = "down" \/ Arrives({"bye"})'
    <3>1. CASE Takes
      <4>1. ~Arrives({"bye"}) BY <3>1 DEF Takes, Arrives
      <4> QED BY <1>1, <2>1, <3>1, <4>1, NotCut DEF Takes
    <3>2. CASE wire' = wire BY <1>1, <2>1, <3>2 DEF CutInv, Arrives
    <3> QED BY <3>1, <3>2
  <2> QED BY <1>1, <1>2, <2>1 DEF CutInv, LearnsTruly, HandsTruly
<1> QED BY <1>3, <1>4, <1>5, <1>6, <1>7, <1>8, <1>9, <1>10 DEF RuntimeInv, Moves, HandsTruly

\* Nothing is learnt.
LEMMA NothingLearnt ==
  ASSUME Typed, SeenInv, UNCHANGED <<held, saved>>, seen' \subseteq seen
  PROVE  LearnsTruly
BY DEF Typed, LearnsTruly, SeenInv

LEMMA NothingInHand ==
  ASSUME RuntimeInv, Kept,
         resumes' = resumes \/ (resumes # <<>> /\ resumes' = Tail(resumes))
  PROVE  HandsTruly
<1>1. Typed /\ HandInv /\ CutInv BY DEF RuntimeInv
<1>2. resumes' \in Seq(Resumed) /\ HandInv' BY <1>1, HandKept
<1>3. ASSUME cut, NEW i \in DOMAIN resumes', resumes'[i].what = "active"
      PROVE  resumes'[i].cert \in undone
  <2>1. CASE resumes' = resumes BY <1>1, <1>3, <2>1 DEF CutInv
  <2>2. CASE resumes # <<>> /\ resumes' = Tail(resumes)
    <3>1. resumes \in Seq(Resumed) BY <1>1 DEF Typed
    <3>2. i + 1 \in DOMAIN resumes /\ resumes'[i] = resumes[i + 1]
      BY <1>3, <2>2, <3>1, TailFacts
    <3> QED BY <1>1, <1>3, <3>2 DEF CutInv
  <2> QED BY <2>1, <2>2
<1> QED BY <1>2, <1>3 DEF HandsTruly

LEMMA RefreshKeeps ==
  ASSUME RuntimeInv,
         Timer \/ Deferred \/ OnNotice \/ Check \/ Decide \/ Complete \/ \E p \in Jobs: TimeOut(p)
  PROVE  RuntimeInv'
<1>1. Typed /\ JobInv /\ SeenInv BY DEF RuntimeInv
<1>2. /\ UNCHANGED <<ledger, armed, gone, barred, reading, task, owes, past, window, held, saved,
                     resumes>>
      /\ link = "down" <=> link' = "down"
  BY DEF Timer, Deferred, OnNotice, Check, Decide, Complete, TimeOut, server, desk, belief, asking
<1>3. Takes \/ wire' = wire
  BY DEF Timer, Deferred, OnNotice, Check, Decide, Complete, TimeOut, Takes, Arrives
<1>4. /\ Moves /\ seen' \subseteq seen
      /\ seen' = {} \/ Advances \/ job'["check"] = job["check"]
  <2>1. CASE Timer \/ Deferred \/ OnNotice
    <3>1. Refresh /\ seen' = seen BY <2>1 DEF Timer, Deferred, OnNotice
    <3> QED BY <1>1, <3>1, RefreshMoves
  <2>2. CASE Check
    <3>1. job["check"] = Idle /\ Proceed("check", 1, waiters) /\ seen' = seen BY <2>2 DEF Check
    <3>2. 1 \in Nat \ {0} OBVIOUS
    <3>3. Moves BY <1>1, <3>1, <3>2, ProceedMoves
    <3>4. seen = {} BY <1>1, <3>1 DEF SeenInv
    <3> QED BY <3>1, <3>3, <3>4
  <2>3. CASE Decide
    <3>1. job' = [job EXCEPT !["check"] = Idle] /\ seen' = {} /\ asked' = asked
      BY <2>3 DEF Decide, desk
    <3>2. Idle \in JobRow BY ActorRuntimeAssumption DEF Idle, JobRow
    <3>3. job' \in [Jobs -> JobRow] /\ JobInv' BY <1>1, <3>1, <3>2 DEF Typed, JobInv
    <3> QED BY <1>1, <3>1, <3>3 DEF Moves, Typed
  <2>4. CASE Complete
    <3>1. UNCHANGED <<job, asked, seen>> BY <2>4 DEF Complete, desk, asking
    <3> QED BY <1>1, <3>1 DEF Moves, Typed, JobInv
  <2>5. ASSUME NEW p \in Jobs, TimeOut(p)
        PROVE  Moves /\ seen' = seen /\ (Advances \/ job'["check"] = job["check"])
    <3>1. PICK i \in DOMAIN waiters: Proceed(p, job[p].at + 1, RemoveAt(waiters, i))
      BY <2>5 DEF TimeOut
    <3>2. seen' = seen BY <2>5 DEF TimeOut
    <3> QED BY <1>1, <3>1, <3>2, GoesOn
  <2> QED BY <2>1, <2>2, <2>3, <2>4, <2>5
<1>5. LearnsTruly BY <1>1, <1>2, <1>4, NothingLearnt
<1>6. HandsTruly
  <2>1. Kept BY <1>2 DEF Kept, past
  <2> QED BY <1>2, <2>1, NothingInHand
<1> QED BY <1>2, <1>3, <1>4, <1>5, <1>6, ActorKeeps

\* What an answer or a redelivered certificate says was true when it was sent.
LEMMA OneLearnt ==
  ASSUME RuntimeInv, NEW c \in Certs, NEW st \in Status, NEW age \in 0..Latency,
         Learn(c, st, age), st = "active" => Current(c, Latency),
         cut => st = "revoked" \/ c \in undone
  PROVE  LearnsTruly
<1>1. Typed /\ SeenInv BY DEF RuntimeInv
<1> DEFINE row == [st |-> st, age |-> IF age > Stale THEN Stale ELSE age]
<1>2. /\ held' = [held EXCEPT ![c] = row] /\ saved' = held'
      /\ seen' = IF job["check"] = Idle THEN seen ELSE seen \union {c}
  BY DEF Learn, Persist
<1>3. row \in Belief /\ row.st = st BY OldType DEF Belief
<1> HIDE DEF row
<1>4. /\ held' \in [Certs -> Belief] /\ held'[c].st = st
      /\ \A d \in Certs: d # c => held'[d] = held[d]
  BY <1>1, <1>2, <1>3 DEF Typed
<1>5. Learnt(c) BY <1>4 DEF Learnt
<1>6. seen' \subseteq Certs BY <1>1, <1>2 DEF Typed
<1>7. ASSUME NEW d \in seen'
      PROVE  \/ job["check"] # Idle /\ Learnt(d)
             \/ d \in seen /\ held'[d] = held[d]
  <2>1. CASE job["check"] = Idle
    <3>1. seen' = {} BY <1>1, <1>2, <2>1 DEF SeenInv
    <3> QED BY <1>7, <3>1
  <2>2. CASE job["check"] # Idle /\ d = c BY <1>5, <2>2
  <2>3. CASE job["check"] # Idle /\ d # c
    <3>1. d \in seen /\ d \in Certs BY <1>2, <1>6, <1>7, <2>3
    <3> QED BY <1>4, <2>3, <3>1
  <2> QED BY <2>1, <2>2, <2>3
<1> QED BY <1>2, <1>4, <1>5, <1>6, <1>7 DEF LearnsTruly

\* The first message of the connection.
LEMMA FirstMessage ==
  ASSUME RuntimeInv, wire # <<>>
  PROVE  /\ Head(wire) \in Message /\ Head(wire).age \in 0..Latency
         /\ Head(wire).what \in {"active", "revoked", "issued"} => Head(wire).cert \in Certs
         /\ Head(wire).what \in {"active", "issued"} =>
              Current(Head(wire).cert, Latency) /\ Current(Head(wire).cert, Head(wire).age)
<1>1. wire \in Seq(Message) /\ WireInv /\ Typed BY DEF RuntimeInv, Typed
<1>2. Head(wire) \in Message /\ Head(wire) = wire[1] /\ 1 \in DOMAIN wire BY <1>1, TailFacts
<1> DEFINE m == Head(wire)
<1>3. m \in Message /\ True(m) BY <1>1, <1>2 DEF WireInv
<1> HIDE DEF m
<1>4. m.age \in 0..Latency BY <1>3 DEF Message
<1>5. ASSUME m.what \in {"active", "issued"} PROVE Current(m.cert, Latency)
  <2>1. m.cert \in Certs /\ Current(m.cert, m.age) BY <1>3, <1>5 DEF True
  <2>2. gone[m.cert] \in Nat /\ barred \in Nat BY <1>1, <2>1, OldType DEF Typed
  <2> QED BY <1>4, <2>1, <2>2, OldType DEF Current
<1> QED BY <1>3, <1>4, <1>5 DEF True, m

LEMMA AppendFacts ==
  ASSUME NEW S, NEW q \in Seq(S), NEW x \in S
  PROVE  /\ Append(q, x) \in Seq(S)
         /\ \A i \in DOMAIN Append(q, x): \/ Append(q, x)[i] = x
                                          \/ i \in DOMAIN q /\ Append(q, x)[i] = q[i]
<1>1. /\ Len(q) \in Nat /\ DOMAIN q = 1..Len(q) /\ DOMAIN Append(q, x) = 1..(Len(q) + 1)
      /\ Append(q, x) \in Seq(S) /\ Append(q, x)[Len(q) + 1] = x
      /\ \A i \in 1..Len(q): Append(q, x)[i] = q[i]
  OBVIOUS
<1>2. \A i \in 1..(Len(q) + 1): i \in 1..Len(q) \/ i = Len(q) + 1 BY <1>1
<1> QED BY <1>1, <1>2

\* An answer: to whoever waits, or applied at once, or dropped.
LEMMA StatusKeeps ==
  ASSUME RuntimeInv, waiters \in Seq(Jobs), OnStatus
  PROVE  RuntimeInv'
<1> DEFINE m == Head(wire)
<1>1. /\ wire # <<>> /\ wire' = Tail(wire) /\ m.what \in Status
      /\ UNCHANGED <<ledger, armed, gone, barred, asked, reading, task, owes, link, past, window,
                     job>>
  BY DEF OnStatus, Arrives, server, desk
<1>2. /\ Typed /\ JobInv /\ SeenInv /\ HandInv /\ LinkInv /\ CutInv BY DEF RuntimeInv
<1>3. /\ m \in Message /\ m.age \in 0..Latency /\ m.cert \in Certs
      /\ m.what = "active" => Current(m.cert, Latency) /\ Current(m.cert, m.age)
  BY <1>1, FirstMessage DEF Status
<1>4. Takes BY <1>1 DEF Takes, Arrives, Status
<1>5. ~cut BY <1>1, <1>2, NotCut DEF Arrives, Status
<1>6. Moves BY <1>1, <1>2 DEF Moves, Typed, JobInv
<1>7. Kept BY <1>1 DEF Kept, past
<1>8. LearnsTruly /\ (waiters = <<>> => resumes' = resumes) /\ (waiters # <<>> => seen' = seen)
  <2>1. CASE waiters = <<>> /\ Verified(m)
    <3>1. Learn(m.cert, m.what, m.age) /\ resumes' = resumes BY <2>1 DEF OnStatus, Apply
    <3> QED BY <1>1, <1>3, <1>5, <2>1, <3>1, OneLearnt
  <2>2. CASE ~(waiters = <<>> /\ Verified(m))
    <3>1. UNCHANGED <<held, saved, seen>> /\ (waiters = <<>> => resumes' = resumes)
      BY <2>2 DEF OnStatus, belief
    <3> QED BY <1>2, <3>1, NothingLearnt
  <2> QED BY <2>1, <2>2
<1>9. HandsTruly
  <2>1. CASE waiters = <<>> BY <1>7, <1>8, <2>1, NothingInHand
  <2>2. CASE waiters # <<>>
    <3> DEFINE e == [by |-> Head(waiters), what |-> IF Verified(m) THEN m.what ELSE "refused",
                     cert |-> m.cert, age |-> m.age]
    <3>1. resumes' = Append(resumes, e) BY <2>2 DEF OnStatus
    <3>2. e \in Resumed /\ e.what \in {"refused", m.what} /\ e.cert = m.cert /\ e.age = m.age
      <4>1. Head(waiters) \in Jobs BY <2>2, TailFacts
      <4>2. m.cert \in 0..NumCerts BY <1>3 DEF Certs
      <4> QED BY <1>1, <1>3, <4>1, <4>2 DEF Resumed
    <3> HIDE DEF e, m
    <3>7. PICK r \in Resumed: r = e BY <3>2
    <3>3. True(r)
      <4>1. m.what \in {"active", "revoked"} BY <1>1 DEF Status, m
      <4> QED BY <1>3, <3>2, <3>7, <4>1 DEF True
    <3>4. resumes \in Seq(Resumed) BY <1>2 DEF Typed
    <3>5. /\ resumes' \in Seq(Resumed)
          /\ \A i \in DOMAIN resumes': \/ resumes'[i] = r
                                       \/ i \in DOMAIN resumes /\ resumes'[i] = resumes[i]
      BY <3>1, <3>7, <3>4, AppendFacts
    <3>6. ASSUME NEW i \in DOMAIN resumes' PROVE True(resumes[i])'
      <4>1. CASE resumes'[i] = r BY <1>1, <3>3, <4>1 DEF True, Current, past
      <4>2. CASE i \in DOMAIN resumes /\ resumes'[i] = resumes[i]
        BY <1>2, <1>1, <4>2 DEF HandInv, True, Current, past
      <4> QED BY <3>5, <3>6, <4>1, <4>2
    <3> QED BY <1>5, <3>5, <3>6 DEF HandsTruly, HandInv
  <2> QED BY <2>1, <2>2
<1> QED BY <1>1, <1>4, <1>6, <1>8, <1>9, ActorKeeps

\* An await that was answered goes on; what a kill switch left in hand is excused.
LEMMA ResumeKeeps ==
  ASSUME RuntimeInv, Resume
  PROVE  RuntimeInv'
<1> DEFINE m == Head(resumes)
<1>1. /\ resumes # <<>> /\ resumes' = Tail(resumes)
      /\ Proceed(m.by, job[m.by].at + 1, waiters)
      /\ UNCHANGED <<ledger, armed, gone, barred, reading, task, owes, link, past, window, wire>>
  BY DEF Resume, server
<1>2. Typed /\ JobInv /\ SeenInv /\ HandInv /\ CutInv BY DEF RuntimeInv
<1>3. m \in Resumed /\ m = resumes[1] /\ 1 \in DOMAIN resumes
  BY <1>1, <1>2, TailFacts DEF Typed
<1>4. /\ True(m) /\ m.by \in Jobs /\ m.age \in 0..Latency /\ m.what \in Status \union {"refused"}
      /\ cut /\ m.what = "active" => m.cert \in undone
  BY <1>2, <1>3 DEF HandInv, CutInv, Resumed
<1>5. Moves /\ (Advances \/ job'["check"] = job["check"]) BY <1>1, <1>2, <1>4, GoesOn
<1>6. Kept BY <1>1 DEF Kept, past
<1>7. HandsTruly BY <1>1, <1>6, NothingInHand
<1>8. LearnsTruly
  <2>1. CASE m.what = "refused"
    <3>1. UNCHANGED <<held, saved, seen>> BY <2>1 DEF Resume, belief
    <3> QED BY <1>2, <3>1, NothingLearnt
  <2>2. CASE m.what # "refused"
    <3>1. Learn(m.cert, m.what, m.age) BY <2>2 DEF Resume, Apply
    <3>2. m.what \in Status /\ m.cert \in Certs BY <1>4, <2>2 DEF True, Status
    <3>3. m.what = "active" => Current(m.cert, Latency)
      <4>1. gone[m.cert] \in Nat /\ barred \in Nat BY <1>2, <3>2, OldType DEF Typed
      <4> QED BY <1>4, <4>1, OldType DEF True, Current
    <3>4. cut => m.what = "revoked" \/ m.cert \in undone BY <1>4, <3>2 DEF Status
    <3> HIDE DEF m
    <3> QED BY <1>4, <3>1, <3>2, <3>3, <3>4, OneLearnt
  <2> QED BY <2>1, <2>2
<1> QED BY <1>1, <1>5, <1>7, <1>8, ActorKeeps

LEMMA IssuedKeeps ==
  ASSUME RuntimeInv, OnCertIssued
  PROVE  RuntimeInv'
<1> DEFINE m == Head(wire)
<1>1. /\ wire # <<>> /\ wire' = Tail(wire) /\ m.what = "issued" /\ Learn(m.cert, "active", 0)
      /\ UNCHANGED <<ledger, armed, gone, barred, asked, reading, task, owes, link, past, window,
                     job, resumes>>
  BY DEF OnCertIssued, Arrives, server, desk
<1>2. Typed /\ JobInv /\ LinkInv /\ CutInv BY DEF RuntimeInv
<1>3. m.cert \in Certs /\ Current(m.cert, Latency) BY <1>1, FirstMessage
<1>4. Takes BY <1>1 DEF Takes, Arrives
<1>5. ~cut BY <1>1, <1>2, NotCut DEF Arrives
<1>6. Moves BY <1>1, <1>2 DEF Moves, Typed, JobInv
<1>7. Kept BY <1>1 DEF Kept, past
<1>8. HandsTruly BY <1>1, <1>7, NothingInHand
<1>9. LearnsTruly
  <2>1. "active" \in Status /\ 0 \in 0..Latency BY OldType DEF Status
  <2> HIDE DEF m
  <2> QED BY <1>1, <1>3, <1>5, <2>1, OneLearnt
<1> QED BY <1>1, <1>4, <1>6, <1>8, <1>9, ActorKeeps

\* The server has hung up on whom it told of a kill switch.
LEMMA KillKeeps ==
  ASSUME RuntimeInv, OnKillSwitch
  PROVE  RuntimeInv'
<1>1. /\ wire # <<>> /\ Head(wire).what = "kill"
      /\ wire' = <<[Head(wire) EXCEPT !.what = "bye"]>>
      /\ held' = [c \in Certs |-> [held[c] EXCEPT !.st = "revoked"]]
      /\ cut' = armed /\ undone' = IF armed THEN InHand ELSE {}
      /\ UNCHANGED <<ledger, armed, gone, barred, asked, reading, task, owes, link, excused, window,
                     job, resumes, seen>>
  BY DEF OnKillSwitch, Arrives, server, desk, asking
<1>2. /\ Typed /\ JobInv /\ DeskInv /\ LinkInv /\ StandingInv /\ ReadInv /\ HandInv /\ SeenInv
  BY DEF RuntimeInv
<1>3. saved' = held' BY <1>2 DEF OnKillSwitch, SaveKill, Persist, Typed
<1>4. /\ held' \in [Certs -> Belief]
      /\ \A c \in Certs: held'[c].st = "revoked" /\ held'[c].age = held[c].age
  BY <1>1, <1>2 DEF Typed, Belief, Status
<1>5. wire \in Seq(Message) /\ Head(wire) \in Message /\ Head(wire) = wire[1] /\ 1 \in DOMAIN wire
  BY <1>1, <1>2, TailFacts DEF Typed
<1> DEFINE b == [Head(wire) EXCEPT !.what = "bye"]
<1>6. b \in Message /\ b.what = "bye" BY <1>5 DEF Message
<1>7. wire' \in Seq(Message) /\ Len(wire') = 1 /\ DOMAIN wire' = {1} /\ wire'[1] = b
      /\ wire' # <<>> /\ Head(wire') = b
  <2> HIDE DEF b
  <2>1. wire' = <<b>> BY <1>1 DEF b
  <2> QED BY <1>6, <2>1
<1> HIDE DEF b
<1>8. WireInv' BY <1>6, <1>7 DEF WireInv, True
<1>9. ~Serves BY <1>1, <1>5 DEF Serves
<1>10. DeskInv' BY <1>1, <1>2, <1>9 DEF DeskInv, AtDesk
<1>11. LinkInv' BY <1>1, <1>2, <1>7 DEF LinkInv
<1>12. Typed' BY <1>1, <1>2, <1>3, <1>4, <1>7 DEF Typed
<1>13. StandingInv' /\ ReadInv' /\ HandInv' /\ JobInv'
  BY <1>1, <1>2 DEF StandingInv, ReadInv, HandInv, JobInv, True, Current
<1>14. AgeInv' BY <1>4 DEF AgeInv
<1>15. SeenInv' BY <1>1, <1>2, <1>4 DEF SeenInv, Typed
<1>16. CutInv'
  <2>1. Arrives({"bye"})' BY <1>6, <1>7 DEF Arrives
  <2>2. ASSUME cut', NEW i \in DOMAIN resumes', resumes'[i].what = "active"
        PROVE  resumes'[i].cert \in undone'
    BY <1>1, <2>2 DEF InHand
  <2> QED BY <1>1, <1>4, <2>1, <2>2 DEF CutInv
<1> QED BY <1>8, <1>10, <1>11, <1>12, <1>13, <1>14, <1>15, <1>16 DEF RuntimeInv

-----------------------------------------------------------------------------
(* The connection.                                                         *)

\* A connection that ends leaves nothing on the server's desk.
LEMMA NothingLeft ==
  /\ Quiet \in [Certs -> Nat] /\ NobodyReads \in [Certs -> [Status -> Nat]]
  /\ \A c \in Certs: ~(NobodyReads[c]["active"] > 0) /\ c # 0
  /\ 0 \in 0..NumCerts
BY ActorRuntimeAssumption DEF Quiet, NobodyReads, Status, Certs

LEMMA CloseKeeps ==
  ASSUME RuntimeInv, OnClose
  PROVE  RuntimeInv'
<1>1. /\ wire # <<>> /\ Head(wire).what = "bye" /\ wire' = <<>> /\ link' = "down"
      /\ UNCHANGED <<ledger, armed, gone, barred, asked, reading, task, owes, held, saved, past,
                     window, job, seen, resumes>>
  BY DEF OnClose, Arrives, server, desk, belief, asking
<1>2. Typed /\ DeskInv /\ LinkInv /\ StandingInv /\ ReadInv /\ WireInv /\ CutInv
  BY DEF RuntimeInv
<1>3. Kept /\ UNCHANGED <<cut, undone, excused>> BY <1>1 DEF Kept, past
<1>4. JobInv' /\ HandInv' /\ AgeInv' /\ SeenInv' BY <1>1, <1>3, BeliefKept
<1>5. Head(wire) = wire[1] /\ 1 \in DOMAIN wire BY <1>1, <1>2, TailFacts DEF Typed
<1>6. ~Serves BY <1>1, <1>5 DEF Serves
<1>7. DeskInv' BY <1>1, <1>2, <1>6 DEF DeskInv, AtDesk
<1>8. Typed' BY <1>1, <1>2 DEF Typed
<1>9. LinkInv' /\ WireInv' BY <1>1 DEF LinkInv, WireInv
<1>10. StandingInv' /\ ReadInv' BY <1>1, <1>2, <1>3 DEF StandingInv, ReadInv, Current
<1>11. CutInv' BY <1>1, <1>2, <1>3, CutKept
<1> QED BY <1>4, <1>7, <1>8, <1>9, <1>10, <1>11 DEF RuntimeInv

LEMMA LinkKeeps ==
  ASSUME RuntimeInv, Connect \/ Drop \/ Restart
  PROVE  RuntimeInv'
<1>1. /\ UNCHANGED <<ledger, armed, gone, barred, held, saved, past, resumes>>
      /\ window' \in {Fallback, MaxStatusAge}
  BY DEF Connect, Drop, Restart, server, belief, asking, Restored, RuntimeInv, Typed
<1>2. Typed /\ DeskInv /\ LinkInv /\ StandingInv /\ ReadInv /\ WireInv /\ CutInv
  BY DEF RuntimeInv
<1>3. Kept /\ UNCHANGED <<cut, undone, excused>> BY <1>1 DEF Kept, past
<1>4. StandingInv' BY <1>1, <1>2 DEF StandingInv
<1>5. HandInv' /\ AgeInv' BY <1>1, <1>3, HandKept, AgeKept DEF RuntimeInv
<1>6. /\ JobInv' /\ SeenInv' /\ job' \in [Jobs -> JobRow] /\ seen' \subseteq Certs
  <2>1. CASE UNCHANGED <<job, seen>>
    <3>1. JobInv' /\ SeenInv' BY <1>1, <1>3, <2>1, BeliefKept
    <3> QED BY <1>2, <2>1, <3>1 DEF Typed
  <2>2. CASE job' = [p \in Jobs |-> Idle] /\ seen' = {}
    <3>1. Idle \in JobRow BY ActorRuntimeAssumption DEF Idle, JobRow
    <3> QED BY <2>2, <3>1 DEF JobInv, SeenInv
  <2> QED BY <2>1, <2>2 DEF Connect, Drop, Restart, asking
<1>7. wire' = <<>>
  <2>1. CASE Connect BY <1>2, <2>1 DEF Connect, LinkInv
  <2>2. CASE Drop \/ Restart BY <2>2 DEF Drop, Restart
  <2> QED BY <2>1, <2>2
<1>8. WireInv' /\ wire' \in Seq(Message) /\ (link' # "down" => Serves')
  BY <1>7 DEF WireInv, Serves
<1>9. LinkInv' BY <1>7 DEF LinkInv
<1>10. CASE Connect
  <2>1. link' # "down" /\ ~armed /\ UNCHANGED <<asked, reading, task>>
    BY <1>10 DEF Connect
  <2>2. Typed' BY <1>1, <1>2, <1>6, <1>8, <2>1 DEF Typed
  <2>3. DeskInv' BY <1>8, <2>1 DEF DeskInv
  <2>4. ReadInv' BY <1>1, <1>2, <1>3, <2>1 DEF ReadInv, Current
  <2>5. CutInv' BY <1>2, <1>3, <2>1 DEF CutInv
  <2> QED BY <1>4, <1>5, <1>6, <1>8, <1>9, <2>2, <2>3, <2>4, <2>5 DEF RuntimeInv
<1>11. CASE Drop \/ Restart
  <2>1. /\ link' = "down" /\ asked' = Quiet /\ reading' = NobodyReads /\ task' = 0 /\ ~owes'
    BY <1>11 DEF Drop, Restart, Hangup
  <2>2. Typed' BY <1>1, <1>2, <1>6, <1>8, <2>1, NothingLeft DEF Typed
  <2>3. DeskInv' BY <2>1 DEF DeskInv, AtDesk
  <2>4. ReadInv' BY <2>1, NothingLeft DEF ReadInv
  <2>5. CutInv' BY <1>1, <1>2, <1>3, <2>1, CutKept
  <2> QED BY <1>4, <1>5, <1>6, <1>8, <1>9, <2>2, <2>3, <2>4, <2>5 DEF RuntimeInv
<1> QED BY <1>10, <1>11

-----------------------------------------------------------------------------
(* The control plane.                                                      *)

\* What it does to the ledger and the switch.
LEMMA LedgerKeeps ==
  ASSUME RuntimeInv, Arm \/ Disarm \/ Miss \/ \E c \in Certs: Revoke(c)
  PROVE  RuntimeInv'
<1>1. /\ UNCHANGED <<asked, reading, task, owes, wire, link, held, saved, window, job, seen,
                     resumes, gone>>
      /\ ledger' \in [Certs -> Status] /\ armed' \in BOOLEAN
      /\ \A c \in Certs: ledger'[c] = "active" => ledger[c] = "active"
  BY DEF Revoke, Arm, Disarm, Miss, desk, belief, asking, RuntimeInv, Typed, Status
<1>2. \/ ~armed' /\ barred' = 0 /\ ~cut'
      \/ (armed => armed') /\ UNCHANGED <<barred, cut, undone, excused>>
  BY DEF Revoke, Arm, Disarm, Miss, past
<1>3. Kept BY <1>1, <1>2 DEF Kept
<1>4. Typed /\ DeskInv /\ LinkInv /\ StandingInv /\ ReadInv /\ WireInv /\ CutInv
  BY DEF RuntimeInv
<1>5. JobInv' /\ HandInv' /\ AgeInv' /\ SeenInv' BY <1>1, <1>3, BeliefKept
<1>6. barred' \in 0..Old BY <1>2, <1>4, OldType DEF Typed
<1>7. Typed' BY <1>1, <1>4, <1>6 DEF Typed
<1>8. DeskInv' /\ LinkInv' BY <1>1, <1>4 DEF DeskInv, AtDesk, Serves, LinkInv
<1>9. WireInv' BY <1>1, <1>3, <1>4, WireKept
<1>10. StandingInv' BY <1>1, <1>2, <1>4 DEF StandingInv
<1>11. ReadInv' BY <1>1, <1>2, <1>4 DEF ReadInv, Current
<1>12. CutInv' BY <1>1, <1>2, <1>4 DEF CutInv, Arrives
<1> QED BY <1>5, <1>7, <1>8, <1>9, <1>10, <1>11, <1>12 DEF RuntimeInv

\* What a handler reads, and what is left undone, on a connection the server has.
LEMMA DeskKeeps ==
  ASSUME RuntimeInv, Ask \/ RedeliverRead \/ \E c \in Certs: ReadRow(c) \/ NoAnswer(c)
  PROVE  RuntimeInv'
<1>1. /\ UNCHANGED <<ledger, armed, gone, barred, wire, link, held, saved, window, job, seen,
                     resumes, cut, undone>>
      /\ excused \subseteq excused'
  BY DEF Ask, RedeliverRead, ReadRow, NoAnswer, server, belief, asking, past
<1>2. Kept BY <1>1 DEF Kept
<1>3. Typed /\ DeskInv /\ LinkInv /\ StandingInv /\ ReadInv /\ WireInv /\ CutInv
  BY DEF RuntimeInv
<1>4. JobInv' /\ HandInv' /\ AgeInv' /\ SeenInv' BY <1>1, <1>2, BeliefKept
<1>5. LinkInv' /\ StandingInv' /\ CutInv'
  BY <1>1, <1>3 DEF LinkInv, StandingInv, CutInv, Arrives
<1>6. WireInv' BY <1>1, <1>2, <1>3, WireKept
<1>7. Serves
  <2>1. CASE Ask BY <2>1 DEF Ask
  <2>2. CASE RedeliverRead BY <1>3, <2>2 DEF RedeliverRead, DeskInv, AtDesk
  <2>3. ASSUME NEW c \in Certs, asked[c] > 0 PROVE Serves
    BY <1>3, <2>3 DEF DeskInv, AtDesk, Quiet
  <2> QED BY <2>1, <2>2, <2>3 DEF ReadRow, NoAnswer
<1>8. DeskInv' BY <1>1, <1>7 DEF DeskInv, Serves
<1>9. CASE Ask
  <2>1. UNCHANGED <<asked, reading, task, excused>> BY <1>9 DEF Ask, past
  <2>2. Typed' BY <1>1, <1>3, <2>1 DEF Typed
  <2>3. ReadInv' BY <1>1, <1>3, <2>1 DEF ReadInv, Current
  <2> QED BY <1>4, <1>5, <1>6, <1>8, <2>2, <2>3 DEF RuntimeInv
<1>10. CASE RedeliverRead
  <2>1. PICK c \in {0} \union {d \in Certs: ledger[d] = "active"}:
          task' = c /\ excused' = IF armed THEN excused \union {c} ELSE excused
    BY <1>10 DEF RedeliverRead
  <2>2. UNCHANGED <<asked, reading>> BY <1>10 DEF RedeliverRead
  <2>3. c \in 0..NumCerts /\ 0 \notin Certs
    <3>1. 0 \in 0..NumCerts /\ Certs \subseteq 0..NumCerts BY ActorRuntimeAssumption DEF Certs
    <3> QED BY <3>1 DEF Certs
  <2>4. Typed' BY <1>1, <1>3, <2>1, <2>2, <2>3 DEF Typed
  <2>5. ReadInv'
    <3>1. ASSUME NEW d \in Certs, task' = d PROVE gone[d] <= 0 /\ (d \in excused' \/ barred <= 0)
      <4>1. ledger[d] = "active" BY <2>1, <2>3, <3>1
      <4>2. gone[d] = 0 /\ (~armed => barred = 0) BY <1>3, <4>1 DEF StandingInv
      <4>3. armed => d \in excused' BY <2>1, <3>1
      <4> QED BY <4>2, <4>3
    <3> QED BY <1>1, <1>3, <2>2, <3>1 DEF ReadInv, Current
  <2> QED BY <1>4, <1>5, <1>6, <1>8, <2>4, <2>5 DEF RuntimeInv
<1>11. ASSUME NEW c \in Certs, ReadRow(c) \/ NoAnswer(c) PROVE RuntimeInv'
  <2>1. /\ asked[c] > 0 /\ asked' = [asked EXCEPT ![c] = @ - 1]
        /\ \/ reading' = reading
           \/ reading' = [reading EXCEPT ![c][ledger[c]] = @ + 1]
        /\ UNCHANGED <<task, excused>>
    BY <1>11 DEF ReadRow, NoAnswer, past
  <2>2. asked' \in [Certs -> Nat] BY <1>3, <2>1 DEF Typed
  <2>3. /\ reading' \in [Certs -> [Status -> Nat]]
        /\ \A d \in Certs: reading'[d]["active"] > 0
             => reading[d]["active"] > 0 \/ ledger[d] = "active"
    <3>1. CASE reading' = reading BY <1>3, <3>1 DEF Typed
    <3>2. CASE reading' = [reading EXCEPT ![c][ledger[c]] = @ + 1]
      <4>1. PICK r \in Status: r = ledger[c] BY <1>3 DEF Typed
      <4>2. reading[c] \in [Status -> Nat] BY <1>3 DEF Typed
      <4> DEFINE row == [reading[c] EXCEPT ![r] = @ + 1]
      <4>3. row \in [Status -> Nat] /\ (r # "active" => row["active"] = reading[c]["active"])
        BY <4>2 DEF Status
      <4>4. reading' = [reading EXCEPT ![c] = row] BY <3>2, <4>1
      <4> HIDE DEF row
      <4> QED BY <1>3, <4>1, <4>3, <4>4 DEF Typed
    <3> QED BY <2>1, <3>1, <3>2
  <2>4. Typed' BY <1>1, <1>3, <2>1, <2>2, <2>3 DEF Typed
  <2>5. ReadInv' BY <1>1, <1>3, <2>1, <2>3 DEF ReadInv, StandingInv, Current
  <2> QED BY <1>4, <1>5, <1>6, <1>8, <2>4, <2>5 DEF RuntimeInv
<1> QED BY <1>9, <1>10, <1>11

\* A message is sent on a connection the server has; a kill switch clears the desk.
LEMMA SendKeeps ==
  ASSUME RuntimeInv, NEW m \in Message, Serves, wire' = Append(wire, m),
         m.what \in {"active", "revoked", "issued"} => m.cert \in Certs,
         m.what \in {"active", "issued"} => Current(m.cert, 0),
         m.what \notin {"kill", "bye"} \/ ~AtDesk',
         asked' \in [Certs -> Nat], reading' \in [Certs -> [Status -> Nat]],
         task' \in 0..NumCerts, ReadInv',
         UNCHANGED <<ledger, armed, gone, barred, link, held, saved, past, window, job, seen,
                     resumes>>
  PROVE  RuntimeInv'
<1>1. Typed /\ LinkInv /\ StandingInv /\ WireInv /\ CutInv BY DEF RuntimeInv
<1>2. Kept /\ UNCHANGED <<cut, undone, excused>> BY DEF Kept, past
<1>3. JobInv' /\ HandInv' /\ AgeInv' /\ SeenInv' BY <1>2, BeliefKept
<1>4. /\ wire' \in Seq(Message) /\ LinkInv' /\ WireInv'
      /\ m.what \notin {"kill", "bye"} => Serves'
  BY <1>1, <1>2, SentKeeps
<1>5. DeskInv' BY <1>4 DEF DeskInv
<1>6. StandingInv' BY <1>1 DEF StandingInv
<1>7. Typed' BY <1>1, <1>4 DEF Typed
<1>8. ~cut
  <2>1. ASSUME Arrives({"bye"}) PROVE FALSE
    <3>1. wire # <<>> /\ Head(wire).what = "bye" BY <2>1 DEF Arrives
    <3>2. Head(wire) = wire[1] /\ 1 \in DOMAIN wire BY <1>1, <3>1, TailFacts DEF Typed
    <3> QED BY <3>1, <3>2 DEF Serves
  <2> QED BY <1>1, <2>1 DEF CutInv, Serves
<1>9. CutInv' BY <1>2, <1>8 DEF CutInv
<1> QED BY <1>3, <1>4, <1>5, <1>6, <1>7, <1>9 DEF RuntimeInv

LEMMA PlainMessage ==
  \A k \in {"notice", "kill"}: Plain(k) \in Message /\ Plain(k).what = k
BY OldType, NothingLeft DEF Plain, About, Message

LEMMA NoticeKeeps ==
  ASSUME RuntimeInv, Notify \/ Suspend
  PROVE  RuntimeInv'
<1>1. UNCHANGED <<ledger, armed, gone, barred, link, held, saved, past, window, job, seen,
                  resumes>>
  BY DEF Notify, Suspend, belief, asking
<1>2. Typed /\ DeskInv /\ LinkInv /\ StandingInv /\ ReadInv /\ WireInv /\ CutInv
  BY DEF RuntimeInv
<1>3. CASE UNCHANGED <<wire, asked, reading, task, owes>>
  <2>1. Kept /\ UNCHANGED <<cut, undone, excused>> BY <1>1 DEF Kept, past
  <2>2. JobInv' /\ HandInv' /\ AgeInv' /\ SeenInv' BY <1>1, <2>1, BeliefKept
  <2>3. Typed' BY <1>1, <1>2, <1>3 DEF Typed
  <2>4. DeskInv' /\ LinkInv' /\ StandingInv'
    BY <1>1, <1>2, <1>3 DEF DeskInv, AtDesk, Serves, LinkInv, StandingInv
  <2>5. ReadInv' BY <1>1, <1>2, <1>3, <2>1 DEF ReadInv, Current
  <2>6. WireInv' BY <1>2, <1>3, <2>1, WireKept
  <2>7. CutInv' BY <1>1, <1>2, <1>3, <2>1, CutKept
  <2> QED BY <2>2, <2>3, <2>4, <2>5, <2>6, <2>7 DEF RuntimeInv
<1>4. CASE Notify /\ Serves
  <2>1. wire' = Append(wire, Plain("notice")) /\ UNCHANGED <<asked, reading, task, owes>>
    BY <1>4 DEF Notify, desk
  <2>2. Plain("notice") \in Message /\ Plain("notice").what = "notice" BY PlainMessage
  <2>3. ReadInv' BY <1>1, <1>2, <2>1 DEF ReadInv, Current, past
  <2>4. /\ asked' \in [Certs -> Nat] /\ reading' \in [Certs -> [Status -> Nat]]
        /\ task' \in 0..NumCerts
    BY <1>2, <2>1 DEF Typed
  <2> QED BY <1>1, <1>4, <2>1, <2>2, <2>3, <2>4, SendKeeps
<1>5. CASE Suspend /\ armed /\ Serves
  <2>1. /\ wire' = Append(wire, Plain("kill"))
        /\ asked' = Quiet /\ reading' = NobodyReads /\ task' = 0 /\ ~owes'
    BY <1>5 DEF Suspend, Hangup
  <2>2. Plain("kill") \in Message /\ Plain("kill").what = "kill" BY PlainMessage
  <2>3. ReadInv' BY <2>1, NothingLeft DEF ReadInv
  <2>4. ~AtDesk' BY <2>1 DEF AtDesk
  <2> QED BY <1>1, <1>5, <2>1, <2>2, <2>3, <2>4, NothingLeft, SendKeeps
<1> QED BY <1>3, <1>4, <1>5 DEF Notify, Suspend, desk

LEMMA SignKeeps ==
  ASSUME RuntimeInv, NEW c \in Certs, NEW r \in Status, Sign(c, r)
  PROVE  RuntimeInv'
<1>1. /\ reading[c][r] > 0 /\ reading' = [reading EXCEPT ![c][r] = @ - 1]
      /\ wire' = Append(wire, About(Signed(r), c))
      /\ UNCHANGED <<ledger, armed, gone, barred, asked, task, owes, link, held, saved, past,
                     window, job, seen, resumes>>
  BY DEF Sign, server, belief, asking
<1>2. Typed /\ DeskInv /\ StandingInv /\ ReadInv BY DEF RuntimeInv
<1>3. Serves BY <1>1, <1>2 DEF DeskInv, AtDesk, NobodyReads
<1>4. Signed(r) \in Status /\ (Signed(r) = "active" => r = "active" /\ ~armed)
  BY DEF Signed, Status
<1> DEFINE m == About(Signed(r), c)
<1>5. m \in Message /\ m.what = Signed(r) /\ m.cert = c
  BY <1>4, OldType, ActorRuntimeAssumption DEF About, Message, Certs
<1>6. m.what = "active" => Current(c, 0)
  BY <1>1, <1>2, <1>4, <1>5, OldType DEF ReadInv, StandingInv, Current
<1>7. /\ reading' \in [Certs -> [Status -> Nat]]
      /\ \A d \in Certs: reading'[d]["active"] > 0 => reading[d]["active"] > 0
  <2>1. reading[c] \in [Status -> Nat] /\ reading \in [Certs -> [Status -> Nat]]
    BY <1>2 DEF Typed
  <2> DEFINE row == [reading[c] EXCEPT ![r] = @ - 1]
  <2>2. row \in [Status -> Nat] /\ (row["active"] > 0 => reading[c]["active"] > 0)
    <3>1. reading[c][r] - 1 \in Nat BY <1>1, <2>1
    <3> QED BY <1>1, <2>1, <3>1 DEF Status
  <2>3. reading' = [reading EXCEPT ![c] = row] BY <1>1
  <2> HIDE DEF row
  <2> QED BY <2>1, <2>2, <2>3
<1>8. ReadInv' BY <1>1, <1>2, <1>7 DEF ReadInv, Current, past
<1>9. asked' \in [Certs -> Nat] /\ task' \in 0..NumCerts BY <1>1, <1>2 DEF Typed
<1>10. wire' = Append(wire, m) BY <1>1
<1>11. m.what \notin {"issued", "kill", "bye"} BY <1>4, <1>5 DEF Status
<1> HIDE DEF m
<1> QED BY <1>1, <1>3, <1>5, <1>6, <1>7, <1>8, <1>9, <1>10, <1>11, SendKeeps

LEMMA RedeliverKeeps ==
  ASSUME RuntimeInv, RedeliverSend
  PROVE  RuntimeInv'
<1>1. /\ task # 0 /\ task' = 0 /\ wire' = Append(wire, About("issued", task))
      /\ UNCHANGED <<ledger, armed, gone, barred, asked, reading, owes, link, held, saved, past,
                     window, job, seen, resumes>>
  BY DEF RedeliverSend, server, belief, asking
<1>2. Typed /\ DeskInv /\ ReadInv BY DEF RuntimeInv
<1>3. PICK c \in Certs: c = task BY <1>1, <1>2 DEF Typed, Certs
<1>4. Serves /\ Current(c, 0) BY <1>1, <1>2, <1>3 DEF DeskInv, AtDesk, ReadInv
<1>5. /\ About("issued", c) \in Message /\ About("issued", c).what = "issued"
      /\ About("issued", c).cert = c
  BY OldType, ActorRuntimeAssumption DEF About, Message, Certs
<1>6. ReadInv' BY <1>1, <1>2, NothingLeft DEF ReadInv, Current, past
<1>7. /\ asked' \in [Certs -> Nat] /\ reading' \in [Certs -> [Status -> Nat]]
      /\ task' \in 0..NumCerts
  BY <1>1, <1>2, NothingLeft DEF Typed
<1> QED BY <1>1, <1>3, <1>4, <1>5, <1>6, <1>7, SendKeeps

-----------------------------------------------------------------------------
(* Time.                                                                   *)

\* What was checked, what is gone, what travels and what a request waits for age together.
LEMMA TickKeeps ==
  ASSUME RuntimeInv, Tick, Settled
  PROVE  RuntimeInv'
<1>1. /\ Typed /\ JobInv /\ DeskInv /\ LinkInv /\ StandingInv /\ WireInv /\ AgeInv /\ SeenInv
      /\ CutInv
  BY DEF RuntimeInv
<1>2. /\ reading = NobodyReads /\ task = 0 /\ resumes = <<>> /\ job["check"] # Deciding
      /\ \A i \in DOMAIN wire: wire[i].age < Latency
      /\ gone' = [c \in Certs |-> IF ledger[c] = "active" THEN 0 ELSE Older(gone[c], Old)]
      /\ barred' = IF armed THEN Older(barred, Old) ELSE 0
      /\ wire' = [i \in DOMAIN wire |-> [wire[i] EXCEPT !.age = @ + 1]]
      /\ held' = [c \in Certs |-> [held[c] EXCEPT !.age = Older(@, Stale)]]
      /\ saved' = [c \in Certs |-> [saved[c] EXCEPT !.age = Older(@, Stale)]]
      /\ job' = [p \in Jobs |->
                    IF job[p].at \in Certs THEN [job[p] EXCEPT !.age = @ + 1] ELSE job[p]]
      /\ \A p \in Jobs: job[p].at \in Certs => job[p].age < Timeout
      /\ UNCHANGED <<ledger, armed, asked, reading, task, owes, link, past, window, seen, resumes>>
  BY DEF Tick, Settled, desk
<1>3. \A c \in Certs: /\ held[c] \in Belief /\ gone[c] \in 0..Old
                      /\ held[c].age \in 0..Stale /\ held[c].st \in Status
  BY <1>1 DEF Typed, Belief
<1>4. Old \in Nat /\ Stale \in Nat /\ Latency \in Nat BY OldType
<1>5. /\ saved' = held' /\ held' \in [Certs -> Belief]
      /\ \A c \in Certs: held'[c].st = held[c].st /\ held'[c].age = Older(held[c].age, Stale)
  <2>1. saved' = held' BY <1>1, <1>2 DEF Typed
  <2>2. ASSUME NEW c \in Certs
        PROVE  /\ held'[c] \in Belief
               /\ held'[c].st = held[c].st /\ held'[c].age = Older(held[c].age, Stale)
    <3>1. Older(held[c].age, Stale) \in 0..Stale BY <1>3, <1>4, OlderType
    <3>2. held'[c] = [held[c] EXCEPT !.age = Older(held[c].age, Stale)] BY <1>2
    <3> QED BY <1>3, <3>1, <3>2 DEF Belief
  <2> QED BY <1>2, <2>1, <2>2
<1>6. /\ gone' \in [Certs -> 0..Old] /\ barred' \in 0..Old
      /\ \A c \in Certs: gone'[c] <= gone[c] + 1
      /\ barred' <= barred + 1
  <2>1. \A c \in Certs: Older(gone[c], Old) \in 0..Old /\ Older(gone[c], Old) <= gone[c] + 1
    BY <1>3, <1>4, OlderType
  <2>2. barred \in 0..Old BY <1>1 DEF Typed
  <2>3. Older(barred, Old) \in 0..Old /\ Older(barred, Old) <= barred + 1
    BY <1>4, <2>2, OlderType
  <2>4. 0 \in 0..Old BY <1>4
  <2> QED BY <1>2, <1>3, <2>1, <2>2, <2>3, <2>4
\* What was current for one age is current for the next.
<1>7. ASSUME NEW c \in Certs, NEW n \in Nat, Current(c, n) PROVE Current(c, n + 1)'
  <2>1. gone[c] \in Nat /\ gone'[c] \in Nat /\ barred \in Nat /\ barred' \in Nat
    BY <1>1, <1>4, <1>6 DEF Typed
  <2>2. gone'[c] <= n + 1 BY <1>6, <1>7, <2>1 DEF Current
  <2>3. c \in excused' \/ barred' <= n + 1 BY <1>2, <1>6, <1>7, <2>1 DEF Current, past
  <2> QED BY <2>2, <2>3 DEF Current
<1>8. /\ wire' \in Seq(Message) /\ DOMAIN wire' = DOMAIN wire /\ Len(wire') = Len(wire)
      /\ \A i \in DOMAIN wire: /\ wire'[i].what = wire[i].what /\ wire'[i].cert = wire[i].cert
                               /\ wire'[i].age = wire[i].age + 1
  <2>1. wire \in Seq(Message) /\ DOMAIN wire = 1..Len(wire) /\ Len(wire) \in Nat
    BY <1>1 DEF Typed
  <2>2. ASSUME NEW i \in DOMAIN wire
        PROVE  /\ wire'[i] \in Message
               /\ wire'[i].what = wire[i].what /\ wire'[i].cert = wire[i].cert
               /\ wire'[i].age = wire[i].age + 1
    <3>1. wire[i] \in Message BY <2>1
    <3>2. wire'[i] = [wire[i] EXCEPT !.age = wire[i].age + 1] BY <1>2
    <3>3. wire[i].age + 1 \in 0..Latency BY <1>2, <1>4, <3>1 DEF Message
    <3> QED BY <3>1, <3>2, <3>3 DEF Message
  <2>3. wire' = [i \in 1..Len(wire) |-> wire'[i]] BY <1>2, <2>1
  <2>4. wire' \in Seq(Message) /\ Len(wire') = Len(wire) BY <2>1, <2>2, <2>3
  <2> QED BY <1>2, <2>2, <2>4
<1>9. WireInv'
  <2>1. ASSUME NEW i \in DOMAIN wire' PROVE True(wire[i])'
    <3>1. i \in DOMAIN wire /\ True(wire[i]) /\ wire[i].age \in Nat
      <4>1. wire \in Seq(Message) /\ i \in DOMAIN wire BY <1>1, <1>8, <2>1 DEF Typed
      <4>2. wire[i] \in Message BY <4>1
      <4> QED BY <1>1, <1>4, <4>1, <4>2 DEF WireInv, Message
    <3>2. wire[i].what \in {"active", "revoked", "issued"} => wire[i].cert \in Certs
      BY <3>1 DEF True
    <3>3. ASSUME wire[i].what \in {"active", "issued"} PROVE Current(wire[i].cert, wire[i].age)'
      <4>1. PICK d \in Certs, n \in Nat: d = wire[i].cert /\ n = wire[i].age /\ Current(d, n)
        BY <3>1, <3>3 DEF True
      <4>2. Current(d, n + 1)' BY <1>7, <4>1
      <4>3. wire'[i].cert = d /\ wire'[i].age = n + 1 BY <1>8, <3>1, <4>1
      <4> QED BY <4>2, <4>3 DEF Current
    <3> QED BY <1>8, <3>1, <3>2, <3>3 DEF True
  <2> QED BY <2>1 DEF WireInv
<1>10. LinkInv'
  <2>1. link' = "down" => wire' = <<>>
    <3>1. wire = <<>> => Len(wire') = 0 BY <1>8
    <3> QED BY <1>1, <1>2, <1>8, <3>1 DEF LinkInv
  <2>2. \A i \in DOMAIN wire': wire'[i].what \in {"kill", "bye"} => i = Len(wire')
    BY <1>1, <1>8 DEF LinkInv
  <2> QED BY <2>1, <2>2 DEF LinkInv
<1>11. DeskInv' BY <1>1, <1>2, <1>8 DEF DeskInv, AtDesk, Serves
<1>12. job' \in [Jobs -> JobRow] /\ \A p \in Jobs: job'[p].at = job[p].at
  <2>1. ASSUME NEW p \in Jobs PROVE job'[p] \in JobRow /\ job'[p].at = job[p].at
    <3>1. job[p] \in JobRow BY <1>1 DEF Typed
    <3>2. CASE job[p].at \in Certs
      <4>1. job[p].age \in 0..Timeout /\ job[p].age < Timeout BY <1>2, <3>1, <3>2 DEF JobRow
      <4>2. job[p].age + 1 \in 0..Timeout BY <4>1, ActorRuntimeAssumption
      <4>3. job'[p] = [job[p] EXCEPT !.age = job[p].age + 1] BY <1>2, <3>2
      <4> QED BY <3>1, <4>2, <4>3 DEF JobRow
    <3>3. CASE job[p].at \notin Certs BY <1>2, <3>1, <3>3
    <3> QED BY <3>2, <3>3
  <2> QED BY <1>2, <2>1
<1>13. JobInv'
  <2>1. ASSUME NEW p \in Jobs PROVE job'[p] \in {Idle, Deciding} \/ job'[p].at \in Certs
    <3>1. CASE job[p].at \in Certs BY <1>12, <3>1
    <3>2. CASE job[p].at \notin Certs BY <1>1, <1>2, <3>2 DEF JobInv
    <3> QED BY <3>1, <3>2
  <2> QED BY <2>1 DEF JobInv
<1>14. Typed' BY <1>1, <1>2, <1>5, <1>6, <1>8, <1>12 DEF Typed
<1>15. StandingInv' BY <1>2 DEF StandingInv
<1>16. ReadInv' BY <1>2, NothingLeft DEF ReadInv
<1>17. HandInv' BY <1>2 DEF HandInv
<1>18. AgeInv'
  <2>1. ASSUME NEW c \in Certs, held'[c].st = "active", held'[c].age < Stale
        PROVE  Current(c, held[c].age + Latency)'
    <3>1. held'[c].age = Older(held[c].age, Stale) /\ held[c].st = "active" BY <1>5, <2>1
    <3>2. held'[c].age = held[c].age + 1 /\ held[c].age < Stale
      BY <1>3, <1>4, <2>1, <3>1 DEF Older
    <3>3. Current(c, held[c].age + Latency) BY <1>1, <3>1, <3>2 DEF AgeInv
    <3>4. PICK n \in Nat: n = held[c].age + Latency BY <1>3, <1>4
    <3>5. Current(c, n + 1)' BY <1>7, <3>3, <3>4
    <3>6. held'[c].age + Latency = n + 1 BY <1>3, <1>4, <3>2, <3>4
    <3> QED BY <3>5, <3>6 DEF Current
  <2> QED BY <2>1 DEF AgeInv
<1>19. SeenInv'
  <2>1. ASSUME NEW c \in seen'
        PROVE  /\ job'["check"] # Idle
               /\ held'[c].st = "active" => Current(c, Spent + Latency)'
    <3>1. c \in Certs /\ c \in seen /\ job["check"] # Idle
      BY <1>1, <1>2, <2>1 DEF Typed, SeenInv
    <3>2. job["check"] \in JobRow /\ job["check"].at \in Certs /\ job["check"].age \in Nat
      BY <1>1, <1>2, <3>1 DEF JobInv, Typed, JobRow, Jobs
    <3>3. job'["check"] = [job["check"] EXCEPT !.age = job["check"].age + 1]
      BY <1>2, <3>2 DEF Jobs
    <3>4. job'["check"] # Idle
      <4>1. job'["check"].at # 0 BY <1>12, <3>2 DEF Jobs, Certs
      <4> QED BY <4>1 DEF Idle
    <3>5. Spent \in Nat BY <1>1, <3>1, SpentType
    <3>6. Spent' = Spent + 1
      <4>1. job["check"].at - 1 \in Nat BY <3>2 DEF Certs
      <4>2. PICK k \in Nat: k = (job["check"].at - 1) * Timeout
        BY <4>1, ActorRuntimeAssumption, Product
      <4>3. Spent = k + job["check"].age BY <4>2 DEF Spent
      <4>4. job'["check"].at = job["check"].at /\ job'["check"].age = job["check"].age + 1
        BY <3>2, <3>3 DEF JobRow
      <4>5. Spent' = k + (job["check"].age + 1) BY <4>2, <4>4 DEF Spent
      <4> QED BY <3>2, <4>2, <4>3, <4>5
    <3>7. ASSUME held'[c].st = "active" PROVE Current(c, Spent + Latency)'
      <4>1. Current(c, Spent + Latency) BY <1>1, <1>5, <3>1, <3>7 DEF SeenInv
      <4>2. PICK s \in Nat: s = Spent BY <3>5
      <4>3. PICK n \in Nat: n = s + Latency BY <1>4, <4>2
      <4>4. Current(c, n + 1)' BY <1>7, <3>1, <4>1, <4>2, <4>3
      <4>5. Spent' + Latency = n + 1
        <5>1. Spent' = s + 1 BY <3>6, <4>2
        <5>2. (s + 1) + Latency = n + 1 BY <1>4, <4>3
        <5> QED BY <5>1, <5>2
      <4> QED BY <4>4, <4>5 DEF Current
    <3> QED BY <3>4, <3>7
  <2> QED BY <2>1 DEF SeenInv
<1>20. CutInv'
  <2>1. ASSUME Arrives({"bye"}) PROVE Arrives({"bye"})'
    <3>1. wire # <<>> /\ 1 \in DOMAIN wire /\ Head(wire) = wire[1]
      BY <1>1, <2>1, TailFacts DEF Arrives, Typed
    <3>2. wire' # <<>> /\ Head(wire') = wire'[1] /\ wire'[1].what = wire[1].what
      BY <1>8, <3>1, TailFacts
    <3> QED BY <2>1, <3>1, <3>2 DEF Arrives
  <2> QED BY <1>1, <1>2, <1>5, <2>1 DEF CutInv, past
<1> QED BY <1>9, <1>10, <1>11, <1>13, <1>14, <1>15, <1>16, <1>17, <1>18, <1>19, <1>20
  DEF RuntimeInv

-----------------------------------------------------------------------------
(* The requests in flight.                                                 *)

\* A refresh that asked is answered or waits, once, and only while it is about a certificate.
Busy == {p \in Jobs: job[p].at \in Certs}
By == [i \in DOMAIN resumes |-> resumes[i].by]
WaitInv ==
  /\ waiters \in Seq(Jobs) /\ due \in Nat
  /\ IsInjective(By \o waiters) /\ Range(By \o waiters) = Busy

LEMMA AppendOne ==
  ASSUME NEW S, NEW q \in Seq(S), IsInjective(q), NEW x \in S, x \notin Range(q)
  PROVE  /\ Append(q, x) \in Seq(S) /\ IsInjective(Append(q, x))
         /\ Range(Append(q, x)) = Range(q) \union {x}
<1> DEFINE r == Append(q, x)
<1>1. /\ r \in Seq(S) /\ Len(q) \in Nat /\ DOMAIN q = 1..Len(q) /\ DOMAIN r = 1..(Len(q) + 1)
      /\ r[Len(q) + 1] = x /\ \A i \in 1..Len(q): r[i] = q[i]
  OBVIOUS
<1> HIDE DEF r
<1>2. \A i \in 1..(Len(q) + 1): i \in 1..Len(q) \/ i = Len(q) + 1 BY <1>1
<1>3. \A i \in 1..Len(q): q[i] # x BY <1>1 DEF Range
<1>4. IsInjective(r) BY <1>1, <1>2, <1>3 DEF IsInjective
<1>5. Range(r) \subseteq Range(q) \union {x} BY <1>1, <1>2 DEF Range
<1>6. Range(q) \union {x} \subseteq Range(r)
  <2>1. 1..Len(q) \subseteq DOMAIN r /\ Len(q) + 1 \in DOMAIN r BY <1>1
  <2>2. x \in Range(r) BY <1>1, <2>1 DEF Range
  <2>3. ASSUME NEW i \in 1..Len(q) PROVE q[i] \in Range(r) BY <1>1, <2>1 DEF Range
  <2> QED BY <1>1, <2>2, <2>3 DEF Range
<1> QED BY <1>1, <1>4, <1>5, <1>6 DEF r

\* Leaving one out moves those behind it up; taking the head is leaving out the first.
Skip(i, k) == IF k < i THEN k ELSE k + 1
LeavesOut(r, q, i) ==
  Len(r) = Len(q) - 1 /\ \A k \in 1..(Len(q) - 1): r[k] = q[Skip(i, k)]

LEMMA Without ==
  ASSUME NEW S, NEW q \in Seq(S), IsInjective(q), NEW i \in 1..Len(q), NEW r \in Seq(S),
         LeavesOut(r, q, i)
  PROVE  IsInjective(r) /\ Range(r) = Range(q) \ {q[i]}
<1> DEFINE n == Len(q)
<1>1. n \in Nat \ {0} /\ DOMAIN q = 1..n /\ DOMAIN r = 1..(n - 1) BY DEF LeavesOut
<1> HIDE DEF n
<1>2. /\ \A k \in 1..(n - 1): Skip(i, k) \in 1..n /\ Skip(i, k) # i
      /\ \A j, k \in 1..(n - 1): Skip(i, j) = Skip(i, k) => j = k
  BY <1>1 DEF Skip
<1>3. \A k \in 1..(n - 1): r[k] = q[Skip(i, k)] BY DEF n, LeavesOut
<1>4. i \in 1..n BY DEF n
<1>5. ASSUME NEW j \in 1..(n - 1), NEW k \in 1..(n - 1), r[j] = r[k] PROVE j = k
  <2>1. q[Skip(i, j)] = q[Skip(i, k)] BY <1>3, <1>5
  <2>2. Skip(i, j) = Skip(i, k) BY <1>1, <1>2, <2>1 DEF IsInjective
  <2> QED BY <1>2, <2>2
<1>6. IsInjective(r) BY <1>1, <1>5 DEF IsInjective
<1>7. ASSUME NEW k \in 1..(n - 1) PROVE r[k] \in Range(q) \ {q[i]}
  <2>1. Skip(i, k) \in DOMAIN q /\ i \in DOMAIN q /\ Skip(i, k) # i BY <1>1, <1>2, <1>4
  <2>2. q[Skip(i, k)] # q[i] BY <2>1 DEF IsInjective
  <2> QED BY <1>3, <2>1, <2>2 DEF Range
<1>8. ASSUME NEW j \in 1..n, q[j] # q[i] PROVE q[j] \in Range(r)
  <2>1. j # i BY <1>8
  <2>2. PICK k \in 1..(n - 1): Skip(i, k) = j
    <3>1. CASE j < i
      <4>1. j \in 1..(n - 1) /\ Skip(i, j) = j BY <1>1, <1>4, <3>1 DEF Skip
      <4> QED BY <4>1
    <3>2. CASE j > i
      <4>1. j - 1 \in 1..(n - 1) /\ Skip(i, j - 1) = j BY <1>1, <1>4, <3>2 DEF Skip
      <4> QED BY <4>1
    <3> QED BY <1>1, <1>4, <2>1, <3>1, <3>2
  <2>3. r[k] = q[j] /\ k \in DOMAIN r BY <1>1, <1>3, <2>2
  <2> QED BY <2>3 DEF Range
<1>9. Range(r) \subseteq Range(q) \ {q[i]} BY <1>1, <1>7 DEF Range
<1>10. Range(q) \ {q[i]} \subseteq Range(r)
  <2>1. ASSUME NEW x \in Range(q), x # q[i] PROVE x \in Range(r)
    <3>1. PICK j \in 1..n: q[j] = x BY <1>1 DEF Range
    <3> QED BY <1>8, <2>1, <3>1
  <2> QED BY <2>1
<1> QED BY <1>6, <1>9, <1>10

LEMMA RemoveOne ==
  ASSUME NEW S, NEW q \in Seq(S), IsInjective(q), NEW i \in DOMAIN q
  PROVE  /\ RemoveAt(q, i) \in Seq(S) /\ IsInjective(RemoveAt(q, i))
         /\ Range(RemoveAt(q, i)) = Range(q) \ {q[i]}
<1> DEFINE a == SubSeq(q, 1, i - 1)
           b == SubSeq(q, i + 1, Len(q))
           r == RemoveAt(q, i)
<1>1. i \in 1..Len(q) /\ Len(q) \in Nat OBVIOUS
<1>2. a \in Seq(S) /\ Len(a) = i - 1 /\ \A k \in 1..(i - 1): a[k] = q[k] BY <1>1
<1>3. b \in Seq(S) /\ Len(b) = Len(q) - i /\ \A k \in 1..(Len(q) - i): b[k] = q[i + k] BY <1>1
<1>4. r = a \o b BY DEF RemoveAt
<1> HIDE DEF a, b, r
<1>5. /\ r \in Seq(S) /\ Len(r) = Len(a) + Len(b)
      /\ \A k \in 1..(Len(a) + Len(b)): r[k] = IF k <= Len(a) THEN a[k] ELSE b[k - Len(a)]
  BY <1>2, <1>3, <1>4, ConcatProperties
<1>6. Len(r) = Len(q) - 1 BY <1>1, <1>2, <1>3, <1>5
<1>7. ASSUME NEW k \in 1..(Len(q) - 1) PROVE r[k] = q[Skip(i, k)]
  <2>0. k \in 1..(Len(a) + Len(b)) /\ Len(a) = i - 1 BY <1>1, <1>2, <1>3
  <2>1. CASE k < i
    <3>1. k <= Len(a) /\ k \in 1..(i - 1) BY <1>1, <2>0, <2>1
    <3>2. r[k] = a[k] BY <1>5, <2>0, <3>1
    <3> QED BY <1>2, <2>1, <3>1, <3>2 DEF Skip
  <2>2. CASE k >= i
    <3>1. k - (i - 1) \in 1..(Len(q) - i) /\ ~(k <= Len(a)) BY <1>1, <2>0, <2>2
    <3>2. r[k] = b[k - (i - 1)] BY <1>5, <2>0, <3>1
    <3>3. b[k - (i - 1)] = q[i + (k - (i - 1))] BY <1>3, <3>1
    <3> QED BY <1>1, <2>2, <3>2, <3>3 DEF Skip
  <2> QED BY <1>1, <2>1, <2>2
<1>8. IsInjective(r) /\ Range(r) = Range(q) \ {q[i]}
  <2>1. LeavesOut(r, q, i) BY <1>6, <1>7 DEF LeavesOut
  <2> QED BY <1>1, <1>5, <2>1, Without
<1> QED BY <1>5, <1>8 DEF r

LEMMA TailOne ==
  ASSUME NEW S, NEW q \in Seq(S), IsInjective(q), q # <<>>
  PROVE  /\ Head(q) \in Range(q) /\ Tail(q) \in Seq(S) /\ IsInjective(Tail(q))
         /\ Range(Tail(q)) = Range(q) \ {Head(q)}
<1> DEFINE t == Tail(q)
           h == Head(q)
<1>1. /\ Len(q) \in Nat \ {0} /\ DOMAIN q = 1..Len(q) /\ h = q[1]
      /\ t \in Seq(S) /\ Len(t) = Len(q) - 1
      /\ \A k \in 1..(Len(q) - 1): t[k] = q[k + 1]
  OBVIOUS
<1> HIDE DEF t, h
<1>2. 1 \in 1..Len(q) /\ \A k \in 1..(Len(q) - 1): Skip(1, k) = k + 1 BY <1>1 DEF Skip
<1>3. LeavesOut(t, q, 1) BY <1>1, <1>2 DEF LeavesOut
<1>4. IsInjective(t) /\ Range(t) = Range(q) \ {q[1]} BY <1>1, <1>2, <1>3, Without
<1>5. h \in Range(q) BY <1>1, <1>2 DEF Range
<1> QED BY <1>1, <1>4, <1>5 DEF t, h

LEMMA HeadTailWhole ==
  ASSUME NEW S, NEW q \in Seq(S), q # <<>>
  PROVE  q = <<Head(q)>> \o Tail(q) /\ Head(q) \in S /\ Tail(q) \in Seq(S)
<1> DEFINE h == Head(q)
           t == Tail(q)
           r == <<h>> \o t
<1>1. /\ h \in S /\ t \in Seq(S) /\ Len(t) = Len(q) - 1 /\ Len(q) \in Nat \ {0} /\ h = q[1]
      /\ \A i \in 1..(Len(q) - 1): t[i] = q[i + 1]
  OBVIOUS
<1> HIDE DEF h, t
<1>2. <<h>> \in Seq(S) /\ Len(<<h>>) = 1 /\ <<h>>[1] = h BY <1>1
<1>3. /\ r \in Seq(S) /\ Len(r) = 1 + Len(t)
      /\ \A i \in 1..(1 + Len(t)): r[i] = IF i <= 1 THEN <<h>>[i] ELSE t[i - 1]
  BY <1>1, <1>2, ConcatProperties
<1> HIDE DEF r
<1>4. ASSUME NEW i \in 1..Len(q) PROVE q[i] = r[i]
  <2>1. CASE i = 1 BY <1>1, <1>2, <1>3, <2>1
  <2>2. CASE i > 1
    <3>1. i - 1 \in 1..(Len(q) - 1) /\ (i - 1) + 1 = i BY <1>1, <1>4, <2>2
    <3> QED BY <1>1, <1>3, <1>4, <2>2, <3>1
  <2> QED BY <1>4, <2>1, <2>2
<1>5. q = r BY <1>1, <1>3, <1>4, SeqEqual
<1> QED BY <1>1, <1>5 DEF h, t, r

LEMMA HeadTailJoined ==
  ASSUME NEW S, NEW h \in S, NEW s \in Seq(S)
  PROVE  <<h>> \o s # <<>> /\ Head(<<h>> \o s) = h /\ Tail(<<h>> \o s) = s
<1> DEFINE r == <<h>> \o s
<1>1. <<h>> \in Seq(S) /\ Len(<<h>>) = 1 /\ <<h>>[1] = h /\ Len(s) \in Nat OBVIOUS
<1>2. /\ r \in Seq(S) /\ Len(r) = 1 + Len(s)
      /\ \A i \in 1..(1 + Len(s)): r[i] = IF i <= 1 THEN <<h>>[i] ELSE s[i - 1]
  BY <1>1, ConcatProperties
<1> HIDE DEF r
<1>3. r # <<>> /\ r[1] = h BY <1>1, <1>2
<1>4. /\ Head(r) = r[1] /\ Tail(r) \in Seq(S) /\ Len(Tail(r)) = Len(r) - 1
      /\ \A i \in 1..(Len(r) - 1): Tail(r)[i] = r[i + 1]
  BY <1>2, <1>3
<1>5. ASSUME NEW i \in 1..Len(s) PROVE Tail(r)[i] = s[i]
  <2>1. i + 1 \in 1..(1 + Len(s)) /\ ~(i + 1 <= 1) /\ (i + 1) - 1 = i BY <1>1, <1>5
  <2> QED BY <1>1, <1>2, <1>4, <1>5, <2>1
<1>6. Tail(r) = s BY <1>1, <1>2, <1>4, <1>5, SeqEqual
<1> QED BY <1>3, <1>4, <1>6 DEF r

\* The queue in two parts: those answered, and those that wait.
LEMMA PartsJoin ==
  ASSUME NEW S, NEW a \in Seq(S), NEW q \in Seq(S)
  PROVE  /\ a \o q \in Seq(S)
         /\ \A x \in S: a \o Append(q, x) = Append(a \o q, x)
         /\ q # <<>> => Append(a, Head(q)) \o Tail(q) = a \o q
         /\ a # <<>> => a \o q # <<>> /\ Head(a \o q) = Head(a) /\ Tail(a) \o q = Tail(a \o q)
<1>1. a \o q \in Seq(S) BY ConcatProperties
<1>2. ASSUME NEW x \in S PROVE a \o Append(q, x) = Append(a \o q, x)
  <2>1. Append(q, x) = q \o <<x>> /\ <<x>> \in Seq(S) OBVIOUS
  <2>2. Append(a \o q, x) = (a \o q) \o <<x>> BY <1>1
  <2>3. (a \o q) \o <<x>> = a \o (q \o <<x>>) BY <2>1, ConcatAssociative
  <2> QED BY <2>1, <2>2, <2>3
<1>3. ASSUME q # <<>> PROVE Append(a, Head(q)) \o Tail(q) = a \o q
  <2>1. q = <<Head(q)>> \o Tail(q) /\ Head(q) \in S /\ Tail(q) \in Seq(S)
    BY <1>3, HeadTailWhole
  <2> DEFINE h == Head(q)
             t == Tail(q)
  <2> HIDE DEF h, t
  <2>2. Append(a, h) = a \o <<h>> /\ <<h>> \in Seq(S) BY <2>1 DEF h
  <2>3. (a \o <<h>>) \o t = a \o (<<h>> \o t) BY <2>1, <2>2, ConcatAssociative DEF t
  <2> QED BY <2>1, <2>2, <2>3 DEF h, t
<1>4. ASSUME a # <<>>
      PROVE  a \o q # <<>> /\ Head(a \o q) = Head(a) /\ Tail(a) \o q = Tail(a \o q)
  <2>1. a = <<Head(a)>> \o Tail(a) /\ Head(a) \in S /\ Tail(a) \in Seq(S)
    BY <1>4, HeadTailWhole
  <2> DEFINE h == Head(a)
             t == Tail(a)
  <2> HIDE DEF h, t
  <2>2. (<<h>> \o t) \o q = <<h>> \o (t \o q) /\ t \o q \in Seq(S)
    BY <2>1, ConcatAssociative, ConcatProperties DEF h, t
  <2>3. \A s \in Seq(S): /\ <<h>> \o s # <<>> /\ Head(<<h>> \o s) = h
                        /\ Tail(<<h>> \o s) = s
    BY <2>1, HeadTailJoined DEF h
  <2> QED BY <2>1, <2>2, <2>3 DEF h, t
<1> QED BY <1>1, <1>2, <1>3, <1>4

\* Append and Tail, as functions.
LEMMA AppendIs ==
  ASSUME NEW S, NEW q \in Seq(S), NEW x \in S
  PROVE  Append(q, x) = [i \in 1..(Len(q) + 1) |-> IF i = Len(q) + 1 THEN x ELSE q[i]]
<1> DEFINE s == [i \in 1..(Len(q) + 1) |-> IF i = Len(q) + 1 THEN x ELSE q[i]]
           r == Append(q, x)
<1>1. /\ r \in Seq(S) /\ Len(r) = Len(q) + 1 /\ Len(q) \in Nat /\ r[Len(q) + 1] = x
      /\ \A i \in 1..Len(q): r[i] = q[i]
  OBVIOUS
<1>2. \A i \in 1..(Len(q) + 1): i = Len(q) + 1 \/ i \in 1..Len(q) BY <1>1
<1>3. \A i \in 1..(Len(q) + 1): s[i] \in S BY <1>1, <1>2
<1>4. s \in Seq(S) /\ Len(s) = Len(q) + 1 BY <1>1, <1>3
<1>5. \A i \in 1..(Len(q) + 1): r[i] = s[i] BY <1>1, <1>2
<1> HIDE DEF r, s
<1>6. r = s BY <1>1, <1>4, <1>5, SeqEqual
<1> QED BY <1>6 DEF r, s

LEMMA TailIs ==
  ASSUME NEW S, NEW q \in Seq(S), q # <<>>
  PROVE  Tail(q) = [i \in 1..(Len(q) - 1) |-> q[i + 1]]
<1> DEFINE s == [i \in 1..(Len(q) - 1) |-> q[i + 1]]
           r == Tail(q)
<1>1. /\ r \in Seq(S) /\ Len(r) = Len(q) - 1 /\ Len(q) \in Nat \ {0}
      /\ \A i \in 1..(Len(q) - 1): r[i] = q[i + 1]
  OBVIOUS
<1>2. \A i \in 1..(Len(q) - 1): i + 1 \in 1..Len(q) BY <1>1
<1>3. s \in Seq(S) /\ Len(s) = Len(q) - 1 BY <1>1, <1>2
<1>4. \A i \in 1..(Len(q) - 1): r[i] = s[i] BY <1>1
<1> HIDE DEF r, s
<1>5. r = s BY <1>1, <1>3, <1>4, SeqEqual
<1> QED BY <1>5 DEF r, s

LEMMA ByType ==
  ASSUME Typed
  PROVE  /\ By \in Seq(Jobs) /\ Len(By) = Len(resumes)
         /\ (resumes = <<>> <=> By = <<>>)
<1>1. resumes \in Seq(Resumed) /\ Len(resumes) \in Nat /\ DOMAIN resumes = 1..Len(resumes)
  BY DEF Typed
<1>2. ASSUME NEW i \in 1..Len(resumes) PROVE resumes[i].by \in Jobs
  <2>1. resumes[i] \in Resumed BY <1>1, <1>2
  <2> QED BY <2>1 DEF Resumed
<1>3. By = [i \in 1..Len(resumes) |-> resumes[i].by] BY <1>1 DEF By
<1>4. By \in Seq(Jobs) /\ Len(By) = Len(resumes) BY <1>1, <1>2, <1>3
<1> QED BY <1>1, <1>4, EmptySeq

\* Whoever is neither answered nor waiting goes on, and waits if it asked.
LEMMA ProceedWaits ==
  ASSUME Typed, due \in Nat, NEW p \in Jobs, NEW i \in Nat \ {0}, NEW q \in Seq(Jobs),
         NEW a \in Seq(Jobs), IsInjective(a \o q), Range(a \o q) = Busy \ {p},
         Proceed(p, i, q), By' = a
  PROVE  WaitInv'
<1> DEFINE again == p = "loop" /\ i > NumCerts /\ due > 0
           at == IF again THEN 1 ELSE i
           asks == Identified /\ at <= NumCerts
           row == IF asks THEN [at |-> at, age |-> 0] ELSE IF p = "check" THEN Deciding ELSE Idle
<1>1. /\ job' = [job EXCEPT ![p] = row]
      /\ waiters' = IF asks THEN Append(q, p) ELSE q
      /\ due' = IF p = "check" THEN due
                ELSE IF again /\ asks THEN due - 1 ELSE IF asks THEN due ELSE 0
  BY DEF Proceed
<1>2. due' \in Nat
  <2>1. again => due - 1 \in Nat OBVIOUS
  <2> HIDE DEF again, asks
  <2> QED BY <1>1, <2>1
<1>3. NumCerts \in Nat \ {0} BY ActorRuntimeAssumption
<1>4. asks => at \in Certs BY <1>3 DEF Certs
<1> HIDE DEF asks, at, again
<1>5. row.at \in Certs <=> asks
  <2>1. 0 \notin Certs /\ NumCerts + 1 \notin Certs BY <1>3 DEF Certs
  <2> QED BY <1>4, <2>1 DEF Idle, Deciding
<1> HIDE DEF row
<1>6. job \in [Jobs -> JobRow] BY DEF Typed
<1>7. Busy' = IF asks THEN (Busy \ {p}) \union {p} ELSE Busy \ {p}
  <2>1. \A r \in Jobs: job'[r] = IF r = p THEN row ELSE job[r] BY <1>1, <1>6
  <2> QED BY <1>5, <2>1 DEF Busy
<1>8. CASE asks
  <2>1. p \notin Range(a \o q) /\ a \o q \in Seq(Jobs) /\ Append(q, p) \in Seq(Jobs)
    BY PartsJoin
  <2>2. /\ IsInjective(Append(a \o q, p))
        /\ Range(Append(a \o q, p)) = Range(a \o q) \union {p}
    BY <2>1, AppendOne
  <2>3. a \o Append(q, p) = Append(a \o q, p) BY PartsJoin
  <2> QED BY <1>1, <1>2, <1>7, <1>8, <2>1, <2>2, <2>3 DEF WaitInv
<1>9. CASE ~asks BY <1>1, <1>2, <1>7, <1>9 DEF WaitInv
<1> QED BY <1>8, <1>9

LEMMA AtRest == 0 \notin Certs /\ NumCerts + 1 \notin Certs
BY ActorRuntimeAssumption DEF Certs

LEMMA WaitKept ==
  ASSUME WaitInv, UNCHANGED <<job, waiters, resumes, due>>
  PROVE  WaitInv'
BY DEF WaitInv, Busy, By

\* One that is idle does not wait.
LEMMA BeginWaits ==
  ASSUME Typed, WaitInv, NEW p \in Jobs, job[p] = Idle, Proceed(p, 1, waiters),
         resumes' = resumes
  PROVE  WaitInv'
<1>1. p \notin Busy BY AtRest DEF Busy, Idle
<1>2. Range(By \o waiters) = Busy \ {p} BY <1>1 DEF WaitInv
<1>3. 1 \in Nat \ {0} OBVIOUS
<1>4. PICK a \in Seq(Jobs): a = By BY ByType
<1>5. By' = a BY <1>4 DEF By
<1> QED BY <1>2, <1>3, <1>4, <1>5, ProceedWaits DEF WaitInv

LEMMA RefreshWaits ==
  ASSUME Typed, WaitInv, Refresh, resumes' = resumes
  PROVE  WaitInv'
<1>1. CASE job["loop"] = Idle
  <2>1. "loop" \in Jobs BY DEF Jobs
  <2> QED BY <1>1, <2>1, BeginWaits DEF Refresh
<1>2. CASE job["loop"] # Idle
  <2>1. due' = due + 1 /\ UNCHANGED <<job, waiters>> BY <1>2 DEF Refresh
  <2> QED BY <2>1 DEF WaitInv, Busy, By
<1> QED BY <1>1, <1>2

LEMMA TimeOutWaits ==
  ASSUME Typed, WaitInv, Settled, NEW p \in Jobs, TimeOut(p)
  PROVE  WaitInv'
<1>1. PICK i \in DOMAIN waiters:
        waiters[i] = p /\ Proceed(p, job[p].at + 1, RemoveAt(waiters, i))
  BY DEF TimeOut
<1>2. By = <<>> /\ resumes' = resumes BY ByType DEF Settled, TimeOut
<1>3. By \o waiters = waiters BY <1>2, ConcatEmptySeq DEF WaitInv
<1> DEFINE q == RemoveAt(waiters, i)
<1>4. q \in Seq(Jobs) /\ IsInjective(q) /\ Range(q) = Busy \ {p}
  BY <1>1, <1>3, RemoveOne DEF WaitInv
<1> HIDE DEF q
<1>5. <<>> \o q = q /\ <<>> \in Seq(Jobs) BY <1>4, ConcatEmptySeq
<1>6. job[p].at + 1 \in Nat \ {0} BY ActorRuntimeAssumption DEF Typed, JobRow
<1>7. By' = <<>> BY <1>2 DEF By
<1>8. Proceed(p, job[p].at + 1, q) BY <1>1 DEF q
<1> QED BY <1>4, <1>5, <1>6, <1>7, <1>8, ProceedWaits DEF WaitInv

\* An answer moves the oldest request from those that wait to those answered.
LEMMA StatusWaits ==
  ASSUME Typed, WaitInv, OnStatus
  PROVE  WaitInv'
<1>1. UNCHANGED <<job, due>> BY DEF OnStatus
<1>2. CASE UNCHANGED <<waiters, resumes>> BY <1>1, <1>2, WaitKept
<1>3. CASE waiters # <<>>
  <2>1. PICK r: resumes' = Append(resumes, r) /\ r.by = Head(waiters)
    BY <1>3 DEF OnStatus
  <2>2. waiters' = Tail(waiters) BY <1>3 DEF OnStatus
  <2>3. resumes \in Seq(Resumed) /\ By \in Seq(Jobs) /\ waiters \in Seq(Jobs)
    BY ByType DEF Typed, WaitInv
  <2>4. By' = Append(By, Head(waiters))
    <3>1. /\ Len(resumes) \in Nat /\ DOMAIN resumes = 1..Len(resumes)
          /\ DOMAIN resumes' = 1..(Len(resumes) + 1) /\ resumes'[Len(resumes) + 1] = r
          /\ \A i \in 1..Len(resumes): resumes'[i] = resumes[i]
      BY <2>1, <2>3
    <3>2. By' = [i \in 1..(Len(resumes) + 1) |-> resumes'[i].by] BY <3>1 DEF By
    <3>3. Len(By) = Len(resumes) /\ \A i \in 1..Len(resumes): By[i] = resumes[i].by
      BY <3>1, ByType DEF By
    <3>4. Append(By, Head(waiters)) = [i \in 1..(Len(By) + 1) |->
                                         IF i = Len(By) + 1 THEN Head(waiters) ELSE By[i]]
      <4>1. Head(waiters) \in Jobs BY <1>3, <2>3, TailFacts
      <4> QED BY <2>3, <4>1, AppendIs
    <3> QED BY <2>1, <3>1, <3>2, <3>3, <3>4
  <2>5. By' \o waiters' = By \o waiters BY <1>3, <2>2, <2>3, <2>4, PartsJoin
  <2>6. waiters' \in Seq(Jobs) BY <1>3, <2>2, <2>3, TailFacts
  <2>7. Busy' = Busy BY <1>1 DEF Busy
  <2> QED BY <1>1, <2>5, <2>6, <2>7 DEF WaitInv
<1> QED BY <1>2, <1>3 DEF OnStatus

\* Whose await goes on is the oldest answered.
LEMMA ResumeWaits ==
  ASSUME Typed, WaitInv, Resume
  PROVE  WaitInv'
<1> DEFINE p == Head(resumes).by
<1>1. /\ resumes # <<>> /\ resumes' = Tail(resumes)
      /\ Proceed(p, job[p].at + 1, waiters)
  BY DEF Resume
<1>2. resumes \in Seq(Resumed) /\ By \in Seq(Jobs) /\ By # <<>> /\ waiters \in Seq(Jobs)
  BY <1>1, ByType DEF Typed, WaitInv
<1>3. /\ Len(resumes) \in Nat \ {0} /\ DOMAIN resumes = 1..Len(resumes)
      /\ Head(resumes) = resumes[1] /\ DOMAIN Tail(resumes) = 1..(Len(resumes) - 1)
      /\ \A i \in 1..(Len(resumes) - 1): Tail(resumes)[i] = resumes[i + 1]
  BY <1>1, <1>2
<1>4. Head(By) = p BY <1>2, <1>3 DEF By
<1>5. By' = Tail(By)
  <2>1. By' = [i \in 1..(Len(resumes) - 1) |-> resumes[i + 1].by] BY <1>1, <1>3 DEF By
  <2>2. Len(By) = Len(resumes) /\ \A i \in 1..(Len(resumes) - 1): By[i + 1] = resumes[i + 1].by
    BY <1>3, ByType DEF By
  <2>3. Tail(By) = [i \in 1..(Len(By) - 1) |-> By[i + 1]] BY <1>2, TailIs
  <2> QED BY <2>1, <2>2, <2>3
<1>6. PICK a \in Seq(Jobs): a = Tail(By) BY <1>2, TailFacts
<1>7. /\ By \o waiters \in Seq(Jobs) /\ By \o waiters # <<>> /\ Head(By \o waiters) = p
      /\ a \o waiters = Tail(By \o waiters)
  BY <1>2, <1>4, <1>6, PartsJoin
<1>8. /\ p \in Busy /\ IsInjective(a \o waiters) /\ Range(a \o waiters) = Busy \ {p}
  BY <1>7, TailOne DEF WaitInv
<1> HIDE DEF p
<1>9. p \in Jobs /\ job[p].at + 1 \in Nat \ {0}
  BY <1>8, ActorRuntimeAssumption DEF Busy, Typed, JobRow
<1>10. By' = a BY <1>5, <1>6
<1> QED BY <1>1, <1>2, <1>8, <1>9, <1>10, ProceedWaits DEF WaitInv

\* Time passes, a decision is made or the runtime restarts.
LEMMA RestWaits ==
  ASSUME Typed, WaitInv, Tick \/ Decide \/ (Settled /\ Restart)
  PROVE  WaitInv'
<1>1. job \in [Jobs -> JobRow] BY DEF Typed
<1>2. CASE Settled /\ Restart
  <2>1. job' = [p \in Jobs |-> Idle] /\ waiters' = <<>> /\ due' = 0 /\ resumes' = <<>>
    BY <1>2 DEF Restart, Settled
  <2>2. Busy' = {} BY <2>1, AtRest DEF Busy, Idle
  <2>3. <<>> \in Seq(Jobs) /\ DOMAIN <<>> = {} OBVIOUS
  <2>4. By' = <<>> BY <2>1 DEF By
  <2>5. By' \o waiters' = <<>> BY <2>1, <2>3, <2>4, ConcatEmptySeq
  <2>6. IsInjective(<<>>) /\ Range(<<>>) = {} BY <2>3 DEF IsInjective, Range
  <2> QED BY <2>1, <2>2, <2>3, <2>5, <2>6 DEF WaitInv
<1>3. CASE Tick \/ Decide
  <2>1. UNCHANGED <<waiters, resumes, due>> BY <1>3 DEF Tick, Decide
  <2>2. \A p \in Jobs: job'[p].at \in Certs <=> job[p].at \in Certs
    <3>1. CASE Tick
      <4>1. \A p \in Jobs: job'[p] = IF job[p].at \in Certs
                                       THEN [job[p] EXCEPT !.age = @ + 1] ELSE job[p]
        BY <3>1 DEF Tick
      <4>2. \A p \in Jobs: job[p] \in JobRow BY <1>1
      <4> QED BY <4>1, <4>2 DEF JobRow
    <3>2. CASE Decide
      <4>1. job["check"] = Deciding /\ job' = [job EXCEPT !["check"] = Idle]
        BY <3>2 DEF Decide
      <4> QED BY <1>1, <4>1, AtRest DEF Deciding, Idle
    <3> QED BY <1>3, <3>1, <3>2
  <2>3. Busy' = Busy BY <2>2 DEF Busy
  <2> QED BY <2>1, <2>3 DEF WaitInv, By
<1> QED BY <1>2, <1>3

LEMMA WaitStep ==
  ASSUME Typed, WaitInv, [Next]_vars
  PROVE  WaitInv'
<1>1. CASE Decide \/ Tick \/ (Settled /\ Restart) BY <1>1, RestWaits
<1>2. CASE Timer \/ Deferred \/ OnNotice
  BY <1>2, RefreshWaits DEF Timer, Deferred, OnNotice
<1>3. CASE Check
  <2>1. "check" \in Jobs BY DEF Jobs
  <2> QED BY <1>3, <2>1, BeginWaits DEF Check
<1>4. CASE Settled /\ \E p \in Jobs: TimeOut(p) BY <1>4, TimeOutWaits
<1>5. CASE OnStatus BY <1>5, StatusWaits
<1>6. CASE Resume BY <1>6, ResumeWaits
<1>7. CASE OnCertIssued \/ OnKillSwitch \/ OnClose \/ Complete
  BY <1>7, WaitKept DEF OnCertIssued, OnKillSwitch, OnClose, Complete, asking
<1>8. CASE Server
  BY <1>8, WaitKept
  DEF Server, RedeliverRead, RedeliverSend, Suspend, Notify, ReadRow, Sign, asking
<1>9. CASE \/ \E c \in Certs: Revoke(c) \/ NoAnswer(c)
           \/ Arm \/ Miss \/ Disarm \/ Drop
  BY <1>9, WaitKept DEF Revoke, NoAnswer, Arm, Miss, Disarm, Drop, asking
<1>10. CASE Ask \/ Connect BY <1>10, WaitKept DEF Ask, Connect, asking
<1>11. CASE UNCHANGED vars BY <1>11, WaitKept DEF vars, asking
<1> QED BY <1>1, <1>2, <1>3, <1>4, <1>5, <1>6, <1>7, <1>8, <1>9, <1>10, <1>11
  DEF Next, Prompt, Change, Receive

-----------------------------------------------------------------------------
(* The invariants.                                                         *)

LEMMA InitHolds == Init => RuntimeInv /\ WaitInv
<1> SUFFICES ASSUME Init PROVE RuntimeInv /\ WaitInv
  OBVIOUS
<1>1. Idle \in JobRow /\ 0 \in 0..Old /\ 0 \in 0..NumCerts /\ 0 \in 0..Stale
  BY ActorRuntimeAssumption, OldType DEF Idle, JobRow
<1>2. Typed
  <2>1. [st |-> "active", age |-> 0] \in Belief BY <1>1 DEF Belief, Status
  <2>2. wire \in Seq(Message) /\ resumes \in Seq(Resumed) BY DEF Init
  <2> QED BY <1>1, <2>1, <2>2, NothingLeft DEF Init, Typed, Status, Quiet
<1>3. JobInv /\ SeenInv BY DEF Init, JobInv, SeenInv
<1>4. DeskInv /\ LinkInv /\ CutInv BY DEF Init, DeskInv, AtDesk, LinkInv, CutInv
<1>5. StandingInv BY DEF Init, StandingInv, Quiet
<1>6. AgeInv
  <2>1. ASSUME NEW c \in Certs PROVE Current(c, held[c].age + Latency)
    BY OldType DEF Init, Quiet, Current
  <2> QED BY <2>1 DEF AgeInv
<1>7. ReadInv BY NothingLeft DEF Init, ReadInv
<1>8. WireInv /\ HandInv BY DEF Init, WireInv, HandInv
<1>9. WaitInv
  <2>1. job = [p \in Jobs |-> Idle] /\ waiters = <<>> /\ due = 0 /\ resumes = <<>> BY DEF Init
  <2>2. Busy = {} BY <2>1, AtRest DEF Busy, Idle
  <2>3. <<>> \in Seq(Jobs) /\ DOMAIN <<>> = {} OBVIOUS
  <2>4. By = <<>> BY <2>1 DEF By
  <2>5. By \o waiters = <<>> BY <2>1, <2>3, <2>4, ConcatEmptySeq
  <2>6. IsInjective(<<>>) /\ Range(<<>>) = {} BY <2>3 DEF IsInjective, Range
  <2> QED BY <2>1, <2>2, <2>3, <2>5, <2>6 DEF WaitInv
<1> QED BY <1>2, <1>3, <1>4, <1>5, <1>6, <1>7, <1>8, <1>9 DEF RuntimeInv

LEMMA RuntimeStep ==
  ASSUME RuntimeInv, WaitInv, [Next]_vars
  PROVE  RuntimeInv'
<1>1. CASE \/ Timer \/ Deferred \/ OnNotice \/ Check \/ Decide \/ Complete
           \/ \E p \in Jobs: TimeOut(p)
  BY <1>1, RefreshKeeps
<1>2. CASE OnStatus BY <1>2, StatusKeeps DEF WaitInv
<1>3. CASE Resume BY <1>3, ResumeKeeps
<1>4. CASE OnCertIssued BY <1>4, IssuedKeeps
<1>5. CASE OnKillSwitch BY <1>5, KillKeeps
<1>6. CASE OnClose BY <1>6, CloseKeeps
<1>7. CASE Settled /\ Tick BY <1>7, TickKeeps
<1>8. CASE RedeliverRead \/ Ask \/ \E c \in Certs: ReadRow(c) \/ NoAnswer(c)
  BY <1>8, DeskKeeps
<1>9. CASE RedeliverSend BY <1>9, RedeliverKeeps
<1>10. CASE Suspend \/ Notify BY <1>10, NoticeKeeps
<1>11. CASE \E c \in Certs: \E r \in Status: Sign(c, r) BY <1>11, SignKeeps
<1>12. CASE Arm \/ Disarm \/ Miss \/ \E c \in Certs: Revoke(c) BY <1>12, LedgerKeeps
<1>13. CASE Connect \/ Drop \/ Restart BY <1>13, LinkKeeps
<1>14. CASE UNCHANGED vars
  <2>1. UNCHANGED <<ledger, armed, gone, barred, asked, reading, task, owes, wire, link, held,
                    saved, cut, undone, excused, window, job, seen, resumes>>
    BY <1>14 DEF vars, server, desk, belief, past, asking
  <2>2. Typed /\ DeskInv /\ LinkInv /\ StandingInv /\ ReadInv /\ WireInv /\ CutInv
    BY DEF RuntimeInv
  <2>3. Kept BY <2>1 DEF Kept
  <2>4. JobInv' /\ HandInv' /\ AgeInv' /\ SeenInv' BY <2>1, <2>3, BeliefKept
  <2>5. Typed' BY <2>1, <2>2 DEF Typed
  <2>6. DeskInv' /\ LinkInv' BY <2>1, <2>2 DEF DeskInv, AtDesk, Serves, LinkInv
  <2>7. StandingInv' /\ ReadInv' BY <2>1, <2>2 DEF StandingInv, ReadInv, Current
  <2>8. WireInv' BY <2>1, <2>2, <2>3, WireKept
  <2>9. CutInv' BY <2>1, <2>2, CutKept
  <2> QED BY <2>4, <2>5, <2>6, <2>7, <2>8, <2>9 DEF RuntimeInv
<1> QED BY <1>1, <1>2, <1>3, <1>4, <1>5, <1>6, <1>7, <1>8, <1>9, <1>10, <1>11, <1>12, <1>13,
        <1>14 DEF Next, Prompt, Change, Server, Receive

\* RuntimeInv is an invariant of the Actor and its control plane, and so is the order of the
\* requests in flight.
THEOREM RuntimeInvariant == Spec => [](RuntimeInv /\ WaitInv)
<1>1. RuntimeInv /\ WaitInv /\ [Next]_vars => (RuntimeInv /\ WaitInv)'
  BY RuntimeStep, WaitStep DEF RuntimeInv
<1> QED BY <1>1, InitHolds, PTL DEF Spec

\* resolvePermission and checkPermission: an Actor that fails closed never authorizes on a
\* certificate whose row or switch is out of good standing for longer than its bound and one
\* message, whatever is lost, late or out of order, and whatever is restored after a crash.
THEOREM DecisionsStayFresh == Spec => []DecisionsAreFresh
<1>1. ASSUME RuntimeInv PROVE DecisionsAreFresh
  <2>1. Typed /\ AgeInv /\ SeenInv BY <1>1 DEF RuntimeInv
  <2>2. ASSUME NEW c \in Certs, SyncAllows(c) PROVE Current(c, window + Latency)
    <3>1. /\ gone[c] \in Nat /\ barred \in Nat /\ held[c].age \in Nat
          /\ window \in {Fallback, MaxStatusAge}
      BY <2>1, OldType DEF Typed, Belief
    <3>2. held[c].st = "active" /\ held[c].age <= window BY <2>2 DEF SyncAllows, Fresh
    <3>3. window \in Nat /\ window < Stale BY <3>1, OldType, ActorRuntimeAssumption
    <3>4. held[c].age < Stale BY <3>1, <3>2, <3>3, OldType
    <3>5. Current(c, held[c].age + Latency) BY <2>1, <3>2, <3>4 DEF AgeInv
    <3> QED BY <3>1, <3>2, <3>3, <3>5, OldType DEF Current
  <2>3. ASSUME NEW c \in Certs, CheckAllows(c), answered
        PROVE  Current(c, NumCerts * Timeout + Latency)
    <3>1. c \in seen /\ held[c].st = "active" /\ job["check"] = Deciding
      BY <2>3 DEF CheckAllows
    <3>2. Spent = NumCerts * Timeout
      <4>1. Spent = NumCerts * Timeout + 0
        BY <3>1, ActorRuntimeAssumption DEF Spent, Deciding
      <4>2. NumCerts * Timeout \in Nat BY ActorRuntimeAssumption, Product
      <4> QED BY <4>1, <4>2
    <3>3. Current(c, Spent + Latency) BY <2>1, <3>1 DEF SeenInv
    <3> QED BY <3>2, <3>3
  <2>4. ASSUME NEW c \in Certs, CheckAllows(c), ~answered PROVE SyncAllows(c)
    BY <2>4 DEF CheckAllows
  <2> QED BY <2>2, <2>3, <2>4 DEF DecisionsAreFresh
<1>2. RuntimeInv => DecisionsAreFresh BY <1>1
<1> QED BY <1>2, RuntimeInvariant, PTL

\* onKillSwitch: a switch that reached the Actor holds, in memory and in the state file,
\* until it is disarmed, but for an answer that was in hand when it came.
THEOREM CutOffStays == Spec => []CutOffHolds
<1>1. RuntimeInv => CutOffHolds
  BY DEF RuntimeInv, Typed, CutInv, CutOffHolds
<1> QED BY <1>1, RuntimeInvariant, PTL

-----------------------------------------------------------------------------
(* Flags and histories.                                                    *)

FlagsTyped ==
  /\ notify \in BOOLEAN /\ suspend \in BOOLEAN /\ owes \in BOOLEAN /\ joining \in BOOLEAN
  /\ answered \in BOOLEAN /\ cut \in BOOLEAN /\ link \in {"down", "half", "up"}
  /\ undone \subseteq 0..NumCerts /\ excused \subseteq 0..NumCerts

\* A certificate in hand has a number.
LEMMA InHandType ==
  ASSUME Typed
  PROVE  InHand \subseteq 0..NumCerts
<1>1. ASSUME NEW i \in DOMAIN resumes PROVE resumes[i].cert \in 0..NumCerts
  <2>1. resumes \in Seq(Resumed) BY DEF Typed
  <2>2. resumes[i] \in Resumed BY <2>1
  <2> QED BY <2>2 DEF Resumed
<1> QED BY <1>1 DEF InHand

LEMMA FlagsStep ==
  ASSUME Typed, FlagsTyped, [Next]_vars
  PROVE  FlagsTyped'
<1>1. CASE Decide \/ Complete \/ OnCertIssued \/ OnClose
  BY <1>1 DEF Decide, Complete, OnCertIssued, OnClose, server, desk, asking, past, FlagsTyped
<1>2. CASE Tick BY <1>2 DEF Tick, desk, past, FlagsTyped
<1>3. CASE Timer \/ OnNotice \/ \E p \in Jobs: TimeOut(p)
  BY <1>3 DEF Timer, OnNotice, TimeOut, server, past, FlagsTyped
<1>4. CASE Deferred \/ Check BY <1>4 DEF Deferred, Check, server, past, FlagsTyped
<1>5. CASE OnStatus \/ Resume
  BY <1>5 DEF OnStatus, Resume, server, desk, past, FlagsTyped
<1>6. CASE OnKillSwitch
  BY <1>6, InHandType DEF OnKillSwitch, server, desk, asking, FlagsTyped, Typed
<1>7. CASE Notify \/ \E c \in Certs: Revoke(c)
  BY <1>7 DEF Notify, Revoke, asking, desk, past, FlagsTyped
<1>8. CASE (\E c \in Certs: ReadRow(c) \/ NoAnswer(c)) \/ \E c \in Certs, r \in Status: Sign(c, r)
  BY <1>8 DEF ReadRow, NoAnswer, Sign, asking, server, past, FlagsTyped
<1>9. CASE RedeliverRead
  <2>1. PICK c \in {0} \union {d \in Certs: ledger[d] = "active"}:
          excused' = IF armed THEN excused \union {c} ELSE excused
    BY <1>9 DEF RedeliverRead
  <2>2. c \in 0..NumCerts
    <3>1. 0 \in 0..NumCerts /\ Certs \subseteq 0..NumCerts BY ActorRuntimeAssumption DEF Certs
    <3> QED BY <3>1
  <2> QED BY <1>9, <2>1, <2>2 DEF RedeliverRead, server, asking, FlagsTyped
<1>10. CASE RedeliverSend \/ Ask
  BY <1>10 DEF RedeliverSend, Ask, asking, server, past, FlagsTyped
<1>11. CASE Suspend \/ Miss
  BY <1>11 DEF Suspend, Miss, Hangup, asking, past, desk, FlagsTyped
<1>12. CASE Arm \/ Disarm BY <1>12 DEF Arm, Disarm, asking, desk, past, FlagsTyped
<1>13. CASE Connect BY <1>13 DEF Connect, server, past, FlagsTyped
<1>14. CASE Drop \/ Restart
  BY <1>14 DEF Drop, Restart, Hangup, asking, server, past, FlagsTyped
<1>15. CASE UNCHANGED vars BY <1>15 DEF vars, asking, server, desk, past, FlagsTyped
<1> QED BY <1>1, <1>2, <1>3, <1>4, <1>5, <1>6, <1>7, <1>8, <1>9, <1>10, <1>11, <1>12, <1>13,
        <1>14, <1>15 DEF Next, Prompt, Change, Server, Receive

\* A refresh that asked is answered or waits, once, and no entry is left by one that timed
\* out, decided or restarted; every other variable keeps its type.
THEOREM RuntimeTypeCorrect == Spec => []TypeOK
<1>1. Init => FlagsTyped BY DEF Init, FlagsTyped
<1>2. RuntimeInv /\ FlagsTyped /\ [Next]_vars => FlagsTyped'
  BY FlagsStep DEF RuntimeInv
<1>3. RuntimeInv /\ WaitInv /\ FlagsTyped => TypeOK
  BY DEF RuntimeInv, Typed, WaitInv, Busy, By, Flight, FlagsTyped, JobRow, TypeOK
<1> QED BY <1>1, <1>2, <1>3, RuntimeInvariant, PTL DEF Spec

=============================================================================
