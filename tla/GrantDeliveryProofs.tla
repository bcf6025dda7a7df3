------------------------- MODULE GrantDeliveryProofs -------------------------
(***************************************************************************)
(* Proofs about GrantDelivery: an exchange in flight is never restarted,   *)
(* a socket that closed is in no map, and every certificate minted, held   *)
(* or shown as delivered comes from a decision to approve; and every       *)
(* variable stays what TypeOK says.                                        *)
(***************************************************************************)
EXTENDS GrantDelivery, FiniteSetTheorems, WellFoundedInduction, TLAPS

\* Types of what the decisions are about; ConnTyped has the connections'.
Entry == [reg : 0..MaxRegs, ses : Nat]
Task  == [pc : {"idle", "update", "persist", "mark"}, reg : 0..MaxRegs]
Job   == [pc : {"idle", "listed", "find", "found"}, reg : 0..MaxRegs]

\* What a server may have said: certificates it announces are in the ledger.
Messages ==
  [type : {"challenge"}, n : Nat \ {0}]
    \cup [type : {"issued"}, n : {r \in Reg : certs[r] > 0}]
    \cup [type : {"failed"}, n : {0}]

MapsTyped ==
  /\ issuance \in [Socket -> Entry] /\ task \in [Socket -> Task] /\ job \in [Source -> Job]
  /\ holds \in [Socket -> Nat]
  /\ toServer \in [Socket -> Seq(Nat \ {0})] /\ toClient \in [Socket -> Seq(Messages)]
TableTyped ==
  /\ status \in [Reg -> {"none", "pending", "approved", "denied"}]
  /\ delivered \in [Reg -> BOOLEAN] /\ certs \in [Reg -> 0..2] /\ actor \in BOOLEAN
  /\ decide \in [Reg -> SUBSET {"approve", "upserted", "deny"}]
  /\ void \subseteq Reg /\ held \subseteq Reg /\ approvedOnce \subseteq Reg

\* Approved, and perhaps denied since: there is no way back to before the decision.
Decided(r) == r \in Reg /\ r \in approvedOnce /\ actor

\* Whoever is on the way to a certificate was approved before it set out.
ApprovalInv ==
  /\ \A r \in Reg : /\ status[r] = "approved" => Decided(r)
                    /\ "upserted" \in decide[r] => actor
  /\ \A x \in Source : job[x].pc = "found" => Decided(job[x].reg)
  /\ \A s \in Socket :
       /\ issuance[s] # NoExchange => issuance[s].ses # 0 /\ Decided(issuance[s].reg)
       /\ task[s].pc # "idle" => Decided(task[s].reg)
       /\ task[s].pc = "mark" => certs[task[s].reg] > 0
LedgerInv ==
  \A r \in Reg :
    /\ certs[r] > 0 \/ delivered[r] => Decided(r)
    /\ r \in held \/ (delivered[r] /\ r \notin void) => certs[r] > 0

DeliveryInv == MapsTyped /\ TableTyped /\ ApprovalInv /\ LedgerInv

-----------------------------------------------------------------------------
(* Least elements, and the sessions they number.                           *)

Before == {ss \in Nat \X Nat : ss[1] < ss[2]}

LEMMA HasLeast ==
  ASSUME NEW S \in SUBSET Nat, S # {}
  PROVE  \E l \in S : \A k \in S : l <= k
<1>1. IsWellFoundedOn(Before, Nat)
  BY NatLessThanWellFounded, Zenon DEF Before, OpToRel
<1>2. PICK l \in S : \A k \in S : ~(<<k, l>> \in Before) BY <1>1, WFMin, Zenon
<1>3. ASSUME NEW k \in S PROVE l <= k
  <2>1. l \in Nat /\ k \in Nat OBVIOUS
  <2>2. <<k, l>> \notin Before BY <1>2
  <2>3. k < l => <<k, l>> \in Before BY <2>1 DEF Before
  <2> QED BY <2>1, <2>2, <2>3
<1> QED BY <1>3

LEMMA OldestIsOne ==
  ASSUME NEW S \in SUBSET Nat, S # {}
  PROVE  Oldest(S) \in S
BY HasLeast DEF Oldest

\* The elements of a sequence are finitely many.
LEMMA ElementsFinite ==
  ASSUME NEW T, NEW q \in Seq(T)
  PROVE  IsFiniteSet({q[i] : i \in DOMAIN q})
<1> DEFINE R == {q[i] : i \in DOMAIN q}
           f == [i \in DOMAIN q |-> q[i]]
<1>1. Len(q) \in Nat /\ DOMAIN q = 1..Len(q) OBVIOUS
<1>2. IsFiniteSet(DOMAIN q) BY <1>1, FS_Interval
<1>3. f \in Surjection(DOMAIN q, R) BY DEF Surjection
<1> HIDE DEF R, f
<1>4. IsFiniteSet(R) BY <1>2, <1>3, FS_Surjection
<1> QED BY <1>4 DEF R

\* There is a session nobody remembers, since what is remembered is finite.
LEMMA SessionIsNew ==
  ASSUME MapsTyped, NEW s \in Socket
  PROVE  NewSession(s) \in Nat \ {0}
<1> DEFINE A == {toServer[s][i] : i \in DOMAIN toServer[s]}
           D == {toClient[s][i] : i \in DOMAIN toClient[s]}
           B == {toClient[s][i].n : i \in DOMAIN toClient[s]}
           C == {issuance[s].ses, holds[s]}
           R == Remembered(s)
           n == Cardinality(R)
           S == 1..(n + 1) \ R
<1>1. IsFiniteSet(A)
  <2>1. toServer[s] \in Seq(Nat \ {0}) BY DEF MapsTyped
  <2> QED BY <2>1, ElementsFinite
<1>2. IsFiniteSet(B)
  <2>1. toClient[s] \in Seq(Messages) BY DEF MapsTyped
  <2>2. IsFiniteSet(D) BY <2>1, ElementsFinite
  <2> DEFINE f == [m \in D |-> m.n]
  <2>3. f \in Surjection(D, B) BY DEF Surjection
  <2> HIDE DEF f, D, B
  <2> QED BY <2>2, <2>3, FS_Surjection
<1>3. IsFiniteSet(C)
  <2>1. IsFiniteSet({issuance[s].ses}) BY FS_Singleton
  <2>2. IsFiniteSet({issuance[s].ses} \cup {holds[s]}) BY <2>1, FS_AddElement
  <2>3. C = {issuance[s].ses} \cup {holds[s]} OBVIOUS
  <2> QED BY <2>2, <2>3
<1>4. R = C \cup A \cup B BY DEF Remembered
<1>5. IsFiniteSet(R)
  <2> HIDE DEF A, B, C, R
  <2>1. IsFiniteSet(C \cup A) BY <1>1, <1>3, FS_Union
  <2>2. IsFiniteSet((C \cup A) \cup B) BY <1>2, <2>1, FS_Union
  <2> QED BY <1>4, <2>2
<1> HIDE DEF R
<1>6. n \in Nat BY <1>5, FS_CardinalityType
<1> HIDE DEF n
<1>7. IsFiniteSet(1..(n + 1)) /\ Cardinality(1..(n + 1)) = n + 1
  <2>1. Cardinality(1..(n + 1)) = IF 1 > n + 1 THEN 0 ELSE (n + 1) - 1 + 1
    BY <1>6, FS_Interval
  <2>2. IsFiniteSet(1..(n + 1)) BY <1>6, FS_Interval
  <2> QED BY <1>6, <2>1, <2>2
<1>8. S # {}
  <2>1. SUFFICES ASSUME 1..(n + 1) \subseteq R PROVE FALSE OBVIOUS
  <2>2. Cardinality(1..(n + 1)) <= Cardinality(R) BY <1>5, <2>1, FS_Subset
  <2> QED BY <1>6, <1>7, <2>2 DEF n
<1>9. S \in SUBSET Nat /\ \A k \in S : k # 0 BY <1>6
<1> HIDE DEF S
<1>10. Oldest(S) \in S BY <1>8, <1>9, OldestIsOne
<1>11. NewSession(s) = Oldest(S) BY DEF NewSession, S, n, R
<1> QED BY <1>9, <1>10, <1>11

-----------------------------------------------------------------------------
(* What is said, and what is decided, stays so.                            *)

Forward ==
  /\ \A r \in Reg : certs[r] > 0 => certs'[r] > 0
  /\ approvedOnce \subseteq approvedOnce'
  /\ actor => actor'

LEMMA DecidedStays ==
  ASSUME Forward, NEW r, Decided(r)
  PROVE  Decided(r)'
BY DEF Forward, Decided

LEMMA SeqGrows ==
  ASSUME NEW A, NEW B, A \subseteq B, NEW q \in Seq(A)
  PROVE  q \in Seq(B)
<1>1. Len(q) \in Nat /\ DOMAIN q = 1..Len(q) /\ q = [i \in 1..Len(q) |-> q[i]] OBVIOUS
<1>2. \A i \in 1..Len(q) : q[i] \in B BY <1>1
<1> QED BY <1>1, <1>2

LEMMA MessagesGrow ==
  ASSUME Forward, NEW q \in Seq(Messages)
  PROVE  q \in Seq(Messages')
<1>1. Messages \subseteq Messages' BY DEF Messages, Forward
<1> QED BY <1>1, SeqGrows

\* A message sent, or lost.
LEMMA SendTyped ==
  ASSUME toClient \in [Socket -> Seq(Messages)], NEW s, NEW m, s \in Socket => m \in Messages
  PROVE  Send(s, m) \in [Socket -> Seq(Messages)]
<1>1. CASE s \in Socket
  <2>1. Append(toClient[s], m) \in Seq(Messages) BY <1>1
  <2>2. Send(s, m) \in {toClient, [toClient EXCEPT ![s] = Append(toClient[s], m)]}
    BY DEF Send
  <2> QED BY <1>1, <2>1, <2>2
<1>2. CASE s \notin Socket
  <2>1. Send(s, m) \in {toClient, [toClient EXCEPT ![s] = Append(toClient[s], m)]}
    BY DEF Send
  <2>2. [toClient EXCEPT ![s] = Append(toClient[s], m)] = toClient BY <1>2
  <2> QED BY <2>1, <2>2
<1> QED BY <1>1, <1>2

\* The maps of a step that leaves the certificates alone, or mints one.
LEMMA ClientGrows ==
  ASSUME Forward, toClient' \in [Socket -> Seq(Messages)]
  PROVE  toClient' \in [Socket -> Seq(Messages')]
<1>1. \A s \in Socket : toClient'[s] \in Seq(Messages') BY MessagesGrow
<1>2. toClient' = [s \in Socket |-> toClient'[s]] OBVIOUS
<1> QED BY <1>1, <1>2

\* Nothing the exchange or the decision reads has changed.
LEMMA Quiet ==
  ASSUME DeliveryInv, UNCHANGED <<issuance, task, job, wire, table, decide>>
  PROVE  DeliveryInv'
<1>1. UNCHANGED <<toClient, toServer, holds, held, status, approvedOnce, delivered, actor,
                certs, void>>
  BY DEF wire, table, ledger
<1>2. Messages' = Messages BY <1>1 DEF Messages
<1> QED BY <1>1, <1>2 DEF DeliveryInv, MapsTyped, TableTyped, ApprovalInv, LedgerInv, Decided

LEMMA HandshakeKeeps ==
  ASSUME DeliveryInv, NEW s \in Socket,
         Open(s) \/ Prove(s) \/ LookUp(s) \/ FindPending(s) \/ File(s)
  PROVE  DeliveryInv'
BY Quiet DEF Open, Prove, LookUp, FindPending, File, server

\* The exchange gives up what a socket has, or loses messages.
LEMMA CloseKeeps ==
  ASSUME DeliveryInv, NEW s \in Socket, Drop(s) \/ Close(s)
  PROVE  DeliveryInv'
<1>1. UNCHANGED <<task, job, holds, held, status, approvedOnce, delivered, actor, certs,
                void, decide>>
  BY DEF Drop, Close, server, table, ledger
<1>2. Messages' = Messages BY <1>1 DEF Messages
<1>3. NoExchange \in Entry /\ <<>> \in Seq(Nat \ {0}) /\ <<>> \in Seq(Messages)
  BY DeliveryAssumption DEF NoExchange, Entry
<1>4. /\ issuance' \in {issuance, [issuance EXCEPT ![s] = NoExchange]}
      /\ toServer' \in {toServer, [toServer EXCEPT ![s] = <<>>]}
      /\ toClient' \in {toClient, [toClient EXCEPT ![s] = <<>>]}
  BY DEF Drop, Close, server
<1>5. MapsTyped' BY <1>1, <1>2, <1>3, <1>4 DEF DeliveryInv, MapsTyped
<1>6. \A t \in Socket : issuance'[t] = issuance[t] \/ issuance'[t] = NoExchange
  BY <1>4 DEF DeliveryInv, MapsTyped
<1>7. ApprovalInv' BY <1>1, <1>6 DEF DeliveryInv, ApprovalInv, Decided
<1> QED BY <1>1, <1>5, <1>7 DEF DeliveryInv, TableTyped, LedgerInv, Decided

\* A delivery moves, and has not found its grant yet.
LEMMA JobStep ==
  ASSUME DeliveryInv, NEW x \in Source, NEW j \in Job, j.pc # "found",
         job' = [job EXCEPT ![x] = j],
         UNCHANGED <<issuance, task, wire, table, decide>>
  PROVE  DeliveryInv'
<1>1. UNCHANGED <<toClient, toServer, holds, held, status, approvedOnce, delivered, actor,
                certs, void>>
  BY DEF wire, table, ledger
<1>2. Messages' = Messages BY <1>1 DEF Messages
<1>3. MapsTyped' BY <1>1, <1>2 DEF DeliveryInv, MapsTyped
<1>4. \A y \in Source : job'[y] = job[y] \/ job'[y].pc # "found"
  BY DEF DeliveryInv, MapsTyped
<1>5. ApprovalInv' BY <1>1, <1>4 DEF DeliveryInv, ApprovalInv, Decided
<1> QED BY <1>1, <1>3, <1>5 DEF DeliveryInv, TableTyped, LedgerInv, Decided

LEMMA SourceFacts ==
  /\ Sweep \in Source /\ Approval \in Source /\ Socket \subseteq Source
  /\ 0 \in 0..MaxRegs /\ Reg \subseteq 0..MaxRegs /\ Reg \subseteq Nat
BY DeliveryAssumption DEF Sweep, Approval, Source, Socket, Reg

LEMMA SeatKeeps ==
  ASSUME DeliveryInv, NEW s \in Socket, Seat(s)
  PROVE  DeliveryInv'
<1>1. [pc |-> "find", reg |-> 0] \in Job BY SourceFacts DEF Job
<1> QED BY <1>1, SourceFacts, JobStep DEF Seat

LEMMA SweepKeeps ==
  ASSUME DeliveryInv, SweepQuery \/ SweepPick
  PROVE  DeliveryInv'
<1>1. PICK c \in {"listed", "idle", "find"} : job' = [job EXCEPT ![Sweep].pc = c]
  <2>1. CASE SweepQuery BY <2>1 DEF SweepQuery
  <2>2. CASE SweepPick
    <3>1. CASE MidExchange
      <4>1. job' = [job EXCEPT ![Sweep].pc = "idle"] BY <2>2, <3>1 DEF SweepPick
      <4> QED BY <4>1
    <3>2. CASE ~MidExchange
      <4>1. job' = [job EXCEPT ![Sweep].pc = "find"] BY <2>2, <3>2 DEF SweepPick
      <4> QED BY <4>1
    <3> QED BY <3>1, <3>2
  <2> QED BY <2>1, <2>2
<1>2. job \in [Source -> Job] /\ job[Sweep] \in Job BY SourceFacts DEF DeliveryInv, MapsTyped
<1> DEFINE j == [job[Sweep] EXCEPT !.pc = c]
<1>3. j \in Job /\ j.pc # "found" BY <1>2 DEF Job
<1>4. job' = [job EXCEPT ![Sweep] = j] BY <1>1, <1>2
<1>5. UNCHANGED <<issuance, task, wire, table, decide>> BY DEF SweepQuery, SweepPick
<1> HIDE DEF j
<1> QED BY <1>3, <1>4, <1>5, SourceFacts, JobStep

-----------------------------------------------------------------------------
(* The rows: asked for, decided, and written twice.                        *)

\* A step of the table: what was decided stays decided.
LEMMA TableStep ==
  ASSUME DeliveryInv, Forward, TableTyped', job' \in [Source -> Job],
         UNCHANGED <<issuance, task, wire, delivered, certs, void>>,
         \A x \in Source : job'[x].pc = "found" => job'[x] = job[x],
         \A r \in Reg : status'[r] = "approved" => Decided(r)',
         \A r \in Reg : "upserted" \in decide'[r] => actor'
  PROVE  DeliveryInv'
<1>1. UNCHANGED <<toClient, toServer, holds, held>> BY DEF wire
<1>2. Messages' = Messages BY DEF Messages
<1>3. MapsTyped' BY <1>1, <1>2 DEF DeliveryInv, MapsTyped
<1>4. \A r : Decided(r) => Decided(r)' BY DecidedStays
<1>5. ApprovalInv' BY <1>4 DEF DeliveryInv, ApprovalInv
<1>6. LedgerInv' BY <1>1, <1>4 DEF DeliveryInv, LedgerInv
<1> QED BY <1>3, <1>5, <1>6 DEF DeliveryInv

LEMMA NewRowKeeps ==
  ASSUME DeliveryInv, NewRow,
         UNCHANGED <<issuance, task, job, wire, approvedOnce, delivered, actor, certs, void,
                     decide>>
  PROVE  DeliveryInv'
<1>1. UNCHANGED <<toClient, toServer, holds, held>> BY DEF wire
<1>2. PICK r \in Reg : status[r] = "none" /\ status' = [status EXCEPT ![r] = "pending"]
  BY DEF NewRow
<1>3. Forward BY <1>2 DEF Forward, DeliveryInv, TableTyped
<1>4. TableTyped' BY <1>1, <1>2 DEF TableTyped, DeliveryInv
<1>5. \A q \in Reg : /\ status'[q] = "approved" => Decided(q)'
                     /\ "upserted" \in decide'[q] => actor'
  BY <1>2 DEF DeliveryInv, TableTyped, ApprovalInv, Decided
<1>6. job' \in [Source -> Job] BY DEF DeliveryInv, MapsTyped
<1>7. \A q \in Reg : status'[q] = "approved" => Decided(q)' BY <1>5
<1>8. \A q \in Reg : "upserted" \in decide'[q] => actor' BY <1>5
<1>9. \A x \in Source : job'[x].pc = "found" => job'[x] = job[x] OBVIOUS
<1> QED BY <1>3, <1>4, <1>6, <1>7, <1>8, <1>9, TableStep

LEMMA RequestKeeps ==
  ASSUME DeliveryInv, NEW s \in Socket, Create(s) \/ CapabilityRequest(s)
  PROVE  DeliveryInv'
<1>1. CASE Create(s)
  <2>1. NewRow /\ UNCHANGED <<issuance, task, job, wire, approvedOnce, delivered, actor, certs,
                              void, decide>>
    BY <1>1 DEF Create, ledger
  <2> QED BY <2>1, NewRowKeeps
<1>2. CASE CapabilityRequest(s)
  <2>1. NewRow /\ UNCHANGED <<issuance, task, job, wire, approvedOnce, delivered, actor, certs,
                              void, decide>>
    BY <1>2 DEF CapabilityRequest, server, ledger
  <2> QED BY <2>1, NewRowKeeps
<1> QED BY <1>1, <1>2

LEMMA DecisionKeeps ==
  ASSUME DeliveryInv, NEW r \in Reg,
         \/ \E d \in {"approve", "deny"} : ReadRow(r, d)
         \/ UpsertActor(r) \/ Deny(r) \/ ApproveElsewhere(r)
  PROVE  DeliveryInv'
<1>1. UNCHANGED <<issuance, task, job, wire, delivered, certs, void>>
  BY DEF ReadRow, UpsertActor, Deny, ApproveElsewhere, server, table, ledger
<1>2. UNCHANGED held BY <1>1 DEF wire
<1>3. job' \in [Source -> Job] BY <1>1 DEF DeliveryInv, MapsTyped
<1>4. /\ \/ status' = status
         \/ /\ status' = [status EXCEPT ![r] = "approved"] /\ actor' = TRUE
            /\ r \in approvedOnce'
         \/ status' = [status EXCEPT ![r] = "denied"]
      /\ actor' \in {actor, TRUE}
      /\ approvedOnce' \in {approvedOnce, approvedOnce \cup {r}}
  BY DEF ReadRow, UpsertActor, Deny, ApproveElsewhere, table, ledger
<1>5. \/ \E d \in {"approve", "deny"} : decide' = [decide EXCEPT ![r] = @ \cup {d}]
      \/ decide' = [decide EXCEPT ![r] = @ \cup {"upserted"}] /\ actor' = TRUE
      \/ decide' = [decide EXCEPT ![r] = @ \ {"deny"}]
      \/ decide' = decide
  BY DEF ReadRow, UpsertActor, Deny, ApproveElsewhere
<1>6. Forward
  <2>1. approvedOnce \subseteq approvedOnce' BY <1>4
  <2>2. actor => actor' BY <1>4, Zenon
  <2>3. \A q \in Reg : certs[q] > 0 => certs'[q] > 0 BY <1>1
  <2> QED BY <2>1, <2>2, <2>3, Zenon DEF Forward
<1>7. decide' \in [Reg -> SUBSET {"approve", "upserted", "deny"}]
  BY <1>5 DEF DeliveryInv, TableTyped
<1>8. TableTyped' BY <1>1, <1>2, <1>4, <1>7 DEF DeliveryInv, TableTyped
<1>9. ASSUME NEW q \in Reg, status'[q] = "approved" PROVE Decided(q)'
  <2>1. status[q] = "approved" \/ (actor' /\ q \in approvedOnce')
    BY <1>4, <1>9 DEF DeliveryInv, TableTyped
  <2>2. status[q] = "approved" => Decided(q)'
    BY <1>6, DecidedStays DEF DeliveryInv, ApprovalInv
  <2> QED BY <2>1, <2>2 DEF Decided
<1>10. ASSUME NEW q \in Reg, "upserted" \in decide'[q] PROVE actor'
  <2>1. "upserted" \in decide[q] \/ actor'
    BY <1>5, <1>10 DEF DeliveryInv, TableTyped
  <2>2. actor => actor' BY <1>6 DEF Forward
  <2> QED BY <2>1, <2>2 DEF DeliveryInv, ApprovalInv
<1> QED BY <1>1, <1>3, <1>6, <1>8, <1>9, <1>10, TableStep

LEMMA ApproveKeeps ==
  ASSUME DeliveryInv, NEW r \in Reg, Approve(r)
  PROVE  DeliveryInv'
<1>1. /\ UNCHANGED <<issuance, task, wire, delivered, actor, certs, void>>
      /\ approvedOnce' = approvedOnce \cup {r}
  BY DEF Approve, ledger
<1>2. /\ "upserted" \in decide[r]
      /\ status' = [status EXCEPT ![r] = "approved"]
      /\ decide' = [decide EXCEPT ![r] = @ \ {"approve", "upserted"}]
      /\ job' = [job EXCEPT ![Approval].pc = "find"]
  BY DEF Approve
<1>3. UNCHANGED held BY <1>1 DEF wire
<1>4. job \in [Source -> Job] BY DEF DeliveryInv, MapsTyped
<1>5. job' \in [Source -> Job] BY <1>2, <1>4, SourceFacts DEF Job
<1>6. \A x \in Source : job'[x].pc = "found" => job'[x] = job[x]
  BY <1>2, <1>4, SourceFacts DEF Job
<1>7. actor BY <1>2 DEF DeliveryInv, ApprovalInv
<1>8. Forward BY <1>1, <1>2 DEF Forward, DeliveryInv, TableTyped
<1>9. TableTyped' BY <1>1, <1>2, <1>3 DEF DeliveryInv, TableTyped
<1>10. ASSUME NEW q \in Reg, status'[q] = "approved" PROVE Decided(q)'
  BY <1>1, <1>2, <1>7, <1>10 DEF DeliveryInv, TableTyped, ApprovalInv, Decided
<1> QED BY <1>1, <1>5, <1>6, <1>7, <1>8, <1>9, <1>10, TableStep

-----------------------------------------------------------------------------
(* A delivery: what it finds was approved, what it sends is in the ledger. *)

LEMMA RedeliveredTyped ==
  ASSUME DeliveryInv, NEW x
  PROVE  Redelivered(x) \in [Socket -> Seq(Messages)]
<1>1. toClient \in [Socket -> Seq(Messages)] BY DEF DeliveryInv, MapsTyped
<1>2. CASE x \in Socket /\ \E r \in Reg : certs[r] > 0
  <2> DEFINE r == CHOOSE q \in Reg : certs[q] > 0
             m == [type |-> "issued", n |-> r]
  <2>1. r \in Reg /\ certs[r] > 0 BY <1>2
  <2>2. m \in Messages BY <2>1 DEF Messages
  <2>3. Redelivered(x) = Send(x, m) BY <1>2 DEF Redelivered
  <2> HIDE DEF m
  <2> QED BY <1>1, <2>2, <2>3, SendTyped
<1> QED BY <1>1, <1>2 DEF Redelivered

LEMMA FindGrantKeeps ==
  ASSUME DeliveryInv, NEW x \in Source, FindGrant(x)
  PROVE  DeliveryInv'
<1> DEFINE j == job'[x]
<1>1. UNCHANGED <<issuance, task, toServer, holds, held, status, approvedOnce, delivered, actor, certs,
                  void, decide>>
  BY DEF FindGrant, table, ledger
<1>2. Messages' = Messages BY <1>1 DEF Messages
<1>3. job \in [Source -> Job] BY DEF DeliveryInv, MapsTyped
<1>4. \/ /\ Undelivered # {}
         /\ job' = [job EXCEPT ![x] = [pc |-> "found", reg |-> Oldest(Undelivered)]]
      \/ job' = [job EXCEPT ![x] = Idle]
  BY DEF FindGrant
<1>5. toClient' \in [Socket -> Seq(Messages)]
  BY RedeliveredTyped DEF FindGrant, DeliveryInv, MapsTyped
<1>6. Undelivered # {} => Oldest(Undelivered) \in Undelivered
  BY OldestIsOne, SourceFacts DEF Undelivered
<1>7. Idle \in Job BY SourceFacts DEF Idle, Job
<1>8. Undelivered # {} => [pc |-> "found", reg |-> Oldest(Undelivered)] \in Job
  BY <1>6, SourceFacts DEF Job, Undelivered
<1>9. job' \in [Source -> Job] BY <1>3, <1>4, <1>7, <1>8
<1>10. MapsTyped' BY <1>1, <1>2, <1>5, <1>9 DEF DeliveryInv, MapsTyped
<1>11. \A r \in Undelivered : Decided(r)
  BY DEF Undelivered, Decided, DeliveryInv, ApprovalInv
<1>12. ASSUME NEW y \in Source, job'[y].pc = "found" PROVE Decided(job'[y].reg)
  <2>1. CASE job'[y] = job[y] BY <1>12, <2>1 DEF DeliveryInv, ApprovalInv
  <2>2. CASE job'[y] # job[y]
    <3>1. y = x BY <1>3, <1>4, <2>2
    <3>2. job'[y] = Idle \/ (Undelivered # {} /\ job'[y].reg = Oldest(Undelivered))
      BY <1>3, <1>4, <3>1
    <3>3. job'[y] # Idle BY <1>12 DEF Idle
    <3> QED BY <1>6, <1>11, <3>2, <3>3
  <2> QED BY <2>1, <2>2
<1>13. ApprovalInv' BY <1>1, <1>12 DEF DeliveryInv, ApprovalInv, Decided
<1> QED BY <1>1, <1>10, <1>13 DEF DeliveryInv, TableTyped, LedgerInv, Decided

\* The exchange a delivery starts is for a grant that was approved.
LEMMA StartTyped ==
  ASSUME DeliveryInv, NEW s, NEW r, Decided(r), StartIssuance(s, r)
  PROVE  /\ issuance' \in [Socket -> Entry] /\ toClient' \in [Socket -> Seq(Messages)]
         /\ \A t \in Socket : \/ issuance'[t] = issuance[t]
                              \/ issuance'[t].ses # 0 /\ issuance'[t].reg = r
<1> DEFINE n == NewSession(s)
           e == [reg |-> r, ses |-> n]
           m == [type |-> "challenge", n |-> n]
<1>1. issuance \in [Socket -> Entry] /\ toClient \in [Socket -> Seq(Messages)]
  BY DEF DeliveryInv, MapsTyped
<1>2. s \in Socket => n \in Nat \ {0} BY SessionIsNew DEF DeliveryInv
<1>3. \/ UNCHANGED <<issuance, toClient>>
      \/ issuance' = [issuance EXCEPT ![s] = e] /\ toClient' = Send(s, m)
  BY DEF StartIssuance
<1> HIDE DEF n
<1>4. s \in Socket => e \in Entry BY <1>2, SourceFacts DEF Entry, Decided
<1>5. s \in Socket => m \in Messages BY <1>2 DEF Messages
<1>6. e.ses = n /\ e.reg = r OBVIOUS
<1> HIDE DEF e, m
<1>7. Send(s, m) \in [Socket -> Seq(Messages)] BY <1>1, <1>5, SendTyped
<1>8. issuance' \in [Socket -> Entry] BY <1>1, <1>3, <1>4
<1>9. \A t \in Socket : issuance'[t] = issuance[t] \/ (s = t /\ issuance'[t] = e)
  BY <1>1, <1>3
<1> QED BY <1>1, <1>2, <1>3, <1>6, <1>7, <1>8, <1>9

LEMMA DeliverKeeps ==
  ASSUME DeliveryInv, NEW x \in Source, Deliver(x)
  PROVE  DeliveryInv'
<1> DEFINE r == job[x].reg
           target == IF awaiting # <<>> THEN Head(awaiting) ELSE connected
<1>1. /\ UNCHANGED <<task, toServer, holds, held, status, approvedOnce, actor, certs, decide>>
      /\ job[x].pc = "found" /\ job' = [job EXCEPT ![x] = Idle]
  BY DEF Deliver
<1>2. \/ StartIssuance(target, r) /\ UNCHANGED <<delivered, void>>
      \/ /\ delivered' = [delivered EXCEPT ![r] = TRUE] /\ void' = void \cup {r}
         /\ UNCHANGED <<issuance, toClient>>
      \/ toClient' = Redelivered(x) /\ UNCHANGED <<issuance, delivered, void>>
  BY DEF Deliver
<1>3. Decided(r) BY <1>1 DEF DeliveryInv, ApprovalInv
<1> HIDE DEF r, target
<1>4. Messages' = Messages BY <1>1 DEF Messages
<1>5. issuance \in [Socket -> Entry] /\ toClient \in [Socket -> Seq(Messages)]
  BY DEF DeliveryInv, MapsTyped
<1>6. /\ issuance' \in [Socket -> Entry] /\ toClient' \in [Socket -> Seq(Messages)]
      /\ \A t \in Socket : \/ issuance'[t] = issuance[t]
                           \/ issuance'[t].ses # 0 /\ issuance'[t].reg = r
  <2>1. CASE StartIssuance(target, r) BY <1>3, <2>1, StartTyped
  <2>2. CASE UNCHANGED <<issuance, toClient>> BY <1>5, <2>2
  <2>3. CASE toClient' = Redelivered(x) /\ UNCHANGED issuance
    BY <1>5, <2>3, RedeliveredTyped
  <2> QED BY <1>2, <2>1, <2>2, <2>3
<1>7. job \in [Source -> Job] /\ Idle \in Job
  BY SourceFacts DEF DeliveryInv, MapsTyped, Idle, Job
<1>8. job' \in [Source -> Job] BY <1>1, <1>7
<1>9. MapsTyped' BY <1>1, <1>4, <1>6, <1>8 DEF DeliveryInv, MapsTyped
<1>10. \A y \in Source : job'[y].pc = "found" => job'[y] = job[y]
  BY <1>1, <1>7 DEF Idle
<1>11. \A q : Decided(q) => Decided(q)' BY <1>1 DEF Decided
<1>12. ApprovalInv'
  <2>1. \A t \in Socket : issuance'[t] # NoExchange
                            => issuance'[t].ses # 0 /\ Decided(issuance'[t].reg)
    BY <1>3, <1>6 DEF DeliveryInv, ApprovalInv
  <2> QED BY <1>1, <1>10, <1>11, <2>1 DEF DeliveryInv, ApprovalInv
<1>13. \/ UNCHANGED <<delivered, void>>
       \/ delivered' = [delivered EXCEPT ![r] = TRUE] /\ void' = void \cup {r}
  BY <1>2
<1>14. r \in Reg BY <1>3 DEF Decided
<1>15. TableTyped' BY <1>1, <1>13, <1>14 DEF DeliveryInv, TableTyped
<1>16. \A q \in Reg : /\ delivered'[q] /\ q \notin void' => delivered[q] /\ q \notin void
                      /\ delivered'[q] => delivered[q] \/ q = r
  BY <1>13 DEF DeliveryInv, TableTyped
<1>17. \A q \in Reg : certs'[q] > 0 \/ delivered'[q] => Decided(q)
  BY <1>1, <1>3, <1>16 DEF DeliveryInv, LedgerInv
<1>18. \A q \in Reg : q \in held' \/ (delivered'[q] /\ q \notin void') => certs'[q] > 0
  BY <1>1, <1>16 DEF DeliveryInv, LedgerInv
<1>19. LedgerInv' BY <1>11, <1>17, <1>18 DEF LedgerInv
<1> QED BY <1>9, <1>12, <1>15, <1>19 DEF DeliveryInv

-----------------------------------------------------------------------------
(* The exchange.                                                           *)

LEMMA ClientReceiveKeeps ==
  ASSUME DeliveryInv, NEW s \in Socket, ClientReceive(s)
  PROVE  DeliveryInv'
<1> DEFINE m == Head(toClient[s])
<1>1. UNCHANGED <<issuance, task, job, status, approvedOnce, delivered, actor, certs, void, decide>>
  BY DEF ClientReceive, server, table, ledger
<1>2. toClient[s] # <<>> /\ toClient' = [toClient EXCEPT ![s] = Tail(@)]
  BY DEF ClientReceive
<1>3. \/ /\ m.type = "challenge" /\ holds' = [holds EXCEPT ![s] = m.n]
         /\ toServer' = [toServer EXCEPT ![s] = Append(@, m.n)] /\ UNCHANGED held
      \/ UNCHANGED <<holds, toServer, held>>
      \/ /\ m.type = "issued" /\ holds' = [holds EXCEPT ![s] = 0]
         /\ held' = held \cup {m.n} /\ UNCHANGED toServer
  BY DEF ClientReceive
<1>4. Messages' = Messages BY <1>1 DEF Messages
<1>5. /\ toClient \in [Socket -> Seq(Messages)] /\ toServer \in [Socket -> Seq(Nat \ {0})]
      /\ holds \in [Socket -> Nat]
  BY DEF DeliveryInv, MapsTyped
<1>6. m \in Messages /\ Tail(toClient[s]) \in Seq(Messages)
  <2>1. toClient[s] \in Seq(Messages) BY <1>5
  <2> QED BY <1>2, <2>1
<1>7. m.type = "challenge" => m.n \in Nat \ {0} BY <1>6 DEF Messages
<1>8. m.type = "issued" => m.n \in Reg /\ certs[m.n] > 0 BY <1>6 DEF Messages
<1> HIDE DEF m
<1>9. toClient' \in [Socket -> Seq(Messages)] BY <1>2, <1>5, <1>6
<1>10. toServer' \in [Socket -> Seq(Nat \ {0})] /\ holds' \in [Socket -> Nat]
  <2>1. CASE /\ m.type = "challenge" /\ holds' = [holds EXCEPT ![s] = m.n]
             /\ toServer' = [toServer EXCEPT ![s] = Append(@, m.n)]
    BY <1>5, <1>7, <2>1
  <2>2. CASE UNCHANGED <<holds, toServer>> BY <1>5, <2>2
  <2>3. CASE holds' = [holds EXCEPT ![s] = 0] /\ UNCHANGED toServer BY <1>5, <2>3
  <2> QED BY <1>3, <2>1, <2>2, <2>3
<1>11. MapsTyped' BY <1>1, <1>4, <1>9, <1>10 DEF DeliveryInv, MapsTyped
<1>12. held' = held \/ (m.n \in Reg /\ certs[m.n] > 0 /\ held' = held \cup {m.n})
  BY <1>3, <1>8
<1>13. TableTyped' BY <1>1, <1>12 DEF DeliveryInv, TableTyped
<1>14. ApprovalInv' BY <1>1 DEF DeliveryInv, ApprovalInv, Decided
<1>15. LedgerInv' BY <1>1, <1>12 DEF DeliveryInv, LedgerInv, Decided
<1> QED BY <1>11, <1>13, <1>14, <1>15 DEF DeliveryInv

\* An answer is taken only for the session the entry names, so there is an entry.
LEMMA ChallengeKeeps ==
  ASSUME DeliveryInv, NEW s \in Socket, CertChallenge(s)
  PROVE  DeliveryInv'
<1>1. /\ UNCHANGED <<issuance, job, toClient, holds, held, status, approvedOnce, delivered, actor, certs,
                     void, decide>>
      /\ toServer[s] # <<>> /\ toServer' = [toServer EXCEPT ![s] = Tail(@)]
  BY DEF CertChallenge, table, ledger
<1> DEFINE t == [pc |-> "update", reg |-> issuance[s].reg]
<1>2. \/ issuance[s].ses = Head(toServer[s]) /\ task' = [task EXCEPT ![s] = t]
      \/ task' = task
  BY DEF CertChallenge
<1>3. /\ issuance \in [Socket -> Entry] /\ task \in [Socket -> Task]
      /\ toServer \in [Socket -> Seq(Nat \ {0})]
  BY DEF DeliveryInv, MapsTyped
<1>4. Head(toServer[s]) \in Nat \ {0} /\ Tail(toServer[s]) \in Seq(Nat \ {0})
  <2>1. toServer[s] \in Seq(Nat \ {0}) BY <1>3
  <2> QED BY <1>1, <2>1
<1>5. issuance[s].ses = Head(toServer[s]) => Decided(issuance[s].reg)
  BY <1>4 DEF DeliveryInv, ApprovalInv, NoExchange
<1>6. t \in Task BY <1>3 DEF Task, Entry
<1>7. toServer' \in [Socket -> Seq(Nat \ {0})] BY <1>1, <1>3, <1>4
<1>8. t.pc = "update" /\ t.reg = issuance[s].reg OBVIOUS
<1> HIDE DEF t
<1>9. task' \in [Socket -> Task] BY <1>2, <1>3, <1>6
<1>10. Messages' = Messages BY <1>1 DEF Messages
<1>11. MapsTyped' BY <1>1, <1>7, <1>9, <1>10 DEF DeliveryInv, MapsTyped
<1>12. \A u \in Socket : task'[u] = task[u] \/ (task'[u] = t /\ Decided(t.reg))
  BY <1>2, <1>3, <1>5, <1>8
<1>13. ASSUME NEW u \in Socket
       PROVE  /\ task'[u].pc # "idle" => Decided(task'[u].reg)
              /\ task'[u].pc = "mark" => certs[task'[u].reg] > 0
  BY <1>8, <1>12 DEF DeliveryInv, ApprovalInv
<1>14. ApprovalInv' BY <1>1, <1>13 DEF DeliveryInv, ApprovalInv, Decided
<1> QED BY <1>1, <1>11, <1>14 DEF DeliveryInv, TableTyped, LedgerInv, Decided

\* The entry goes, and the task moves on or ends.
LEMMA EntryGone ==
  ASSUME DeliveryInv, NEW s \in Socket, NEW t \in Task,
         t.pc \in {"idle", "persist"}, t.pc = "persist" => Decided(t.reg),
         issuance' = [issuance EXCEPT ![s] = NoExchange], task' = [task EXCEPT ![s] = t],
         toClient' \in [Socket -> Seq(Messages)],
         UNCHANGED <<job, toServer, holds, held, table, decide>>
  PROVE  DeliveryInv'
<1>1. UNCHANGED <<status, approvedOnce, delivered, actor, certs, void>> BY DEF table, ledger
<1>2. Messages' = Messages BY <1>1 DEF Messages
<1>3. issuance \in [Socket -> Entry] /\ task \in [Socket -> Task]
  BY DEF DeliveryInv, MapsTyped
<1>4. NoExchange \in Entry BY SourceFacts DEF NoExchange, Entry
<1>5. issuance' \in [Socket -> Entry] /\ task' \in [Socket -> Task] BY <1>3, <1>4
<1>6. MapsTyped' BY <1>2, <1>5 DEF DeliveryInv, MapsTyped
<1>7. \A u \in Socket : /\ issuance'[u] = issuance[u] \/ issuance'[u] = NoExchange
                        /\ task'[u] = task[u] \/ task'[u] = t
  BY <1>3
<1>8. ASSUME NEW u \in Socket
      PROVE  /\ issuance'[u] # NoExchange => issuance'[u].ses # 0 /\ Decided(issuance'[u].reg)
             /\ task'[u].pc # "idle" => Decided(task'[u].reg)
             /\ task'[u].pc = "mark" => certs[task'[u].reg] > 0
  BY <1>7 DEF DeliveryInv, ApprovalInv
<1>9. ApprovalInv' BY <1>1, <1>8 DEF DeliveryInv, ApprovalInv, Decided
<1> QED BY <1>1, <1>6, <1>9 DEF DeliveryInv, TableTyped, LedgerInv, Decided

LEMMA CompleteKeeps ==
  ASSUME DeliveryInv, NEW s \in Socket, Complete(s)
  PROVE  DeliveryInv'
<1> DEFINE t == [task[s] EXCEPT !.pc = "persist"]
<1>1. task \in [Socket -> Task] /\ toClient \in [Socket -> Seq(Messages)]
  BY DEF DeliveryInv, MapsTyped
<1>2. task' = [task EXCEPT ![s] = t] BY <1>1 DEF Complete
<1>3. t \in Task /\ t.pc = "persist" /\ t.reg = task[s].reg BY <1>1 DEF Task
<1>4. Decided(t.reg) BY <1>3 DEF Complete, DeliveryInv, ApprovalInv
<1>5. /\ issuance' = [issuance EXCEPT ![s] = NoExchange]
      /\ UNCHANGED <<job, toClient, toServer, holds, held, table, decide>>
  BY DEF Complete, wire
<1> HIDE DEF t
<1> QED BY <1>1, <1>2, <1>3, <1>4, <1>5, EntryGone

LEMMA FailKeeps ==
  ASSUME DeliveryInv, NEW s \in Socket, FailIssuance(s)
  PROVE  DeliveryInv'
<1> DEFINE m == [type |-> "failed", n |-> 0]
<1>1. Idle \in Task /\ Idle.pc = "idle" BY SourceFacts DEF Idle, Task
<1>2. m \in Messages BY DEF Messages
<1>3. /\ issuance' = [issuance EXCEPT ![s] = NoExchange] /\ task' = [task EXCEPT ![s] = Idle]
      /\ toClient' = Send(s, m)
      /\ UNCHANGED <<job, toServer, holds, held, table, decide>>
  BY DEF FailIssuance
<1> HIDE DEF m
<1>4. toClient' \in [Socket -> Seq(Messages)]
  BY <1>2, <1>3, SendTyped DEF DeliveryInv, MapsTyped
<1> QED BY <1>1, <1>3, <1>4, EntryGone

LEMMA PersistKeeps ==
  ASSUME DeliveryInv, NEW s \in Socket, Persist(s)
  PROVE  DeliveryInv'
<1> DEFINE r == task[s].reg
           t == [task[s] EXCEPT !.pc = "mark"]
<1>1. UNCHANGED <<issuance, job, toClient, toServer, holds, held, status, approvedOnce, delivered, actor,
                  void, decide>>
  BY DEF Persist, wire
<1>2. task \in [Socket -> Task] /\ certs \in [Reg -> 0..2]
  BY DEF DeliveryInv, MapsTyped, TableTyped
<1>3. /\ certs' = [certs EXCEPT ![r] = IF certs[r] < 2 THEN certs[r] + 1 ELSE certs[r]]
      /\ task' = [task EXCEPT ![s] = t]
  BY <1>2 DEF Persist
<1>4. t \in Task /\ t.reg = r BY <1>2 DEF Task
<1>5. Decided(r) BY DEF Persist, DeliveryInv, ApprovalInv
<1>6. r \in Reg BY <1>5 DEF Decided
<1> HIDE DEF t, r
<1>7. certs' \in [Reg -> 0..2] /\ certs'[r] > 0 BY <1>2, <1>3, <1>6
<1>8. \A q \in Reg : certs'[q] = certs[q] \/ q = r BY <1>2, <1>3
<1>9. Forward BY <1>1, <1>7, <1>8 DEF Forward
<1>10. \A q : Decided(q) => Decided(q)' BY <1>9, DecidedStays
<1>11. toClient' \in [Socket -> Seq(Messages')]
  BY <1>1, <1>9, ClientGrows DEF DeliveryInv, MapsTyped
<1>12. task' \in [Socket -> Task] BY <1>2, <1>3, <1>4
<1>13. MapsTyped' BY <1>1, <1>11, <1>12 DEF DeliveryInv, MapsTyped
<1>14. TableTyped' BY <1>1, <1>7 DEF DeliveryInv, TableTyped
<1>15. \A u \in Socket : task'[u] = task[u] \/ (task'[u] = t /\ Decided(t.reg))
  BY <1>2, <1>3, <1>4, <1>5
<1>16. ASSUME NEW u \in Socket
       PROVE  /\ task'[u].pc # "idle" => Decided(task'[u].reg)
              /\ task'[u].pc = "mark" => certs'[task'[u].reg] > 0
  <2>1. CASE task'[u] = t BY <1>4, <1>5, <1>7, <2>1
  <2>2. CASE task'[u] = task[u]
    <3>1. /\ task'[u].pc # "idle" => Decided(task'[u].reg)
          /\ task'[u].pc = "mark" => certs[task'[u].reg] > 0
      BY <2>2 DEF DeliveryInv, ApprovalInv
    <3> QED BY <3>1, <1>9 DEF Forward, Decided
  <2> QED BY <1>15, <2>1, <2>2
<1>17. ApprovalInv' BY <1>1, <1>10, <1>16 DEF DeliveryInv, ApprovalInv
<1>18. \A q \in Reg : certs'[q] > 0 => Decided(q)
  BY <1>5, <1>8 DEF DeliveryInv, LedgerInv
<1>19. LedgerInv' BY <1>1, <1>9, <1>10, <1>18 DEF DeliveryInv, LedgerInv, Forward
<1> QED BY <1>13, <1>14, <1>17, <1>19 DEF DeliveryInv

LEMMA MarkKeeps ==
  ASSUME DeliveryInv, NEW s \in Socket, MarkDelivered(s)
  PROVE  DeliveryInv'
<1> DEFINE r == task[s].reg
           m == [type |-> "issued", n |-> r]
<1>1. /\ UNCHANGED <<issuance, job, toServer, holds, held, status, approvedOnce, actor, certs, void, decide>>
      /\ task[s].pc = "mark" /\ task' = [task EXCEPT ![s] = Idle]
      /\ delivered' = [delivered EXCEPT ![r] = TRUE] /\ toClient' = Send(s, m)
  BY DEF MarkDelivered
<1>2. certs[r] > 0 /\ Decided(r) BY <1>1 DEF DeliveryInv, ApprovalInv
<1>3. m \in Messages BY <1>2 DEF Messages, Decided
<1> HIDE DEF r, m
<1>4. Messages' = Messages BY <1>1 DEF Messages
<1>5. task \in [Socket -> Task] /\ toClient \in [Socket -> Seq(Messages)]
  BY DEF DeliveryInv, MapsTyped
<1>6. toClient' \in [Socket -> Seq(Messages)] BY <1>1, <1>3, <1>5, SendTyped
<1>7. Idle \in Task /\ Idle.pc = "idle" BY SourceFacts DEF Idle, Task
<1>8. task' \in [Socket -> Task] BY <1>1, <1>5, <1>7
<1>9. MapsTyped' BY <1>1, <1>4, <1>6, <1>8 DEF DeliveryInv, MapsTyped
<1>10. TableTyped' BY <1>1 DEF DeliveryInv, TableTyped
<1>11. \A u \in Socket : task'[u] = task[u] \/ task'[u].pc = "idle" BY <1>1, <1>5, <1>7
<1>12. ASSUME NEW u \in Socket
       PROVE  /\ task'[u].pc # "idle" => Decided(task'[u].reg)
              /\ task'[u].pc = "mark" => certs[task'[u].reg] > 0
  BY <1>11 DEF DeliveryInv, ApprovalInv
<1>13. ApprovalInv' BY <1>1, <1>12 DEF DeliveryInv, ApprovalInv, Decided
<1>14. \A q \in Reg : delivered'[q] => delivered[q] \/ q = r
  BY <1>1 DEF DeliveryInv, TableTyped
<1>15. LedgerInv' BY <1>1, <1>2, <1>14 DEF DeliveryInv, LedgerInv, Decided
<1> QED BY <1>9, <1>10, <1>13, <1>15 DEF DeliveryInv

\* What a restart keeps is the table and the client.
LEMMA Restarted ==
  ASSUME holds \in [Socket -> Nat], TableTyped, LedgerInv,
         \A r \in Reg : status[r] = "approved" => Decided(r),
         issuance = [s \in Socket |-> NoExchange], task = [s \in Socket |-> Idle],
         job = [x \in Source |-> Idle], toClient = [s \in Socket |-> <<>>],
         toServer = [s \in Socket |-> <<>>], decide = [r \in Reg |-> {}]
  PROVE  DeliveryInv
<1>1. NoExchange \in Entry /\ Idle \in Task /\ Idle \in Job
  BY SourceFacts DEF NoExchange, Idle, Entry, Task, Job
<1>2. <<>> \in Seq(Messages) /\ <<>> \in Seq(Nat \ {0}) OBVIOUS
<1>3. MapsTyped BY <1>1, <1>2 DEF MapsTyped
<1>4. ApprovalInv BY DEF ApprovalInv, Idle
<1> QED BY <1>3, <1>4 DEF DeliveryInv

LEMMA InitSound == Init => DeliveryInv
<1> SUFFICES ASSUME Init PROVE DeliveryInv OBVIOUS
<1>1. holds \in [Socket -> Nat] /\ TableTyped /\ LedgerInv
  <2>1. /\ holds = [s \in Socket |-> 0] /\ status = [r \in Reg |-> "none"]
        /\ delivered = [r \in Reg |-> FALSE] /\ decide = [r \in Reg |-> {}]
        /\ certs = [r \in Reg |-> 0] /\ actor = FALSE /\ void = {} /\ held = {}
        /\ approvedOnce = {}
    BY DEF Init
  <2>2. holds \in [Socket -> Nat] BY <2>1
  <2>3. decide \in [Reg -> SUBSET {"approve", "upserted", "deny"}] BY <2>1
  <2>4. certs \in [Reg -> 0..2] BY <2>1
  <2>5. status \in [Reg -> {"none", "pending", "approved", "denied"}] BY <2>1
  <2>6. delivered \in [Reg -> BOOLEAN] BY <2>1
  <2>7. TableTyped BY <2>1, <2>3, <2>4, <2>5, <2>6 DEF TableTyped
  <2>8. LedgerInv BY <2>1 DEF LedgerInv
  <2> QED BY <2>2, <2>7, <2>8
<1>2. \A r \in Reg : status[r] = "approved" => Decided(r) BY DEF Init
<1> QED BY <1>1, <1>2, Restarted DEF Init

LEMMA CrashKeeps ==
  ASSUME DeliveryInv, Crash
  PROVE  DeliveryInv'
<1>1. UNCHANGED <<holds, held, status, approvedOnce, delivered, actor, certs, void>> BY DEF Crash, table, ledger
<1>2. /\ issuance' = [s \in Socket |-> NoExchange] /\ task' = [s \in Socket |-> Idle]
      /\ job' = [x \in Source |-> Idle] /\ decide' = [r \in Reg |-> {}]
      /\ toClient' = [s \in Socket |-> <<>>] /\ toServer' = [s \in Socket |-> <<>>]
  BY DEF Crash
<1>3. NoExchange \in Entry /\ Idle \in Task /\ Idle \in Job
  BY SourceFacts DEF NoExchange, Idle, Entry, Task, Job
<1>4. <<>> \in Seq(Messages') /\ <<>> \in Seq(Nat \ {0}) OBVIOUS
<1>5. MapsTyped' BY <1>1, <1>2, <1>3, <1>4 DEF DeliveryInv, MapsTyped
<1>6. ApprovalInv' BY <1>1, <1>2 DEF ApprovalInv, Idle, DeliveryInv, Decided
<1>7. TableTyped' /\ LedgerInv' BY <1>1, <1>2 DEF DeliveryInv, TableTyped, LedgerInv, Decided
<1> QED BY <1>5, <1>6, <1>7 DEF DeliveryInv

LEMMA StepSound ==
  ASSUME DeliveryInv, [Next]_vars
  PROVE  DeliveryInv'
<1>1. CASE UNCHANGED vars BY <1>1, Quiet DEF vars, server
<1>2. ASSUME NEW s \in Socket, Open(s) \/ Drop(s) \/ Close(s) PROVE DeliveryInv'
  BY <1>2, HandshakeKeeps, CloseKeeps
<1>3. ASSUME NEW s \in Socket, Handshake(s) PROVE DeliveryInv'
  BY <1>3, HandshakeKeeps, SeatKeeps, RequestKeeps DEF Handshake
<1>4. ASSUME NEW s \in Socket, CapabilityRequest(s) PROVE DeliveryInv'
  BY <1>4, RequestKeeps
<1>5. ASSUME NEW s \in Socket, ClientReceive(s) PROVE DeliveryInv'
  BY <1>5, ClientReceiveKeeps
<1>6. ASSUME NEW s \in Socket, Exchange(s) PROVE DeliveryInv'
  BY <1>6, ChallengeKeeps, CompleteKeeps, PersistKeeps, MarkKeeps DEF Exchange
<1>7. ASSUME NEW s \in Socket, FailIssuance(s) PROVE DeliveryInv' BY <1>7, FailKeeps
<1>8. ASSUME NEW r \in Reg,
             (\E d \in {"approve", "deny"} : ReadRow(r, d)) \/ Admin(r) \/ ApproveElsewhere(r)
      PROVE  DeliveryInv'
  BY <1>8, DecisionKeeps, ApproveKeeps DEF Admin
<1>9. CASE SweepQuery \/ SweepPick BY <1>9, SweepKeeps
<1>10. ASSUME NEW x \in Source, Delivery(x) PROVE DeliveryInv'
  BY <1>10, FindGrantKeeps, DeliverKeeps DEF Delivery
<1>11. CASE Crash BY <1>11, CrashKeeps
<1> QED BY <1>1, <1>2, <1>3, <1>4, <1>5, <1>6, <1>7, <1>8, <1>9, <1>10, <1>11 DEF Next

-----------------------------------------------------------------------------
\* Every grant being delivered, every exchange and every task that mints was
\* approved before it set out, whoever started it and whatever was denied since
\* (approvePendingRegistration, deliverApprovedCapabilities, handleCertChallenge).
THEOREM DeliveryInvariant == Spec => []DeliveryInv
<1>1. DeliveryInv /\ [Next]_vars => DeliveryInv' BY StepSound
<1> QED BY <1>1, InitSound, PTL DEF Spec

\* What is minted was approved, and what the client holds, or the console shows as
\* delivered, is in the ledger (handleCertChallenge, markDelivered).
THEOREM LedgerIsApproved == Spec => []CertificatesAreApproved
<1>1. DeliveryInv => CertificatesAreApproved
  BY DEF DeliveryInv, LedgerInv, Decided, CertificatesAreApproved
<1> QED BY <1>1, DeliveryInvariant, PTL

\* No step writes over an exchange in flight: the entry of a connection stays what
\* it is or goes, whichever of the three deliveries runs (startCertificateIssuance).
LEMMA StepRestartsNothing ==
  ASSUME DeliveryInv, [Next]_vars, NEW s \in Socket, issuance[s] # NoExchange
  PROVE  issuance'[s] \in {issuance[s], NoExchange}
<1>1. issuance \in [Socket -> Entry] BY DEF DeliveryInv, MapsTyped
<1>2. ASSUME NEW t, NEW r, StartIssuance(t, r) PROVE issuance'[s] = issuance[s]
  <2>1. issuance' = issuance \/ (issuance[t] = NoExchange /\ issuance' = [issuance EXCEPT
          ![t] = [reg |-> r, ses |-> NewSession(t)]])
    BY <1>2 DEF StartIssuance
  <2> QED BY <1>1, <2>1
<1>3. ASSUME NEW x \in Source, Deliver(x) PROVE issuance'[s] = issuance[s]
  BY <1>2, <1>3 DEF Deliver
<1>4. ASSUME NEW t \in Socket, Close(t) \/ Complete(t) \/ FailIssuance(t)
      PROVE  issuance'[s] \in {issuance[s], NoExchange}
  <2>1. issuance' = [issuance EXCEPT ![t] = NoExchange]
    BY <1>4 DEF Close, Complete, FailIssuance
  <2> QED BY <1>1, <2>1
<1>5. CASE Crash BY <1>5 DEF Crash
<1>6. ASSUME NEW t \in Socket,
             \/ Open(t) \/ Drop(t) \/ Handshake(t) \/ CapabilityRequest(t)
             \/ ClientReceive(t) \/ CertChallenge(t) \/ Persist(t) \/ MarkDelivered(t)
      PROVE  issuance' = issuance
  BY <1>6 DEF Open, Drop, Handshake, Prove, LookUp, Seat, FindPending, Create, File,
     CapabilityRequest, ClientReceive, CertChallenge, Persist, MarkDelivered, server
<1>7. ASSUME NEW r \in Reg,
             (\E d \in {"approve", "deny"} : ReadRow(r, d)) \/ Admin(r) \/ ApproveElsewhere(r)
      PROVE  issuance' = issuance
  BY <1>7 DEF ReadRow, Admin, UpsertActor, Approve, Deny, ApproveElsewhere, server
<1>8. CASE SweepQuery \/ SweepPick \/ \E x \in Source : FindGrant(x)
  BY <1>8 DEF SweepQuery, SweepPick, FindGrant
<1>9. CASE UNCHANGED vars BY <1>9 DEF vars, server
<1> QED BY <1>3, <1>4, <1>5, <1>6, <1>7, <1>8, <1>9 DEF Next, Exchange, Delivery

\* "Never restart an exchange already in flight on this connection", for every
\* number of sockets, rows, approvals and restarts (startCertificateIssuance).
THEOREM NeverRestarted == Spec => ExchangeNotRestarted
<1>1. DeliveryInv /\ [Next]_vars
        => [\A s \in Socket : issuance[s] # NoExchange
                                => issuance'[s] \in {issuance[s], NoExchange}]_vars
  BY StepRestartsNothing
<1> QED BY <1>1, DeliveryInvariant, PTL DEF Spec, ExchangeNotRestarted

-----------------------------------------------------------------------------
(* The connections.                                                        *)

SockState == {"unused", "open", "dead", "closed"}
AuthState == {"none", "proven", "known", "new", "create", "event", "done"}
ConnTyped ==
  /\ sock \in [Socket -> SockState] /\ auth \in [Socket -> AuthState]
  /\ connected \in 0..NSock /\ bySender \subseteq Socket /\ awaiting \in Seq(Socket)
  /\ keyless \subseteq Reg /\ late \subseteq Socket /\ crashes \in Nat

LEMMA SocketFacts == 0 \in 0..NSock /\ Socket \subseteq 0..NSock
BY DeliveryAssumption DEF Socket

LEMMA QueueMoves ==
  ASSUME NEW q \in Seq(Socket)
  PROVE  /\ \A s \in Socket : Append(q, s) \in Seq(Socket)
         /\ q # <<>> => Head(q) \in Socket /\ Tail(q) \in Seq(Socket)
         /\ \A i \in DOMAIN q : RemoveAt(q, i) \in Seq(Socket)
<1>1. ASSUME NEW i \in DOMAIN q PROVE RemoveAt(q, i) \in Seq(Socket)
  <2>1. i \in 1..Len(q) /\ Len(q) \in Nat OBVIOUS
  <2>2. SubSeq(q, 1, i - 1) \in Seq(Socket) BY <2>1
  <2>3. SubSeq(q, i + 1, Len(q)) \in Seq(Socket) BY <2>1
  <2>4. \A a, b \in Seq(Socket) : a \o b \in Seq(Socket) OBVIOUS
  <2> QED BY <2>2, <2>3, <2>4 DEF RemoveAt
<1> QED BY <1>1

\* A connection comes up, goes away, or is found gone (connectOnce, handleClose).
LEMMA SocketTyped ==
  ASSUME ConnTyped, NEW s \in Socket, Open(s) \/ Drop(s) \/ Close(s)
  PROVE  ConnTyped'
<1>1. UNCHANGED <<auth, keyless, crashes>> BY DEF Open, Drop, Close, server, table
<1>2. sock' \in [Socket -> SockState] BY DEF Open, Drop, Close, ConnTyped, SockState
<1>3. connected' \in 0..NSock /\ bySender' \subseteq Socket
  BY SocketFacts DEF Open, Drop, Close, Unfile, ConnTyped, server
<1>4. awaiting' \in Seq(Socket)
  <2>1. \/ awaiting' = awaiting
        \/ \E i \in DOMAIN awaiting : awaiting' = RemoveAt(awaiting, i)
    BY DEF Open, Drop, Close, Unfile, server
  <2> QED BY <2>1, QueueMoves DEF ConnTyped
<1>5. late' \subseteq Socket BY DEF Open, Drop, Close, Unfile, ConnTyped
<1> QED BY <1>1, <1>2, <1>3, <1>4, <1>5 DEF ConnTyped

\* A handshake ends seated or waiting (handleAuthChallenge).
LEMMA HandshakeTyped ==
  ASSUME ConnTyped, NEW s \in Socket, Handshake(s)
  PROVE  ConnTyped'
<1>1. UNCHANGED <<sock, keyless, late, crashes>>
  BY DEF Handshake, Prove, LookUp, Seat, FindPending, Create, File, table
<1>2. auth' \in [Socket -> AuthState]
  BY DEF Handshake, Prove, LookUp, Seat, FindPending, Create, File, ConnTyped, AuthState
<1>3. connected' \in 0..NSock /\ bySender' \subseteq Socket
  BY SocketFacts DEF Handshake, Prove, LookUp, Seat, FindPending, Create, File, ConnTyped
<1>4. awaiting' \in Seq(Socket)
  <2>1. awaiting' = awaiting \/ awaiting' = Append(awaiting, s)
    BY DEF Handshake, Prove, LookUp, Seat, FindPending, Create, File
  <2> QED BY <2>1, QueueMoves DEF ConnTyped
<1> QED BY <1>1, <1>2, <1>3, <1>4 DEF ConnTyped

\* The first waiting connection is promoted (deliverApprovedCapabilities).
LEMMA DeliverTyped ==
  ASSUME ConnTyped, NEW x \in Source, Deliver(x)
  PROVE  ConnTyped'
<1>1. UNCHANGED <<sock, auth, keyless, late, crashes>> BY DEF Deliver
<1>2. CASE UNCHANGED <<awaiting, connected, bySender>> BY <1>1, <1>2 DEF ConnTyped
<1>3. CASE /\ awaiting # <<>> /\ awaiting' = Tail(awaiting)
           /\ connected' \in {connected, Head(awaiting)}
           /\ bySender' \in {bySender, bySender \cup {Head(awaiting)}}
  <2>1. Head(awaiting) \in Socket /\ Tail(awaiting) \in Seq(Socket)
    BY <1>3, QueueMoves DEF ConnTyped
  <2> QED BY <1>1, <1>3, <2>1, SocketFacts DEF ConnTyped
<1> QED BY <1>2, <1>3 DEF Deliver

\* No other step is about a connection, but for a restart.
LEMMA ConnStep ==
  ASSUME ConnTyped, [Next]_vars
  PROVE  ConnTyped'
<1> DEFINE Still == UNCHANGED <<sock, auth, connected, bySender, awaiting, late, crashes>>
                      /\ keyless' \subseteq Reg
<1>1. ASSUME NEW s \in Socket, Open(s) \/ Drop(s) \/ Close(s) \/ Handshake(s)
      PROVE  ConnTyped'
  BY <1>1, SocketTyped, HandshakeTyped
<1>2. ASSUME NEW t \in Socket,
             CapabilityRequest(t) \/ ClientReceive(t) \/ Exchange(t) \/ FailIssuance(t)
      PROVE  Still
  BY <1>2 DEF CapabilityRequest, ClientReceive, Exchange, CertChallenge, Complete, Persist,
     MarkDelivered, FailIssuance, server, table, ConnTyped
<1>3. ASSUME NEW r \in Reg,
             \/ \E d \in {"approve", "deny"} : ReadRow(r, d)
             \/ Admin(r) \/ ApproveElsewhere(r)
      PROVE  Still
  BY <1>3 DEF ReadRow, Admin, UpsertActor, Approve, Deny, ApproveElsewhere, server, table, ConnTyped
<1>4. ASSUME SweepQuery \/ SweepPick \/ \E x \in Source : FindGrant(x)
      PROVE  Still
  BY <1>4 DEF SweepQuery, SweepPick, FindGrant, table, ConnTyped
<1>5. CASE Crash
  <2>1. sock' \in [Socket -> SockState] /\ auth' \in [Socket -> AuthState]
    BY <1>5 DEF Crash, ConnTyped, SockState, AuthState
  <2>2. connected' = 0 /\ bySender' = {} /\ awaiting' = <<>> /\ crashes' = crashes + 1
    BY <1>5 DEF Crash
  <2>3. <<>> \in Seq(Socket) OBVIOUS
  <2>4. UNCHANGED <<keyless, late>> BY <1>5 DEF Crash, table
  <2> QED BY <2>1, <2>2, <2>3, <2>4, SocketFacts DEF ConnTyped
<1>6. CASE UNCHANGED vars BY <1>6 DEF vars, server, table, ConnTyped
<1>7. ASSUME Still PROVE ConnTyped' BY <1>7 DEF ConnTyped
<1> QED BY <1>1, <1>2, <1>3, <1>4, <1>5, <1>6, <1>7, DeliverTyped DEF Next, Delivery

\* Every map, row and queue keeps its type, whatever connects, drops, is approved
\* or crashes: an entry, a task and a delivery name sockets and rows there are
\* (ControlPlaneWSServer).
THEOREM DeliveryTypeCorrect == Spec => []TypeOK
<1>1. Init => ConnTyped
  <2>1. <<>> \in Seq(Socket) OBVIOUS
  <2> QED BY <2>1, SocketFacts DEF Init, ConnTyped, SockState, AuthState
<1>2. ConnTyped /\ [Next]_vars => ConnTyped' BY ConnStep
<1>3. DeliveryInv /\ ConnTyped => TypeOK
  BY DEF DeliveryInv, MapsTyped, TableTyped, ConnTyped, SockState, AuthState, Entry, Task, Job,
     TypeOK
<1> QED BY <1>1, <1>2, <1>3, DeliveryInvariant, PTL DEF Spec

-----------------------------------------------------------------------------
(* A closed socket is in no map.                                           *)

\* Nothing can refer to a socket any more, or yet.
Gone(s) == sock[s] \in {"unused", "closed"} /\ s \notin late
ForgetInv ==
  /\ connected # 0 => connected \in bySender
  /\ \A i, j \in DOMAIN awaiting : awaiting[i] = awaiting[j] => i = j
  /\ \A i \in DOMAIN awaiting : auth[awaiting[i]] = "done"
  /\ \A s \in Socket : Gone(s) =>
       /\ s \notin bySender \cup Waiting /\ issuance[s] = NoExchange
       /\ auth[s] \in {"none", "done"}

\* What a queue without repetition is after each thing done to it.
LEMMA QueueOnce ==
  ASSUME NEW q \in Seq(Socket), \A i, j \in DOMAIN q : q[i] = q[j] => i = j
  PROVE  /\ \A s \in Socket : (\A i \in DOMAIN q : q[i] # s) =>
              LET p == Append(q, s) IN
                /\ \A i, j \in DOMAIN p : p[i] = p[j] => i = j
                /\ \A i \in DOMAIN p : p[i] = s \/ \E k \in DOMAIN q : p[i] = q[k]
         /\ q # <<>> => \A i \in DOMAIN Tail(q) :
              /\ Tail(q)[i] # Head(q) /\ \E k \in DOMAIN q : Tail(q)[i] = q[k]
              /\ \A j \in DOMAIN Tail(q) : Tail(q)[i] = Tail(q)[j] => i = j
         /\ \A k \in DOMAIN q : LET p == RemoveAt(q, k) IN \A i \in DOMAIN p :
              /\ p[i] # q[k] /\ \E m \in DOMAIN q : p[i] = q[m]
              /\ \A j \in DOMAIN p : p[i] = p[j] => i = j
<1>1. Len(q) \in Nat /\ DOMAIN q = 1..Len(q) OBVIOUS
<1>2. ASSUME NEW s \in Socket, \A i \in DOMAIN q : q[i] # s,
             NEW i \in DOMAIN Append(q, s), NEW j \in DOMAIN Append(q, s)
      PROVE  /\ Append(q, s)[i] = Append(q, s)[j] => i = j
             /\ Append(q, s)[i] = s \/ \E k \in DOMAIN q : Append(q, s)[i] = q[k]
  BY <1>1, <1>2
<1>3. ASSUME q # <<>>, NEW i \in DOMAIN Tail(q), NEW j \in DOMAIN Tail(q)
      PROVE  /\ Tail(q)[i] # Head(q) /\ \E k \in DOMAIN q : Tail(q)[i] = q[k]
             /\ Tail(q)[i] = Tail(q)[j] => i = j
  <2>1. /\ DOMAIN Tail(q) = 1..(Len(q) - 1) /\ Head(q) = q[1]
        /\ Tail(q)[i] = q[i + 1] /\ Tail(q)[j] = q[j + 1]
    BY <1>1, <1>3
  <2> QED BY <1>1, <1>3, <2>1
<1>4. ASSUME NEW k \in DOMAIN q, NEW i \in DOMAIN RemoveAt(q, k), NEW j \in DOMAIN RemoveAt(q, k)
      PROVE  /\ RemoveAt(q, k)[i] # q[k] /\ \E m \in DOMAIN q : RemoveAt(q, k)[i] = q[m]
             /\ RemoveAt(q, k)[i] = RemoveAt(q, k)[j] => i = j
  <2>1. k \in 1..Len(q) BY <1>1
  <2>2. /\ SubSeq(q, 1, k - 1) \in Seq(Socket) /\ Len(SubSeq(q, 1, k - 1)) = k - 1
        /\ \A n \in 1..(k - 1) : SubSeq(q, 1, k - 1)[n] = q[n]
    BY <1>1, <2>1
  <2>3. /\ SubSeq(q, k + 1, Len(q)) \in Seq(Socket)
        /\ Len(SubSeq(q, k + 1, Len(q))) = Len(q) - k
        /\ \A n \in 1..(Len(q) - k) : SubSeq(q, k + 1, Len(q))[n] = q[k + n]
    BY <1>1, <2>1
  <2> DEFINE a == SubSeq(q, 1, k - 1)
             b == SubSeq(q, k + 1, Len(q))
  <2>4. RemoveAt(q, k) = a \o b BY DEF RemoveAt
  <2> HIDE DEF a, b
  <2>5. /\ DOMAIN (a \o b) = 1..(Len(q) - 1)
        /\ \A n \in 1..(Len(q) - 1) : (a \o b)[n] = IF n < k THEN a[n] ELSE b[n - k + 1]
    <3>1. a \in Seq(Socket) /\ b \in Seq(Socket) /\ Len(a) = k - 1 /\ Len(b) = Len(q) - k
      BY <2>2, <2>3 DEF a, b
    <3>2. /\ a \o b \in Seq(Socket) /\ Len(a \o b) = Len(q) - 1
          /\ \A n \in 1..(Len(q) - 1) :
               (a \o b)[n] = IF n <= Len(a) THEN a[n] ELSE b[n - Len(a)]
      <4>1. \A c, d \in Seq(Socket) :
              /\ c \o d \in Seq(Socket) /\ Len(c \o d) = Len(c) + Len(d)
              /\ \A n \in 1..(Len(c) + Len(d)) :
                   (c \o d)[n] = IF n <= Len(c) THEN c[n] ELSE d[n - Len(c)]
        OBVIOUS
      <4>2. Len(a) + Len(b) = Len(q) - 1 BY <1>1, <2>1, <3>1
      <4> QED BY <3>1, <4>1, <4>2
    <3>3. DOMAIN (a \o b) = 1..(Len(q) - 1) BY <3>2
    <3>4. \A n \in 1..(Len(q) - 1) : /\ n <= k - 1 <=> n < k
                                     /\ n - (k - 1) = n - k + 1
      BY <1>1, <2>1
    <3> QED BY <3>1, <3>2, <3>3, <3>4
  <2>6. \A n \in 1..(Len(q) - 1) : RemoveAt(q, k)[n] = IF n < k THEN q[n] ELSE q[n + 1]
    <3>1. \A n \in 1..(k - 1) : a[n] = q[n] BY <2>2 DEF a
    <3>2. \A n \in 1..(Len(q) - k) : b[n] = q[k + n] BY <2>3 DEF b
    <3>3. ASSUME NEW n \in 1..(Len(q) - 1), n >= k PROVE b[n - k + 1] = q[n + 1]
      <4>1. n - k + 1 \in 1..(Len(q) - k) /\ k + (n - k + 1) = n + 1 BY <1>1, <2>1, <3>3
      <4> QED BY <3>2, <4>1
    <3>4. ASSUME NEW n \in 1..(Len(q) - 1), n < k PROVE a[n] = q[n]
      BY <1>1, <2>1, <3>1, <3>4
    <3>5. ASSUME NEW n \in 1..(Len(q) - 1)
          PROVE  RemoveAt(q, k)[n] = IF n < k THEN q[n] ELSE q[n + 1]
      <4>0. (a \o b)[n] = IF n < k THEN a[n] ELSE b[n - k + 1] BY <2>5
      <4>1. CASE n < k
        <5>1. (a \o b)[n] = a[n] BY <4>0, <4>1, Zenon
        <5> QED BY <2>4, <3>4, <4>1, <5>1, Zenon
      <4>2. CASE n >= k
        <5>1. ~(n < k) BY <2>1, <4>2
        <5>2. (a \o b)[n] = b[n - k + 1] BY <4>0, <5>1, Zenon
        <5>3. b[n - k + 1] = q[n + 1] BY <3>3, <4>2, Zenon
        <5> QED BY <2>4, <5>1, <5>2, <5>3, Zenon
      <4> QED BY <1>1, <2>1, <4>1, <4>2
    <3> QED BY <3>5
  <2>7. i \in 1..(Len(q) - 1) /\ j \in 1..(Len(q) - 1) BY <1>4, <2>4, <2>5
  <2> DEFINE p == RemoveAt(q, k)
  <2>8. \A n \in 1..(Len(q) - 1) : p[n] = IF n < k THEN q[n] ELSE q[n + 1] BY <2>6
  <2> HIDE DEF p
  <2>9. p[i] # q[k] /\ (\E m \in DOMAIN q : p[i] = q[m]) /\ (p[i] = p[j] => i = j)
    <3> DEFINE at(n) == IF n < k THEN n ELSE n + 1
    <3>1. \A n \in 1..(Len(q) - 1) : at(n) \in DOMAIN q /\ at(n) # k /\ p[n] = q[at(n)]
      BY <1>1, <2>1, <2>8
    <3>2. at(i) = at(j) => i = j BY <1>1, <2>1, <2>7
    <3> HIDE DEF at
    <3>3. at(i) \in DOMAIN q /\ at(i) # k /\ p[i] = q[at(i)] BY <2>7, <3>1
    <3>4. at(j) \in DOMAIN q /\ at(j) # k /\ p[j] = q[at(j)] BY <2>7, <3>1
    <3>5. p[i] # q[k] BY <1>4, <3>3
    <3>6. p[i] = p[j] => i = j BY <3>2, <3>3, <3>4
    <3> QED BY <3>3, <3>5, <3>6
  <2> QED BY <2>9 DEF p
<1>5. \A s \in Socket : (\A i \in DOMAIN q : q[i] # s) =>
        /\ \A i, j \in DOMAIN Append(q, s) : Append(q, s)[i] = Append(q, s)[j] => i = j
        /\ \A i \in DOMAIN Append(q, s) :
             Append(q, s)[i] = s \/ \E k \in DOMAIN q : Append(q, s)[i] = q[k]
  BY <1>2
<1>6. \A k \in DOMAIN q : \A i \in DOMAIN RemoveAt(q, k) :
        /\ RemoveAt(q, k)[i] # q[k] /\ \E m \in DOMAIN q : RemoveAt(q, k)[i] = q[m]
        /\ \A j \in DOMAIN RemoveAt(q, k) : RemoveAt(q, k)[i] = RemoveAt(q, k)[j] => i = j
  BY <1>4
<1> QED BY <1>3, <1>5, <1>6

\* No socket comes to be gone with something left of it, and nothing is put in a map
\* for one that is.
LEMMA ForgetStep ==
  ASSUME DeliveryInv, ConnTyped, ForgetInv, [Next]_vars
  PROVE  ForgetInv'
<1> DEFINE Same == UNCHANGED <<connected, bySender, awaiting, late>>
<1>1. issuance \in [Socket -> Entry] /\ sock \in [Socket -> SockState]
      /\ auth \in [Socket -> AuthState] /\ awaiting \in Seq(Socket)
  BY DEF DeliveryInv, MapsTyped, ConnTyped
<1>2. Len(awaiting) \in Nat /\ DOMAIN awaiting = 1..Len(awaiting) BY <1>1
<1>3. ASSUME Same, UNCHANGED auth,
             \A s \in Socket : issuance'[s] \in {issuance[s], NoExchange},
             \A s \in Socket : Gone(s)' => Gone(s)
      PROVE  ForgetInv'
  BY <1>3 DEF ForgetInv, Waiting
<1>4. ASSUME NEW s \in Socket, Open(s) \/ Drop(s) PROVE ForgetInv'
  <2>1. Same /\ UNCHANGED auth /\ UNCHANGED issuance BY <1>4 DEF Open, Drop, server
  <2>2. \A t \in Socket : Gone(t)' => Gone(t)
    BY <1>1, <1>4 DEF Open, Drop, Gone
  <2> QED BY <1>3, <2>1, <2>2
<1>5. ASSUME NEW s \in Socket, Close(s) PROVE ForgetInv'
  <2>1. /\ UNCHANGED auth /\ bySender' = bySender \ {s}
        /\ connected' = (IF s \in bySender THEN 0 ELSE connected)
        /\ issuance' = [issuance EXCEPT ![s] = NoExchange]
        /\ sock' = [sock EXCEPT ![s] = "closed"]
        /\ late' = IF auth[s] \in {"none", "done"} THEN late ELSE late \cup {s}
    BY <1>5 DEF Close, Unfile
  <2>2. /\ \A i, j \in DOMAIN awaiting' : awaiting'[i] = awaiting'[j] => i = j
        /\ \A i \in DOMAIN awaiting' : awaiting'[i] # s
                                       /\ \E k \in DOMAIN awaiting : awaiting'[i] = awaiting[k]
    <3>1. CASE s \notin Waiting /\ awaiting' = awaiting BY <3>1 DEF Waiting, ForgetInv
    <3>2. CASE \E i \in DOMAIN awaiting : awaiting[i] = s /\ awaiting' = RemoveAt(awaiting, i)
      BY <1>1, <3>2, QueueOnce DEF ForgetInv
    <3> QED BY <1>5, <3>1, <3>2 DEF Close, Unfile
  <2>3. ASSUME NEW t \in Socket, Gone(t)'
        PROVE  /\ t \notin bySender' \cup Waiting' /\ issuance'[t] = NoExchange
               /\ auth'[t] \in {"none", "done"}
    <3>1. CASE t = s
      <4>1. auth[s] \in {"none", "done"} BY <2>1, <2>3, <3>1 DEF Gone
      <4> QED BY <1>1, <2>1, <2>2, <3>1, <4>1 DEF Waiting
    <3>2. CASE t # s
      <4>1. Gone(t) BY <1>1, <2>1, <2>3, <3>2 DEF Gone
      <4>2. t \notin Waiting' BY <2>2, <4>1 DEF ForgetInv, Waiting
      <4> QED BY <1>1, <2>1, <3>2, <4>1, <4>2 DEF ForgetInv
    <3> QED BY <3>1, <3>2
  <2>4. connected' # 0 => connected' \in bySender' BY <2>1 DEF ForgetInv
  <2>5. \A i \in DOMAIN awaiting' : auth'[awaiting'[i]] = "done" BY <2>1, <2>2 DEF ForgetInv
  <2> QED BY <2>2, <2>3, <2>4, <2>5 DEF ForgetInv
<1>6. ASSUME NEW s \in Socket, Handshake(s) PROVE ForgetInv'
  <2>1. PICK a \in AuthState : auth' = [auth EXCEPT ![s] = a]
    BY <1>6 DEF Handshake, Prove, LookUp, Seat, FindPending, Create, File, AuthState
  <2>2. UNCHANGED <<sock, late, issuance>>
    BY <1>6 DEF Handshake, Prove, LookUp, Seat, FindPending, Create, File
  <2>3. ~Gone(s) /\ auth[s] # "done"
    BY <1>6 DEF Handshake, Prove, LookUp, Seat, FindPending, Create, File, Gone, ForgetInv
  <2>4. s \notin Waiting BY <2>3 DEF Waiting, ForgetInv
  <2>5. \/ awaiting' = awaiting
        \/ awaiting' = Append(awaiting, s) /\ a = "done"
    BY <1>1, <1>6, <2>1 DEF Handshake, Prove, LookUp, Seat, FindPending, Create, File
  <2>6. \/ UNCHANGED <<connected, bySender>>
        \/ connected' = s /\ bySender' = bySender \cup {s}
    BY <1>6 DEF Handshake, Prove, LookUp, Seat, FindPending, Create, File
  <2>7. /\ \A i, j \in DOMAIN awaiting' : awaiting'[i] = awaiting'[j] => i = j
        /\ \A i \in DOMAIN awaiting' :
             \/ awaiting'[i] = s /\ a = "done"
             \/ \E k \in DOMAIN awaiting : awaiting'[i] = awaiting[k]
    <3>1. \A i \in DOMAIN awaiting : awaiting[i] # s BY <2>4 DEF Waiting
    <3>2. CASE awaiting' = awaiting BY <3>2 DEF ForgetInv
    <3>3. CASE awaiting' = Append(awaiting, s) /\ a = "done"
      BY <1>1, <3>1, <3>3, QueueOnce DEF ForgetInv
    <3> QED BY <2>5, <3>2, <3>3
  <2>8. \A i \in DOMAIN awaiting' : auth'[awaiting'[i]] = "done"
    BY <1>1, <2>1, <2>3, <2>7 DEF ForgetInv
  <2>9. ASSUME NEW t \in Socket, Gone(t)'
        PROVE  /\ t \notin bySender' \cup Waiting' /\ issuance'[t] = NoExchange
               /\ auth'[t] \in {"none", "done"}
    <3>1. Gone(t) /\ t # s BY <2>2, <2>3, <2>9 DEF Gone
    <3>2. t \notin Waiting' BY <2>7, <3>1 DEF ForgetInv, Waiting
    <3> QED BY <1>1, <2>1, <2>2, <2>6, <3>1, <3>2 DEF ForgetInv
  <2> QED BY <2>6, <2>7, <2>8, <2>9 DEF ForgetInv
<1>7. ASSUME NEW x \in Source, Deliver(x) PROVE ForgetInv'
  <2> DEFINE target == IF awaiting # <<>> THEN Head(awaiting) ELSE connected
  <2>1. UNCHANGED <<sock, auth, late>> BY <1>7 DEF Deliver
  <2>2. \/ awaiting = <<>> /\ UNCHANGED <<awaiting, connected, bySender>>
        \/ /\ awaiting # <<>> /\ awaiting' = Tail(awaiting)
           /\ \/ UNCHANGED <<connected, bySender>>
              \/ connected' = target /\ bySender' = bySender \cup {target}
    BY <1>7 DEF Deliver
  <2>3. \A t \in Socket : issuance'[t] = issuance[t] \/ (t = target /\ target # 0)
    BY <1>1, <1>7 DEF Deliver, StartIssuance
  <2>4. target \in Socket => ~Gone(target)
    BY <1>1, <1>2 DEF ForgetInv, Waiting
  <2> HIDE DEF target
  <2>5. /\ \A i, j \in DOMAIN awaiting' : awaiting'[i] = awaiting'[j] => i = j
        /\ \A i \in DOMAIN awaiting' : \E k \in DOMAIN awaiting : awaiting'[i] = awaiting[k]
    <3>1. CASE awaiting' = awaiting BY <3>1 DEF ForgetInv
    <3>2. CASE awaiting # <<>> /\ awaiting' = Tail(awaiting)
      BY <1>1, <3>2, QueueOnce DEF ForgetInv
    <3> QED BY <2>2, <3>1, <3>2
  <2>6. ASSUME NEW t \in Socket, Gone(t)'
        PROVE  /\ t \notin bySender' \cup Waiting' /\ issuance'[t] = NoExchange
               /\ auth'[t] \in {"none", "done"}
    <3>1. Gone(t) /\ t # target BY <2>1, <2>4, <2>6 DEF Gone
    <3>2. t \notin Waiting' BY <2>5, <3>1 DEF ForgetInv, Waiting
    <3> QED BY <2>1, <2>2, <2>3, <3>1, <3>2 DEF ForgetInv
  <2>7. connected' # 0 => connected' \in bySender' BY <2>2 DEF ForgetInv
  <2>8. \A i \in DOMAIN awaiting' : auth'[awaiting'[i]] = "done" BY <2>1, <2>5 DEF ForgetInv
  <2> QED BY <2>5, <2>6, <2>7, <2>8 DEF ForgetInv
<1>8. CASE Crash
  <2>1. /\ connected' = 0 /\ bySender' = {} /\ awaiting' = <<>>
        /\ issuance' = [s \in Socket |-> NoExchange] /\ auth' = [s \in Socket |-> "none"]
    BY <1>8 DEF Crash
  <2>2. DOMAIN awaiting' = {} BY <2>1
  <2> QED BY <2>1, <2>2 DEF ForgetInv, Waiting
<1>9. ASSUME NEW t \in Socket,
             CapabilityRequest(t) \/ ClientReceive(t) \/ Exchange(t) \/ FailIssuance(t)
      PROVE  ForgetInv'
  <2>1. Same /\ UNCHANGED <<sock, auth>>
    BY <1>9 DEF CapabilityRequest, ClientReceive, Exchange, CertChallenge, Complete, Persist,
       MarkDelivered, FailIssuance, server
  <2>2. issuance' \in {issuance, [issuance EXCEPT ![t] = NoExchange]}
    BY <1>9 DEF CapabilityRequest, ClientReceive, Exchange, CertChallenge, Complete, Persist,
       MarkDelivered, FailIssuance, server
  <2>3. \A s \in Socket : Gone(s)' => Gone(s) BY <2>1 DEF Gone
  <2>4. \A s \in Socket : issuance'[s] \in {issuance[s], NoExchange} BY <1>1, <2>2
  <2> QED BY <1>3, <2>1, <2>3, <2>4
<1>10. ASSUME NEW r \in Reg,
              \/ \E d \in {"approve", "deny"} : ReadRow(r, d)
              \/ Admin(r) \/ ApproveElsewhere(r)
       PROVE  ForgetInv'
  <2>1. Same /\ UNCHANGED <<sock, auth, issuance>>
    BY <1>10 DEF ReadRow, Admin, UpsertActor, Approve, Deny, ApproveElsewhere, server
  <2>2. \A s \in Socket : Gone(s)' => Gone(s) BY <2>1 DEF Gone
  <2> QED BY <1>3, <2>1, <2>2
<1>11. ASSUME SweepQuery \/ SweepPick \/ \E x \in Source : FindGrant(x) PROVE ForgetInv'
  <2>1. Same /\ UNCHANGED <<sock, auth, issuance>>
    BY <1>11 DEF SweepQuery, SweepPick, FindGrant
  <2>2. \A s \in Socket : Gone(s)' => Gone(s) BY <2>1 DEF Gone
  <2> QED BY <1>3, <2>1, <2>2
<1>12. CASE UNCHANGED vars
  <2>1. Same /\ UNCHANGED <<sock, auth, issuance>> BY <1>12 DEF vars, server
  <2>2. \A s \in Socket : Gone(s)' => Gone(s) BY <2>1 DEF Gone
  <2> QED BY <1>3, <2>1, <2>2
<1> QED BY <1>4, <1>5, <1>6, <1>7, <1>8, <1>9, <1>10, <1>11, <1>12 DEF Next, Delivery

\* Nothing refers to a socket once handleClose has run, but for one whose handshake
\* was awaiting then: no delivery picks a connection that is gone, over any number of
\* sockets, approvals, sweeps and restarts (handleClose, deliverApprovedCapabilities).
THEOREM ClosedAreForgotten == Spec => []ClosedIsForgotten
<1>1. Init => ConnTyped
  <2>1. <<>> \in Seq(Socket) OBVIOUS
  <2> QED BY <2>1, SocketFacts DEF Init, ConnTyped, SockState, AuthState
<1>2. Init => ForgetInv
  <2> SUFFICES ASSUME Init PROVE ForgetInv OBVIOUS
  <2>1. DOMAIN awaiting = {} BY DEF Init
  <2> QED BY <2>1 DEF Init, ForgetInv, Waiting
<1>3. ConnTyped /\ [Next]_vars => ConnTyped' BY ConnStep
<1>4. DeliveryInv /\ ConnTyped /\ ForgetInv /\ [Next]_vars => ForgetInv' BY ForgetStep
<1>5. ForgetInv => ClosedIsForgotten
  BY SocketFacts, DeliveryAssumption DEF ForgetInv, ClosedIsForgotten, Gone, Socket
<1> QED BY <1>1, <1>2, <1>3, <1>4, <1>5, DeliveryInvariant, PTL DEF Spec

=============================================================================
