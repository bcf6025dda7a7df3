----------------------------- MODULE SignInProofs -----------------------------
(***************************************************************************)
(* Proofs about SignIn: whoever registers at the same time, there is one   *)
(* bootstrap administrator; an onboarding that can be traded for a session *)
(* left nothing out; and registration without an invitation ends when the  *)
(* attempts from before the first human have waited as long as they can.   *)
(***************************************************************************)
EXTENDS SignIn, FiniteSetTheorems, WellFoundedInduction, TLAPS

\* A handler that registers its holder, and one that has nothing left to write but the
\* bootstrap certificate.
Registering(p) == at[p] \in {"look", "create", "mark", "bind", "grant", "boot", "issue"}
Settled(p) == at[p] \in {"boot", "issue"} \/ row[p].st = "done"

\* What a page's attempt rests on.
RowInv(p) ==
  /\ at[p] \in {"idle", "record"} => row[p].age <= Ttl
  /\ at[p] \in {"listen", "dial", "greet", "round"} => p \in Wallets
  /\ at[p] = "idle" /\ p \in Wallets => row[p].st = "done" \/ row[p].kind = "none"
  /\ Registering(p) => row[p].kind = "register" /\ row[p].st = "step1"
  /\ row[p].kind = "login" => row[p].link = 0
  /\ row[p].st # "failed" => row[p].kind # "none"
  /\ at[p] \in {"look", "mark", "bind", "grant"} => row[p].link # 0

\* An attempt without an invitation saw no human: since there is one, its handler was at an
\* operation of its own, or it waited for its person, as far as that goes.
DoorInv(p) == Walks(p) =>
  /\ at[p] \in {"record", "listen"} => since <= row[p].slow
  /\ at[p] = "dial" => since + row[p].left <= Window + row[p].slow
  /\ at[p] = "greet" => since + row[p].left <= Window + Silence + row[p].slow
  /\ at[p] = "round" => since + row[p].left <= Window + 2 * Silence + row[p].slow
  /\ at[p] = "idle" => since <= row[p].age + row[p].slow
  /\ Registering(p) => since <= Patience(p) + row[p].slow

\* The writes of registerHumanFromInvitation, in their order.
HumanInv(p) == at[p] \in {"mark", "bind", "grant"} \/ Settled(p) => Holder[p] \in humans
RedeemInv(p) ==
  row[p].link # 0 =>
    /\ link[row[p].link].st # "unused"
    /\ at[p] \in {"bind", "grant"} \/ Settled(p) => link[row[p].link].st = "spent"
    /\ at[p] = "bind" => link[row[p].link].of # None
    /\ at[p] = "grant" \/ Settled(p) =>
         (link[row[p].link].of # None => bound[link[row[p].link].of] # None)
    /\ Settled(p) => <<row[p].link, Holder[p]>> \in grants

PageInv(p) == RowInv(p) /\ DoorInv(p) /\ HumanInv(p) /\ RedeemInv(p)

LinkInv == \A l \in Links: link[l].by \subseteq humans /\ (link[l].st = "spent" => link[l].by # {})
BoundInv == \A s \in Subjects: bound[s] # None => bound[s] \in humans
BootInv == boot = {} \/ \E d \in humans: boot = {d}
FirstInv == humans = {} => since = 0

SignInv ==
  /\ TypeOK /\ LinkInv /\ BoundInv /\ BootInv /\ FirstInv
  /\ \A p \in Pages: PageInv(p)

-----------------------------------------------------------------------------
(* Facts the actions share.                                                *)

Places == {"idle", "record", "listen", "dial", "greet", "round", "look", "create", "mark",
           "bind", "grant", "boot", "issue"}
Opened == {"asked", "open", "step1"}
LinkRow == [st: {"unused", "live", "spent", "gone"}, of: Subjects \union {None}, by: SUBSET Dids]

\* What the ledger and the invitations never take back.
Grows ==
  /\ humans \subseteq humans' /\ grants \subseteq grants'
  /\ \A l \in Links: link[l].st # "unused" =>
       /\ link'[l].st # "unused" /\ link'[l].of = link[l].of
       /\ link[l].st = "spent" => link'[l].st = "spent"
  /\ \A s \in Subjects: bound[s] # None => bound'[s] # None

\* The invitation of an attempt is one of the model's, and its subject, if it has one, is too.
LEMMA LinkOfRow ==
  ASSUME TypeOK, NEW p \in Pages, row[p].link # 0
  PROVE  /\ row[p].link \in Links /\ link[row[p].link] \in LinkRow
         /\ link[row[p].link].of # None => link[row[p].link].of \in Subjects
<1>1. row[p] \in Row BY DEF TypeOK
<1>2. row[p].link \in 0..NumLinks BY <1>1 DEF Row
<1>3. row[p].link \in Links BY <1>2, SignInAssumption DEF Links
<1>4. link[row[p].link] \in LinkRow BY <1>3 DEF TypeOK, LinkRow
<1> QED BY <1>3, <1>4 DEF LinkRow

\* A page that stands still keeps what its attempt rests on while the rest only grows.
LEMMA Undisturbed ==
  ASSUME TypeOK, NEW q \in Pages, PageInv(q),
         row'[q] = row[q], at'[q] = at[q], since' = since, Grows
  PROVE  PageInv(q)'
<1>1. RowInv(q)' /\ DoorInv(q)'
  BY DEF PageInv, RowInv, DoorInv, Registering, Walks, Patience
<1>2. Settled(q)' <=> Settled(q) BY DEF Settled
<1>3. HumanInv(q)' BY <1>2 DEF PageInv, HumanInv, Grows
<1>4. RedeemInv(q)'
  <2>1. SUFFICES ASSUME row[q].link # 0 PROVE RedeemInv(q)' BY DEF RedeemInv
  <2> DEFINE l == row[q].link
  <2>2. l \in Links /\ (link[l].of # None => link[l].of \in Subjects) BY <2>1, LinkOfRow
  <2>3. link[l].st # "unused" /\ link'[l].st # "unused" /\ link'[l].of = link[l].of
    BY <2>1, <2>2 DEF PageInv, RedeemInv, Grows
  <2>4. at[q] \in {"bind", "grant"} \/ Settled(q) => link'[l].st = "spent"
    BY <2>1, <2>2, <2>3 DEF PageInv, RedeemInv, Grows
  <2>5. at[q] = "bind" => link'[l].of # None BY <2>1, <2>3 DEF PageInv, RedeemInv
  <2>6. at[q] = "grant" \/ Settled(q) => (link'[l].of # None => bound'[link'[l].of] # None)
    BY <2>1, <2>2, <2>3 DEF PageInv, RedeemInv, Grows
  <2>7. Settled(q) => <<l, Holder[q]>> \in grants' BY <2>1 DEF PageInv, RedeemInv, Grows
  <2> QED BY <1>2, <2>3, <2>4, <2>5, <2>6, <2>7 DEF RedeemInv
<1> QED BY <1>1, <1>3, <1>4 DEF PageInv

\* The types of everything but the pages.
RestTyped ==
  /\ humans \subseteq Dids /\ mail \in humans \union {None}
  /\ link \in [Links -> LinkRow]
  /\ grants \subseteq Links \X Dids /\ boot \subseteq Dids
  /\ bound \in [Subjects -> Dids \union {None}]
  /\ minting \subseteq Subjects /\ sessions \subseteq humans
  /\ since \in 0..Longest + 1 /\ faults \in 0..MaxFaults

RestInv == RestTyped /\ LinkInv /\ BoundInv /\ BootInv /\ FirstInv

LEMMA Rest == ASSUME SignInv PROVE RestInv
  BY DEF SignInv, TypeOK, RestTyped, RestInv, LinkRow

\* A step of one page.
LEMMA OnePage ==
  ASSUME SignInv, NEW p \in Pages, NEW r \in Row, NEW a \in Places,
         row' = [row EXCEPT ![p] = r], at' = [at EXCEPT ![p] = a],
         a # "idle" => r.st \in Opened, a = "record" <=> r.st = "asked",
         since' = since, Grows, RestInv',
         row'[p] = r /\ at'[p] = a => PageInv(p)'
  PROVE  SignInv'
<1>1. TypeOK BY DEF SignInv
<1>2. row \in [Pages -> Row] /\ at \in [Pages -> Places]
  BY <1>1 DEF TypeOK, Places
<1>3. row' \in [Pages -> Row] /\ at' \in [Pages -> Places] BY <1>2
<1>4. row'[p] = r /\ at'[p] = a BY <1>2
<1>5. \A q \in Pages: q # p => row'[q] = row[q] /\ at'[q] = at[q] BY <1>2
<1>6. \A q \in Pages: /\ at'[q] \notin {"idle"} => row'[q].st \in Opened
                      /\ at'[q] = "record" <=> row'[q].st = "asked"
  BY <1>1, <1>4, <1>5 DEF TypeOK, Opened
<1>7. TypeOK' BY <1>3, <1>6 DEF TypeOK, RestInv, RestTyped, LinkRow, Places, Opened
<1>8. ASSUME NEW q \in Pages PROVE PageInv(q)'
  <2>1. CASE q = p BY <2>1, <1>4
  <2>2. CASE q # p
    <3>1. row'[q] = row[q] /\ at'[q] = at[q] BY <2>2, <1>5
    <3>2. PageInv(q) BY DEF SignInv
    <3> QED BY <3>1, <3>2, <1>1, Undisturbed
  <2> QED BY <2>1, <2>2
<1> QED BY <1>7, <1>8 DEF SignInv, RestInv

LEMMA NoRowTyped == NoRow \in Row
  BY SignInAssumption DEF NoRow, Row

\* A page whose row is gone rests on nothing.
LEMMA Gone ==
  ASSUME NEW p \in Pages, row'[p] = NoRow, at'[p] = "idle"
  PROVE  PageInv(p)'
<1>1. Ttl \in Nat /\ 0 <= Ttl BY SignInAssumption
<1> QED
  BY <1>1 DEF PageInv, RowInv, DoorInv, HumanInv, RedeemInv, Registering, Settled, NoRow, Walks

\* Nothing is written but a session of a human.
LEMMA RestKept ==
  ASSUME RestInv, UNCHANGED <<ledger, link, sso, since>>,
         sessions' \subseteq humans, faults' \in 0..MaxFaults
  PROVE  Grows /\ RestInv'
BY DEF RestInv, RestTyped, LinkInv, BoundInv, BootInv, FirstInv, Grows, ledger, sso, LinkRow

LEMMA FaultTyped == ASSUME RestInv, Faulty PROVE faults' \in 0..MaxFaults
  BY SignInAssumption DEF RestInv, RestTyped, Faulty

\* The end of a handler that throws.
LEMMA EndsStep ==
  ASSUME SignInv, NEW p \in Pages, Ends(p), since' = since, Grows, RestInv'
  PROVE  SignInv'
<1>1. row' = [row EXCEPT ![p] = NoRow] /\ at' = [at EXCEPT ![p] = "idle"] BY DEF Ends, Goto
<1>2. "idle" \in Places BY DEF Places
<1>3. row'[p] = NoRow /\ at'[p] = "idle" => PageInv(p)' BY Gone
<1>4. NoRow.st # "asked" BY DEF NoRow
<1> HIDE DEF Places
<1> QED BY <1>1, <1>2, <1>3, <1>4, NoRowTyped, OnePage

\* The handler goes on, its row as it was.
LEMMA GotoStep ==
  ASSUME SignInv, NEW p \in Pages, NEW a \in Places, Goto(p, a), UNCHANGED <<row, since>>,
         row[p].st \in {"open", "step1"}, a # "record", Grows, RestInv',
         row'[p] = row[p] /\ at'[p] = a => PageInv(p)'
  PROVE  SignInv'
<1>1. row \in [Pages -> Row] BY DEF SignInv, TypeOK
<1>2. row' = [row EXCEPT ![p] = row[p]] /\ row[p] \in Row BY <1>1
<1>3. at' = [at EXCEPT ![p] = a] /\ since' = since BY DEF Goto
<1>4. row[p].st \in Opened /\ row[p].st # "asked" BY DEF Opened
<1> QED BY <1>2, <1>3, <1>4, OnePage

\* An attempt that waited for its person, for the last time, waited no longer than it could.
LEMMA Waited ==
  ASSUME TypeOK, NEW p \in Pages, PageInv(p), Walks(p),
         at[p] \in {"idle", "round"} \/ Registering(p)
  PROVE  since <= Patience(p) + row[p].slow
<1>1. row[p] \in Row BY DEF TypeOK
<1>2. /\ since \in Nat /\ row[p].age \in Nat /\ row[p].left \in Nat /\ row[p].slow \in Nat
      /\ Ttl \in Nat /\ Window \in Nat /\ Silence \in Nat
  BY <1>1, SignInAssumption DEF TypeOK, Row
<1>3. CASE Registering(p) BY <1>3 DEF PageInv, DoorInv
<1>4. CASE at[p] = "round"
  <2>1. p \in Wallets BY <1>4 DEF PageInv, RowInv
  <2>2. since + row[p].left <= Window + 2 * Silence + row[p].slow
    BY <1>4 DEF PageInv, DoorInv
  <2> QED BY <1>2, <2>1, <2>2 DEF Patience
<1>5. CASE at[p] = "idle"
  <2>1. row[p].st # "done" /\ row[p].kind = "register" BY DEF Walks
  <2>2. CASE p \notin Wallets
    <3>1. since <= row[p].age + row[p].slow /\ row[p].age <= Ttl
      BY <1>5 DEF PageInv, DoorInv, RowInv
    <3> QED BY <1>2, <2>2, <3>1 DEF Patience
  <2> QED BY <1>5, <2>1, <2>2 DEF PageInv, RowInv
<1> QED BY <1>3, <1>4, <1>5

-----------------------------------------------------------------------------
(* The attempt.                                                            *)

\* A handler that begins to register, or goes on to.
LEMMA GoesOn ==
  ASSUME TypeOK, NEW p \in Pages, PageInv(p), at[p] \in {"idle", "round"} \/ Registering(p),
         row[p].st = "step1", row[p].kind = "register", row'[p] = row[p], since' = since,
         Registering(p)', at'[p] \in {"look", "mark", "bind", "grant"} => row[p].link # 0
  PROVE  RowInv(p)' /\ DoorInv(p)'
<1>1. /\ at'[p] \notin {"idle", "record", "listen", "dial", "greet", "round"}
  BY DEF Registering
<1>2. RowInv(p)' BY <1>1 DEF RowInv
<1>3. Walks(p)' <=> Walks(p) BY DEF Walks
<1>4. Walks(p) => since <= Patience(p) + row[p].slow BY Waited
<1>5. Patience(p)' = Patience(p) BY DEF Patience
<1>6. DoorInv(p)' BY <1>1, <1>3, <1>4, <1>5 DEF DoorInv
<1> QED BY <1>2, <1>6

LEMMA OpenKeeps ==
  ASSUME SignInv, NEW p \in Pages, NEW l \in 0..NumLinks, Open(p, l)
  PROVE  SignInv'
<1> DEFINE k == IF l # 0 \/ humans = {} THEN "register" ELSE "login"
           r == [NoRow EXCEPT !.kind = k, !.link = l, !.st = "asked"]
<1>0. RestInv /\ TypeOK BY Rest DEF SignInv
<1>1. r \in Row
  <2>1. k \in {"register", "login"} OBVIOUS
  <2> HIDE DEF k
  <2> QED BY <2>1, NoRowTyped DEF Row
<1>2. r.kind = k /\ r.link = l /\ r.st = "asked" /\ r.slow = 0 /\ r.age = 0
  <2> HIDE DEF k
  <2> QED BY DEF NoRow
<1>3. row' = [row EXCEPT ![p] = r] BY Zenon DEF Open
<1>4. at' = [at EXCEPT ![p] = "record"] /\ since' = since BY DEF Open, Goto
<1>5. Grows /\ RestInv'
  <2>1. UNCHANGED <<ledger, link, sso, since>> /\ sessions' \subseteq humans
        /\ faults' \in 0..MaxFaults
    BY <1>0 DEF Open, RestInv, RestTyped
  <2> QED BY <2>1, <1>0, RestKept
<1>6. ASSUME row'[p] = r, at'[p] = "record" PROVE PageInv(p)'
  <2>1. /\ row'[p].kind = k /\ row'[p].link = l /\ row'[p].st = "asked" /\ row'[p].slow = 0
        /\ row'[p].age = 0
    BY <1>6, <1>2, Zenon
  <2>2. RowInv(p)' BY <1>6, <2>1, SignInAssumption DEF RowInv, Registering
  <2>3. DoorInv(p)'
    <3>1. ASSUME k = "register", l = 0 PROVE since = 0 BY <3>1, <1>0 DEF RestInv, FirstInv
    <3> QED BY <1>6, <2>1, <3>1, <1>4 DEF DoorInv, Walks, Registering
  <2>4. ~Settled(p)' BY <1>6, <2>1 DEF Settled
  <2>5. HumanInv(p)' BY <1>6, <2>4 DEF HumanInv
  <2>6. l # 0 => link'[l].st # "unused" BY DEF Open
  <2>7. RedeemInv(p)' BY <1>6, <2>1, <2>4, <2>6 DEF RedeemInv
  <2> QED BY <2>2, <2>3, <2>5, <2>7 DEF PageInv
<1>7. "record" \in Places /\ "asked" \in Opened BY DEF Places, Opened
<1> HIDE DEF r
<1> QED BY <1>1, <1>2, <1>3, <1>4, <1>5, <1>6, <1>7, OnePage

\* A step on the way to the proof of the key: the row's status and its handler's timer.
LEMMA OnTheWay ==
  ASSUME SignInv, NEW p \in Pages, NEW r \in Row, NEW a \in Places,
         row' = [row EXCEPT ![p] = r], at' = [at EXCEPT ![p] = a],
         r.st \in {"open", "step1"}, row[p].st \in Opened,
         r.kind = row[p].kind, r.link = row[p].link, r.age = row[p].age,
         r.slow = row[p].slow,
         a \in {"listen", "dial", "greet", "round", "idle"}, a = "idle" <=> p \notin Wallets,
         a = "idle" => at[p] \in {"idle", "record"},
         UNCHANGED <<ledger, link, sso, sessions, since, faults>>,
         row'[p] = r /\ at'[p] = a => DoorInv(p)'
  PROVE  SignInv'
<1>0. RestInv /\ TypeOK /\ PageInv(p) BY Rest DEF SignInv
<1>1. row[p] \in Row BY <1>0 DEF TypeOK
<1>2. Grows /\ RestInv'
  <2>1. sessions' \subseteq humans /\ faults' \in 0..MaxFaults BY <1>0 DEF RestInv, RestTyped
  <2> QED BY <2>1, <1>0, RestKept
<1>3. ASSUME row'[p] = r, at'[p] = a PROVE PageInv(p)'
  <2>1. row[p].kind # "none" /\ (a = "idle" => r.age <= Ttl) BY <1>0 DEF PageInv, RowInv, Opened
  <2>2. RowInv(p)' BY <1>0, <1>3, <2>1 DEF PageInv, RowInv, Registering
  <2>3. DoorInv(p)' BY <1>3
  <2>4. ~Settled(p)' BY <1>3 DEF Settled
  <2>5. HumanInv(p)' BY <1>3, <2>4 DEF HumanInv
  <2>6. RedeemInv(p)'
    <3>1. row[p].link # 0 => link'[row[p].link].st # "unused" BY <1>0 DEF PageInv, RedeemInv
    <3> QED BY <3>1, <1>3, <2>4 DEF RedeemInv
  <2> QED BY <2>2, <2>3, <2>5, <2>6 DEF PageInv
<1>4. r.st \in Opened /\ r.st # "asked" /\ a # "record" BY DEF Opened
<1> QED BY <1>2, <1>3, <1>4, OnePage

\* The numbers of a page.
LEMMA PageNumbers ==
  ASSUME TypeOK, NEW p \in Pages
  PROVE  /\ row \in [Pages -> Row] /\ row[p] \in Row
         /\ since \in Nat /\ row[p].age \in Nat /\ row[p].left \in Nat /\ row[p].slow \in Nat
         /\ Ttl \in Nat /\ Window \in Nat /\ Silence \in Nat
<1>1. row[p] \in Row BY DEF TypeOK
<1> QED BY <1>1, SignInAssumption DEF TypeOK, Row

LEMMA RecordKeeps ==
  ASSUME SignInv, NEW p \in Pages, Record(p)
  PROVE  SignInv'
<1> DEFINE r == [row[p] EXCEPT !.st = "open", !.left = row[p].left]
           a == IF p \in Wallets THEN "listen" ELSE "idle"
<1>0. TypeOK /\ PageInv(p) BY DEF SignInv
<1>1. row \in [Pages -> Row] /\ row[p] \in Row /\ row[p].left \in Nat BY <1>0, PageNumbers
<1>2. row' = [row EXCEPT ![p] = r]
  <2>1. [row[p] EXCEPT !.st = "open"] = r BY <1>1 DEF Row
  <2> QED BY <1>1, <2>1 DEF Record, Set
<1>3. at' = [at EXCEPT ![p] = a] /\ at[p] = "record" BY DEF Record, Goto
<1>4. r \in Row /\ r.st = "open" /\ r.kind = row[p].kind /\ r.link = row[p].link
      /\ r.age = row[p].age /\ r.slow = row[p].slow
  BY <1>1 DEF Row
<1> HIDE DEF r
<1>5. row[p].st \in Opened BY <1>0, <1>3 DEF TypeOK, Opened
<1>6. UNCHANGED <<ledger, link, sso, sessions, since, faults>> BY DEF Record
<1>7. ASSUME row'[p] = r, at'[p] = a PROVE DoorInv(p)'
  <2>1. Walks(p)' => Walks(p) /\ since <= row[p].slow
    BY <1>0, <1>3, <1>4, <1>5, <1>7 DEF PageInv, DoorInv, Walks, Opened
  <2>2. at'[p] \in {"listen", "idle"} /\ since' = since BY <1>6, <1>7
  <2>3. Walks(p)' => since <= row[p].slow /\ since <= row[p].age + row[p].slow
    BY <1>0, <2>1, PageNumbers
  <2> QED BY <1>4, <1>7, <2>2, <2>3 DEF DoorInv, Registering
<1>8. a \in {"listen", "idle"} /\ (a = "idle" <=> p \notin Wallets) /\ a \in Places
  BY DEF Places
<1> HIDE DEF a
<1> QED BY <1>2, <1>3, <1>4, <1>5, <1>6, <1>7, <1>8, OnTheWay

\* A wallet that comes nearer: its timer is set, what it may take grows with it.
LEMMA NearerKeeps ==
  ASSUME SignInv, NEW p \in Pages, NEW st \in {"open", "step1"}, NEW n \in Nat,
         NEW a \in {"dial", "greet", "round"}, p \in Wallets,
         row' = [row EXCEPT ![p].st = st, ![p].left = n], Goto(p, a), row[p].st \in Opened,
         UNCHANGED <<ledger, link, sso, sessions, since, faults>>,
         Walks(p) => CASE a = "dial" -> since + n <= Window + row[p].slow
                       [] a = "greet" -> since + n <= Window + Silence + row[p].slow
                       [] a = "round" -> since + n <= Window + 2 * Silence + row[p].slow
  PROVE  SignInv'
<1> DEFINE r == [row[p] EXCEPT !.st = st, !.left = n]
<1>0. TypeOK BY DEF SignInv
<1>1. row \in [Pages -> Row] /\ row[p] \in Row BY <1>0, PageNumbers
<1>2. row' = [row EXCEPT ![p] = r] BY <1>1
<1>3. at' = [at EXCEPT ![p] = a] BY DEF Goto
<1>4. r \in Row /\ r.st = st /\ r.left = n /\ r.kind = row[p].kind /\ r.link = row[p].link
      /\ r.age = row[p].age /\ r.slow = row[p].slow
  BY <1>1 DEF Row
<1> HIDE DEF r
<1>5. ASSUME row'[p] = r, at'[p] = a PROVE DoorInv(p)'
  <2>1. Walks(p)' => Walks(p) BY <1>4, <1>5 DEF Walks, Opened
  <2>2. at'[p] = a /\ since' = since /\ row'[p].left = n /\ row'[p].slow = row[p].slow
    BY <1>4, <1>5
  <2> QED BY <2>1, <2>2 DEF DoorInv, Registering
<1>6. a \in Places /\ a # "idle" BY DEF Places
<1> QED BY <1>2, <1>3, <1>4, <1>5, <1>6, OnTheWay

LEMMA DialKeeps ==
  ASSUME SignInv, NEW p \in Pages, Listen(p) \/ Dial(p)
  PROVE  SignInv'
<1>0. TypeOK /\ PageInv(p) BY DEF SignInv
<1>1. /\ row \in [Pages -> Row] /\ row[p] \in Row /\ since \in Nat /\ row[p].left \in Nat
      /\ row[p].slow \in Nat /\ Window \in Nat /\ Silence \in Nat
  BY <1>0, PageNumbers
<1>2. at[p] \in {"listen", "dial"} /\ p \in Wallets
  BY <1>0 DEF Listen, Dial, PageInv, RowInv
<1>3. row[p].st \in {"open", "step1"} /\ row[p].st \in Opened
  BY <1>0, <1>2 DEF TypeOK, Opened
<1>4. UNCHANGED <<ledger, link, sso, sessions, since, faults>> BY DEF Listen, Dial
<1>5. ASSUME NEW n \in Nat, Set(p, "left", n)
      PROVE  row' = [row EXCEPT ![p].st = row[p].st, ![p].left = n]
  <2>1. [row[p] EXCEPT !.left = n] = [row[p] EXCEPT !.st = row[p].st, !.left = n]
    BY <1>1 DEF Row
  <2> QED BY <1>1, <1>5, <2>1 DEF Set
<1>6. CASE Listen(p)
  <2>1. Set(p, "left", Window) /\ Goto(p, "dial") /\ at[p] = "listen" BY <1>6 DEF Listen
  <2>2. Walks(p) => since + Window <= Window + row[p].slow
    BY <1>0, <1>1, <2>1 DEF PageInv, DoorInv
  <2>3. row' = [row EXCEPT ![p].st = row[p].st, ![p].left = Window] BY <1>1, <1>5, <2>1
  <2> QED BY <1>1, <1>2, <1>3, <1>4, <2>1, <2>2, <2>3, NearerKeeps
<1>7. CASE Dial(p)
  <2> DEFINE n == IF row[p].left < Silence THEN Silence ELSE row[p].left
  <2>1. Set(p, "left", n) /\ Goto(p, "greet") /\ at[p] = "dial" BY <1>7 DEF Dial
  <2>2. Walks(p) => since + row[p].left <= Window + row[p].slow
    BY <1>0, <2>1 DEF PageInv, DoorInv
  <2>3. n \in Nat /\ (Walks(p) => since + n <= Window + Silence + row[p].slow)
    BY <1>1, <2>2
  <2> HIDE DEF n
  <2>4. row' = [row EXCEPT ![p].st = row[p].st, ![p].left = n] BY <1>5, <2>1, <2>3
  <2> QED BY <1>2, <1>3, <1>4, <2>1, <2>3, <2>4, NearerKeeps
<1> QED BY <1>6, <1>7

LEMMA ChallengeKeeps ==
  ASSUME SignInv, NEW p \in Pages, Challenge(p)
  PROVE  SignInv'
<1>0. TypeOK /\ PageInv(p) BY DEF SignInv
<1>1. /\ row \in [Pages -> Row] /\ row[p] \in Row /\ since \in Nat /\ row[p].left \in Nat
      /\ row[p].slow \in Nat /\ Window \in Nat /\ Silence \in Nat
  BY <1>0, PageNumbers
<1>2. row[p].st \in Opened /\ row[p].st = "open" BY DEF Challenge, Opened
<1>3. UNCHANGED <<ledger, link, sso, sessions, since, faults>> BY DEF Challenge
<1>4. CASE p \in Wallets
  <2>1. /\ at[p] = "greet" /\ Goto(p, "round")
        /\ row' = [row EXCEPT ![p].st = "step1", ![p].left = Silence]
    BY <1>4 DEF Challenge
  <2>2. Walks(p) => since + row[p].left <= Window + Silence + row[p].slow
    BY <1>0, <2>1 DEF PageInv, DoorInv
  <2>3. Walks(p) => since + Silence <= Window + 2 * Silence + row[p].slow BY <1>1, <2>2
  <2> QED BY <1>1, <1>2, <1>3, <1>4, <2>1, <2>3, NearerKeeps
<1>5. CASE p \notin Wallets
  <2> DEFINE r == [row[p] EXCEPT !.st = "step1", !.left = row[p].left]
  <2>1. Set(p, "st", "step1") /\ at' = at BY <1>5 DEF Challenge
  <2>2. row' = [row EXCEPT ![p] = r]
    <3>1. [row[p] EXCEPT !.st = "step1"] = r BY <1>1 DEF Row
    <3> QED BY <1>1, <2>1, <3>1 DEF Set
  <2>3. r \in Row /\ r.st = "step1" /\ r.kind = row[p].kind /\ r.link = row[p].link
        /\ r.age = row[p].age /\ r.slow = row[p].slow
    BY <1>1 DEF Row
  <2> HIDE DEF r
  <2>4. at[p] = "idle" /\ at' = [at EXCEPT ![p] = "idle"]
    <3>1. at \in [Pages -> Places] BY <1>0 DEF TypeOK, Places
    <3>2. ~Registering(p) /\ at[p] \notin {"record", "listen", "dial", "greet", "round"}
      BY <1>0, <1>2, <1>5 DEF TypeOK, PageInv, RowInv
    <3>3. at[p] = "idle" BY <3>1, <3>2 DEF Places, Registering
    <3> QED BY <2>1, <3>1, <3>3
  <2>5. ASSUME row'[p] = r, at'[p] = "idle" PROVE DoorInv(p)'
    BY <1>0, <1>2, <1>3, <2>3, <2>4, <2>5 DEF PageInv, DoorInv, Walks, Registering
  <2>6. "idle" \in Places BY DEF Places
  <2> QED BY <1>2, <1>3, <1>5, <2>2, <2>3, <2>4, <2>5, <2>6, OnTheWay
<1> QED BY <1>4, <1>5

\* The handler knows its human: the next step is the bootstrap's, or the invitation's.
LEMMA RegisteredStep ==
  ASSUME SignInv, NEW p \in Pages, Goto(p, Registered(p)), UNCHANGED <<row, since>>,
         at[p] \in {"idle", "round"} \/ Registering(p),
         row[p].st = "step1", row[p].kind = "register",
         Grows, RestInv', Holder[p] \in humans'
  PROVE  SignInv'
<1> DEFINE a == Registered(p)
<1>0. TypeOK /\ PageInv(p) BY DEF SignInv
<1>1. a \in Places BY DEF Places, Registered
<1>2. ASSUME row'[p] = row[p], at'[p] = a PROVE PageInv(p)'
  <2>1. \/ at'[p] = "boot" /\ row[p].link = 0
        \/ at'[p] = "mark" /\ row[p].link # 0
    BY <1>2 DEF Registered
  <2>2. RowInv(p)' /\ DoorInv(p)' BY <1>0, <1>2, <2>1, GoesOn DEF Registering
  <2>4. HumanInv(p)' BY DEF HumanInv
  <2>3. RedeemInv(p)'
    <3>1. CASE row[p].link = 0 BY <3>1, <1>2 DEF RedeemInv
    <3>2. CASE row[p].link # 0
      <4>1. at'[p] = "mark" /\ ~Settled(p)' BY <2>1, <3>2, <1>2 DEF Settled
      <4>2. row[p].link \in Links /\ link[row[p].link].st # "unused"
        BY <3>2, <1>0, LinkOfRow DEF PageInv, RedeemInv
      <4>3. link'[row[p].link].st # "unused" BY <4>2 DEF Grows
      <4> QED BY <4>1, <4>3, <1>2 DEF RedeemInv
    <3> QED BY <3>1, <3>2
  <2> QED BY <2>2, <2>3, <2>4 DEF PageInv
<1>4. a # "record" BY DEF Registered
<1>3. Goto(p, a) /\ since' = since /\ row' = row OBVIOUS
<1> HIDE DEF a
<1> QED BY <1>1, <1>2, <1>3, <1>4, GotoStep

\* The handler goes on to a step before anything is written.
LEMMA EarlyStep ==
  ASSUME SignInv, NEW p \in Pages, NEW a \in {"look", "create"}, Goto(p, a),
         UNCHANGED <<row, since>>,
         at[p] \in {"idle", "round"} \/ Registering(p),
         row[p].st = "step1", row[p].kind = "register",
         a = "look" => row[p].link # 0, Grows, RestInv'
  PROVE  SignInv'
<1>0. TypeOK /\ PageInv(p) BY DEF SignInv
<1>1. a \in Places BY DEF Places
<1>2. ASSUME row'[p] = row[p], at'[p] = a PROVE PageInv(p)'
  <2>1. RowInv(p)' /\ DoorInv(p)' BY <1>0, <1>2, GoesOn DEF Registering
  <2>2. ~Settled(p)' BY <1>2 DEF Settled
  <2>3. HumanInv(p)' BY <2>2, <1>2 DEF HumanInv
  <2>4. RedeemInv(p)'
    <3>1. row[p].link # 0 => link'[row[p].link].st # "unused"
      BY <1>0, LinkOfRow DEF PageInv, RedeemInv, Grows
    <3> QED BY <3>1, <2>2, <1>2 DEF RedeemInv
  <2> QED BY <2>1, <2>3, <2>4 DEF PageInv
<1>3. since' = since /\ row' = row OBVIOUS
<1> QED BY <1>1, <1>2, <1>3, GotoStep

LEMMA EnsureStep ==
  ASSUME SignInv, NEW p \in Pages, Ensure(p), UNCHANGED <<row, since>>,
         at[p] \in {"idle", "round"} \/ Registering(p),
         row[p].st = "step1", row[p].kind = "register", Grows, RestInv'
  PROVE  SignInv'
<1>0. row' = row /\ since' = since OBVIOUS
<1>1. CASE Holder[p] \in humans
  <2>1. Goto(p, Registered(p)) /\ Holder[p] \in humans' BY <1>1 DEF Ensure, Grows
  <2> QED BY <2>1, <1>0, RegisteredStep
<1>2. CASE Holder[p] \notin humans
  <2>1. Goto(p, "create") BY <1>2 DEF Ensure
  <2> QED BY <2>1, <1>0, EarlyStep
<1> QED BY <1>1, <1>2

\* An attempt that has nothing left to write, and goes on to have even less.
LEMMA SettledStays ==
  ASSUME TypeOK, NEW p \in Pages, PageInv(p), Settled(p), since' = since, Grows,
         row'[p].kind = row[p].kind, row'[p].link = row[p].link, RowInv(p)', DoorInv(p)',
         at'[p] = "issue" => at[p] = "boot", at'[p] \in {"issue", "idle"}
  PROVE  PageInv(p)'
<1>1. RowInv(p)' /\ DoorInv(p)' OBVIOUS
<1>2. HumanInv(p)' BY DEF PageInv, HumanInv, Grows
<1>3. RedeemInv(p)'
  <2>1. SUFFICES ASSUME row[p].link # 0 PROVE RedeemInv(p)' BY DEF RedeemInv
  <2> DEFINE l == row[p].link
  <2>2. l \in Links /\ (link[l].of # None => link[l].of \in Subjects) BY <2>1, LinkOfRow
  <2>3. link[l].st = "spent" /\ link[l].st # "unused"
        /\ (link[l].of # None => bound[link[l].of] # None) /\ <<l, Holder[p]>> \in grants
    BY <2>1 DEF PageInv, RedeemInv
  <2>4. link'[l].st = "spent" /\ link'[l].of = link[l].of /\ <<l, Holder[p]>> \in grants'
    BY <2>2, <2>3 DEF Grows
  <2>5. link'[l].of # None => bound'[link'[l].of] # None BY <2>2, <2>3, <2>4 DEF Grows
  <2> QED BY <2>4, <2>5 DEF RedeemInv
<1> QED BY <1>1, <1>2, <1>3 DEF PageInv

\* An attempt that comes to its end, or has come to it.
LEMMA SettledStep ==
  ASSUME SignInv, NEW p \in Pages, NEW r \in Row,
         row' = [row EXCEPT ![p] = r], at' = [at EXCEPT ![p] = "idle"],
         r.kind = row[p].kind, r.link = row[p].link, r.age <= Ttl, r.st = "done",
         since' = since, Grows, RestInv',
         \/ Settled(p)
         \/ row[p].kind = "login" /\ Holder[p] \in humans
  PROVE  SignInv'
<1>0. TypeOK /\ PageInv(p) BY DEF SignInv
<1>5. "idle" \in Places BY DEF Places
<1>6. ASSUME row'[p] = r, at'[p] = "idle" PROVE PageInv(p)'
  <2>1. row'[p].kind = row[p].kind /\ row'[p].link = row[p].link BY <1>6
  <2>4. row[p].kind # "none" BY <1>0 DEF PageInv, RowInv, Settled, Registering
  <2>5. RowInv(p)' /\ DoorInv(p)'
    BY <1>0, <1>6, <2>1, <2>4 DEF PageInv, RowInv, DoorInv, Registering, Walks
  <2>2. CASE Settled(p) BY <1>0, <1>6, <2>1, <2>2, <2>5, SettledStays
  <2>3. CASE row[p].kind = "login" /\ Holder[p] \in humans
    <3>1. row[p].link = 0 BY <2>3, <1>0 DEF PageInv, RowInv
    <3>2. HumanInv(p)' BY <2>3 DEF HumanInv, Grows
    <3>3. RedeemInv(p)' BY <3>1, <2>1 DEF RedeemInv
    <3> QED BY <2>5, <3>2, <3>3 DEF PageInv
  <2> QED BY <2>2, <2>3
<1>7. "idle" # "record" /\ r.st # "asked" OBVIOUS
<1> QED BY <1>5, <1>6, <1>7, OnePage

LEMMA DoneStep ==
  ASSUME SignInv, NEW p \in Pages, NEW o \in BOOLEAN, Done(p, o),
         since' = since, Grows, RestInv',
         \/ Settled(p)
         \/ row[p].kind = "login" /\ Holder[p] \in humans
  PROVE  SignInv'
<1> DEFINE r == [row[p] EXCEPT !.st = "done", !.offer = o, !.left = 0, !.slow = 0]
<1>1. row \in [Pages -> Row] /\ row[p] \in Row BY DEF SignInv, TypeOK
<1>2. at' = [at EXCEPT ![p] = "idle"] BY DEF Done, Goto
<1>3. CASE Expired(row[p])
  <2>1. row' = [row EXCEPT ![p] = NoRow] BY <1>1, <1>3 DEF Done
  <2>2. Ends(p) BY <2>1 DEF Ends, Done
  <2> QED BY <2>2, EndsStep
<1>4. CASE ~Expired(row[p])
  <2>1. r \in Row /\ r.kind = row[p].kind /\ r.link = row[p].link /\ r.age = row[p].age
        /\ r.st = "done"
    BY <1>1 DEF Row
  <2>2. row' = [row EXCEPT ![p] = r] BY <1>1, <1>4 DEF Done
  <2>3. row[p].age <= Ttl BY <1>1, <1>4, SignInAssumption DEF Expired, Row
  <2> HIDE DEF r
  <2> QED BY <1>2, <2>1, <2>2, <2>3, SettledStep
<1> QED BY <1>3, <1>4

LEMMA ProveKeeps ==
  ASSUME SignInv, NEW p \in Pages, Prove(p)
  PROVE  SignInv'
<1>0. RestInv /\ TypeOK /\ PageInv(p) BY Rest DEF SignInv
<1>1. row[p] \in Row BY <1>0 DEF TypeOK
<1>2. since' = since /\ Grows /\ RestInv'
  <2>1. UNCHANGED <<ledger, link, sso, since>> /\ sessions' \subseteq humans
        /\ faults' \in 0..MaxFaults
    BY <1>0 DEF Prove, RestInv, RestTyped
  <2> QED BY <2>1, <1>0, RestKept
<1>3. row[p].st = "step1" /\ at[p] \in {"idle", "round"} BY DEF Prove
<1>4. CASE row[p].kind = "login" /\ Known(p)
  <2>1. Done(p, FALSE) BY <1>4 DEF Prove
  <2>2. Holder[p] \in humans BY <1>4 DEF Known
  <2> QED BY <2>1, <2>2, <1>2, <1>4, DoneStep
<1>5. CASE row[p].kind = "login" /\ ~Known(p)
  <2>1. Ends(p) BY <1>5 DEF Prove
  <2> QED BY <2>1, <1>2, EndsStep
<1>6. CASE row[p].kind # "login"
  <2>1. row[p].kind = "register" BY <1>0, <1>1, <1>3, <1>6 DEF PageInv, RowInv, Row
  <2>2. row' = row BY <1>6 DEF Prove
  <2>3. CASE row[p].link = 0
    <3>1. Ensure(p) BY <1>6, <2>3 DEF Prove
    <3> QED BY <3>1, <2>1, <2>2, <1>2, <1>3, EnsureStep
  <2>4. CASE row[p].link # 0
    <3>1. Goto(p, "look") BY <1>6, <2>4 DEF Prove
    <3> QED BY <3>1, <2>1, <2>2, <2>4, <1>2, <1>3, EarlyStep
  <2> QED BY <2>3, <2>4
<1> QED BY <1>4, <1>5, <1>6

\* A handler that is registering: its row is open, and a registration's.
LEMMA RegisteringRow ==
  ASSUME SignInv, NEW p \in Pages, Registering(p)
  PROVE  /\ row[p].st = "step1" /\ row[p].kind = "register"
         /\ row[p] \in Row /\ PageInv(p) /\ RestInv /\ TypeOK
<1>1. RestInv /\ TypeOK /\ PageInv(p) BY Rest DEF SignInv
<1>2. at[p] # "idle" BY DEF Registering
<1> QED BY <1>1, <1>2 DEF TypeOK, PageInv, RowInv

LEMMA LookKeeps ==
  ASSUME SignInv, NEW p \in Pages, Look(p)
  PROVE  SignInv'
<1>0. Registering(p) BY DEF Look, Registering
<1>1. row[p].st = "step1" /\ row[p].kind = "register" /\ RestInv
  BY <1>0, RegisteringRow
<1>2. since' = since /\ Grows /\ RestInv'
  <2>1. UNCHANGED <<ledger, link, sso, since>> /\ sessions' \subseteq humans
        /\ faults' \in 0..MaxFaults
    BY <1>1 DEF Look, RestInv, RestTyped
  <2> QED BY <2>1, <1>1, RestKept
<1>3. CASE Refused(p) BY <1>2, <1>3, EndsStep DEF Look
<1>4. CASE ~Refused(p)
  <2>1. Ensure(p) /\ row' = row BY <1>4 DEF Look
  <2> QED BY <2>1, <1>0, <1>1, <1>2, EnsureStep
<1> QED BY <1>3, <1>4

LEMMA CreateKeeps ==
  ASSUME SignInv, NEW p \in Pages, Create(p)
  PROVE  SignInv'
<1>0. Registering(p) BY DEF Create, Registering
<1>1. row[p].st = "step1" /\ row[p].kind = "register" /\ RestInv /\ TypeOK
  BY <1>0, RegisteringRow
<1>2. since' = since /\ UNCHANGED <<link, grants, boot, bound, minting, sessions, faults>>
  BY DEF Create, sso
<1>3. CASE Holder[p] \in humans \/ (Writes(p) /\ mail # None)
  <2>1. Ends(p) /\ UNCHANGED <<humans, mail>> BY <1>3 DEF Create
  <2>2. UNCHANGED <<ledger, link, sso, since>> /\ sessions' \subseteq humans
        /\ faults' \in 0..MaxFaults
    BY <2>1, <1>1, <1>2 DEF RestInv, RestTyped, ledger, sso
  <2>3. Grows /\ RestInv' BY <2>2, <1>1, RestKept
  <2> QED BY <2>1, <2>3, <1>2, EndsStep
<1>4. CASE ~(Holder[p] \in humans \/ (Writes(p) /\ mail # None))
  <2>1. /\ humans' = humans \union {Holder[p]} /\ row' = row
        /\ mail' \in {mail, Holder[p]} /\ Goto(p, Registered(p))
    BY <1>4 DEF Create
  <2>2. Grows BY <2>1, <1>2 DEF Grows
  <2>3. RestTyped' BY <2>1, <1>1, <1>2, SignInAssumption DEF RestInv, RestTyped, LinkRow
  <2>4. LinkInv' /\ BoundInv' /\ BootInv'
    BY <2>1, <1>1, <1>2 DEF RestInv, LinkInv, BoundInv, BootInv
  <2>5. FirstInv' BY <2>1 DEF FirstInv
  <2>6. RestInv' /\ Holder[p] \in humans' BY <2>1, <2>3, <2>4, <2>5 DEF RestInv
  <2> QED BY <2>1, <2>2, <2>6, <1>0, <1>1, <1>2, RegisteredStep
<1> QED BY <1>3, <1>4

LEMMA MarkKeeps ==
  ASSUME SignInv, NEW p \in Pages, Mark(p)
  PROVE  SignInv'
<1> DEFINE l == row[p].link
<1>0. Registering(p) /\ at[p] = "mark" BY DEF Mark, Registering
<1>1. /\ row[p].st = "step1" /\ row[p].kind = "register"
      /\ RestInv /\ TypeOK /\ PageInv(p)
  BY <1>0, RegisteringRow
<1>2. /\ l # 0 /\ l \in Links /\ link[l] \in LinkRow /\ link[l].st # "unused"
      /\ Holder[p] \in humans
  BY <1>0, <1>1, LinkOfRow DEF PageInv, RowInv, RedeemInv, HumanInv
<1>3. since' = since /\ UNCHANGED <<humans, mail, grants, boot, bound, minting, sessions, faults>>
  BY DEF Mark, sso, ledger
<1>4. CASE link[l].st = "gone"
  <2>1. Ends(p) /\ link' = link BY <1>4 DEF Mark
  <2>2. UNCHANGED <<ledger, link, sso, since>> /\ sessions' \subseteq humans
        /\ faults' \in 0..MaxFaults
    BY <2>1, <1>1, <1>3 DEF RestInv, RestTyped, ledger, sso
  <2>3. Grows /\ RestInv' BY <2>2, <1>1, RestKept
  <2> QED BY <2>1, <2>3, <1>3, EndsStep
<1>5. CASE link[l].st # "gone"
  <2> DEFINE n == [link[l] EXCEPT !.st = "spent", !.by = @ \union {Holder[p]}]
             a == IF link[l].of = None THEN "grant" ELSE "bind"
  <2>1. link \in [Links -> LinkRow] BY <1>1 DEF RestInv, RestTyped
  <2>2. link' = [link EXCEPT ![l] = n] /\ row' = row /\ Goto(p, a)
    BY <1>5, <1>2, <2>1 DEF Mark
  <2>3. /\ n \in LinkRow /\ n.st = "spent" /\ n.of = link[l].of
        /\ n.by = link[l].by \union {Holder[p]}
    BY <1>2, SignInAssumption DEF LinkRow
  <2> HIDE DEF n
  <2>4. link'[l] = n /\ \A k \in Links: k # l => link'[k] = link[k] BY <2>1, <2>2, <1>2
  <2>5. Grows BY <2>3, <2>4, <1>3 DEF Grows
  <2>6. link' \in [Links -> LinkRow] BY <2>1, <2>2, <2>3
  <2>7. LinkInv'
    <3>1. \A k \in Links: link[k].by \subseteq humans /\ (link[k].st = "spent" => link[k].by # {})
      BY <1>1 DEF RestInv, LinkInv
    <3>2. n.by \subseteq humans /\ n.by # {} BY <3>1, <1>2, <2>3
    <3> QED BY <3>1, <3>2, <2>4, <1>3 DEF LinkInv
  <2>8. RestInv' BY <2>6, <2>7, <1>1, <1>3 DEF RestInv, RestTyped, BoundInv, BootInv, FirstInv
  <2>9. a \in Places BY DEF Places
  <2>10. ASSUME row'[p] = row[p], at'[p] = a PROVE PageInv(p)'
    <3>1. at'[p] \in {"grant", "bind"} /\ (at'[p] = "grant" <=> link[l].of = None) BY <2>10
    <3>2. RowInv(p)' /\ DoorInv(p)'
      BY <1>0, <1>1, <1>2, <1>3, <2>10, <3>1, GoesOn DEF Registering
    <3>3. HumanInv(p)' BY <1>2, <1>3 DEF HumanInv
    <3>4. ~Settled(p)' BY <1>1, <2>10, <3>1 DEF Settled
    <3>5. RedeemInv(p)'
      BY <1>2, <2>3, <2>4, <2>10, <3>1, <3>4 DEF RedeemInv
    <3> QED BY <3>2, <3>3, <3>5 DEF PageInv
  <2>11. a # "record" OBVIOUS
  <2> HIDE DEF a
  <2> QED BY <1>1, <1>3, <2>2, <2>5, <2>8, <2>9, <2>10, <2>11, GotoStep
<1> QED BY <1>4, <1>5

LEMMA BindKeeps ==
  ASSUME SignInv, NEW p \in Pages, Bind(p)
  PROVE  SignInv'
<1> DEFINE l == row[p].link
           s == link[l].of
<1>0. Registering(p) /\ at[p] = "bind" BY DEF Bind, Registering
<1>1. /\ row[p].st = "step1" /\ row[p].kind = "register"
      /\ RestInv /\ TypeOK /\ PageInv(p)
  BY <1>0, RegisteringRow
<1>2. /\ l # 0 /\ l \in Links /\ link[l].st = "spent" /\ s # None /\ s \in Subjects
      /\ Holder[p] \in humans /\ bound \in [Subjects -> Dids \union {None}]
  BY <1>0, <1>1, LinkOfRow DEF PageInv, RowInv, RedeemInv, HumanInv, RestInv, RestTyped
<1>3. since' = since /\ UNCHANGED <<humans, mail, grants, boot, link, minting, sessions, faults>>
  BY DEF Bind, ledger
<1>4. Holder[p] \in Dids /\ Holder[p] # None BY SignInAssumption
<1>5. ASSUME Goto(p, "grant"), row' = row, Grows, RestInv', bound'[s] # None
      PROVE  SignInv'
  <2>1. "grant" \in Places BY DEF Places
  <2>2. ASSUME row'[p] = row[p], at'[p] = "grant" PROVE PageInv(p)'
    <3>1. RowInv(p)' /\ DoorInv(p)'
      BY <1>0, <1>1, <1>2, <1>3, <2>2, GoesOn DEF Registering
    <3>4. HumanInv(p)' BY <1>2, <1>3 DEF HumanInv
    <3>2. ~Settled(p)' BY <1>1, <2>2 DEF Settled
    <3>3. RedeemInv(p)' BY <1>2, <1>3, <1>5, <2>2, <3>2 DEF RedeemInv
    <3> QED BY <3>1, <3>3, <3>4 DEF PageInv
  <2> QED BY <1>1, <1>3, <1>5, <2>1, <2>2, GotoStep
<1>6. ASSUME bound' = bound PROVE Grows /\ RestInv'
  <2>1. UNCHANGED <<ledger, link, sso, since>> /\ sessions' \subseteq humans
        /\ faults' \in 0..MaxFaults
    BY <1>1, <1>3, <1>6 DEF RestInv, RestTyped, ledger, sso
  <2> QED BY <2>1, <1>1, RestKept
<1>7. CASE bound[s] # None
  <2>1. Goto(p, "grant") /\ row' = row /\ bound' = bound BY <1>7 DEF Bind
  <2> QED BY <2>1, <1>5, <1>6, <1>7
<1>8. CASE bound[s] = None /\ \E t \in Subjects: bound[t] = Holder[p]
  <2>1. Ends(p) /\ bound' = bound BY <1>8 DEF Bind
  <2> QED BY <2>1, <1>3, <1>6, EndsStep
<1>9. CASE bound[s] = None /\ ~\E t \in Subjects: bound[t] = Holder[p]
  <2>1. bound' = [bound EXCEPT ![s] = Holder[p]] /\ Goto(p, "grant") /\ row' = row
    BY <1>9 DEF Bind
  <2>2. bound'[s] = Holder[p] /\ \A t \in Subjects: t # s => bound'[t] = bound[t]
    BY <2>1, <1>2
  <2>3. Grows BY <1>3, <1>4, <2>2 DEF Grows
  <2>4. bound' \in [Subjects -> Dids \union {None}] BY <2>1, <1>2, <1>4
  <2>5. BoundInv' BY <1>1, <1>2, <1>3, <2>2 DEF RestInv, BoundInv
  <2>6. RestInv' BY <1>1, <1>3, <2>4, <2>5 DEF RestInv, RestTyped, LinkInv, BootInv, FirstInv
  <2> QED BY <2>1, <2>2, <2>3, <2>6, <1>4, <1>5
<1> QED BY <1>7, <1>8, <1>9

LEMMA GrantKeeps ==
  ASSUME SignInv, NEW p \in Pages, Grant(p)
  PROVE  SignInv'
<1> DEFINE l == row[p].link
<1>0. Registering(p) /\ at[p] = "grant" BY DEF Grant, Registering
<1>1. /\ row[p].st = "step1" /\ row[p].kind = "register"
      /\ RestInv /\ TypeOK /\ PageInv(p)
  BY <1>0, RegisteringRow
<1>2. /\ l # 0 /\ l \in Links /\ link[l].st = "spent" /\ Holder[p] \in humans
      /\ link[l].of # None => bound[link[l].of] # None
  BY <1>0, <1>1, LinkOfRow DEF PageInv, RowInv, RedeemInv, HumanInv
<1>3. /\ UNCHANGED <<row, humans, mail, link, boot, bound, minting, sessions, since, faults>>
      /\ grants' = grants \union {<<l, Holder[p]>>} /\ Goto(p, "boot")
  BY DEF Grant, sso
<1>4. Holder[p] \in Dids BY SignInAssumption
<1>5. Grows BY <1>3 DEF Grows
<1>6. RestInv'
  BY <1>1, <1>2, <1>3, <1>4 DEF RestInv, RestTyped, LinkInv, BoundInv, BootInv, FirstInv
<1>7. "boot" \in Places BY DEF Places
<1>8. ASSUME row'[p] = row[p], at'[p] = "boot" PROVE PageInv(p)'
  <2>1. RowInv(p)' /\ DoorInv(p)' BY <1>0, <1>1, <1>2, <1>3, <1>8, GoesOn DEF Registering
  <2>2. HumanInv(p)' BY <1>2, <1>3 DEF HumanInv
  <2>3. RedeemInv(p)' BY <1>2, <1>3, <1>8 DEF RedeemInv
  <2> QED BY <2>1, <2>2, <2>3 DEF PageInv
<1> QED BY <1>1, <1>3, <1>5, <1>6, <1>7, <1>8, GotoStep

LEMMA NeededKeeps ==
  ASSUME SignInv, NEW p \in Pages, Needed(p)
  PROVE  SignInv'
<1>0. Registering(p) /\ Settled(p) BY DEF Needed, Registering, Settled
<1>1. /\ row[p].st = "step1" /\ row[p].kind = "register"
      /\ RestInv /\ TypeOK /\ PageInv(p)
  BY <1>0, RegisteringRow
<1>2. since' = since /\ Grows /\ RestInv'
  <2>1. UNCHANGED <<ledger, link, sso, since>> /\ sessions' \subseteq humans
        /\ faults' \in 0..MaxFaults
    BY <1>1 DEF Needed, RestInv, RestTyped
  <2> QED BY <2>1, <1>1, RestKept
<1>3. CASE boot = {} /\ p \in Wallets
  <2>1. Goto(p, "issue") /\ row' = row /\ at[p] = "boot" BY <1>3 DEF Needed
  <2>2. "issue" \in Places BY DEF Places
  <2>3. ASSUME row'[p] = row[p], at'[p] = "issue" PROVE PageInv(p)'
    <3>1. RowInv(p)' /\ DoorInv(p)' BY <1>0, <1>1, <1>2, <2>3, GoesOn DEF Registering
    <3> QED BY <1>0, <1>1, <1>2, <2>1, <2>3, <3>1, SettledStays
  <2> QED BY <1>1, <1>2, <2>1, <2>2, <2>3, GotoStep
<1>4. CASE ~(boot = {} /\ p \in Wallets)
  <2>1. Done(p, boot = {}) /\ (boot = {}) \in BOOLEAN BY <1>4 DEF Needed
  <2> QED BY <2>1, <1>0, <1>2, DoneStep
<1> QED BY <1>3, <1>4

\* A second bootstrap certificate is not created, so the first one's holder stays alone.
LEMMA PersistKeeps ==
  ASSUME RestInv, NEW p \in Pages, Persist(p), Holder[p] \in humans,
         UNCHANGED <<humans, mail, grants, link, sso, sessions, since, faults>>
  PROVE  Grows /\ RestInv'
<1>1. Holder[p] \in Dids BY SignInAssumption
<1>2. Grows BY DEF Grows, sso
<1>3. BootInv' BY DEF Persist, BootInv, RestInv
<1>4. RestTyped' BY <1>1 DEF RestTyped, RestInv, Persist, sso
<1>5. LinkInv' /\ BoundInv' /\ FirstInv' BY DEF RestInv, LinkInv, BoundInv, FirstInv, sso
<1> QED BY <1>2, <1>3, <1>4, <1>5 DEF RestInv

LEMMA IssueKeeps ==
  ASSUME SignInv, NEW p \in Pages, Issue(p)
  PROVE  SignInv'
<1>0. Registering(p) /\ Settled(p) BY DEF Issue, Registering, Settled
<1>1. RestInv /\ PageInv(p) BY <1>0, RegisteringRow
<1>2. Holder[p] \in humans BY <1>0, <1>1 DEF PageInv, HumanInv
<1>3. since' = since /\ Grows /\ RestInv' BY <1>1, <1>2, PersistKeeps DEF Issue
<1>4. Done(p, FALSE) BY DEF Issue
<1> QED BY <1>0, <1>3, <1>4, DoneStep

\* The page that is done runs its round, or goes without.
LEMMA OfferStep ==
  ASSUME SignInv, NEW p \in Pages, row[p].st = "done", Set(p, "offer", FALSE), at' = at,
         since' = since, Grows, RestInv'
  PROVE  SignInv'
<1> DEFINE r == [row[p] EXCEPT !.offer = FALSE]
<1>0. TypeOK /\ PageInv(p) /\ Settled(p) BY DEF SignInv, Settled
<1>1. row \in [Pages -> Row] /\ row[p] \in Row BY <1>0 DEF TypeOK
<1>2. r \in Row BY <1>1 DEF Row
<1>3. row' = [row EXCEPT ![p] = r] BY <1>1 DEF Set
<1>4. at[p] = "idle" BY <1>0 DEF TypeOK
<1>5. at' = [at EXCEPT ![p] = "idle"] BY <1>0, <1>4 DEF TypeOK
<1>6. r.kind = row[p].kind /\ r.link = row[p].link /\ r.age = row[p].age /\ r.st = "done"
  BY <1>1 DEF Row
<1>7. r.age <= Ttl BY <1>0, <1>4, <1>6 DEF PageInv, RowInv
<1> HIDE DEF r
<1> QED BY <1>0, <1>2, <1>3, <1>5, <1>6, <1>7, SettledStep

LEMMA RoundKeeps ==
  ASSUME SignInv, NEW p \in Pages, Round(p) \/ NoRound(p)
  PROVE  SignInv'
<1>1. RestInv /\ PageInv(p) BY Rest DEF SignInv
<1>2. row[p].st = "done" /\ Set(p, "offer", FALSE) /\ at' = at /\ since' = since
  BY DEF Round, NoRound
<1>3. CASE Round(p)
  <2>1. Holder[p] \in humans BY <1>1, <1>2 DEF PageInv, HumanInv, Settled
  <2>2. Grows /\ RestInv' BY <1>1, <1>3, <2>1, PersistKeeps DEF Round
  <2> QED BY <1>2, <2>2, OfferStep
<1>4. CASE NoRound(p)
  <2>1. faults' \in 0..MaxFaults BY <1>1, <1>4, FaultTyped DEF NoRound
  <2>2. UNCHANGED <<ledger, link, sso, since>> /\ sessions' \subseteq humans
    BY <1>1, <1>4 DEF NoRound, RestInv, RestTyped
  <2>3. Grows /\ RestInv' BY <1>1, <2>1, <2>2, RestKept
  <2> QED BY <1>2, <2>3, OfferStep
<1> QED BY <1>3, <1>4

\* The steps that end an attempt: a session, a deadline, an operation that fails.
LEMMA EndKeeps ==
  ASSUME SignInv, NEW p \in Pages, Redeem(p) \/ Deadline(p) \/ Throw(p)
  PROVE  SignInv'
<1>1. RestInv /\ PageInv(p) BY Rest DEF SignInv
<1>2. Ends(p) /\ UNCHANGED <<ledger, link, sso, since>> BY DEF Redeem, Deadline, Throw
<1>3. faults' \in 0..MaxFaults
  BY <1>1, FaultTyped DEF Redeem, Deadline, Throw, RestInv, RestTyped
<1>4. sessions' \subseteq humans
  <2>1. sessions \subseteq humans BY <1>1 DEF RestInv, RestTyped
  <2>2. CASE Redeem(p)
    <3>1. Holder[p] \in humans BY <1>1, <2>2 DEF Redeem, PageInv, HumanInv, Settled
    <3> QED BY <2>1, <2>2, <3>1 DEF Redeem
  <2>3. CASE Deadline(p) \/ Throw(p) BY <2>1, <2>3 DEF Deadline, Throw
  <2> QED BY <2>2, <2>3
<1>5. Grows /\ RestInv' BY <1>1, <1>2, <1>3, <1>4, RestKept
<1> QED BY <1>2, <1>5, EndsStep

-----------------------------------------------------------------------------
(* Invitations.                                                            *)

Before == {ss \in Nat \X Nat: ss[1] < ss[2]}

LEMMA HasLeast ==
  ASSUME NEW S \in SUBSET Nat, S # {}
  PROVE  \E l \in S: \A k \in S: l <= k
<1>1. IsWellFoundedOn(Before, Nat)
  BY NatLessThanWellFounded, Zenon DEF Before, OpToRel
<1>2. PICK l \in S: \A k \in S: ~(<<k, l>> \in Before) BY <1>1, WFMin, Zenon
<1>3. ASSUME NEW k \in S PROVE l <= k
  <2>1. l \in Nat /\ k \in Nat OBVIOUS
  <2>2. <<k, l>> \notin Before BY <1>2
  <2>3. k < l => <<k, l>> \in Before BY <2>1 DEF Before
  <2> QED BY <2>1, <2>2, <2>3
<1> QED BY <1>3

\* The row an invitation is written to is one nobody was sent yet.
LEMMA NextLinkUnused ==
  ASSUME Unsent # {}
  PROVE  NextLink \in Links /\ link[NextLink].st = "unused"
<1>1. Unsent \subseteq Links BY DEF Unsent
<1>2. Unsent \in SUBSET Nat BY <1>1, SignInAssumption DEF Links
<1>3. \E l \in Unsent: \A k \in Unsent: l <= k BY <1>2, HasLeast
<1>4. NextLink \in Unsent BY <1>3 DEF NextLink
<1> QED BY <1>4 DEF Unsent

\* A step that touches no page.
LEMMA NoPage ==
  ASSUME SignInv, UNCHANGED <<row, at, since>>, Grows, RestInv'
  PROVE  SignInv'
<1>1. TypeOK' BY DEF SignInv, TypeOK, RestInv, RestTyped, LinkRow
<1>2. TypeOK /\ \A q \in Pages: PageInv(q) BY DEF SignInv
<1>3. ASSUME NEW q \in Pages PROVE PageInv(q)'
  <2>1. row'[q] = row[q] /\ at'[q] = at[q] /\ since' = since OBVIOUS
  <2> QED BY <1>2, <2>1, Undisturbed
<1> QED BY <1>1, <1>3 DEF SignInv, RestInv

\* A link is sent.
LEMMA SentKeeps ==
  ASSUME SignInv, NEW s \in Subjects \union {None}, Unsent # {},
         link' = [link EXCEPT ![NextLink] = Sent(s)], minting' \subseteq Subjects,
         UNCHANGED <<row, at, ledger, bound, sessions, since, faults>>
  PROVE  SignInv'
<1> DEFINE n == NextLink
<1>0. RestInv BY Rest
<1>1. n \in Links /\ link[n].st = "unused" BY NextLinkUnused
<1> HIDE DEF n
<1>2. link \in [Links -> LinkRow] BY <1>0 DEF RestInv, RestTyped
<1>3. link' = [link EXCEPT ![n] = Sent(s)] BY DEF n
<1>4. /\ Sent(s) \in LinkRow /\ Sent(s).st = "live" /\ Sent(s).by = {}
  BY DEF Sent, Unused, LinkRow
<1>5. link'[n] = Sent(s) /\ \A k \in Links: k # n => link'[k] = link[k] BY <1>1, <1>2, <1>3
<1>6. UNCHANGED <<humans, mail, grants, boot>> BY DEF ledger
<1>7. Grows BY <1>1, <1>5, <1>6 DEF Grows
<1>8. link' \in [Links -> LinkRow] BY <1>1, <1>2, <1>3, <1>4
<1>9. LinkInv' BY <1>0, <1>4, <1>5, <1>6 DEF RestInv, LinkInv
<1>10. RestInv' BY <1>0, <1>6, <1>8, <1>9 DEF RestInv, RestTyped, BoundInv, BootInv, FirstInv
<1> QED BY <1>7, <1>10, NoPage

LEMMA InviteKeeps ==
  ASSUME SignInv, Invite
  PROVE  SignInv'
<1>1. minting' \subseteq Subjects BY Rest DEF Invite, sso, RestInv, RestTyped
<1> QED BY <1>1, SentKeeps DEF Invite, sso

LEMMA SsoKeeps ==
  ASSUME SignInv, NEW s \in Subjects, SsoLogin(s) \/ SsoLink(s)
  PROVE  SignInv'
<1>0. RestInv BY Rest
<1>1. CASE SsoLink(s)
  <2>1. minting' \subseteq Subjects BY <1>0, <1>1 DEF SsoLink, RestInv, RestTyped
  <2> QED BY <1>1, <2>1, SentKeeps DEF SsoLink
<1>2. CASE SsoLogin(s) /\ bound[s] # None
  <2>1. bound[s] \in humans BY <1>0, <1>2 DEF RestInv, BoundInv
  <2>2. sessions' \subseteq humans BY <1>0, <1>2, <2>1 DEF SsoLogin, RestInv, RestTyped
  <2>3. UNCHANGED <<row, at, ledger, link, sso, since, faults>> BY <1>2 DEF SsoLogin, sso
  <2>4. faults' \in 0..MaxFaults BY <1>0, <2>3 DEF RestInv, RestTyped
  <2>5. Grows /\ RestInv' BY <1>0, <2>2, <2>3, <2>4, RestKept
  <2> QED BY <2>3, <2>5, NoPage
<1>3. CASE SsoLogin(s) /\ bound[s] = None
  <2> DEFINE After(l) == IF link[l].of = s /\ link[l].st = "live"
                          THEN [link[l] EXCEPT !.st = "gone"] ELSE link[l]
  <2>1. /\ link' = [l \in Links |-> After(l)] /\ minting' = minting \union {s}
        /\ UNCHANGED <<row, at, humans, mail, grants, boot, bound, sessions, since, faults>>
    BY <1>3 DEF SsoLogin, ledger
  <2>2. ASSUME NEW l \in Links
        PROVE  /\ After(l) \in LinkRow /\ After(l).of = link[l].of /\ After(l).by = link[l].by
               /\ link[l].st # "live" => After(l).st = link[l].st
               /\ link[l].st = "live" => After(l).st \in {"live", "gone"}
    <3>1. link[l] \in LinkRow BY <1>0 DEF RestInv, RestTyped
    <3> QED BY <3>1 DEF LinkRow
  <2> HIDE DEF After
  <2>3. \A l \in Links: link'[l] = After(l) BY <2>1
  <2>4. link' \in [Links -> LinkRow] BY <2>1, <2>2
  <2>5. Grows BY <2>1, <2>2, <2>3 DEF Grows
  <2>6. LinkInv'
    <3>1. ASSUME NEW l \in Links, link'[l].st = "spent" PROVE link[l].st = "spent"
      <4>1. link[l] \in LinkRow BY <1>0 DEF RestInv, RestTyped
      <4> QED BY <2>2, <2>3, <3>1, <4>1 DEF LinkRow
    <3> QED BY <1>0, <2>1, <2>2, <2>3, <3>1 DEF RestInv, LinkInv
  <2>7. RestInv' BY <1>0, <2>1, <2>4, <2>6 DEF RestInv, RestTyped, BoundInv, BootInv, FirstInv
  <2> QED BY <2>1, <2>5, <2>7, NoPage
<1> QED BY <1>1, <1>2, <1>3

-----------------------------------------------------------------------------
(* Crashes and time.                                                       *)

LEMMA CrashKeeps ==
  ASSUME SignInv, Crash
  PROVE  SignInv'
<1>0. RestInv /\ TypeOK BY Rest DEF SignInv
<1>1. /\ row' = [p \in Pages |-> IF at[p] = "idle" THEN row[p] ELSE NoRow]
      /\ at' = [p \in Pages |-> "idle"] /\ since' = since
      /\ minting' = {} /\ UNCHANGED <<humans, mail, grants, boot, link, bound, sessions>>
  BY DEF Crash, ledger
<1>2. Grows BY <1>1 DEF Grows
<1>3. faults' \in 0..MaxFaults BY <1>0, FaultTyped DEF Crash
<1>4. RestInv' BY <1>0, <1>1, <1>3 DEF RestInv, RestTyped, LinkInv, BoundInv, BootInv, FirstInv
<1>5. row' \in [Pages -> Row] /\ at' \in [Pages -> Places]
  BY <1>0, <1>1, NoRowTyped DEF TypeOK, Places
<1>6. \A q \in Pages: at'[q] = "idle" /\ row'[q].st # "asked"
  BY <1>0, <1>1 DEF TypeOK, NoRow
<1>7. TypeOK' BY <1>4, <1>5, <1>6 DEF TypeOK, RestInv, RestTyped, LinkRow, Places
<1>8. ASSUME NEW q \in Pages PROVE PageInv(q)'
  <2>1. CASE at[q] = "idle"
    <3>1. row'[q] = row[q] /\ at'[q] = at[q] BY <1>1, <2>1
    <3>2. PageInv(q) BY DEF SignInv
    <3> QED BY <1>0, <1>1, <1>2, <3>1, <3>2, Undisturbed
  <2>2. CASE at[q] # "idle"
    <3>1. row'[q] = NoRow /\ at'[q] = "idle" BY <1>1, <2>2
    <3> QED BY <3>1, Gone
  <2> QED BY <2>1, <2>2
<1> QED BY <1>4, <1>7, <1>8 DEF SignInv, RestInv

\* A row that gets older; nothing of its attempt but its numbers changes.
LEMMA OlderRow ==
  ASSUME TypeOK, NEW q \in Pages, Waits(q) => row[q].left > 0
  PROVE  /\ Older(q) \in Row /\ Older(q).kind = row[q].kind /\ Older(q).link = row[q].link
         /\ Older(q).st = row[q].st
         /\ Older(q).age = IF row[q].st = "asked" \/ Expired(row[q]) THEN row[q].age
                           ELSE row[q].age + 1
         /\ Older(q).left = IF Waits(q) THEN row[q].left - 1 ELSE row[q].left
         /\ Older(q).slow = IF q \in Busy THEN row[q].slow + 1 ELSE row[q].slow
<1> DEFINE age == IF row[q].st = "asked" \/ Expired(row[q]) THEN row[q].age ELSE row[q].age + 1
           left == IF Waits(q) THEN row[q].left - 1 ELSE row[q].left
           slow == IF q \in Busy THEN row[q].slow + 1 ELSE row[q].slow
<1>1. row[q] \in Row /\ row[q].age \in 0..Ttl + 1 BY DEF TypeOK, Row
<1>2. row[q].left \in Nat /\ row[q].slow \in Nat /\ Ttl \in Nat BY PageNumbers
<1>3. age \in 0..Ttl + 1 BY <1>1, <1>2 DEF Expired
<1>4. left \in Nat /\ slow \in Nat BY <1>2
<1>5. Older(q) = [row[q] EXCEPT !.age = age, !.left = left, !.slow = slow] BY <1>1 DEF Older, Row
<1> HIDE DEF age, left, slow
<1>6. /\ Older(q) \in Row /\ Older(q).kind = row[q].kind /\ Older(q).link = row[q].link
      /\ Older(q).st = row[q].st /\ Older(q).age = age /\ Older(q).left = left
      /\ Older(q).slow = slow
  BY <1>1, <1>3, <1>4, <1>5 DEF Row
<1> QED BY <1>6 DEF age, left, slow

\* A page's row when a tick has passed: gone, or older, and of no further use to a browser
\* once it has expired.
LEMMA TickRow ==
  ASSUME TypeOK, Tick, NEW q \in Pages
  PROVE  /\ at'[q] = at[q] /\ (Waits(q) => row[q].left > 0)
         /\ \/ row'[q] = NoRow /\ at[q] = "idle"
            \/ /\ row'[q] = Older(q)
               /\ at[q] = "idle" => ~Expired(Older(q)) \/ Expired(row[q])
<1> DEFINE opened == {p \in Pages: row[p] # NoRow}
           over == {p \in {o \in opened: Expired(Older(o)) /\ ~Expired(row[o])}: at[p] = "idle"}
<1>1. /\ at' = at /\ (Waits(q) => row[q].left > 0)
      /\ row' = [p \in Pages |-> IF p \in opened \ over THEN Older(p) ELSE NoRow]
  BY DEF Tick
<1>2. CASE q \in opened \ over BY <1>1, <1>2
<1>3. CASE q \notin opened
  <2>1. at[q] = "idle" BY <1>3 DEF TypeOK, NoRow
  <2> QED BY <1>1, <1>3, <2>1
<1>4. CASE q \in over BY <1>1, <1>4
<1> QED BY <1>2, <1>3, <1>4

\* What a tick does to the time there has been a human.
LEMMA TickSince ==
  ASSUME TypeOK, Tick
  PROVE  /\ since \in Nat /\ since' \in 0..Longest + 1
         /\ \A q \in Pages: Walks(q) => since' \in {since, since + 1}
<1>1. Longest \in Nat BY SignInAssumption DEF Longest
<1>2. since \in 0..Longest + 1 BY DEF TypeOK
<1>3. CASE humans = {} BY <1>1, <1>2, <1>3 DEF Tick
<1>4. CASE humans # {} /\ (since > Longest \/ ~\E p \in Pages: Walks(p))
  <2>1. since' = Longest + 1 BY <1>4 DEF Tick
  <2> QED BY <1>1, <1>2, <1>4, <2>1
<1>5. CASE humans # {} /\ ~(since > Longest) /\ \E p \in Pages: Walks(p)
  <2>1. since' = since + 1 BY <1>5 DEF Tick
  <2> QED BY <1>1, <1>2, <1>5, <2>1
<1> QED BY <1>3, <1>4, <1>5

\* An attempt grows older: what it waits for runs out as the time runs.
LEMMA OlderDoor ==
  ASSUME SignInv, Tick, NEW q \in Pages, row'[q] = Older(q), at'[q] = at[q]
  PROVE  DoorInv(q)'
<1> DEFINE r == Older(q)
<1>0. TypeOK /\ PageInv(q) BY DEF SignInv
<1>1. /\ row[q].age \in Nat /\ row[q].left \in Nat /\ row[q].slow \in Nat
      /\ Ttl \in Nat /\ Window \in Nat /\ Silence \in Nat
  BY <1>0, PageNumbers
<1>2. Waits(q) => row[q].left > 0 BY DEF Tick
<1>3. SUFFICES ASSUME Walks(q)' PROVE DoorInv(q)' BY DEF DoorInv
<1>4. Walks(q) BY <1>0, <1>2, <1>3, OlderRow DEF Walks
<1>5. since \in Nat /\ since' \in {since, since + 1} BY <1>0, <1>4, TickSince
<1>6. CASE at[q] \in {"record", "listen"} \/ Registering(q)
  <2>1. q \in Busy BY <1>6 DEF Busy, Waits, Registering
  <2>2. row'[q].slow = row[q].slow + 1 BY <1>0, <1>2, <2>1, OlderRow
  <2>3. Patience(q) \in Nat /\ Patience(q)' = Patience(q) BY <1>1 DEF Patience
  <2>4. Registering(q)' <=> Registering(q) BY DEF Registering
  <2>5. at[q] \notin {"dial", "greet", "round", "idle"} BY <1>6 DEF Registering
  <2>6. at[q] \in {"record", "listen"} => since' <= row'[q].slow
    BY <1>0, <1>1, <1>4, <1>5, <2>2 DEF PageInv, DoorInv
  <2>7. Registering(q) => since' <= Patience(q) + row'[q].slow
    BY <1>0, <1>1, <1>4, <1>5, <2>2, <2>3 DEF PageInv, DoorInv
  <2> QED BY <2>3, <2>4, <2>5, <2>6, <2>7 DEF DoorInv
<1>7. CASE at[q] \in {"dial", "greet", "round"}
  <2>1. Waits(q) /\ q \notin Busy BY <1>7 DEF Busy, Waits
  <2>2. row'[q].slow = row[q].slow /\ row'[q].left = row[q].left - 1
    BY <1>0, <1>2, <2>1, OlderRow
  <2>3. since' + row'[q].left <= since + row[q].left BY <1>1, <1>5, <2>2
  <2>4. row'[q].left \in Nat /\ since' \in Nat BY <1>1, <1>2, <1>5, <2>1, <2>2
  <2>5. ~Registering(q)' /\ at[q] \notin {"record", "listen", "idle"} BY <1>7 DEF Registering
  <2>6. /\ at[q] = "dial" => since' + row'[q].left <= Window + row'[q].slow
        /\ at[q] = "greet" => since' + row'[q].left <= Window + Silence + row'[q].slow
        /\ at[q] = "round" => since' + row'[q].left <= Window + 2 * Silence + row'[q].slow
    BY <1>0, <1>1, <1>4, <1>5, <2>2, <2>3, <2>4 DEF PageInv, DoorInv
  <2> QED BY <2>5, <2>6 DEF DoorInv
<1>8. CASE at[q] = "idle"
  <2>1. row[q].age <= Ttl /\ row[q].st # "asked" BY <1>0, <1>8 DEF PageInv, RowInv, TypeOK
  <2>2. q \notin Busy /\ ~Expired(row[q]) BY <1>1, <1>8, <2>1 DEF Busy, Expired
  <2>3. row'[q].age = row[q].age + 1 /\ row'[q].slow = row[q].slow
    BY <1>0, <1>2, <2>1, <2>2, OlderRow
  <2>4. since <= row[q].age + row[q].slow BY <1>0, <1>4, <1>8 DEF PageInv, DoorInv
  <2>5. ~Registering(q)' BY <1>8 DEF Registering
  <2> QED BY <1>1, <1>5, <1>8, <2>3, <2>4, <2>5 DEF DoorInv
<1>9. at[q] \in Places BY <1>0 DEF TypeOK, Places
<1> QED BY <1>6, <1>7, <1>8, <1>9 DEF Places, Registering

LEMMA TickKeeps ==
  ASSUME SignInv, Tick
  PROVE  SignInv'
<1>0. RestInv /\ TypeOK BY Rest DEF SignInv
<1>1. UNCHANGED <<humans, mail, grants, boot, link, bound, minting, sessions>> /\ at' = at
  BY DEF Tick, ledger, sso
<1>2. Grows BY <1>1 DEF Grows
<1>3. since' \in 0..Longest + 1 BY <1>0, TickSince
<1>4. faults' \in 0..MaxFaults BY <1>0, FaultTyped DEF Tick, RestInv, RestTyped
<1>5. FirstInv' BY <1>0, <1>1 DEF Tick, FirstInv, RestInv
<1>6. RestInv' BY <1>0, <1>1, <1>3, <1>4, <1>5 DEF RestInv, RestTyped, LinkInv, BoundInv, BootInv
<1>7. row' \in [Pages -> Row]
  <2>1. \A q \in Pages: row'[q] \in Row BY <1>0, TickRow, OlderRow, NoRowTyped
  <2>2. row' = [q \in Pages |-> row'[q]] BY DEF Tick
  <2> QED BY <2>1, <2>2
<1>8. ASSUME NEW q \in Pages
      PROVE  /\ at'[q] \notin {"idle"} => row'[q].st \in Opened
             /\ at'[q] = "record" <=> row'[q].st = "asked"
  <2>1. CASE row'[q] = NoRow /\ at[q] = "idle" BY <1>1, <2>1 DEF NoRow
  <2>2. CASE row'[q] = Older(q)
    <3>1. row'[q].st = row[q].st BY <1>0, <2>2, TickRow, OlderRow
    <3> QED BY <1>0, <1>1, <3>1 DEF TypeOK, Opened
  <2> QED BY <1>0, <2>1, <2>2, TickRow
<1>9. TypeOK'
  BY <1>0, <1>1, <1>6, <1>7, <1>8 DEF TypeOK, RestInv, RestTyped, LinkRow, Opened
<1>10. ASSUME NEW q \in Pages PROVE PageInv(q)'
  <2>1. CASE row'[q] = NoRow /\ at[q] = "idle" BY <2>1, <1>1, Gone
  <2>2. CASE row'[q] = Older(q) /\ (at[q] = "idle" => ~Expired(Older(q)) \/ Expired(row[q]))
    <3>1. /\ row'[q].kind = row[q].kind /\ row'[q].link = row[q].link
          /\ row'[q].st = row[q].st /\ at'[q] = at[q]
      BY <1>0, <1>1, <2>2, TickRow, OlderRow
    <3>2. PageInv(q) BY DEF SignInv
    <3>3. at[q] \in {"idle", "record"} => row'[q].age <= Ttl
      <4>1. row[q].age \in Nat /\ row'[q].age \in Nat /\ Ttl \in Nat
        BY <1>0, <1>7, PageNumbers DEF Row
      <4>2. at[q] = "record" => row'[q].age = row[q].age
        BY <1>0, <2>2, TickRow, OlderRow DEF TypeOK
      <4>3. at[q] \in {"idle", "record"} => row[q].age <= Ttl BY <3>2 DEF PageInv, RowInv
      <4> QED BY <2>2, <4>1, <4>2, <4>3 DEF Expired
    <3>4. RowInv(q)' BY <3>1, <3>2, <3>3 DEF PageInv, RowInv, Registering
    <3>5. DoorInv(q)' BY <2>2, <3>1, OlderDoor
    <3>6. HumanInv(q)' BY <1>1, <3>1, <3>2 DEF PageInv, HumanInv, Settled
    <3>7. RedeemInv(q)' BY <1>1, <3>1, <3>2 DEF PageInv, RedeemInv, Settled
    <3> QED BY <3>4, <3>5, <3>6, <3>7 DEF PageInv
  <2> QED BY <1>0, <2>1, <2>2, TickRow
<1> QED BY <1>6, <1>9, <1>10 DEF SignInv, RestInv

-----------------------------------------------------------------------------
(* The theorems.                                                           *)

LEMMA InitSound == Init => SignInv
<1> SUFFICES ASSUME Init PROVE SignInv OBVIOUS
<1>1. row \in [Pages -> Row] /\ at \in [Pages -> Places]
  BY NoRowTyped DEF Init, Places
<1>2. link \in [Links -> LinkRow] BY DEF Init, LinkRow, Unused
<1>3. TypeOK
  BY <1>1, <1>2, SignInAssumption DEF Init, TypeOK, Places, LinkRow, NoRow, Longest
<1>4. LinkInv /\ BoundInv /\ BootInv /\ FirstInv
  BY DEF Init, LinkInv, BoundInv, BootInv, FirstInv, Unused
<1>5. ASSUME NEW p \in Pages PROVE PageInv(p)
  <2>1. row[p] = NoRow /\ at[p] = "idle" BY DEF Init
  <2> QED
    BY <2>1, SignInAssumption
    DEF PageInv, RowInv, DoorInv, HumanInv, RedeemInv, Registering, Settled, NoRow, Walks
<1> QED BY <1>3, <1>4, <1>5 DEF SignInv

LEMMA StepSound == SignInv /\ [Next]_vars => SignInv'
<1> SUFFICES ASSUME SignInv, [Next]_vars PROVE SignInv' OBVIOUS
<1>1. ASSUME NEW p \in Pages, NEW l \in 0..NumLinks, Open(p, l) PROVE SignInv'
  BY <1>1, OpenKeeps
<1>2. ASSUME NEW p \in Pages, Attempt(p) PROVE SignInv'
  BY <1>2, RecordKeeps, DialKeeps, ChallengeKeeps, ProveKeeps, LookKeeps, CreateKeeps,
     MarkKeeps, BindKeeps, GrantKeeps, NeededKeeps, IssueKeeps, RoundKeeps, EndKeeps DEF Attempt
<1>3. ASSUME NEW p \in Pages, Deadline(p) \/ NoRound(p) \/ Throw(p) PROVE SignInv'
  BY <1>3, RoundKeeps, EndKeeps
<1>4. ASSUME NEW s \in Subjects, SsoLogin(s) \/ SsoLink(s) PROVE SignInv'
  BY <1>4, SsoKeeps
<1>5. CASE UNCHANGED vars
  <2>1. Grows BY <1>5 DEF vars, ledger, sso, Grows
  <2>2. RestInv'
    BY <1>5, Rest
    DEF vars, ledger, sso, RestInv, RestTyped, LinkInv, BoundInv, BootInv, FirstInv
  <2> QED BY <1>5, <2>1, <2>2, NoPage DEF vars
<1> QED BY <1>1, <1>2, <1>3, <1>4, <1>5, InviteKeeps, CrashKeeps, TickKeeps DEF Next

\* Whatever attempts, links, crashes and silences there are, every page's attempt rests on
\* what its handler wrote so far (registerHumanFromInvitation, ensureBootstrapAdmin).
THEOREM SignInInvariant == Spec => []SignInv
<1> QED BY InitSound, StepSound, PTL DEF Spec

\* The type invariant of SignIn.
THEOREM SignInTypeCorrect == Spec => []TypeOK
<1>1. SignInv => TypeOK BY DEF SignInv
<1> QED BY <1>1, SignInInvariant, PTL

\* ensureBootstrapAdmin and handleCertificateRequest: at most one human holds the bootstrap
\* certificate, however many register at the same time.
THEOREM OneBootstrapAdministrator == Spec => []OneAdministrator
<1>1. ASSUME SignInv PROVE OneAdministrator
  <2>1. CASE boot = {}
    <3>1. Cardinality(boot) = 0 BY <2>1, FS_EmptySet
    <3> QED BY <2>1, <3>1 DEF OneAdministrator
  <2>2. CASE \E d \in humans: boot = {d}
    <3>1. Cardinality(boot) = 1 BY <2>2, FS_Singleton
    <3> QED BY <2>2, <3>1 DEF OneAdministrator
  <2> QED BY <1>1, <2>1, <2>2 DEF SignInv, BootInv
<1> QED BY <1>1, SignInInvariant, PTL

\* registerHumanFromInvitation: an attempt that can be traded for a session has made every
\* write of its onboarding, and no invitation is spent on nobody.
THEOREM NothingLeftOut == Spec => []OnboardingIsWhole
<1>1. ASSUME SignInv PROVE OnboardingIsWhole
  <2>1. ASSUME NEW p \in Pages, row[p].st = "done"
        PROVE  /\ Holder[p] \in humans
               /\ row[p].link # 0 =>
                    /\ link[row[p].link].st = "spent" /\ <<row[p].link, Holder[p]>> \in grants
                    /\ link[row[p].link].of # None => bound[link[row[p].link].of] # None
    BY <1>1, <2>1 DEF SignInv, PageInv, HumanInv, RedeemInv, Settled
  <2> QED BY <1>1, <2>1 DEF OnboardingIsWhole, SignInv, LinkInv
<1> QED BY <1>1, SignInInvariant, PTL

\* user/connect, user/p2p-connect and startP2PSession: nobody registers without an invitation
\* once the attempts from before the first human have waited as long as they can, a
\* browser's for a time to live, a wallet's for a window and two rounds.
THEOREM DoorClosesInTheEnd == Spec => DoorCloses
<1>1. ASSUME SignInv, NEW p \in Pages, row[p].link = 0, at[p] = "create"
      PROVE  since <= Patience(p) + row[p].slow
  <2>1. Registering(p) BY <1>1 DEF Registering
  <2>2. TypeOK /\ PageInv(p) /\ row[p].st = "step1" /\ row[p].kind = "register"
    BY <1>1, <2>1, RegisteringRow
  <2>3. Walks(p) BY <1>1, <2>2 DEF Walks
  <2> QED BY <2>1, <2>2, <2>3, Waited
<1>2. SignInv => [\A p \in Pages: row[p].link = 0 /\ at[p] = "create" /\ at'[p] = "boot" =>
                    since <= Patience(p) + row[p].slow]_vars
  BY <1>1
<1> QED BY <1>2, SignInInvariant, PTL DEF DoorCloses
=============================================================================
