--------------------------- MODULE ReviewCardsProofs ---------------------------
(***************************************************************************)
(* What ReviewCards promises about what operators get to see, for any      *)
(* entities, processes, jobs and bounds: a card of the store, or a         *)
(* question about two entities, is hidden from them for ever only by a job *)
(* that dies before it publishes, or by themselves.                        *)
(*                                                                         *)
(* A job stores what it made before it publishes it, and decides before    *)
(* both what needs publishing.  The invariant is about that interval: what *)
(* a job is going to store and is not in the store yet, it is going to     *)
(* publish; and nothing leaves the store, so that what it decided stays    *)
(* right while others run.                                                 *)
(***************************************************************************)
EXTENDS ReviewCards, Judgements, FiniteSetTheorems, NaturalsInduction, WellFoundedInduction, TLAPS

-----------------------------------------------------------------------------
(* Sequences and rows.                                                     *)

\* The list of a finite set has every element of it.
LEMMA ListOfSet ==
  ASSUME NEW S, IsFiniteSet(S)
  PROVE  /\ SetToSeq(S) \in [1..Cardinality(S) -> S] /\ Cardinality(S) \in Nat
         /\ \A x \in S : \E k \in 1..Cardinality(S) : SetToSeq(S)[k] = x
<1> DEFINE n == Cardinality(S)
           list == SetToSeq(S)
<1>1. n \in Nat /\ ExistsBijection(1..n, S)
  BY FS_CountingElements, FS_CardinalityType
<1>2. \E f \in [1..n -> S] : IsInjective(f)
  BY <1>1 DEF ExistsBijection, Bijection, Injection
<1>3. list \in [1..n -> S] /\ IsInjective(list)
  BY <1>2 DEF SetToSeq
<1> HIDE DEF n, list
<1> DEFINE R == {list[k] : k \in 1..n}
<1>4. list \in Surjection(1..n, R) /\ list \in Injection(1..n, R)
  BY <1>3 DEF Surjection, Injection
<1>5. IsFiniteSet(1..n) /\ Cardinality(1..n) = n
  BY <1>1, FS_Interval
<1>6. Cardinality(R) = n
  <2> HIDE DEF R
  <2> QED
    BY <1>4, <1>5, FS_Surjection
<1>7. R \subseteq S
  BY <1>3
<1>8. R = S
  <2> HIDE DEF R
  <2> QED
    BY <1>6, <1>7, FS_Subset DEF n
<1> QED
  BY <1>1, <1>3, <1>8 DEF n, list

\* Induction, for a set of numbers.
LEMMA Induction ==
  ASSUME NEW T, 0 \in T, \A k \in Nat : k \in T => k + 1 \in T
  PROVE  Nat \subseteq T
<1> DEFINE R == {xy \in Nat \X Nat : xy[1] < xy[2]}
<1> SUFFICES ASSUME Nat \ T # {} PROVE FALSE
  OBVIOUS
<1>1. IsWellFoundedOn(R, Nat)
  BY NatLessThanWellFounded DEF OpToRel
<1>2. PICK k \in Nat \ T : \A y \in Nat \ T : <<y, k>> \notin R
  <2> HIDE DEF R
  <2> QED
    BY <1>1, WFMin
<1>3. k \in Nat /\ k # 0
  BY <1>2
<1>4. k - 1 \in Nat /\ <<k - 1, k>> \in R
  BY <1>3
<1>5. k - 1 \in T /\ (k - 1) + 1 = k
  BY <1>2, <1>3, <1>4
<1> QED
  BY <1>2, <1>4, <1>5

\* Some of the first n places have a last one.
LEMMA LastPlace ==
  ASSUME NEW n \in Nat, NEW K \in SUBSET (1..n), K # {}
  PROVE  \E k \in K : \A j \in K : j <= k
<1> DEFINE Has(m) == \A L \in SUBSET (1..m) : L # {} => \E k \in L : \A j \in L : j <= k
           T == {m \in Nat : Has(m)}
<1>1. Has(0)
  <2>1. \A k : k \notin 1..0
    OBVIOUS
  <2> QED
    BY <2>1
<1>2. ASSUME NEW m \in Nat, Has(m) PROVE Has(m + 1)
  <2> SUFFICES ASSUME NEW L \in SUBSET (1..(m + 1)), L # {}
               PROVE  \E k \in L : \A j \in L : j <= k
    OBVIOUS
  <2>1. CASE m + 1 \in L
    BY <2>1
  <2>2. CASE m + 1 \notin L
    <3>1. L \in SUBSET (1..m)
      BY <2>2
    <3> QED
      BY <1>2, <3>1
  <2> QED
    BY <2>1, <2>2
<1>3. 0 \in T /\ \A m \in Nat : m \in T => m + 1 \in T
  <2> HIDE DEF Has
  <2> QED
    BY <1>1, <1>2
<1>4. Nat \subseteq T
  <2> HIDE DEF T
  <2> QED
    BY <1>3, Induction
<1> QED
  BY <1>4



-----------------------------------------------------------------------------
(* The invariant.                                                          *)

Scoring   == {"store scores", "store cards"}
Syncing   == {"store reviews", "store statuses"}
Places    == {"idle"} \union Scoring \union {"publish cards", "read sheet"} \union Syncing
               \union {"store events", "publish events", "store coefficients"}
SheetRows == [card : Entities, reviewer : {""} \union {t[1] : t \in Entries},
              decision : {""} \union {t[2] : t \in Entries}]

TypeOK ==
  /\ pc \in [Processes -> Places]
  /\ DOMAIN mem = Processes /\ \A p \in Processes : DOMAIN mem[p] = DOMAIN Idle
  /\ DOMAIN card = Entities /\ sheet \in Seq(SheetRows) /\ listed \in [AllEvents -> Nat]

\* What a job is about to store is in the store or going to be published, and
\* nothing else is; what it decides about is in the store.
Promised(p) ==
  /\ mem[p].publish \subseteq Entities
  /\ mem[p].publish # {} => pc[p] \in Scoring \union {"publish cards"}
  /\ mem[p].ask # {} => pc[p] \in {"store events", "publish events"}
  /\ pc[p] \in Scoring =>
       /\ DOMAIN mem[p].rows \subseteq Entities
       /\ \A e \in DOMAIN mem[p].rows : /\ mem[p].rows[e] # NoCard
                                        /\ e \in Cards \/ e \in mem[p].publish
  /\ pc[p] = "store events" => mem[p].known \subseteq events \union mem[p].ask
  /\ pc[p] = "read sheet" => mem[p].known \subseteq Cards
  /\ pc[p] \in Syncing =>
       /\ \E n \in Nat : DOMAIN mem[p].rows \subseteq 1..n
       /\ \A k \in DOMAIN mem[p].rows : /\ mem[p].rows[k].card \in Cards
                                        /\ mem[p].rows[k].decision \in Decision

CardInv == TypeOK /\ \A p \in Processes : Promised(p)

\* At the start nothing is stored and nobody has a job.
LEMMA CardInit == Init => CardInv
<1> SUFFICES ASSUME Init PROVE CardInv
  OBVIOUS
<1>1. /\ pc = [p \in Processes |-> "idle"] /\ mem = [p \in Processes |-> Idle]
      /\ card = [e \in Entities |-> NoCard] /\ sheet = <<>> /\ listed = [v \in AllEvents |-> 0]
  BY DEF Init
<1>2. pc \in [Processes -> Places] /\ \A p \in Processes : pc[p] = "idle"
  <2>1. "idle" \in Places
    BY DEF Places
  <2> QED
    BY <1>1, <2>1
<1>3. \A p \in Processes : mem[p] = Idle
  BY <1>1
<1>4. Idle.publish = {} /\ Idle.ask = {}
  BY DEF Idle
<1>5. sheet \in Seq(SheetRows)
  <2>1. <<>> \in Seq(SheetRows)
    OBVIOUS
  <2> QED
    BY <1>1, <2>1
<1>6. TypeOK
  BY <1>1, <1>2, <1>3, <1>5 DEF TypeOK
<1>7. ASSUME NEW p \in Processes PROVE Promised(p)
  <2>1. pc[p] = "idle" /\ mem[p].publish = {} /\ mem[p].ask = {}
    BY <1>2, <1>3, <1>4
  <2> QED
    BY <2>1 DEF Promised, Scoring, Syncing
<1> QED
  BY <1>6, <1>7 DEF CardInv

\* Nothing leaves the store: then what the others promised they still promise.
LEMMA Others ==
  ASSUME CardInv, NEW p \in Processes, TypeOK',
         \A q \in Processes : q # p => pc'[q] = pc[q] /\ mem'[q] = mem[q],
         Cards \subseteq Cards', events \subseteq events', Promised(p)'
  PROVE  CardInv'
<1>1. ASSUME NEW q \in Processes, q # p PROVE Promised(q)'
  <2>1. Promised(q) /\ pc'[q] = pc[q] /\ mem'[q] = mem[q]
    BY <1>1 DEF CardInv
  <2> QED
    BY <2>1 DEF Promised
<1> QED
  BY <1>1 DEF CardInv

\* A process at rest, with an empty memory, promises nothing.
LEMMA AtRest ==
  ASSUME NEW p, pc'[p] = "idle", mem'[p] = Idle
  PROVE  Promised(p)'
<1>1. mem'[p].publish = {} /\ mem'[p].ask = {}
  BY DEF Idle
<1> QED
  BY <1>1 DEF Promised, Scoring, Syncing

\* Where a job goes, and what it remembers.
LEMMA Going ==
  ASSUME TypeOK, NEW p \in Processes, NEW step \in Places, NEW read, Goto(p, step, read),
         DOMAIN read = DOMAIN Idle
  PROVE  /\ pc' \in [Processes -> Places] /\ DOMAIN mem' = Processes
         /\ pc'[p] = step /\ mem'[p] = read
         /\ \A q \in Processes : DOMAIN mem'[q] = DOMAIN Idle
         /\ \A q \in Processes : q # p => pc'[q] = pc[q] /\ mem'[q] = mem[q]
BY DEF TypeOK, Goto

LEMMA Continuing ==
  ASSUME TypeOK, NEW p \in Processes, NEW from, NEW to \in Places, Continue(p, from, to)
  PROVE  /\ pc[p] = from /\ pc' \in [Processes -> Places] /\ DOMAIN mem' = Processes
         /\ pc'[p] = to /\ mem'[p] = (IF to = "idle" THEN Idle ELSE mem[p])
         /\ \A q \in Processes : DOMAIN mem'[q] = DOMAIN Idle
         /\ \A q \in Processes : q # p => pc'[q] = pc[q] /\ mem'[q] = mem[q]
         /\ UNCHANGED <<edits, faults>>
<1>1. /\ pc[p] = from /\ pc' = [pc EXCEPT ![p] = to] /\ UNCHANGED <<edits, faults>>
      /\ mem' = [mem EXCEPT ![p] = IF to = "idle" THEN Idle ELSE @]
  BY DEF Continue
<1>2. mem'[p] = (IF to = "idle" THEN Idle ELSE mem[p])
  BY <1>1 DEF TypeOK
<1>3. DOMAIN mem'[p] = DOMAIN Idle
  BY <1>2 DEF TypeOK
<1>4. DOMAIN mem' = Processes /\ \A q \in Processes : q # p => pc'[q] = pc[q] /\ mem'[q] = mem[q]
  BY <1>1 DEF TypeOK
<1>5. pc' \in [Processes -> Places] /\ pc'[p] = to
  BY <1>1 DEF TypeOK
<1> QED
  BY <1>1, <1>2, <1>3, <1>4, <1>5 DEF TypeOK

\* The memory of a job that begins.
LEMMA FreshMemory ==
  /\ DOMAIN Idle = {"rows", "publish", "ask", "known", "corpus"}
  /\ \A r, e : LET m == [Idle EXCEPT !.rows = r, !.publish = e] IN
       DOMAIN m = DOMAIN Idle /\ m.rows = r /\ m.publish = e /\ m.ask = {}
  /\ \A k, a : LET m == [Idle EXCEPT !.known = k, !.ask = a] IN
       DOMAIN m = DOMAIN Idle /\ m.known = k /\ m.publish = {} /\ m.ask = a
  /\ \A k : LET m == [Idle EXCEPT !.known = k] IN
       DOMAIN m = DOMAIN Idle /\ m.known = k /\ m.publish = {} /\ m.ask = {}
  /\ \A c : LET m == [Idle EXCEPT !.corpus = c] IN
       DOMAIN m = DOMAIN Idle /\ m.publish = {} /\ m.ask = {}
BY DEF Idle

-----------------------------------------------------------------------------
(* The steps of a job.                                                     *)

\* A step that only moves a process: the store and the tabs stay.
LEMMA Alone ==
  ASSUME CardInv, NEW p \in Processes, UNCHANGED <<store, tabs>>,
         NEW step \in Places, NEW read, Goto(p, step, read), DOMAIN read = DOMAIN Idle,
         pc'[p] = step /\ mem'[p] = read => Promised(p)'
  PROVE  CardInv'
<1>1. TypeOK /\ UNCHANGED <<card, events, sheet, listed>>
  BY DEF CardInv, store, tabs
<1>2. /\ pc' \in [Processes -> Places] /\ DOMAIN mem' = Processes
      /\ pc'[p] = step /\ mem'[p] = read
      /\ \A q \in Processes : DOMAIN mem'[q] = DOMAIN Idle
      /\ \A q \in Processes : q # p => pc'[q] = pc[q] /\ mem'[q] = mem[q]
  BY <1>1, Going
<1>3. TypeOK'
  BY <1>1, <1>2 DEF TypeOK
<1>4. Cards' = Cards /\ events' = events
  BY <1>1 DEF Cards
<1> QED
  BY <1>2, <1>3, <1>4, Others

\* A job ends: death, an empty sheet.
LEMMA Rest ==
  ASSUME CardInv, NEW p \in Processes, UNCHANGED <<store, tabs>>, Goto(p, "idle", Idle)
  PROVE  CardInv'
<1>1. "idle" \in Places
  BY DEF Places
<1> QED
  BY <1>1, Alone, AtRest

\* What is not in the store is published.
LEMMA InvReadForScoring ==
  ASSUME CardInv, NEW p \in Processes, ReadForScoring(p)
  PROVE  CardInv'
<1> DEFINE scored == {e \in Entities : signals[e] > 0}
           rows == [e \in scored |-> Rescored(e)]
           read == [Idle EXCEPT !.rows = rows, !.publish = ToOffer]
<1>1. Goto(p, "store scores", read) /\ UNCHANGED <<store, tabs>>
  BY DEF ReadForScoring
<1>2. /\ DOMAIN read = DOMAIN Idle /\ read.rows = rows /\ read.publish = ToOffer
      /\ read.ask = {}
  BY FreshMemory
<1>3. \A e \in scored : rows[e] # NoCard
  <2>1. \A e \in scored : rows[e].queue.signals # 0
    BY DEF Rescored
  <2>2. NoCard.queue.signals = 0
    BY DEF NoCard, Archive
  <2> QED
    BY <2>1, <2>2
<1>4. \A e \in scored : e \in Cards \/ e \in ToOffer
  BY DEF ToOffer
<1>5. Cards' = Cards
  BY <1>1 DEF Cards, store
<1>6. ASSUME pc'[p] = "store scores", mem'[p] = read PROVE Promised(p)'
  <2>1. DOMAIN mem'[p].rows = scored /\ mem'[p].rows = rows
    BY <1>2, <1>6
  <2>2. mem'[p].publish = ToOffer /\ ToOffer \subseteq Entities /\ mem'[p].ask = {}
    BY <1>2, <1>6 DEF ToOffer
  <2> HIDE DEF rows, scored, read
  <2>3. scored \subseteq Entities
    BY DEF scored
  <2> QED
    BY <1>3, <1>4, <1>5, <1>6, <2>1, <2>2, <2>3 DEF Promised, Scoring, Syncing
<1>7. "store scores" \in Places
  BY DEF Places, Scoring
<1> QED
  BY <1>1, <1>2, <1>6, <1>7, Alone

LEMMA InvStoreScores ==
  ASSUME CardInv, NEW p \in Processes, StoreScores(p)
  PROVE  CardInv'
<1>1. /\ TypeOK /\ Promised(p) /\ Continue(p, "store scores", "store cards")
      /\ UNCHANGED <<card, events, sheet, listed>>
  BY DEF CardInv, StoreScores, tabs
<1>2. "store cards" \in Places
  BY DEF Places, Scoring
<1>3. /\ pc[p] = "store scores" /\ pc' \in [Processes -> Places] /\ DOMAIN mem' = Processes
      /\ pc'[p] = "store cards" /\ mem'[p] = mem[p]
      /\ \A q \in Processes : DOMAIN mem'[q] = DOMAIN Idle
      /\ \A q \in Processes : q # p => pc'[q] = pc[q] /\ mem'[q] = mem[q]
  BY <1>1, <1>2, Continuing
<1>4. TypeOK' /\ Cards' = Cards
  BY <1>1, <1>3 DEF TypeOK, Cards
<1>5. Promised(p)'
  BY <1>1, <1>3, <1>4 DEF Promised, Scoring, Syncing
<1> QED
  BY <1>1, <1>3, <1>4, <1>5, Others

\* No row that is stored is an empty one: the store only grows.
LEMMA CardsGrow ==
  ASSUME DOMAIN card = Entities, NEW rows, DOMAIN rows \subseteq Entities,
         \A e \in DOMAIN rows : rows[e] # NoCard, card' = Upserted(rows, card)
  PROVE  DOMAIN card' = Entities /\ Cards' = Cards \union DOMAIN rows
<1>1. DOMAIN card' = Entities /\ \A e \in DOMAIN rows : card'[e] = rows[e]
  BY DEF Upserted
<1>2. \A e \in Entities \ DOMAIN rows : card'[e] = card[e]
  BY DEF Upserted
<1> QED
  BY <1>1, <1>2 DEF Cards

\* What is stored and was not before is still to be published.
LEMMA InvStoreCards ==
  ASSUME CardInv, NEW p \in Processes, StoreCards(p)
  PROVE  /\ CardInv' /\ Cards \subseteq Cards' /\ UNCHANGED <<events, sheet, listed>>
         /\ \A e \in Cards' : e \in Cards \/ e \in mem'[p].publish
         /\ mem'[p].ask = mem[p].ask /\ mem'[p].publish = mem[p].publish
         /\ \A q \in Processes : q # p => mem'[q] = mem[q]
<1> DEFINE to == IF mem[p].publish = {} THEN "idle" ELSE "publish cards"
<1>1. /\ TypeOK /\ Promised(p) /\ Continue(p, "store cards", to)
      /\ card' = Upserted(mem[p].rows, card) /\ UNCHANGED <<events, sheet, listed>>
  BY DEF CardInv, StoreCards, tabs
<1>2. to \in Places
  BY DEF Places
<1> HIDE DEF to
<1>3. /\ pc[p] = "store cards" /\ pc' \in [Processes -> Places] /\ DOMAIN mem' = Processes
      /\ pc'[p] = to /\ mem'[p] = (IF to = "idle" THEN Idle ELSE mem[p])
      /\ \A q \in Processes : DOMAIN mem'[q] = DOMAIN Idle
      /\ \A q \in Processes : q # p => pc'[q] = pc[q] /\ mem'[q] = mem[q]
  BY <1>1, <1>2, Continuing
<1>4. DOMAIN card' = Entities /\ Cards' = Cards \union DOMAIN mem[p].rows
  <2>1. pc[p] \in Scoring
    BY <1>3 DEF Scoring
  <2> QED
    BY <1>1, <2>1, CardsGrow DEF TypeOK, Promised
<1>5. TypeOK'
  BY <1>1, <1>3, <1>4 DEF TypeOK
<1>6. \A e \in Cards' : e \in Cards \/ e \in mem[p].publish
  BY <1>1, <1>3, <1>4 DEF Promised, Scoring
<1>7. mem[p].ask = {}
  BY <1>1, <1>3 DEF Promised
<1>8. CASE mem[p].publish = {}
  <2>1. mem'[p] = Idle /\ pc'[p] = "idle"
    BY <1>3, <1>8 DEF to
  <2>2. mem'[p].publish = {} /\ mem'[p].ask = {}
    BY <2>1 DEF Idle
  <2>3. Promised(p)'
    BY <2>1, AtRest
  <2> QED
    BY <1>1, <1>3, <1>4, <1>5, <1>6, <1>7, <1>8, <2>2, <2>3, Others
<1>9. CASE mem[p].publish # {}
  <2>1. mem'[p] = mem[p] /\ pc'[p] = "publish cards"
    BY <1>3, <1>9 DEF to
  <2>2. Promised(p)'
    BY <1>1, <1>7, <2>1 DEF Promised, Scoring, Syncing
  <2> QED
    BY <1>1, <1>3, <1>4, <1>5, <1>6, <1>7, <2>1, <2>2, Others
<1> QED
  BY <1>8, <1>9

LEMMA Appended ==
  ASSUME NEW S, NEW list \in Seq(S), NEW rows \in Seq(S)
  PROVE  /\ (list \o rows) \in Seq(S) /\ Len(list) \in Nat
         /\ DOMAIN (list \o rows) = 1..(Len(list) + Len(rows))
         /\ \A k \in DOMAIN list : (list \o rows)[k] = list[k]
         /\ \A k \in 1..Len(rows) : (list \o rows)[Len(list) + k] = rows[k]
<1>1. /\ list \o rows \in Seq(S) /\ Len(list) \in Nat /\ Len(rows) \in Nat
      /\ Len(list \o rows) = Len(list) + Len(rows)
      /\ DOMAIN list = 1..Len(list) /\ DOMAIN (list \o rows) = 1..(Len(list) + Len(rows))
  OBVIOUS
<1>2. \A k \in 1..Len(list) : (list \o rows)[k] = list[k]
  OBVIOUS
<1>3. ASSUME NEW k \in 1..Len(rows) PROVE (list \o rows)[Len(list) + k] = rows[k]
  <2>1. Len(list) + k \in 1..(Len(list) + Len(rows)) /\ ~(Len(list) + k <= Len(list))
    BY <1>1
  <2>2. (Len(list) + k) - Len(list) = k
    BY <1>1
  <2> QED
    BY <1>1, <2>1, <2>2
<1> QED
  BY <1>1, <1>2, <1>3

\* Every card to be published gets a row; the others keep theirs.
LEMMA InvPublishCards ==
  ASSUME CardInv, NEW p \in Processes, PublishCards(p)
  PROVE  /\ CardInv' /\ UNCHANGED <<card, events, listed>>
         /\ \A e : OnSheet(e) \/ e \in mem[p].publish => OnSheet(e)'
         /\ mem'[p].ask = mem[p].ask /\ \A q \in Processes : q # p => mem'[q] = mem[q]
<1> DEFINE new == SetToSeq(mem[p].publish)
           n == Cardinality(mem[p].publish)
           rows == [k \in DOMAIN new |-> Fresh(new[k])]
<1>1. /\ TypeOK /\ Promised(p) /\ Continue(p, "publish cards", "idle")
      /\ sheet' = sheet \o rows /\ UNCHANGED <<card, events, listed>>
  BY DEF CardInv, PublishCards, store
<1>2. "idle" \in Places
  BY DEF Places
<1>3. /\ pc[p] = "publish cards" /\ pc' \in [Processes -> Places] /\ DOMAIN mem' = Processes
      /\ pc'[p] = "idle" /\ mem'[p] = Idle
      /\ \A q \in Processes : DOMAIN mem'[q] = DOMAIN Idle
      /\ \A q \in Processes : q # p => pc'[q] = pc[q] /\ mem'[q] = mem[q]
  BY <1>1, <1>2, Continuing
<1>4. mem[p].publish \subseteq Entities /\ IsFiniteSet(mem[p].publish)
  BY <1>1, ReviewAssumption, FS_Subset DEF Promised
<1>5. /\ new \in [1..n -> mem[p].publish] /\ n \in Nat
      /\ \A e \in mem[p].publish : \E k \in 1..n : new[k] = e
  BY <1>4, ListOfSet
<1> HIDE DEF new, n
<1>6. \A e \in Entities : Fresh(e) \in SheetRows /\ Fresh(e).card = e
  BY DEF Fresh, SheetRows
<1>7. rows \in Seq(SheetRows) /\ Len(rows) = n /\ \A k \in 1..n : rows[k].card = new[k]
  <2>1. DOMAIN new = 1..n /\ \A k \in 1..n : new[k] \in Entities
    BY <1>4, <1>5
  <2>2. rows \in [1..n -> SheetRows]
    BY <1>6, <2>1
  <2>3. rows \in Seq(SheetRows) /\ Len(rows) = n
    BY <1>5, <2>2
  <2> QED
    BY <1>6, <2>1, <2>3
<1> HIDE DEF rows
<1>8. sheet \in Seq(SheetRows)
  BY <1>1 DEF TypeOK
<1>9. /\ sheet' \in Seq(SheetRows) /\ DOMAIN sheet' = 1..(Len(sheet) + n) /\ Len(sheet) \in Nat
      /\ \A k \in DOMAIN sheet : sheet'[k] = sheet[k]
      /\ \A k \in 1..n : sheet'[Len(sheet) + k] = rows[k]
  <2>1. /\ (sheet \o rows) \in Seq(SheetRows) /\ Len(sheet) \in Nat
        /\ DOMAIN (sheet \o rows) = 1..(Len(sheet) + Len(rows))
        /\ \A k \in DOMAIN sheet : (sheet \o rows)[k] = sheet[k]
        /\ \A k \in 1..Len(rows) : (sheet \o rows)[Len(sheet) + k] = rows[k]
    <3>1. rows \in Seq(SheetRows)
      BY <1>7
    <3> HIDE DEF SheetRows
    <3> QED
      BY <3>1, <1>8, Appended
  <2>2. sheet' = sheet \o rows /\ Len(rows) = n
    BY <1>1, <1>7
  <2> QED
    BY <2>1, <2>2
<1>10. ASSUME NEW e, OnSheet(e) \/ e \in mem[p].publish PROVE OnSheet(e)'
  <2>1. CASE OnSheet(e)
    <3>1. PICK k \in DOMAIN sheet : sheet[k].card = e
      BY <2>1 DEF OnSheet
    <3>2. k \in DOMAIN sheet' /\ sheet'[k].card = e
      BY <1>5, <1>8, <1>9, <3>1
    <3> QED
      BY <3>2 DEF OnSheet
  <2>2. CASE e \in mem[p].publish
    <3>1. PICK k \in 1..n : new[k] = e
      BY <1>5, <2>2
    <3>2. Len(sheet) + k \in DOMAIN sheet'
      BY <1>5, <1>9
    <3>3. sheet'[Len(sheet) + k].card = e
      BY <1>7, <1>9, <3>1
    <3> QED
      BY <3>2, <3>3 DEF OnSheet
  <2> QED
    BY <1>10, <2>1, <2>2
<1>11. TypeOK' /\ Cards' = Cards
  BY <1>1, <1>3, <1>9 DEF TypeOK, Cards
<1>12. CardInv'
  BY <1>1, <1>3, <1>11, AtRest, Others
<1>13. mem'[p].ask = mem[p].ask
  <2>1. mem'[p] = Idle
    BY <1>3
  <2>2. mem'[p].ask = {}
    BY <2>1 DEF Idle
  <2> QED
    BY <1>1, <1>3, <2>2 DEF Promised
<1> QED
  BY <1>1, <1>3, <1>10, <1>12, <1>13

\* A sync decides about cards of the store.
LEMMA InvReadCards ==
  ASSUME CardInv, NEW p \in Processes, ReadCards(p)
  PROVE  CardInv'
<1> DEFINE read == [Idle EXCEPT !.known = Cards]
<1>1. Goto(p, "read sheet", read) /\ UNCHANGED <<store, tabs>>
  BY DEF ReadCards
<1>2. /\ DOMAIN read = DOMAIN Idle /\ read.known = Cards /\ read.publish = {} /\ read.ask = {}
  BY FreshMemory
<1>3. Cards' = Cards
  BY <1>1 DEF Cards, store
<1>4. ASSUME pc'[p] = "read sheet", mem'[p] = read PROVE Promised(p)'
  <2>1. mem'[p].known = Cards /\ mem'[p].publish = {} /\ mem'[p].ask = {}
    BY <1>2, <1>4
  <2> HIDE DEF read
  <2> QED
    BY <1>3, <1>4, <2>1 DEF Promised, Scoring, Syncing
<1>5. "read sheet" \in Places
  BY DEF Places
<1> HIDE DEF read
<1> QED
  BY <1>1, <1>2, <1>4, <1>5, Alone

LEMMA InvReadSheet ==
  ASSUME CardInv, NEW p \in Processes, ReadSheet(p)
  PROVE  CardInv'
<1> DEFINE valid == ValidRows(mem[p].known)
           read == [mem[p] EXCEPT !.rows = valid]
<1>1. /\ TypeOK /\ Promised(p) /\ pc[p] = "read sheet" /\ UNCHANGED <<store, tabs>>
      /\ Goto(p, "idle", Idle) \/ Goto(p, "store reviews", read)
  BY DEF CardInv, ReadSheet
<1>2. DOMAIN mem[p] = DOMAIN Idle /\ DOMAIN Idle = {"rows", "publish", "ask", "known", "corpus"}
  BY <1>1, FreshMemory DEF TypeOK
<1>3. /\ DOMAIN read = DOMAIN Idle /\ read.rows = valid /\ read.publish = mem[p].publish
      /\ read.ask = mem[p].ask
  BY <1>2
<1>4. mem[p].publish = {} /\ mem[p].ask = {} /\ mem[p].known \subseteq Cards
  BY <1>1 DEF Promised, Scoring
<1>5. Cards' = Cards
  BY <1>1 DEF Cards, store
<1>6. DOMAIN valid \subseteq 1..Len(sheet) /\ Len(sheet) \in Nat
  <2>1. sheet \in Seq(SheetRows)
    BY <1>1 DEF TypeOK
  <2>2. DOMAIN sheet = 1..Len(sheet) /\ Len(sheet) \in Nat
    BY <2>1
  <2>3. DOMAIN valid \subseteq DOMAIN sheet
    BY DEF ValidRows
  <2> QED
    BY <2>2, <2>3
<1>7. \A k \in DOMAIN valid : valid[k].card \in Cards /\ valid[k].decision \in Decision
  BY <1>4 DEF ValidRows, Valid
<1>8. ASSUME pc'[p] = "store reviews", mem'[p] = read PROVE Promised(p)'
  <2>1. mem'[p].rows = valid /\ mem'[p].publish = {} /\ mem'[p].ask = {}
    BY <1>3, <1>4, <1>8
  <2> HIDE DEF read, valid
  <2>2. \E n \in Nat : DOMAIN mem'[p].rows \subseteq 1..n
    BY <1>6, <2>1
  <2> QED
    BY <1>5, <1>7, <1>8, <2>1, <2>2 DEF Promised, Scoring, Syncing
<1>9. "store reviews" \in Places
  BY DEF Places, Syncing
<1> HIDE DEF read, valid
<1>10. CASE Goto(p, "idle", Idle)
  BY <1>1, <1>10, Rest
<1>11. CASE Goto(p, "store reviews", read)
  BY <1>1, <1>3, <1>8, <1>9, <1>11, Alone
<1> QED
  BY <1>1, <1>10, <1>11

LEMMA InvStoreReviews ==
  ASSUME CardInv, NEW p \in Processes, StoreReviews(p)
  PROVE  CardInv'
<1>1. /\ TypeOK /\ Promised(p) /\ Continue(p, "store reviews", "store statuses")
      /\ UNCHANGED <<card, events, sheet, listed>>
  BY DEF CardInv, StoreReviews, tabs
<1>2. "store statuses" \in Places
  BY DEF Places, Syncing
<1>3. /\ pc[p] = "store reviews" /\ pc' \in [Processes -> Places] /\ DOMAIN mem' = Processes
      /\ pc'[p] = "store statuses" /\ mem'[p] = mem[p]
      /\ \A q \in Processes : DOMAIN mem'[q] = DOMAIN Idle
      /\ \A q \in Processes : q # p => pc'[q] = pc[q] /\ mem'[q] = mem[q]
  BY <1>1, <1>2, Continuing
<1>4. TypeOK' /\ Cards' = Cards
  BY <1>1, <1>3 DEF TypeOK, Cards
<1>5. Promised(p)'
  BY <1>1, <1>3, <1>4 DEF Promised, Scoring, Syncing
<1> QED
  BY <1>1, <1>3, <1>4, <1>5, Others

\* A card's last row is one of its rows.
LEMMA LastOnIsThere ==
  ASSUME NEW rows, NEW n \in Nat, DOMAIN rows \subseteq 1..n,
         NEW e \in {rows[k].card : k \in DOMAIN rows}
  PROVE  LastOn(e, rows) \in DOMAIN rows /\ rows[LastOn(e, rows)].card = e
<1> DEFINE K == {k \in DOMAIN rows : rows[k].card = e}
<1>1. K \in SUBSET (1..n) /\ K # {}
  OBVIOUS
<1>2. \E k \in K : \A j \in K : j <= k
  <2> HIDE DEF K
  <2> QED
    BY <1>1, LastPlace
<1>3. \E k \in DOMAIN rows : rows[k].card = e /\ \A j \in DOMAIN rows : rows[j].card = e => j <= k
  BY <1>2
<1> QED
  BY <1>3 DEF LastOn

\* The cards that a sync stores are in the store, and stay there.
LEMMA InvStoreStatuses ==
  ASSUME CardInv, NEW p \in Processes, StoreStatuses(p)
  PROVE  CardInv' /\ Cards' = Cards
<1> DEFINE rows == mem[p].rows
           new == Decided(rows)
<1>1. /\ TypeOK /\ Promised(p) /\ Continue(p, "store statuses", "idle")
      /\ card' = Upserted(new, card) /\ UNCHANGED <<events, sheet, listed>>
  BY DEF CardInv, StoreStatuses, tabs
<1>2. "idle" \in Places
  BY DEF Places
<1>3. /\ pc[p] = "store statuses" /\ pc' \in [Processes -> Places] /\ DOMAIN mem' = Processes
      /\ pc'[p] = "idle" /\ mem'[p] = Idle
      /\ \A q \in Processes : DOMAIN mem'[q] = DOMAIN Idle
      /\ \A q \in Processes : q # p => pc'[q] = pc[q] /\ mem'[q] = mem[q]
  BY <1>1, <1>2, Continuing
<1>4. PICK n \in Nat : DOMAIN rows \subseteq 1..n
  BY <1>1, <1>3 DEF Promised, Syncing
<1>5. \A k \in DOMAIN rows : rows[k].card \in Cards /\ rows[k].decision \in Decision
  BY <1>1, <1>3 DEF Promised, Syncing
<1>6. DOMAIN new = {rows[k].card : k \in DOMAIN rows}
  BY DEF Decided
<1>7. DOMAIN new \subseteq Cards /\ Cards \subseteq Entities
  BY <1>5, <1>6 DEF Cards
<1>8. \A e \in DOMAIN new : new[e] # NoCard
  <2> SUFFICES ASSUME NEW e \in DOMAIN new PROVE new[e].status # NoCard.status
    OBVIOUS
  <2>1. LastOn(e, rows) \in DOMAIN rows
    BY <1>4, <1>6, LastOnIsThere
  <2>2. rows[LastOn(e, rows)].decision \in Decision
    BY <1>5, <2>1
  <2>3. new[e].status = Status(rows[LastOn(e, rows)].decision)
    BY DEF Decided
  <2>4. \A d \in Decision : Status(d) # ""
    BY DEF Status, Decision
  <2> QED
    BY <2>2, <2>3, <2>4 DEF NoCard
<1> HIDE DEF new, rows
<1>9. DOMAIN card' = Entities /\ Cards' = Cards
  BY <1>1, <1>7, <1>8, CardsGrow, ZenonT(60) DEF TypeOK
<1>10. TypeOK'
  BY <1>1, <1>3, <1>9 DEF TypeOK
<1> QED
  BY <1>1, <1>3, <1>9, <1>10, AtRest, Others

\* A question that is going to be stored is stored already or going to be asked.
LEMMA InvReadForResolving ==
  ASSUME CardInv, NEW p \in Processes, ReadForResolving(p)
  PROVE  CardInv'
<1> DEFINE now == Events(seen)
           new == now \ events
           read == [Idle EXCEPT !.known = now, !.ask = new]
<1>1. Goto(p, "store events", read) /\ UNCHANGED <<store, tabs>>
  BY DEF ReadForResolving
<1> HIDE DEF now
<1>2. /\ DOMAIN read = DOMAIN Idle /\ read.known = now /\ read.publish = {} /\ read.ask = new
  BY FreshMemory
<1>3. events' = events /\ Cards' = Cards
  BY <1>1 DEF store, Cards
<1>4. ASSUME pc'[p] = "store events", mem'[p] = read PROVE Promised(p)'
  <2>1. /\ mem'[p].known = now /\ mem'[p].publish = {} /\ mem'[p].ask = new
        /\ now \subseteq events \union new
    BY <1>2, <1>4
  <2> HIDE DEF read, new
  <2> QED
    BY <1>3, <1>4, <2>1 DEF Promised, Scoring, Syncing
<1>5. "store events" \in Places
  BY DEF Places
<1> HIDE DEF read
<1> QED
  BY <1>1, <1>2, <1>4, <1>5, Alone

LEMMA InvStoreEvents ==
  ASSUME CardInv, NEW p \in Processes, StoreEvents(p)
  PROVE  /\ CardInv' /\ events \subseteq events' /\ UNCHANGED <<card, sheet, listed>>
         /\ \A v \in events' : v \in events \/ v \in mem'[p].ask
         /\ mem'[p].ask = mem[p].ask /\ mem'[p].publish = mem[p].publish
         /\ \A q \in Processes : q # p => mem'[q] = mem[q]
<1> DEFINE to == IF mem[p].ask = {} THEN "idle" ELSE "publish events"
<1>1. /\ TypeOK /\ Promised(p) /\ Continue(p, "store events", to)
      /\ events' = events \union mem[p].known /\ UNCHANGED <<card, sheet, listed>>
  BY DEF CardInv, StoreEvents, tabs
<1>2. to \in Places
  BY DEF Places
<1> HIDE DEF to
<1>3. /\ pc[p] = "store events" /\ pc' \in [Processes -> Places] /\ DOMAIN mem' = Processes
      /\ pc'[p] = to /\ mem'[p] = (IF to = "idle" THEN Idle ELSE mem[p])
      /\ \A q \in Processes : DOMAIN mem'[q] = DOMAIN Idle
      /\ \A q \in Processes : q # p => pc'[q] = pc[q] /\ mem'[q] = mem[q]
  BY <1>1, <1>2, Continuing
<1>4. TypeOK' /\ Cards' = Cards
  BY <1>1, <1>3 DEF TypeOK, Cards
<1>5. \A v \in events' : v \in events \/ v \in mem[p].ask
  BY <1>1, <1>3 DEF Promised
<1>6. mem[p].publish = {}
  BY <1>1, <1>3 DEF Promised, Scoring
<1>7. CASE mem[p].ask = {}
  <2>1. mem'[p] = Idle /\ pc'[p] = "idle"
    BY <1>3, <1>7 DEF to
  <2>2. mem'[p].publish = {} /\ mem'[p].ask = {}
    BY <2>1 DEF Idle
  <2>3. Promised(p)'
    BY <2>1, AtRest
  <2> QED
    BY <1>1, <1>3, <1>4, <1>5, <1>6, <1>7, <2>2, <2>3, Others
<1>8. CASE mem[p].ask # {}
  <2>1. mem'[p] = mem[p] /\ pc'[p] = "publish events"
    BY <1>3, <1>8 DEF to
  <2>2. Promised(p)'
    BY <1>1, <1>6, <2>1 DEF Promised, Scoring, Syncing
  <2> QED
    BY <1>1, <1>3, <1>4, <1>5, <1>6, <2>1, <2>2, Others
<1> QED
  BY <1>7, <1>8

LEMMA InvPublishEvents ==
  ASSUME CardInv, NEW p \in Processes, PublishEvents(p)
  PROVE  /\ CardInv' /\ UNCHANGED <<card, events, sheet>>
         /\ \A v \in AllEvents : listed[v] # 0 \/ v \in mem[p].ask => listed'[v] # 0
         /\ mem'[p].publish = mem[p].publish /\ \A q \in Processes : q # p => mem'[q] = mem[q]
<1>1. /\ TypeOK /\ Promised(p) /\ Continue(p, "publish events", "idle")
      /\ listed' = [v \in AllEvents |-> listed[v] + IF v \in mem[p].ask THEN 1 ELSE 0]
      /\ UNCHANGED <<card, events, sheet>>
  BY DEF CardInv, PublishEvents, store
<1>2. "idle" \in Places
  BY DEF Places
<1>3. /\ pc[p] = "publish events" /\ pc' \in [Processes -> Places] /\ DOMAIN mem' = Processes
      /\ pc'[p] = "idle" /\ mem'[p] = Idle
      /\ \A q \in Processes : DOMAIN mem'[q] = DOMAIN Idle
      /\ \A q \in Processes : q # p => pc'[q] = pc[q] /\ mem'[q] = mem[q]
  BY <1>1, <1>2, Continuing
<1>4. ASSUME NEW v \in AllEvents
      PROVE  listed'[v] \in Nat /\ (listed[v] # 0 \/ v \in mem[p].ask => listed'[v] # 0)
  <2>1. listed[v] \in Nat
    BY <1>1 DEF TypeOK
  <2>2. CASE v \in mem[p].ask
    <3>1. listed'[v] = listed[v] + 1
      BY <1>1, <2>2
    <3> QED
      BY <2>1, <3>1
  <2>3. CASE v \notin mem[p].ask
    <3>1. listed'[v] = listed[v] + 0
      BY <1>1, <2>3
    <3> QED
      BY <2>1, <2>3, <3>1
  <2> QED
    BY <2>2, <2>3
<1>5. TypeOK' /\ Cards' = Cards
  <2>1. listed' \in [AllEvents -> Nat]
    BY <1>1, <1>4
  <2> QED
    BY <1>1, <1>3, <2>1 DEF TypeOK, Cards
<1>6. CardInv'
  BY <1>1, <1>3, <1>5, AtRest, Others
<1>7. mem'[p].publish = mem[p].publish
  <2>1. mem'[p] = Idle
    BY <1>3
  <2>2. mem'[p].publish = {}
    BY <2>1 DEF Idle
  <2> QED
    BY <1>1, <1>3, <2>2 DEF Promised, Scoring
<1> QED
  BY <1>1, <1>3, <1>4, <1>6, <1>7

LEMMA InvReadForCalibrating ==
  ASSUME CardInv, NEW p \in Processes, ReadForCalibrating(p)
  PROVE  CardInv'
<1> DEFINE read == [Idle EXCEPT !.corpus = Corpus]
<1>1. Goto(p, "store coefficients", read) /\ UNCHANGED <<store, tabs>>
  BY DEF ReadForCalibrating
<1>2. DOMAIN read = DOMAIN Idle /\ read.publish = {} /\ read.ask = {}
  BY FreshMemory
<1> HIDE DEF read
<1>3. ASSUME pc'[p] = "store coefficients", mem'[p] = read PROVE Promised(p)'
  BY <1>2, <1>3 DEF Promised, Scoring, Syncing
<1>4. "store coefficients" \in Places
  BY DEF Places
<1> QED
  BY <1>1, <1>2, <1>3, <1>4, Alone

LEMMA InvStoreCoefficients ==
  ASSUME CardInv, NEW p \in Processes, StoreCoefficients(p)
  PROVE  CardInv'
<1>1. /\ TypeOK /\ Continue(p, "store coefficients", "idle")
      /\ UNCHANGED <<card, events, sheet, listed>>
  BY DEF CardInv, StoreCoefficients, tabs
<1>2. "idle" \in Places
  BY DEF Places
<1>3. /\ pc' \in [Processes -> Places] /\ DOMAIN mem' = Processes
      /\ pc'[p] = "idle" /\ mem'[p] = Idle
      /\ \A q \in Processes : DOMAIN mem'[q] = DOMAIN Idle
      /\ \A q \in Processes : q # p => pc'[q] = pc[q] /\ mem'[q] = mem[q]
  BY <1>1, <1>2, Continuing
<1>4. TypeOK' /\ Cards' = Cards
  BY <1>1, <1>3 DEF TypeOK, Cards
<1> QED
  BY <1>1, <1>3, <1>4, AtRest, Others

-----------------------------------------------------------------------------
(* The world.                                                              *)

\* A step that leaves the jobs and the store alone.
LEMMA InvWorld ==
  ASSUME CardInv, UNCHANGED <<card, events, listed, pc, mem>>, sheet' \in Seq(SheetRows)
  PROVE  CardInv'
<1>1. Cards' = Cards
  BY DEF Cards
<1>2. TypeOK'
  BY DEF CardInv, TypeOK
<1>3. \A p \in Processes : Promised(p)'
  BY <1>1 DEF CardInv, Promised
<1> QED
  BY <1>2, <1>3 DEF CardInv

LEMMA Replaced ==
  ASSUME NEW S, NEW list \in Seq(S), NEW k \in 1..Len(list), NEW x \in S
  PROVE  [list EXCEPT ![k] = x] \in Seq(S)
<1>1. Len(list) \in Nat /\ list \in [1..Len(list) -> S]
  OBVIOUS
<1> DEFINE n == Len(list)
<1> HIDE DEF n
<1>2. [list EXCEPT ![k] = x] \in [1..n -> S]
  BY <1>1 DEF n
<1> QED
  BY <1>1, <1>2 DEF n

LEMMA InvEdits ==
  ASSUME CardInv, NEW k \in DOMAIN sheet,
         Withdraw(k) \/ \E entry \in Entries : Decide(k, entry[1], entry[2])
  PROVE  CardInv' /\ edits' = edits + 1
<1>1. sheet \in Seq(SheetRows) /\ Len(sheet) \in Nat /\ k \in 1..Len(sheet)
  BY DEF CardInv, TypeOK
<1>2. CASE Withdraw(k)
  <2>1. sheet' = RemoveAt(sheet, k) /\ UNCHANGED <<card, events, listed, pc, mem>>
        /\ edits' = edits + 1
    BY <1>2 DEF Withdraw, Edit, store
  <2>2. SubSeq(sheet, 1, k - 1) \in Seq(SheetRows) /\ SubSeq(sheet, k + 1, Len(sheet)) \in Seq(SheetRows)
    BY <1>1
  <2>3. sheet' \in Seq(SheetRows)
    BY <2>1, <2>2 DEF RemoveAt
  <2> QED
    BY <2>1, <2>3, InvWorld
<1>3. ASSUME NEW entry \in Entries, Decide(k, entry[1], entry[2])
      PROVE  CardInv' /\ edits' = edits + 1
  <2>1. /\ sheet' = [sheet EXCEPT ![k].reviewer = entry[1], ![k].decision = entry[2]]
        /\ UNCHANGED <<card, events, listed, pc, mem>> /\ edits' = edits + 1
    BY <1>3 DEF Decide, Edit, store
  <2>2. /\ sheet[k] \in SheetRows
        /\ entry[1] \in {t[1] : t \in Entries} /\ entry[2] \in {t[2] : t \in Entries}
    BY <1>1
  <2>3. \A row \in SheetRows : /\ [row EXCEPT !.reviewer = entry[1]] \in SheetRows
                               /\ [row EXCEPT !.decision = entry[2]] \in SheetRows
    BY <2>2 DEF SheetRows
  <2>4. sheet' \in Seq(SheetRows)
    <3> DEFINE named == [sheet[k] EXCEPT !.reviewer = entry[1]]
               both  == [named EXCEPT !.decision = entry[2]]
    <3>1. sheet' = [sheet EXCEPT ![k] = both]
      BY <2>1
    <3>2. both \in SheetRows
      BY <2>2, <2>3
    <3> HIDE DEF both
    <3> QED
      BY <1>1, <3>1, <3>2, Replaced
  <2> QED
    BY <2>1, <2>4, InvWorld
<1> QED
  BY <1>2, <1>3

LEMMA InvIngest ==
  ASSUME CardInv, NEW e, Ingest(e)
  PROVE  CardInv'
<1>1. UNCHANGED <<card, events, sheet, listed, pc, mem>>
  BY DEF Ingest, store, tabs
<1> QED
  BY <1>1, InvWorld DEF CardInv, TypeOK

LEMMA InvDie ==
  ASSUME CardInv, NEW p \in Processes, Die(p)
  PROVE  CardInv'
<1>1. UNCHANGED <<store, tabs>> /\ Goto(p, "idle", Idle)
  BY DEF Die
<1> QED
  BY <1>1, Rest

-----------------------------------------------------------------------------
(* Who hides what.                                                         *)

\* What a step shows or is going to show, it does not take back.
Revealing ==
  /\ \A e \in Entities : /\ e \in Cards' => e \in Cards \/ \E q \in Processes : e \in mem'[q].publish
                         /\ OnSheet(e) => OnSheet(e)'
                         /\ \A q \in Processes :
                              e \in mem[q].publish => e \in mem'[q].publish \/ OnSheet(e)'
  /\ \A v \in AllEvents : /\ v \in events' => v \in events \/ \E q \in Processes : v \in mem'[q].ask
                          /\ listed[v] # 0 => listed'[v] # 0
                          /\ \A q \in Processes :
                               v \in mem[q].ask => v \in mem'[q].ask \/ listed'[v] # 0

HidesNothing ==
  /\ \A e \in Entities : ~(~UnseenCard(e) /\ UnseenCard(e)')
  /\ \A v \in AllEvents : ~(~UnseenEvent(v) /\ UnseenEvent(v)')

LEMMA RevealingHidesNothing == Revealing => HidesNothing
<1> SUFFICES ASSUME Revealing PROVE HidesNothing
  OBVIOUS
<1>1. ASSUME NEW e \in Entities, UnseenCard(e)' PROVE UnseenCard(e)
  <2>1. e \in Cards' /\ ~OnSheet(e)' /\ \A q \in Processes : e \notin mem'[q].publish
    BY <1>1 DEF UnseenCard
  <2>2. e \in Cards /\ ~OnSheet(e) /\ \A q \in Processes : e \notin mem[q].publish
    BY <2>1 DEF Revealing
  <2> QED
    BY <2>2 DEF UnseenCard
<1>2. ASSUME NEW v \in AllEvents, UnseenEvent(v)' PROVE UnseenEvent(v)
  <2>1. v \in events' /\ listed'[v] = 0 /\ \A q \in Processes : v \notin mem'[q].ask
    BY <1>2 DEF UnseenEvent
  <2>2. v \in events /\ listed[v] = 0 /\ \A q \in Processes : v \notin mem[q].ask
    BY <2>1 DEF Revealing
  <2> QED
    BY <2>2 DEF UnseenEvent
<1> QED
  BY <1>1, <1>2 DEF HidesNothing

\* A step of a job that has nothing to publish, or keeps what it has.
LEMMA Quiet ==
  ASSUME NEW p \in Processes, Cards' = Cards, UNCHANGED <<events, sheet, listed>>,
         \A q \in Processes : q # p => mem'[q] = mem[q],
         mem'[p] = mem[p] \/ (mem[p].publish = {} /\ mem[p].ask = {})
  PROVE  Revealing
BY DEF Revealing, OnSheet

\* Where a job has nothing to publish.
LEMMA NothingToPublish ==
  ASSUME NEW p, Promised(p), pc[p] \in {"idle", "read sheet", "store coefficients"} \union Syncing
  PROVE  mem[p].publish = {} /\ mem[p].ask = {}
BY DEF Promised, Scoring, Syncing

\* Every step of a job keeps the invariant and hides nothing.
LEMMA StepOfJob ==
  ASSUME CardInv, NEW p \in Processes, Step(p)
  PROVE  CardInv' /\ Revealing
<1>1. TypeOK /\ Promised(p)
  BY DEF CardInv
<1>2. ASSUME UNCHANGED <<store, tabs>>, pc[p] \in {"idle", "read sheet"},
             \E step, read : Goto(p, step, read)
      PROVE  Revealing
  <2>1. Cards' = Cards /\ UNCHANGED <<events, sheet, listed>>
    BY <1>2 DEF store, tabs, Cards
  <2>2. mem[p].publish = {} /\ mem[p].ask = {}
    BY <1>1, <1>2, NothingToPublish
  <2>3. \A q \in Processes : q # p => mem'[q] = mem[q]
    BY <1>1, <1>2 DEF Goto, TypeOK
  <2> QED
    BY <2>1, <2>2, <2>3, Quiet
<1>3. ASSUME NEW from, NEW to, Continue(p, from, to), Cards' = Cards,
             UNCHANGED <<events, sheet, listed>>,
             from \in Syncing \union {"store coefficients"} \/ mem'[p] = mem[p]
      PROVE  Revealing
  <2>1. pc[p] = from /\ \A q \in Processes : q # p => mem'[q] = mem[q]
    BY <1>1, <1>3 DEF Continue, TypeOK
  <2>2. mem'[p] = mem[p] \/ (mem[p].publish = {} /\ mem[p].ask = {})
    BY <1>1, <1>3, <2>1, NothingToPublish
  <2> QED
    BY <1>3, <2>1, <2>2, Quiet
<1>4. CASE ReadForScoring(p)
  <2>1. Revealing
    BY <1>2, <1>4 DEF ReadForScoring, Begin
  <2> QED
    BY <1>4, <2>1, InvReadForScoring
<1>5. CASE StoreScores(p)
  <2>1. Continue(p, "store scores", "store cards") /\ UNCHANGED <<card, events, sheet, listed>>
    BY <1>5 DEF StoreScores, tabs
  <2>2. mem'[p] = mem[p] /\ Cards' = Cards
    BY <1>1, <2>1 DEF Continue, TypeOK, Cards
  <2> QED
    BY <1>3, <1>5, <2>1, <2>2, InvStoreScores
<1>6. CASE StoreCards(p)
  BY <1>6, InvStoreCards DEF Revealing, OnSheet
<1>7. CASE PublishCards(p)
  <2>1. /\ CardInv' /\ UNCHANGED <<card, events, listed>>
        /\ \A e : OnSheet(e) \/ e \in mem[p].publish => OnSheet(e)'
        /\ mem'[p].ask = mem[p].ask /\ \A q \in Processes : q # p => mem'[q] = mem[q]
    BY <1>7, InvPublishCards
  <2>2. Cards' = Cards
    BY <2>1 DEF Cards
  <2> QED
    BY <2>1, <2>2 DEF Revealing
<1>8. CASE ReadCards(p)
  <2>1. Revealing
    BY <1>2, <1>8 DEF ReadCards, Begin
  <2> QED
    BY <1>8, <2>1, InvReadCards
<1>9. CASE ReadSheet(p)
  <2>1. Revealing
    BY <1>2, <1>9 DEF ReadSheet
  <2> QED
    BY <1>9, <2>1, InvReadSheet
<1>10. CASE StoreReviews(p)
  <2>1. /\ Continue(p, "store reviews", "store statuses") /\ "store reviews" \in Syncing
        /\ UNCHANGED <<card, events, sheet, listed>>
    BY <1>10 DEF StoreReviews, tabs, Syncing
  <2> QED
    BY <1>3, <1>10, <2>1, InvStoreReviews DEF Cards
<1>11. CASE StoreStatuses(p)
  <2>1. /\ Continue(p, "store statuses", "idle") /\ "store statuses" \in Syncing
        /\ UNCHANGED <<events, sheet, listed>>
    BY <1>11 DEF StoreStatuses, tabs, Syncing
  <2> QED
    BY <1>3, <1>11, <2>1, InvStoreStatuses
<1>12. CASE ReadForResolving(p)
  <2>1. Revealing
    BY <1>2, <1>12 DEF ReadForResolving, Begin
  <2> QED
    BY <1>12, <2>1, InvReadForResolving
<1>13. CASE StoreEvents(p)
  <2>1. /\ CardInv' /\ UNCHANGED <<card, sheet, listed>>
        /\ \A v \in events' : v \in events \/ v \in mem'[p].ask
        /\ mem'[p].ask = mem[p].ask /\ mem'[p].publish = mem[p].publish
        /\ \A q \in Processes : q # p => mem'[q] = mem[q]
    BY <1>13, InvStoreEvents
  <2>2. Cards' = Cards
    BY <2>1 DEF Cards
  <2> QED
    BY <2>1, <2>2 DEF Revealing, OnSheet
<1>14. CASE PublishEvents(p)
  <2>1. /\ CardInv' /\ UNCHANGED <<card, events, sheet>>
        /\ \A v \in AllEvents : listed[v] # 0 \/ v \in mem[p].ask => listed'[v] # 0
        /\ mem'[p].publish = mem[p].publish /\ \A q \in Processes : q # p => mem'[q] = mem[q]
    BY <1>14, InvPublishEvents
  <2>2. Cards' = Cards
    BY <2>1 DEF Cards
  <2> QED
    BY <2>1, <2>2 DEF Revealing, OnSheet
<1>15. CASE ReadForCalibrating(p)
  <2>1. Revealing
    BY <1>2, <1>15 DEF ReadForCalibrating, Begin
  <2> QED
    BY <1>15, <2>1, InvReadForCalibrating
<1>16. CASE StoreCoefficients(p)
  <2>1. /\ Continue(p, "store coefficients", "idle") /\ UNCHANGED <<card, events, sheet, listed>>
    BY <1>16 DEF StoreCoefficients, tabs
  <2> QED
    BY <1>3, <1>16, <2>1, InvStoreCoefficients DEF Cards
<1> QED
  BY <1>4, <1>5, <1>6, <1>7, <1>8, <1>9, <1>10, <1>11, <1>12, <1>13, <1>14, <1>15, <1>16 DEF Step

\* Faults and edits are counted.
Counting == edits \in Nat /\ faults \in Nat

LEMMA CountingStep == Counting /\ [Next]_vars => Counting'
<1> SUFFICES ASSUME Counting, [Next]_vars PROVE Counting'
  OBVIOUS
<1>1. ASSUME NEW p \in Processes, Step(p) PROVE UNCHANGED <<edits, faults>>
  BY <1>1 DEF Step, ReadForScoring, StoreScores, StoreCards, PublishCards, ReadCards, ReadSheet,
       StoreReviews, StoreStatuses, ReadForResolving, StoreEvents, PublishEvents,
       ReadForCalibrating, StoreCoefficients, Continue
<1>2. ASSUME NEW p \in Processes, Die(p) PROVE UNCHANGED edits /\ faults' = faults + 1
  BY <1>2 DEF Die
<1>3. ASSUME NEW e \in Entities, Ingest(e) PROVE UNCHANGED <<edits, faults>>
  BY <1>3 DEF Ingest
<1>4. ASSUME NEW k \in DOMAIN sheet, NEW entry \in Entries, Decide(k, entry[1], entry[2])
      PROVE  edits' = edits + 1 /\ UNCHANGED faults
  BY <1>4 DEF Decide, Edit
<1>5. ASSUME NEW k \in DOMAIN sheet, Withdraw(k) PROVE edits' = edits + 1 /\ UNCHANGED faults
  BY <1>5 DEF Withdraw, Edit
<1> QED
  BY <1>1, <1>2, <1>3, <1>4, <1>5 DEF Next, Counting, vars

-----------------------------------------------------------------------------
ShownInv == CardInv /\ Counting

\* A card that is on nobody's way to the tab is there, unless a job died or an
\* operator took it away; and so for every question about two entities.  For any
\* number of entities and of processes running any of the jobs, whatever each of
\* them had read before the others wrote.
THEOREM NothingIsHidden == Spec => HiddenByDeath
<1>1. Init => ShownInv
  BY CardInit DEF ShownInv, Counting, Init
<1> DEFINE Claim == /\ \A e \in Entities : ~UnseenCard(e) /\ UnseenCard(e)' =>
                            faults' > faults \/ edits' > edits
                    /\ \A v \in AllEvents : ~UnseenEvent(v) /\ UnseenEvent(v)' => faults' > faults
<1>2. ShownInv /\ [Next]_vars => ShownInv' /\ [Claim]_vars
  <2> SUFFICES ASSUME ShownInv, [Next]_vars PROVE ShownInv' /\ [Claim]_vars
    OBVIOUS
  <2>1. CardInv /\ Counting /\ Counting'
    BY CountingStep DEF ShownInv
  <2>2. HidesNothing => Claim
    BY DEF HidesNothing
  <2>3. ASSUME NEW p \in Processes, Step(p) PROVE CardInv' /\ Claim
    BY <2>1, <2>2, <2>3, StepOfJob, RevealingHidesNothing
  <2>4. ASSUME NEW p \in Processes, Die(p) PROVE CardInv' /\ Claim
    <3>1. faults' > faults
      BY <2>1, <2>4 DEF Die, Counting
    <3> QED
      BY <2>1, <2>4, <3>1, InvDie
  <2>5. ASSUME NEW e \in Entities, Ingest(e) PROVE CardInv' /\ Claim
    <3>1. UNCHANGED <<card, events, sheet, listed, mem>>
      BY <2>5 DEF Ingest, store, tabs
    <3>2. Revealing
      BY <3>1 DEF Revealing, OnSheet, Cards
    <3> QED
      BY <2>1, <2>2, <2>5, <3>2, InvIngest, RevealingHidesNothing
  <2>6. ASSUME NEW k \in DOMAIN sheet,
               Withdraw(k) \/ \E entry \in Entries : Decide(k, entry[1], entry[2])
        PROVE  CardInv' /\ Claim
    <3>1. CardInv' /\ edits' = edits + 1
      BY <2>1, <2>6, InvEdits
    <3>2. edits' > edits
      BY <2>1, <3>1 DEF Counting
    <3>3. UNCHANGED <<events, listed, mem>>
      BY <2>6 DEF Withdraw, Decide, Edit, store
    <3>4. \A v \in AllEvents : UnseenEvent(v)' => UnseenEvent(v)
      BY <3>3 DEF UnseenEvent
    <3> QED
      BY <3>1, <3>2, <3>4
  <2>7. CASE UNCHANGED vars
    <3>1. CardInv'
      BY <2>1, <2>7, InvWorld DEF vars, store, tabs, CardInv, TypeOK
    <3> QED
      BY <2>1, <2>7, <3>1 DEF ShownInv
  <2> HIDE DEF Claim
  <2> QED
    BY <2>1, <2>3, <2>4, <2>5, <2>6, <2>7 DEF Next, ShownInv
<1> HIDE DEF Claim
<1> QED
  BY <1>1, <1>2, PTL DEF Spec, HiddenByDeath, Claim

-----------------------------------------------------------------------------
(* Judgements.  The marks of an address.                                   *)

\* More words never take a rule from an address.
LEMMA RulesGrow ==
  ASSUME NEW a, NEW b, a \subseteq b
  PROVE  LocationRules(Text(a)) \subseteq LocationRules(Text(b))
<1>1. Text(a) \subseteq Text(b)
  BY DEF Text
<1>2. PopulationDecline(Text(a)) => PopulationDecline(Text(b))
  BY <1>1 DEF PopulationDecline
<1> QED
  BY <1>1, <1>2 DEF LocationRules

\* More rules, or a keyword of the social economy, never take a mark.
LEMMA MarksGrow ==
  ASSUME NEW a, NEW b, a \subseteq b, NEW s \in BOOLEAN, NEW t \in BOOLEAN, s => t
  PROVE  Higher(EvaluateP1(a, s).region, EvaluateP1(b, t).region)
         /\ Higher(EvaluateP1(a, s).purpose, EvaluateP1(b, t).purpose)
<1> DEFINE R == LocationRules(Text(a))
           Q == LocationRules(Text(b))
<1>1. R \subseteq Q
  BY RulesGrow
<1> HIDE DEF R, Q
<1>2. Higher(IF R # {} THEN "Y" ELSE "N", IF Q # {} THEN "Y" ELSE "N")
  BY <1>1 DEF Higher
<1>3. Higher(PurposeMatch(R, s), PurposeMatch(Q, t))
  <2>1. CASE t
    BY <1>1, <2>1 DEF Higher, PurposeMatch
  <2>2. CASE ~t
    BY <1>1, <2>2 DEF Higher, PurposeMatch
  <2> QED
    BY <2>1, <2>2
<1> QED
  BY <1>2, <1>3 DEF EvaluateP1, R, Q

PlaceType == place.social \in BOOLEAN /\ place = [address |-> place.address, social |-> place.social]

LEMMA PlaceStep ==
  ASSUME PlaceType, [JudgeNext]_judged
  PROVE  /\ PlaceType'
         /\ place.address \subseteq place'.address /\ (place.social => place'.social)
<1>1. ASSUME NEW w \in Words, Mark(place.address \union {w}, place.social)
      PROVE  PlaceType' /\ place.address \subseteq place'.address /\ (place.social => place'.social)
  BY <1>1 DEF Mark, PlaceType
<1>2. ASSUME Mark(place.address, TRUE)
      PROVE  PlaceType' /\ place.address \subseteq place'.address /\ (place.social => place'.social)
  BY <1>2 DEF Mark, PlaceType
<1>3. ASSUME UNCHANGED place
      PROVE  PlaceType' /\ place.address \subseteq place'.address /\ (place.social => place'.social)
  BY <1>3 DEF PlaceType
<1> QED
  BY <1>1, <1>2, <1>3 DEF JudgeNext, judged, Signal, Review, Redecide, Reorder, Learn

THEOREM MarksStay == JudgeSpec => MoreIsNeverUnmarked
<1>1. JudgeInit => PlaceType
  BY DEF JudgeInit, PlaceType
<1>2. PlaceType /\ [JudgeNext]_judged => PlaceType'
  BY PlaceStep
<1>3. PlaceType /\ [JudgeNext]_judged =>
        [LET old == EvaluateP1(place.address, place.social)
             new == EvaluateP1(place.address, place.social)'
         IN  Higher(old.region, new.region) /\ Higher(old.purpose, new.purpose)]_judged
  <2> SUFFICES ASSUME PlaceType, [JudgeNext]_judged
      PROVE  LET old == EvaluateP1(place.address, place.social)
                 new == EvaluateP1(place.address, place.social)'
             IN  Higher(old.region, new.region) /\ Higher(old.purpose, new.purpose)
    OBVIOUS
  <2>1. place.address \subseteq place'.address /\ (place.social => place'.social)
        /\ place.social \in BOOLEAN /\ place'.social \in BOOLEAN
    BY PlaceStep DEF PlaceType
  <2>2. EvaluateP1(place.address, place.social)' = EvaluateP1(place'.address, place'.social)
    BY DEF EvaluateP1, LocationRules, Text, PurposeMatch, PopulationDecline
  <2> QED
    BY <2>1, <2>2, MarksGrow
<1> QED
  BY <1>1, <1>2, <1>3, PTL DEF JudgeSpec, MoreIsNeverUnmarked

-----------------------------------------------------------------------------
(* Two records.                                                            *)

\* A record with finitely many words.
IsRecord(r) ==
  /\ IsFiniteSet(r.name) /\ IsFiniteSet(r.words) /\ IsFiniteSet(r.aliases)
  /\ \A n \in r.aliases : IsFiniteSet(n)

LEMMA JaccardNat ==
  ASSUME NEW a, NEW b, IsFiniteSet(a), IsFiniteSet(b)
  PROVE  Jaccard(a, b) \in Nat
<1>1. CASE a = {} \/ b = {}
  BY <1>1 DEF Jaccard
<1>2. CASE a # {} /\ b # {}
  <2>1. IsFiniteSet(a \union b) /\ IsFiniteSet(a \intersect b) /\ a \union b # {}
    BY <1>2, FS_Union, FS_Intersection
  <2>2. Cardinality(a \union b) \in Nat \ {0} /\ Cardinality(a \intersect b) \in Nat
    BY <2>1, FS_CardinalityType, FS_EmptySet
  <2> QED
    BY <1>2, <2>2 DEF Jaccard
<1> QED
  BY <1>1, <1>2

LEMMA NamesFinite ==
  ASSUME NEW r, IsRecord(r)
  PROVE  IsFiniteSet(UNION (({r.name} \union r.aliases) \ {{}}))
<1> DEFINE S == ({r.name} \union r.aliases) \ {{}}
<1>1. IsFiniteSet({r.name} \union r.aliases)
  BY FS_Singleton, FS_Union DEF IsRecord
<1>2. IsFiniteSet(S)
  BY <1>1, FS_Subset
<1>3. \A x \in S : IsFiniteSet(x)
  BY DEF IsRecord
<1> QED
  BY <1>2, <1>3, FS_UNION

LEMMA OverlapNat ==
  ASSUME NEW a, NEW b, IsRecord(a), IsRecord(b)
  PROVE  NameOverlap(a, b) \in Nat
BY NamesFinite, JaccardNat DEF NameOverlap

LEMMA UtilityInt ==
  ASSUME NEW a, NEW b, IsRecord(a), IsRecord(b)
  PROVE  SameEntityUtility(a, b) \in Int
<1>1. NameOverlap(a, b) \in Nat /\ Jaccard(a.words, b.words) \in Nat
  BY OverlapNat, JaccardNat DEF IsRecord
<1>2. Agree(a.domain, b.domain) \in Nat /\ Agree(a.mail, b.mail) \in Nat /\ Agree(a.founder, b.founder) \in Nat
  BY DEF Agree
<1>3. RegionMatch(a, b) \in Nat /\ TimeContext(a, b) \in Nat
  BY DEF RegionMatch, TimeContext
<1> QED
  BY <1>1, <1>2, <1>3 DEF SameEntityUtility

LEMMA RegionsAgree ==
  ASSUME NEW a, NEW b, ~RegionConflict(a, b)
  PROVE  RegionMatch(a, b) >= 500
<1>1. CASE a.region = "" \/ b.region = ""
  <2>1. RegionMatch(a, b) = 500
    BY <1>1, Zenon DEF RegionMatch
  <2> QED
    BY <2>1
<1>2. CASE ~(a.region = "" \/ b.region = "")
  <2>1. a.region = b.region
    BY <1>2, Zenon DEF RegionConflict
  <2>2. RegionMatch(a, b) = 1000
    BY <1>2, <2>1, ZenonT(60) DEF RegionMatch
  <2> QED
    BY <2>2
<1> QED
  BY <1>1, <1>2

\* Records that have their homepage in common, or their name and no regions
\* apart, weigh enough to be shown to a reviewer.
LEMMA RuleWeighs ==
  ASSUME NEW a, NEW b, IsRecord(a), IsRecord(b),
         \/ Same(a.domain, b.domain)
         \/ a.name # {} /\ a.name = b.name /\ ~RegionConflict(a, b)
  PROVE  SameEntityUtility(a, b) >= Logit45
<1> DEFINE N == NameOverlap(a, b)
           W == Jaccard(a.words, b.words)
           D == Agree(a.domain, b.domain)
           M == Agree(a.mail, b.mail)
           F == Agree(a.founder, b.founder)
           R == RegionMatch(a, b)
           T == TimeContext(a, b)
<1>1. N \in Nat /\ W \in Nat
  BY OverlapNat, JaccardNat DEF IsRecord
<1>2. D \in Nat /\ M \in Nat /\ F \in Nat
  BY DEF Agree
<1>3. R \in Nat /\ T \in Nat /\ T >= 200
  BY DEF RegionMatch, TimeContext
<1>4. D = 1000 \/ (N = 1000 /\ R >= 500)
  <2>1. CASE Same(a.domain, b.domain)
    BY <2>1 DEF Agree
  <2>2. CASE a.name # {} /\ a.name = b.name /\ ~RegionConflict(a, b)
    <3>1. a.name \in (({a.name} \union a.aliases) \ {{}}) \intersect (({b.name} \union b.aliases) \ {{}})
      BY <2>2
    <3>2. N = 1000
      BY <3>1 DEF NameOverlap
    <3>3. R >= 500
      BY <2>2, RegionsAgree
    <3> QED
      BY <3>2, <3>3
  <2> QED
    BY <2>1, <2>2
<1>5. SameEntityUtility(a, b)
      = (3200 * D + 1400 * M + 1600 * F + 1800 * N + 1200 * W + 800 * R + 400 * T) \div 1000 - 2400
  BY DEF SameEntityUtility
<1> HIDE DEF N, W, D, M, F, R, T
<1> QED
  BY <1>1, <1>2, <1>3, <1>4, <1>5 DEF Logit45

\* Among finitely many numbers there is a first greatest one.
LEMMA FirstGreatest ==
  ASSUME NEW n \in Nat \ {0}, NEW f, \A k \in 1..n : f[k] \in Int
  PROVE  \E k \in 1..n : \A j \in 1..n : f[j] < f[k] \/ (f[j] = f[k] /\ k <= j)
<1> DEFINE Has(m) == m \in 1..n =>
             \E k \in 1..m : \A j \in 1..m : f[j] < f[k] \/ (f[j] = f[k] /\ k <= j)
           T == {m \in Nat : Has(m)}
<1>1. Has(0)
  OBVIOUS
<1>2. ASSUME NEW m \in Nat, Has(m) PROVE Has(m + 1)
  <2> SUFFICES ASSUME m + 1 \in 1..n
               PROVE  \E k \in 1..(m + 1) : \A j \in 1..(m + 1) :
                        f[j] < f[k] \/ (f[j] = f[k] /\ k <= j)
    OBVIOUS
  <2>1. CASE m = 0
    <3>1. \A j \in 1..(m + 1) : j = 1
      BY <2>1
    <3> QED
      BY <2>1, <3>1
  <2>2. CASE m # 0
    <3>1. PICK k \in 1..m : \A j \in 1..m : f[j] < f[k] \/ (f[j] = f[k] /\ k <= j)
      BY <1>2, <2>2
    <3>2. \A j \in 1..(m + 1) : j \in 1..m \/ j = m + 1
      OBVIOUS
    <3>3. f[k] \in Int /\ f[m + 1] \in Int /\ \A j \in 1..m : f[j] \in Int
      BY <3>1
    <3>4. CASE f[m + 1] > f[k]
      <4>1. \A j \in 1..(m + 1) : f[j] < f[m + 1] \/ (f[j] = f[m + 1] /\ m + 1 <= j)
        BY <3>1, <3>2, <3>3, <3>4
      <4> QED
        BY <4>1
    <3>5. CASE f[m + 1] <= f[k]
      <4>1. \A j \in 1..(m + 1) : f[j] < f[k] \/ (f[j] = f[k] /\ k <= j)
        BY <3>1, <3>2, <3>3, <3>5
      <4> QED
        BY <3>1, <4>1
    <3> QED
      BY <3>3, <3>4, <3>5
  <2> QED
    BY <2>1, <2>2
<1>3. 0 \in T /\ \A m \in Nat : m \in T => m + 1 \in T
  <2> HIDE DEF Has
  <2> QED
    BY <1>1, <1>2
<1>4. Nat \subseteq T
  <2> HIDE DEF T
  <2> QED
    BY <1>3, Induction
<1> QED
  BY <1>4

\* Some of the first n places have a first one.
LEMMA FirstPlaceIn ==
  ASSUME NEW n \in Nat, NEW K \in SUBSET (1..n), K # {}
  PROVE  FirstPlace(K) \in K
<1> DEFINE f == [k \in 1..n |-> IF k \in K THEN 1 ELSE 0]
<1>1. PICK k \in 1..n : \A j \in 1..n : f[j] < f[k] \/ (f[j] = f[k] /\ k <= j)
  <2>1. n # 0
    <3>1. PICK i \in K : i \in 1..n
      OBVIOUS
    <3> QED
      BY <3>1
  <2>2. \A k \in 1..n : f[k] \in Int
    OBVIOUS
  <2> HIDE DEF f
  <2> QED
    BY <2>1, <2>2, FirstGreatest
<1>2. k \in K /\ \A j \in K : k <= j
  <2>1. PICK i \in K : TRUE
    OBVIOUS
  <2>2. f[i] = 1 /\ i \in 1..n
    BY <2>1
  <2>3. k \in K
    BY <1>1, <2>2
  <2> QED
    BY <1>1, <2>3
<1> QED
  BY <1>2 DEF FirstPlace

\* The likeliest of several records is at least as likely as each of them.
LEMMA ResolvedByBest ==
  ASSUME NEW a, NEW list, NEW n \in Nat, DOMAIN list = 1..n, IsRecord(a),
         \A k \in 1..n : IsRecord(list[k]),
         NEW i \in 1..n, SameEntityUtility(a, list[i]) >= Logit45
  PROVE  Resolve(a, list).action # "create"
<1> DEFINE of == [k \in 1..n |-> SameEntityUtility(a, list[k])]
           best == CHOOSE k \in 1..n : \A j \in 1..n : of[j] < of[k] \/ (of[j] = of[k] /\ k <= j)
<1>1. \A k \in 1..n : of[k] \in Int
  BY UtilityInt
<1>2. best \in 1..n /\ \A j \in 1..n : of[j] < of[best] \/ (of[j] = of[best] /\ best <= j)
  <2> HIDE DEF of
  <2>1. n \in Nat \ {0}
    OBVIOUS
  <2>2. \E k \in 1..n : \A j \in 1..n : of[j] < of[k] \/ (of[j] = of[k] /\ k <= j)
    BY <1>1, <2>1, FirstGreatest
  <2> QED
    BY <2>2
<1>3. best = CHOOSE k \in DOMAIN list : \A j \in DOMAIN list :
                SameEntityUtility(a, list[j]) < SameEntityUtility(a, list[k])
                \/ (SameEntityUtility(a, list[j]) = SameEntityUtility(a, list[k]) /\ k <= j)
  OBVIOUS
<1>4. of[i] >= Logit45 /\ of[i] \in Int /\ of[best] \in Int
  BY <1>1, <1>2
<1>5. of[best] >= Logit45
  <2> HIDE DEF of, best
  <2>1. of[i] < of[best] \/ of[i] = of[best]
    BY <1>2
  <2> QED
    BY <1>4, <2>1 DEF Logit45
<1>6. SameEntityUtility(a, list[best]) = of[best]
  BY <1>2
<1>7. list # <<>>
  OBVIOUS
<1> HIDE DEF of, best
<1> QED
  BY <1>3, <1>5, <1>6, <1>7 DEF Resolve

\* What the rules merge by homepage or name, the weights do not take for new.
LEMMA RulesAndWeights ==
  ASSUME NEW a, NEW list, NEW n \in Nat, DOMAIN list = 1..n, IsRecord(a),
         \A k \in 1..n : IsRecord(list[k]),
         ResolveByRule(a, list, <<>>).action = "merge"
  PROVE  Resolve(a, list).action # "create"
<1> DEFINE byDomain == {k \in 1..n : Same(a.domain, list[k].domain)}
           byName   == {k \in 1..n : a.name # {} /\ a.name = list[k].name}
<1>1. \/ byDomain # {}
      \/ byName # {} /\ ~RegionConflict(a, list[FirstPlace(byName)])
  <2>2. {k \in DOMAIN <<>> : a.name # {} /\ a.name = (<<>>)[k].name} = {}
    OBVIOUS
  <2> QED
    BY <2>2 DEF ResolveByRule, Result
<1>2. \E i \in 1..n : SameEntityUtility(a, list[i]) >= Logit45
  <2>1. CASE byDomain # {}
    BY <2>1, RuleWeighs
  <2>2. CASE byName # {} /\ ~RegionConflict(a, list[FirstPlace(byName)])
    <3>1. FirstPlace(byName) \in byName
      <4>1. byName \in SUBSET (1..n)
        OBVIOUS
      <4> HIDE DEF byName
      <4> QED
        BY <2>2, <4>1, FirstPlaceIn
    <3> DEFINE i == FirstPlace(byName)
    <3>2. i \in 1..n /\ a.name # {} /\ a.name = list[i].name /\ ~RegionConflict(a, list[i])
      BY <2>2, <3>1
    <3> HIDE DEF i, byName
    <3> QED
      BY <3>2, RuleWeighs
  <2> QED
    BY <1>1, <2>1, <2>2
<1> QED
  BY <1>2, ResolvedByBest


RecordFields == {"id", "name", "aliases", "domain", "mail", "founder", "words", "region", "year"}

RecordsInv ==
  /\ DOMAIN records = 1..3
  /\ \A k \in 1..3 : DOMAIN records[k] = RecordFields /\ IsRecord(records[k])

LEMMA RecordsInit == JudgeInit => RecordsInv
<1> SUFFICES ASSUME JudgeInit PROVE RecordsInv
  OBVIOUS
<1>1. records = [k \in 1..3 |-> Nobody(k)]
  BY DEF JudgeInit
<1>2. \A k : DOMAIN Nobody(k) = RecordFields
  BY DEF Nobody, RecordFields
<1>3. \A k : IsRecord(Nobody(k))
  BY FS_EmptySet DEF Nobody, IsRecord
<1> QED
  BY <1>1, <1>2, <1>3 DEF RecordsInv

LEMMA RecordsStep == RecordsInv /\ [JudgeNext]_judged => RecordsInv'
<1> SUFFICES ASSUME RecordsInv, [JudgeNext]_judged PROVE RecordsInv'
  OBVIOUS
<1>1. ASSUME UNCHANGED records PROVE RecordsInv'
  BY <1>1 DEF RecordsInv, IsRecord
<1>2. ASSUME NEW k \in DOMAIN records, NEW f \in DOMAIN Facts[k], NEW v \in Facts[k][f], Learn(k, f, v)
      PROVE  RecordsInv'
  <2>1. k \in 1..3 /\ f \in RecordFields /\ f # "id"
    BY <1>2, JudgementAssumption DEF RecordsInv, Nobody, RecordFields
  <2>2. records' = [records EXCEPT ![k] = [records[k] EXCEPT ![f] = v]]
    BY <1>2 DEF Learn
  <2>3. /\ f \in {"name", "words", "aliases"} => IsFiniteSet(v)
        /\ f = "aliases" => \A n \in v : IsFiniteSet(n)
    BY <2>1, JudgementAssumption
  <2> DEFINE r == [records[k] EXCEPT ![f] = v]
  <2>4. DOMAIN r = RecordFields /\ \A g \in RecordFields : r[g] = IF g = f THEN v ELSE records[k][g]
    BY <2>1 DEF RecordsInv
  <2>5. IsRecord(records[k])
    BY <2>1 DEF RecordsInv
  <2>6. /\ r.name = (IF f = "name" THEN v ELSE records[k].name)
        /\ r.words = (IF f = "words" THEN v ELSE records[k].words)
        /\ r.aliases = (IF f = "aliases" THEN v ELSE records[k].aliases)
    BY <2>4 DEF RecordFields
  <2> HIDE DEF r
  <2>7. IsRecord(r)
    BY <2>3, <2>5, <2>6 DEF IsRecord
  <2>8. DOMAIN records' = 1..3 /\ \A j \in 1..3 : records'[j] = IF j = k THEN r ELSE records[j]
    BY <2>1, <2>2 DEF RecordsInv, r
  <2>9. \A j \in 1..3 : DOMAIN records'[j] = RecordFields /\ IsRecord(records'[j])
    BY <2>4, <2>7, <2>8 DEF RecordsInv
  <2> QED
    BY <2>8, <2>9 DEF RecordsInv, IsRecord
<1> QED
  BY <1>1, <1>2 DEF JudgeNext, judged, Signal, Review, Redecide, Reorder, Mark

THEOREM RulesAndWeightsAgree == JudgeSpec => []MergedByRuleIsNeverNew
<1>1. RecordsInv => MergedByRuleIsNeverNew
  <2> SUFFICES ASSUME RecordsInv, ResolveByRule(records[1], Existing, <<>>).action = "merge"
               PROVE  Resolve(records[1], Existing).action # "create"
    BY DEF MergedByRuleIsNeverNew
  <2>1. DOMAIN Existing = 1..2 /\ Existing[1] = records[2] /\ Existing[2] = records[3]
    BY DEF Existing
  <2>2. \A k \in 1..2 : k = 1 \/ k = 2
    OBVIOUS
  <2>3. IsRecord(records[1]) /\ \A k \in 1..2 : IsRecord(Existing[k])
    BY <2>1, <2>2 DEF RecordsInv
  <2> HIDE DEF Existing
  <2> QED
    BY <2>1, <2>3, RulesAndWeights
<1> QED
  BY <1>1, RecordsInit, RecordsStep, PTL DEF JudgeSpec

-----------------------------------------------------------------------------
(* Sums.                                                                   *)

\* A function that adds up the first places of a list of numbers.
Adds(g, list, m) == /\ g \in [0..m -> Int] /\ g[0] = 0
                    /\ \A n \in 1..m : g[n] = g[n - 1] + list[n]

SumUpTo(list, g, n) == IF n = 0 THEN 0 ELSE g[n - 1] + list[n]

LEMMA SumExists ==
  ASSUME NEW list, NEW m \in Nat
  PROVE  \E g : g = [n \in 0..m |-> SumUpTo(list, g, n)]
<1> DEFINE U(g, n) == SumUpTo(list, g, n)
           Has(k) == \E g : g = [n \in 0..k |-> U(g, n)]
<1>1. Has(0)
  <2>1. \A g : U(g, 0) = 0
    BY DEF SumUpTo
  <2> HIDE DEF U
  <2>2. [n \in 0..0 |-> 0] = [n \in 0..0 |-> U([i \in 0..0 |-> 0], n)]
    BY <2>1
  <2> QED
    BY <2>2
<1>2. ASSUME NEW k \in Nat, Has(k) PROVE Has(k + 1)
  <2>1. PICK g : g = [n \in 0..k |-> U(g, n)]
    BY <1>2
  <2> DEFINE h == [n \in 0..(k + 1) |-> U(g, n)]
  <2>2. ASSUME NEW n \in 0..(k + 1) PROVE U(h, n) = U(g, n)
    <3>1. n # 0 => n - 1 \in 0..k
      OBVIOUS
    <3>2. n # 0 => h[n - 1] = g[n - 1]
      <4> HIDE DEF U
      <4> QED
        BY <2>1, <3>1
    <3> QED
      <4> HIDE DEF h
      <4> QED
        BY <3>2 DEF SumUpTo
  <2>3. h = [n \in 0..(k + 1) |-> U(h, n)]
    <3> HIDE DEF U
    <3> QED
      BY <2>2
  <2> QED
    BY <2>3
<1>3. Nat \subseteq {k \in Nat : Has(k)}
  <2> HIDE DEF Has
  <2> DEFINE T == {k \in Nat : Has(k)}
  <2>1. 0 \in T /\ \A k \in Nat : k \in T => k + 1 \in T
    BY <1>1, <1>2
  <2> HIDE DEF T
  <2>2. Nat \subseteq T
    BY <2>1, Induction
  <2> QED
    BY <2>2 DEF T
<1> QED
  BY <1>3

LEMMA TotalAdds ==
  ASSUME NEW list \in Seq(Int)
  PROVE  \E g : Adds(g, list, Len(list)) /\ Total(list) = g[Len(list)]
<1> DEFINE m == Len(list)
           g == CHOOSE f : f = [n \in 0..m |-> SumUpTo(list, f, n)]
           T == {n \in Nat : n <= m => g[n] \in Int}
<1>1. Total(list) = g[m] /\ m \in Nat
  BY DEF Total, SumUpTo
<1>2. g = [n \in 0..m |-> SumUpTo(list, g, n)]
  BY <1>1, SumExists
<1> HIDE DEF g
<1>3. \A n \in 0..m : g[n] = SumUpTo(list, g, n)
  BY <1>2
<1>4. g[0] = 0 /\ \A n \in 1..m : g[n] = g[n - 1] + list[n]
  <2>1. 0 \in 0..m /\ \A n \in 1..m : n \in 0..m /\ n # 0
    BY <1>1
  <2> QED
    BY <1>3, <2>1 DEF SumUpTo
<1>5. 0 \in T
  BY <1>4
<1>6. ASSUME NEW k \in Nat, k \in T PROVE k + 1 \in T
  <2> SUFFICES ASSUME k + 1 <= m PROVE g[k + 1] \in Int
    OBVIOUS
  <2>1. k + 1 \in 1..m /\ (k + 1) - 1 = k /\ k <= m
    BY <1>1
  <2>2. g[k] \in Int /\ list[k + 1] \in Int
    BY <1>6, <2>1
  <2> QED
    BY <1>4, <2>1, <2>2
<1>7. Nat \subseteq T
  <2> HIDE DEF T
  <2> QED
    BY <1>5, <1>6, Induction
<1>8. \A n \in 0..m : g[n] \in Int
  BY <1>1, <1>7
<1>9. DOMAIN g = 0..m
  BY <1>2
<1>10. g \in [0..m -> Int]
  <2>1. g = [n \in 0..m |-> g[n]]
    BY <1>2, <1>9
  <2> QED
    BY <1>8, <2>1
<1> QED
  BY <1>1, <1>4, <1>10 DEF Adds

\* The numbers after the first p, up to q, are the same.
AgreeOn(a, b, p, q) == \A i \in (p + 1)..q : a[i] = b[i]

\* Sums that agree at a place go on to agree while the numbers do.
LEMMA SumsAgree ==
  ASSUME NEW m \in Nat, NEW n \in Nat, NEW p \in Nat, NEW q \in Nat, p <= q, q <= m, q <= n,
         NEW a, NEW b, NEW f, NEW g, Adds(f, a, m), Adds(g, b, n), f[p] = g[p],
         AgreeOn(a, b, p, q)
  PROVE  f[q] = g[q]
<1> DEFINE T == {k \in Nat : p <= k /\ k <= q => f[k] = g[k]}
<1>1. 0 \in T
  BY DEF Adds
<1>2. ASSUME NEW k \in Nat, k \in T PROVE k + 1 \in T
  <2> SUFFICES ASSUME p <= k + 1, k + 1 <= q PROVE f[k + 1] = g[k + 1]
    OBVIOUS
  <2>1. CASE k + 1 = p
    BY <2>1
  <2>2. CASE k + 1 # p
    <3>1. p <= k /\ k <= q /\ k + 1 \in (p + 1)..q /\ k + 1 \in 1..m /\ k + 1 \in 1..n /\ (k + 1) - 1 = k
      BY <2>2
    <3> QED
      BY <1>2, <3>1 DEF Adds, AgreeOn
  <2> QED
    BY <2>1, <2>2
<1>3. Nat \subseteq T
  <2> HIDE DEF T
  <2> QED
    BY <1>1, <1>2, Induction
<1> QED
  BY <1>3

LEMMA TotalInt ==
  ASSUME NEW list \in Seq(Int)
  PROVE  Total(list) \in Int
<1>1. PICK g : Adds(g, list, Len(list)) /\ Total(list) = g[Len(list)]
  BY TotalAdds
<1>2. Len(list) \in 0..Len(list)
  OBVIOUS
<1> QED
  BY <1>1, <1>2 DEF Adds

\* One number more.
LEMMA TotalAppend ==
  ASSUME NEW list \in Seq(Int), NEW more \in Seq(Int), Len(more) = Len(list) + 1,
         \A i \in 1..Len(list) : more[i] = list[i]
  PROVE  Total(more) = Total(list) + more[Len(more)]
<1>1. PICK f : Adds(f, list, Len(list)) /\ Total(list) = f[Len(list)]
  BY TotalAdds
<1>2. PICK g : Adds(g, more, Len(more)) /\ Total(more) = g[Len(more)]
  BY TotalAdds
<1> DEFINE n == Len(list)
<1>3. n \in Nat /\ Len(more) = n + 1
  OBVIOUS
<1> HIDE DEF n
<1>4. f[0] = g[0] /\ Adds(f, list, n) /\ Adds(g, more, n + 1) /\ \A i \in (0 + 1)..n : list[i] = more[i]
  BY <1>1, <1>2, <1>3 DEF Adds, n
<1>5. f[n] = g[n]
  <2> DEFINE o == n + 1
  <2>1. o \in Nat /\ 0 \in Nat /\ 0 <= n /\ n <= n /\ n <= o
    BY <1>3
  <2>2. Adds(g, more, o) /\ AgreeOn(list, more, 0, n)
    BY <1>4 DEF AgreeOn
  <2> HIDE DEF o
  <2> QED
    BY <1>3, <1>4, <2>1, <2>2, SumsAgree
<1>6. n + 1 \in 1..(n + 1) /\ (n + 1) - 1 = n
  BY <1>3
<1> QED
  BY <1>1, <1>2, <1>3, <1>4, <1>5, <1>6, SMTT(60) DEF Adds, n

\* Two neighbours in the other order.
LEMMA TotalSwap ==
  ASSUME NEW a \in Seq(Int), NEW b \in Seq(Int), Len(b) = Len(a),
         NEW k \in 2..Len(a), b[k] = a[k - 1], b[k - 1] = a[k],
         \A i \in 1..Len(a) : i # k /\ i # k - 1 => b[i] = a[i]
  PROVE  Total(b) = Total(a)
<1>1. PICK f : Adds(f, a, Len(a)) /\ Total(a) = f[Len(a)]
  BY TotalAdds
<1>2. PICK g : Adds(g, b, Len(b)) /\ Total(b) = g[Len(b)]
  BY TotalAdds
<1> DEFINE n == Len(a)
<1>3. n \in Nat /\ Len(b) = n /\ k \in 2..n
  OBVIOUS
<1>4. \A i \in 1..n : a[i] \in Int
  OBVIOUS
<1>5. \A i \in 1..n : i # k /\ i # k - 1 => b[i] = a[i]
  OBVIOUS
<1> HIDE DEF n
<1>6. f[0] = g[0] /\ Adds(f, a, n) /\ Adds(g, b, n)
  BY <1>1, <1>2, <1>3 DEF Adds, n
<1>7. f[k - 2] = g[k - 2]
  <2>1. k - 2 \in Nat /\ k - 2 <= n /\ 0 <= k - 2
    BY <1>3
  <2>2. AgreeOn(a, b, 0, k - 2)
    <3>1. \A i \in 1..(k - 2) : i \in 1..n /\ i # k /\ i # k - 1
      BY <1>3
    <3>2. \A i \in 1..(k - 2) : a[i] = b[i]
      BY <1>5, <3>1
    <3> QED
      BY <3>2 DEF AgreeOn
  <2> HIDE DEF Adds
  <2> QED
    BY <1>3, <1>6, <2>1, <2>2, SumsAgree
<1>8. f[k] = g[k]
  <2>1. k \in 1..n /\ k - 1 \in 1..n /\ k - 2 \in 0..n /\ (k - 1) - 1 = k - 2
    BY <1>3
  <2>2. f[k - 1] = f[k - 2] + a[k - 1] /\ f[k] = f[k - 1] + a[k] /\ f[k - 2] \in Int
    BY <1>6, <2>1 DEF Adds
  <2>3. g[k - 1] = g[k - 2] + b[k - 1] /\ g[k] = g[k - 1] + b[k]
    BY <1>6, <2>1 DEF Adds
  <2>4. a[k] \in Int /\ a[k - 1] \in Int
    BY <1>4, <2>1
  <2> QED
    BY <1>7, <2>2, <2>3, <2>4
<1>9. f[n] = g[n]
  <2>1. k \in Nat /\ k <= n /\ AgreeOn(a, b, k, n)
    BY <1>3, <1>5 DEF AgreeOn
  <2> HIDE DEF Adds
  <2> QED
    BY <1>3, <1>6, <1>8, <2>1, SumsAgree
<1> QED
  BY <1>1, <1>2, <1>3, <1>9 DEF n

-----------------------------------------------------------------------------
(* Quotients.                                                              *)

LEMMA QuotientBound ==
  ASSUME NEW a \in Int, NEW b \in Nat \ {0}, NEW q \in Int, q * b <= a
  PROVE  q <= a \div b
<1> DEFINE d == a \div b
<1>1. d \in Int /\ a < (d + 1) * b
  OBVIOUS
<1> HIDE DEF d
<1>2. ASSUME d + 1 <= q PROVE FALSE
  <2>1. (d + 1) * b <= q * b
    BY <1>1, <1>2
  <2>2. (d + 1) * b \in Int /\ q * b \in Int
    BY <1>1
  <2> QED
    BY <1>1, <2>1, <2>2
<1>3. q <= d
  BY <1>1, <1>2
<1> QED
  BY <1>3 DEF d

LEMMA QuotientGrows ==
  ASSUME NEW i \in Nat, NEW j \in Nat, i <= j, NEW n \in Nat \ {0}
  PROVE  /\ (1000 * i) \div n \in Nat /\ (1000 * j) \div n \in Nat
         /\ (1000 * i) \div n <= (1000 * j) \div n
<1> DEFINE q == (1000 * i) \div n
<1>1. q \in Nat /\ q * n <= 1000 * i /\ (1000 * j) \div n \in Nat
  OBVIOUS
<1> HIDE DEF q
<1>2. 1000 * j \in Int /\ q * n \in Int /\ q * n <= 1000 * j
  BY <1>1
<1>3. q <= (1000 * j) \div n
  BY <1>1, <1>2, QuotientBound
<1> QED
  BY <1>1, <1>3 DEF q

\* A number that is no less than an average does not lower it.
LEMMA AverageKeeps ==
  ASSUME NEW t \in Int, NEW x \in Int, NEW n \in Nat \ {0}, NEW q \in Int, q = t \div n, x >= q
  PROVE  (t + x) \div (n + 1) >= q
<1>1. q * n <= t
  OBVIOUS
<1>2. q * (n + 1) = q * n + q
  OBVIOUS
<1>3. q * n \in Int /\ q * (n + 1) <= t + x
  BY <1>1, <1>2
<1>4. t + x \in Int /\ n + 1 \in Nat \ {0}
  OBVIOUS
<1> QED
  BY <1>3, <1>4, QuotientBound

-----------------------------------------------------------------------------
(* Scores.                                                                 *)

LEMMA ClipRange ==
  ASSUME NEW x \in Int
  PROVE  Clip(x) \in 0..Unit
BY DEF Clip, Unit

\* The confidences that are averaged.
Confidences(found) == [k \in DOMAIN found |-> Clip(found[k].confidence)]

LEMMA ConfidencesNat ==
  ASSUME NEW found \in Seq(Signals)
  PROVE  /\ Confidences(found) \in Seq(Int) /\ Len(Confidences(found)) = Len(found)
         /\ \A k \in 1..Len(found) : Confidences(found)[k] \in 0..Unit
<1>1. ASSUME NEW k \in 1..Len(found) PROVE Clip(found[k].confidence) \in 0..Unit
  <2>1. found[k] \in Signals
    OBVIOUS
  <2>2. found[k].confidence \in Int
    BY <2>1, JudgementAssumption
  <2> QED
    BY <2>2, ClipRange
<1>2. \A x \in 0..Unit : x \in Int
  BY DEF Unit
<1>3. \A k \in 1..Len(found) : Clip(found[k].confidence) \in Int
  BY <1>1, <1>2
<1>4. Confidences(found) = [k \in 1..Len(found) |-> Clip(found[k].confidence)]
  BY DEF Confidences
<1> QED
  BY <1>1, <1>3, <1>4

\* A sum of numbers up to Unit is at most Unit times as many.
LEMMA TotalBound ==
  ASSUME NEW list \in Seq(Int), \A k \in 1..Len(list) : list[k] \in 0..Unit
  PROVE  Total(list) \in Nat /\ Total(list) <= Unit * Len(list)
<1>1. PICK g : Adds(g, list, Len(list)) /\ Total(list) = g[Len(list)]
  BY TotalAdds
<1> DEFINE m == Len(list)
           T == {n \in Nat : n <= m => g[n] \in Nat /\ g[n] <= 1000 * n}
<1>2. m \in Nat
  OBVIOUS
<1>3. 0 \in T
  BY <1>1 DEF Adds, Unit
<1>4. ASSUME NEW k \in Nat, k \in T PROVE k + 1 \in T
  <2> SUFFICES ASSUME k + 1 <= m PROVE g[k + 1] \in Nat /\ g[k + 1] <= 1000 * (k + 1)
    OBVIOUS
  <2>1. k + 1 \in 1..m /\ (k + 1) - 1 = k /\ k <= m
    BY <1>2
  <2>2. g[k] \in Nat /\ g[k] <= 1000 * k /\ list[k + 1] \in 0..1000
    BY <1>4, <2>1 DEF Unit
  <2>3. g[k + 1] = g[k] + list[k + 1]
    BY <1>1, <2>1 DEF Adds
  <2> DEFINE x == g[k]
             y == list[k + 1]
  <2>4. x \in Nat /\ x <= 1000 * k /\ y \in 0..1000
    BY <2>2
  <2> HIDE DEF x, y
  <2>5. x + y \in Nat /\ x + y <= 1000 * (k + 1)
    BY <2>4
  <2> QED
    BY <2>3, <2>5 DEF x, y
<1>5. Nat \subseteq T
  <2> HIDE DEF T
  <2> QED
    BY <1>3, <1>4, Induction
<1> QED
  BY <1>1, <1>2, <1>5 DEF Unit

LEMMA AverageRange ==
  ASSUME NEW found \in Seq(Signals)
  PROVE  AverageConfidence(found) \in 0..Unit
<1>1. CASE found = <<>>
  BY <1>1 DEF AverageConfidence, Unit
<1>2. CASE found # <<>>
  <2> DEFINE t == Total(Confidences(found))
             n == Len(found)
  <2>1. n \in Nat \ {0}
    BY <1>2
  <2>2. t \in Nat /\ t <= Unit * n
    BY ConfidencesNat, TotalBound
  <2>3. AverageConfidence(found) = t \div n
    BY <1>2 DEF AverageConfidence, Confidences
  <2> HIDE DEF t, n
  <2> DEFINE q == t \div n
  <2>4. q \in Nat /\ q <= 1000
    BY <2>1, <2>2 DEF Unit
  <2>5. AverageConfidence(found) = q
    BY <2>3
  <2> HIDE DEF q
  <2> QED
    BY <2>4, <2>5 DEF Unit
<1> QED
  BY <1>1, <1>2

LEMMA ShareRange ==
  ASSUME NEW expected, IsFiniteSet(expected), NEW observed
  PROVE  Share(expected, observed) \in 0..Unit
<1>1. CASE expected = {}
  BY <1>1 DEF Share, Unit
<1>2. CASE expected # {}
  <2> DEFINE a == Cardinality(expected \intersect observed)
             b == Cardinality(expected)
  <2>1. b \in Nat \ {0} /\ a \in Nat /\ a <= b
    BY <1>2, FS_Subset, FS_CardinalityType, FS_EmptySet
  <2>2. Share(expected, observed) = (Unit * a) \div b
    BY <1>2 DEF Share
  <2> HIDE DEF a, b
  <2>3. (Unit * a) \div b \in 0..Unit
    BY <2>1 DEF Unit
  <2> QED
    BY <2>2, <2>3
<1> QED
  BY <1>1, <1>2

LEMMA BaseRange ==
  ASSUME NEW found \in Seq(Signals)
  PROVE  BaseScore(found) \in 0..(35 * Unit)
<1> DEFINE c == AverageConfidence(found)
           v == IF Len(found) < 3 THEN Len(found) ELSE 3
           x == IF HasType(found, GrowthTypes) THEN 5 * Unit ELSE 0
           y == IF HasType(found, ImpactTypes) THEN 5 * Unit ELSE 0
           sum == 20 * c + (5 * Unit * v) \div 3 + x + y
<1>1. c \in 0..Unit
  BY AverageRange
<1>2. v \in 0..3
  <2> DEFINE n == Len(found)
  <2>1. n \in Nat
    OBVIOUS
  <2> HIDE DEF n
  <2>2. (IF n < 3 THEN n ELSE 3) \in 0..3
    BY <2>1
  <2> QED
    BY <2>2 DEF n
<1>3. x \in Nat /\ y \in Nat
  BY DEF Unit
<1>4. BaseScore(found) = IF found = <<>> THEN 0 ELSE IF sum > 35 * Unit THEN 35 * Unit ELSE sum
  BY DEF BaseScore
<1> HIDE DEF c, v, x, y
<1>5. sum \in Nat
  BY <1>1, <1>2, <1>3 DEF Unit
<1> HIDE DEF sum
<1> QED
  BY <1>4, <1>5, SMTT(60) DEF Unit

LEMMA BaseInt ==
  ASSUME NEW found \in Seq(Signals)
  PROVE  BaseScore(found) \in Int
<1>1. \A x \in 0..(35 * Unit) : x \in Int
  BY DEF Unit
<1> QED
  BY <1>1, BaseRange

\* The parts of a candidate's score.
LEMMA FitRanges ==
  ASSUME NEW found, NEW c \in Candidates, NEW p \in Profiles
  PROVE  /\ FundFit(found, p) \in 0..Unit /\ ImpactFit(found, p) \in 0..Unit
         /\ HypothesisFit(found, c, p) \in 0..Unit
         /\ RecruitingFit(c, p) \in {0, Unit}
BY JudgementAssumption, ShareRange DEF FundFit, ImpactFit, HypothesisFit, RecruitingFit

\* With the default coefficients, whoever is to be advanced has the utility of
\* the watchlist: even if all that is counted alone by the score is at its
\* best, what both count weighs enough against every doubt.
LEMMA AdvancedIsUseful ==
  ASSUME NEW found \in Seq(Signals), NEW c \in Candidates, NEW p \in Profiles,
         RecommendedAction(TotalScore(found, c, p)) = "advance"
  PROVE  Utility(DefaultModel, Features(found, c, p)) >= Logit40
<1> DEFINE base == BaseScore(found)
           fund == FundFit(found, p)
           recr == RecruitingFit(c, p)
           hypo == HypothesisFit(found, c, p)
           impact == ImpactFit(found, p)
           tags == SignalTags(found)
           ct == ChannelTrust(tags)
           mc == MultiChannelSignal(found)
           pd == PriorDecision(tags)
           fr == Freshness(tags)
           ri == Risk(tags)
           f == Features(found, c, p)
<1>1. /\ base \in Int /\ 0 <= base /\ base <= 35000
      /\ fund \in Int /\ 0 <= fund /\ fund <= 1000
      /\ recr = 0 \/ recr = 1000
      /\ hypo \in Int /\ 0 <= hypo /\ hypo <= 1000
      /\ impact \in Int /\ 0 <= impact /\ impact <= 1000
  <2>1. base \in 0..(35 * Unit)
    BY BaseRange
  <2>2. fund \in 0..Unit /\ impact \in 0..Unit /\ hypo \in 0..Unit /\ recr \in {0, Unit}
    BY FitRanges
  <2> HIDE DEF base, fund, recr, hypo, impact
  <2> QED
    BY <2>1, <2>2, SMTT(60) DEF Unit
<1>2. /\ ct \in Int /\ 350 <= ct /\ ct <= 1000
      /\ mc = 0 \/ mc = 1000
      /\ pd \in Int /\ 0 <= pd /\ pd <= 1000
      /\ fr \in Int /\ 100 <= fr /\ fr <= 1000
      /\ ri \in Int /\ 0 <= ri /\ ri <= 900
  <2>1. ct = 900 \/ ct = 700 \/ ct = 350 \/ ct = 550
    BY DEF ChannelTrust
  <2>2. mc = 0 \/ mc = 1000
    BY DEF MultiChannelSignal, Unit
  <2>3. pd = 1000 \/ pd = 450 \/ pd = 0 \/ pd = 200
    BY DEF PriorDecision, Unit
  <2>4. fr = 100 \/ fr = 1000 \/ fr = 650
    BY DEF Freshness, Unit
  <2>5. ri = 900 \/ ri = 500 \/ ri = 100
    BY DEF Risk
  <2> HIDE DEF ct, mc, pd, fr, ri
  <2> QED
    BY <2>1, <2>2, <2>3, <2>4, <2>5
<1>3. base + 15 * fund + 15 * recr + 15 * hypo + 20 * impact >= 75000
  <2> DEFINE t == TotalScore(found, c, p)
             sum == base + 15 * fund + 15 * recr + 15 * hypo + 20 * impact
  <2>1. t >= 75000
    BY DEF RecommendedAction, Unit
  <2>2. t = IF sum > 100000 THEN 100000 ELSE sum
    BY DEF TotalScore, Unit
  <2> HIDE DEF base, fund, recr, hypo, impact
  <2>3. sum \in Int
    BY <1>1
  <2> HIDE DEF t, sum
  <2>4. sum >= 75000
    BY <2>1, <2>2, <2>3
  <2> QED
    BY <2>4 DEF sum
<1>4. /\ f.fund_fit = fund /\ f.recruitment_fit = recr /\ f.impact_fit = impact
      /\ f.channel_trust = ct /\ f.multi_channel_signal = mc /\ f.prior_decision = pd
      /\ f.freshness = fr /\ f.risk = ri
  BY DEF Features
<1>5. Utility(DefaultModel, f)
      = -2000 + (1500 * Clip(f.fund_fit)) \div 1000 + (1200 * Clip(f.recruitment_fit)) \div 1000
        + (1800 * Clip(f.impact_fit)) \div 1000 + (1400 * Clip(f.channel_trust)) \div 1000
        + (800 * Clip(f.multi_channel_signal)) \div 1000 + (700 * Clip(f.prior_decision)) \div 1000
        + (500 * Clip(f.freshness)) \div 1000 - (1100 * Clip(f.risk)) \div 1000
  BY DEF Utility, DefaultModel, Unit
<1> HIDE DEF base, fund, recr, hypo, impact, tags, ct, mc, pd, fr, ri, f
<1>6. ASSUME NEW x \in Int, 0 <= x, x <= 1000 PROVE Clip(x) = x
  BY <1>6 DEF Clip, Unit
<1> DEFINE F == (1500 * fund) \div 1000
           R == (1200 * recr) \div 1000
           I == (1800 * impact) \div 1000
           C == (1400 * ct) \div 1000
           M == (800 * mc) \div 1000
           D == (700 * pd) \div 1000
           H == (500 * fr) \div 1000
           K == (1100 * ri) \div 1000
<1>7. Utility(DefaultModel, f) = -2000 + F + R + I + C + M + D + H - K
  <2>1. Clip(fund) = fund /\ Clip(recr) = recr /\ Clip(impact) = impact
    BY <1>1, <1>6
  <2>2. Clip(ct) = ct /\ Clip(mc) = mc
    BY <1>2, <1>6
  <2>3. Clip(pd) = pd /\ Clip(fr) = fr
    BY <1>2, <1>6
  <2>4. Clip(ri) = ri
    BY <1>2, <1>6
  <2> QED
    BY <1>4, <1>5, <2>1, <2>2, <2>3, <2>4
<1>8. 15 * fund + 15 * recr + 20 * impact >= 25000
  BY <1>1, <1>3
<1>9. F \in Int /\ R \in Int /\ I \in Int /\ F + R + I >= 2097
  BY <1>1, <1>8, SMTT(60)
<1>10. C \in Int /\ M \in Int /\ D \in Int /\ C >= 490 /\ M >= 0 /\ D >= 0
  BY <1>2
<1>11. H \in Int /\ K \in Int /\ H >= 50 /\ K <= 990
  BY <1>2
<1> HIDE DEF F, R, I, C, M, D, H, K
<1>12. -2000 + F + R + I + C + M + D + H - K >= -405
  BY <1>9, <1>10, <1>11
<1> QED
  BY <1>7, <1>12 DEF f, Logit40

CaseInv ==
  /\ evidence \in Seq(Signals)
  /\ case.profile \in Profiles /\ case.entity \in Candidates

LEMMA CaseInit == JudgeInit => CaseInv
BY DEF JudgeInit, CaseInv

LEMMA CaseStep == CaseInv /\ [JudgeNext]_judged => CaseInv'
<1> SUFFICES ASSUME CaseInv, [JudgeNext]_judged PROVE CaseInv'
  OBVIOUS
<1>1. ASSUME NEW s \in Signals, Signal(s) PROVE CaseInv'
  BY <1>1 DEF Signal, CaseInv
<1>2. ASSUME UNCHANGED <<evidence, case>> PROVE CaseInv'
  BY <1>2 DEF CaseInv
<1> QED
  BY <1>1, <1>2 DEF JudgeNext, judged, Review, Redecide, Reorder, Learn, Mark

THEOREM VerdictsAgree == JudgeSpec => []AdvanceNeverArchived
<1>1. CaseInv => AdvanceNeverArchived
  <2> SUFFICES ASSUME CaseInv, RecommendedAction(Score(evidence)) = "advance"
               PROVE  QueueType(DefaultModel, evidence, case.entity, case.profile) # "archive"
    BY DEF AdvanceNeverArchived
  <2> DEFINE u == Utility(DefaultModel, Features(evidence, case.entity, case.profile))
  <2>1. u >= Logit40
    BY AdvancedIsUseful DEF CaseInv, Score
  <2> HIDE DEF u
  <2>2. \A uncertainty, impact, thesis, channel :
          RouteCandidate(u, uncertainty, impact, thesis, channel) # "archive"
    BY <2>1 DEF RouteCandidate
  <2> QED
    BY <2>2 DEF QueueType, u
<1> QED
  BY <1>1, CaseInit, CaseStep, PTL DEF JudgeSpec

\* More words never lower a share.
LEMMA ShareGrows ==
  ASSUME NEW expected, IsFiniteSet(expected), NEW a, NEW b, a \subseteq b
  PROVE  Share(expected, a) \in Nat /\ Share(expected, b) \in Nat
         /\ Share(expected, a) <= Share(expected, b)
<1>1. CASE expected = {}
  BY <1>1 DEF Share
<1>2. CASE expected # {}
  <2> DEFINE i == Cardinality(expected \intersect a)
             j == Cardinality(expected \intersect b)
             n == Cardinality(expected)
  <2>1. IsFiniteSet(expected \intersect b) /\ expected \intersect a \subseteq expected \intersect b
    BY FS_Subset
  <2>2. i \in Nat /\ j \in Nat /\ i <= j
    BY <2>1, FS_Subset, FS_CardinalityType
  <2>3. n \in Nat \ {0}
    BY <1>2, FS_CardinalityType, FS_EmptySet
  <2>4. Share(expected, a) = (Unit * i) \div n /\ Share(expected, b) = (Unit * j) \div n
    BY <1>2 DEF Share
  <2> HIDE DEF i, j, n
  <2>5. (1000 * i) \div n \in Nat /\ (1000 * j) \div n \in Nat /\ (1000 * i) \div n <= (1000 * j) \div n
    BY <2>2, <2>3, QuotientGrows
  <2> QED
    BY <2>4, <2>5 DEF Unit
<1> QED
  BY <1>1, <1>2

LEMMA OneMore ==
  ASSUME NEW S, NEW list \in Seq(S), NEW x \in S
  PROVE  /\ Append(list, x) \in Seq(S) /\ Append(list, x) # <<>>
         /\ Len(list) \in Nat /\ Len(Append(list, x)) = Len(list) + 1
OBVIOUS

\* A signal at least as sure as the others keeps the average where it was.
LEMMA SureAverage ==
  ASSUME NEW found \in Seq(Signals), NEW s \in Signals,
         s.confidence >= AverageConfidence(found)
  PROVE  AverageConfidence(Append(found, s)) >= AverageConfidence(found)
<1> DEFINE more == Append(found, s)
           n    == Len(found)
           t    == Total(Confidences(found))
           x    == Clip(s.confidence)
           old  == AverageConfidence(found)
<1>1. more \in Seq(Signals) /\ more # <<>> /\ n \in Nat /\ Len(more) = n + 1
  BY OneMore
<1>2. old \in 0..1000
  BY AverageRange, ZenonT(60) DEF Unit
<1>3. CASE found = <<>>
  <2>1. old = 0
    BY <1>3 DEF AverageConfidence
  <2>2. AverageConfidence(more) \in 0..1000
    BY <1>1, AverageRange, ZenonT(60) DEF Unit
  <2> DEFINE new == AverageConfidence(more)
  <2>3. new \in 0..1000
    BY <2>2
  <2> HIDE DEF new, old
  <2>4. new >= old
    BY <2>1, <2>3
  <2> QED
    BY <2>4 DEF new, old
<1>4. CASE found # <<>>
  <2>1. old = t \div n /\ n # 0
    BY <1>4 DEF AverageConfidence, Confidences
  <2>2. AverageConfidence(more) = Total(Confidences(more)) \div (n + 1)
    BY <1>1 DEF AverageConfidence, Confidences
  <2>3. Total(Confidences(more)) = t + x
    <3>1. Confidences(more) \in Seq(Int) /\ Confidences(found) \in Seq(Int)
          /\ Len(Confidences(more)) = n + 1 /\ Len(Confidences(found)) = n
      BY <1>1, ConfidencesNat
    <3>2. \A i \in 1..n : Confidences(more)[i] = Confidences(found)[i]
      BY <1>1 DEF Confidences
    <3>3. Confidences(more)[n + 1] = x
      BY <1>1 DEF Confidences
    <3> HIDE DEF more, n
    <3> QED
      BY <3>1, <3>2, <3>3, TotalAppend
  <2>4. t \in Int
    BY ConfidencesNat, TotalBound
  <2>5. x \in Int /\ x >= old
    <3>1. s.confidence \in Int
      BY JudgementAssumption
    <3> HIDE DEF old
    <3>2. s.confidence >= old
      BY DEF old
    <3> QED
      BY <1>2, <3>1, <3>2 DEF Clip, Unit
  <2> HIDE DEF more, n, t, x, old
  <2>6. (t + x) \div (n + 1) >= old
    <3>1. t \in Int /\ x \in Int /\ n \in Nat \ {0} /\ old \in Int /\ old = t \div n /\ x >= old
      BY <1>1, <1>2, <2>1, <2>4, <2>5
    <3> QED
      BY <3>1, AverageKeeps
  <2> QED
    BY <2>2, <2>3, <2>6 DEF more, old
<1> QED
  BY <1>3, <1>4

LEMMA ObservedGrows ==
  ASSUME NEW found \in Seq(Signals), NEW s \in Signals
  PROVE  /\ Observed(found) \subseteq Observed(Append(found, s))
         /\ \A types : HasType(found, types) => HasType(Append(found, s), types)
<1> DEFINE S == ToSet(found)
           T == ToSet(Append(found, s))
<1>1. S \subseteq T
  <2> SUFFICES ASSUME NEW k \in 1..Len(found) PROVE \E j \in DOMAIN Append(found, s) : Append(found, s)[j] = found[k]
    BY DEF ToSet
  <2>1. k \in DOMAIN Append(found, s) /\ Append(found, s)[k] = found[k]
    OBVIOUS
  <2> QED
    BY <2>1
<1> HIDE DEF S, T
<1>2. UNION {x.tags : x \in S} \subseteq UNION {x.tags : x \in T}
      /\ UNION {x.words : x \in S} \subseteq UNION {x.words : x \in T}
  BY <1>1
<1>3. Observed(found) \subseteq Observed(Append(found, s))
  BY <1>2 DEF Observed, SignalTags, S, T
<1>4. \A types : HasType(found, types) => HasType(Append(found, s), types)
  BY <1>1 DEF HasType, S, T
<1> QED
  BY <1>3, <1>4

LEMMA SureBase ==
  ASSUME NEW found \in Seq(Signals), NEW s \in Signals,
         s.confidence >= AverageConfidence(found)
  PROVE  BaseScore(Append(found, s)) >= BaseScore(found)
<1> DEFINE more == Append(found, s)
           n == Len(found)
           Volume(k) == IF k < 3 THEN k ELSE 3
           Growth(list) == IF HasType(list, GrowthTypes) THEN 5 * Unit ELSE 0
           Impact(list) == IF HasType(list, ImpactTypes) THEN 5 * Unit ELSE 0
           c == AverageConfidence(found)
           d == AverageConfidence(more)
           v == Volume(n)
           w == Volume(n + 1)
           g == Growth(found)
           h == Growth(more)
           i == Impact(found)
           j == Impact(more)
           sum == 20 * c + (5 * Unit * v) \div 3 + g + i
           sum2 == 20 * d + (5 * Unit * w) \div 3 + h + j
<1>1. more \in Seq(Signals) /\ more # <<>> /\ n \in Nat /\ Len(more) = n + 1
  BY OneMore
<1>2. c \in 0..1000 /\ d \in 0..1000 /\ d >= c
  <2>1. c \in 0..Unit /\ d \in 0..Unit
    BY <1>1, AverageRange
  <2>2. d >= c
    BY SureAverage
  <2> HIDE DEF c, d
  <2> QED
    BY <2>1, <2>2 DEF Unit
<1>3. v \in 0..3 /\ w \in 0..3 /\ v <= w
  <2> HIDE DEF n
  <2> QED
    BY <1>1
<1>4. (g = 0 \/ g = 5000) /\ (h = 0 \/ h = 5000) /\ g <= h
  <2>1. HasType(found, GrowthTypes) => HasType(more, GrowthTypes)
    BY ObservedGrows
  <2> HIDE DEF more
  <2> QED
    BY <2>1 DEF Unit
<1>5. (i = 0 \/ i = 5000) /\ (j = 0 \/ j = 5000) /\ i <= j
  <2>1. HasType(found, ImpactTypes) => HasType(more, ImpactTypes)
    BY ObservedGrows
  <2> HIDE DEF more
  <2> QED
    BY <2>1 DEF Unit
<1>6. BaseScore(found) = IF found = <<>> THEN 0 ELSE IF sum > 35 * Unit THEN 35 * Unit ELSE sum
  BY DEF BaseScore
<1>7. BaseScore(more) = IF sum2 > 35 * Unit THEN 35 * Unit ELSE sum2
  BY <1>1 DEF BaseScore
<1> HIDE DEF more, c, d, v, w, g, h, i, j
<1>8. sum \in Int /\ sum2 \in Int /\ 0 <= sum /\ sum <= sum2
  BY <1>2, <1>3, <1>4, <1>5 DEF Unit
<1> HIDE DEF sum, sum2
<1> QED
  BY <1>6, <1>7, <1>8 DEF Unit, more

LEMMA SureTotal ==
  ASSUME NEW found \in Seq(Signals), NEW s \in Signals, NEW c \in Candidates, NEW p \in Profiles,
         s.confidence >= AverageConfidence(found)
  PROVE  TotalScore(Append(found, s), c, p) >= TotalScore(found, c, p)
<1> DEFINE more == Append(found, s)
           b1 == BaseScore(found)
           b2 == BaseScore(more)
           f1 == FundFit(found, p)
           f2 == FundFit(more, p)
           r  == RecruitingFit(c, p)
           h1 == HypothesisFit(found, c, p)
           h2 == HypothesisFit(more, c, p)
           i1 == ImpactFit(found, p)
           i2 == ImpactFit(more, p)
           sum1 == b1 + 15 * f1 + 15 * r + 15 * h1 + 20 * i1
           sum2 == b2 + 15 * f2 + 15 * r + 15 * h2 + 20 * i2
<1>1. more \in Seq(Signals)
  BY OneMore
<1>2. b1 \in Int /\ b2 \in Int /\ b1 <= b2
  <2>1. b1 \in Int /\ b2 \in Int
    BY <1>1, BaseInt
  <2>2. b2 >= b1
    BY SureBase
  <2> HIDE DEF b1, b2
  <2> QED
    BY <2>1, <2>2
<1>3. IsFiniteSet(p.purpose) /\ IsFiniteSet(p.impact) /\ IsFiniteSet(p.desired)
  BY JudgementAssumption
<1>4. Observed(found) \subseteq Observed(more)
  BY ObservedGrows
<1>5. f1 \in Nat /\ f2 \in Nat /\ f1 <= f2
  BY <1>3, <1>4, ShareGrows DEF FundFit
<1>6. i1 \in Nat /\ i2 \in Nat /\ i1 <= i2
  BY <1>3, <1>4, ShareGrows DEF ImpactFit
<1>7. h1 \in Nat /\ h2 \in Nat /\ h1 <= h2
  <2>1. Observed(found) \union ({c.industry} \ {""}) \subseteq Observed(more) \union ({c.industry} \ {""})
    BY <1>4
  <2> QED
    BY <1>3, <2>1, ShareGrows DEF HypothesisFit
<1>8. r \in Int
  BY DEF RecruitingFit, Unit
<1>9. /\ TotalScore(found, c, p) = IF sum1 > 100 * Unit THEN 100 * Unit ELSE sum1
      /\ TotalScore(more, c, p) = IF sum2 > 100 * Unit THEN 100 * Unit ELSE sum2
  BY DEF TotalScore
<1> HIDE DEF more, b1, b2, f1, f2, r, h1, h2, i1, i2
<1>10. sum1 \in Int /\ sum2 \in Int /\ sum1 <= sum2
  BY <1>2, <1>5, <1>6, <1>7, <1>8
<1> HIDE DEF sum1, sum2
<1> QED
  BY <1>9, <1>10 DEF Unit, more

LEMMA SureCertain ==
  ASSUME NEW found \in Seq(Signals), NEW s \in Signals,
         s.confidence >= AverageConfidence(found)
  PROVE  Uncertainty(Append(found, s)) <= Uncertainty(found)
<1> DEFINE more == Append(found, s)
           n == Len(found)
           c == AverageConfidence(found)
           d == AverageConfidence(more)
           Few(k) == IF k <= 1 THEN 250 ELSE 0
           x == Unit - c + Few(n)
           y == Unit - d + Few(n + 1)
<1>1. more \in Seq(Signals) /\ n \in Nat /\ Len(more) = n + 1
  BY OneMore
<1>2. c \in 0..1000 /\ d \in 0..1000 /\ d >= c
  <2>1. c \in 0..Unit /\ d \in 0..Unit
    BY <1>1, AverageRange
  <2>2. d >= c
    BY SureAverage
  <2> HIDE DEF c, d
  <2> QED
    BY <2>1, <2>2 DEF Unit
<1>3. Uncertainty(found) = Clip(x) /\ Uncertainty(more) = Clip(y)
  BY <1>1 DEF Uncertainty
<1> HIDE DEF more, n, c, d
<1>4. x \in Int /\ y \in Int /\ y <= x
  BY <1>1, <1>2 DEF Unit
<1> HIDE DEF x, y
<1> QED
  BY <1>3, <1>4 DEF Clip, Unit, more

THEOREM SureSignalsHelp == JudgeSpec => SureSignalNeverLowers
<1>1. CaseInv /\ [JudgeNext]_judged =>
        [\A s \in Signals :
           evidence' = Append(evidence, s) /\ s.confidence >= AverageConfidence(evidence) =>
             Score(evidence') >= Score(evidence) /\ Uncertainty(evidence') <= Uncertainty(evidence)]_judged
  <2> SUFFICES ASSUME CaseInv, [JudgeNext]_judged, NEW s \in Signals,
                      evidence' = Append(evidence, s), s.confidence >= AverageConfidence(evidence)
               PROVE  Score(evidence') >= Score(evidence) /\ Uncertainty(evidence') <= Uncertainty(evidence)
    OBVIOUS
  <2>1. evidence \in Seq(Signals) /\ case.profile \in Profiles /\ case.entity \in Candidates
    BY DEF CaseInv
  <2> QED
    BY <2>1, SureTotal, SureCertain DEF Score
<1> QED
  BY <1>1, CaseInit, CaseStep, PTL DEF JudgeSpec, SureSignalNeverLowers

-----------------------------------------------------------------------------
(* The corpus.                                                             *)

FitNames == {"fund_fit", "recruitment_fit", "impact_fit"}
Columns  == FitNames \union {""}

ExamplesInv ==
  /\ examples \in Seq([id : Nat, decision : Decisions, fund_fit : Int,
                       recruitment_fit : Int, impact_fit : Int])
  /\ \A k \in 1..Len(examples) : examples[k].id \in 1..Len(examples)
  /\ \A j, k \in 1..Len(examples) : examples[j].id = examples[k].id => j = k

Example == [id : Nat, decision : Decisions, fund_fit : Int, recruitment_fit : Int, impact_fit : Int]

\* What an example adds to the sum for a field, "" being the intercept's.
Worth(x, field) ==
  IF ~Usable(x) THEN 0 ELSE IF field = "" THEN Weight(x) ELSE Weight(x) * Clip(x[field])
Worths(list, field) == [k \in DOMAIN list |-> Worth(list[k], field)]

LEMMA WorthInt ==
  ASSUME NEW x \in Example, NEW field \in Columns
  PROVE  Worth(x, field) \in Int
<1>1. CASE ~Usable(x)
  <2>1. Worth(x, field) = 0
    BY <1>1, Zenon DEF Worth
  <2> QED
    BY <2>1
<1>2. CASE Usable(x)
  <2>1. Weight(x) \in Int
    <3>1. x.decision \in {"advance", "watchlist", "request_more_info", "reject"}
      BY <1>2 DEF Usable, DecisionWeight
    <3>2. /\ DecisionWeight["advance"] \in Int /\ DecisionWeight["watchlist"] \in Int
          /\ DecisionWeight["request_more_info"] \in Int /\ DecisionWeight["reject"] \in Int
      BY DEF DecisionWeight
    <3>3. \A d \in {"advance", "watchlist", "request_more_info", "reject"} : DecisionWeight[d] \in Int
      BY <3>2
    <3> QED
      BY <3>1, <3>3, Zenon DEF Weight
  <2>2. CASE field = ""
    <3>1. Worth(x, field) = Weight(x)
      BY <1>2, <2>2, Zenon DEF Worth
    <3> QED
      BY <2>1, <3>1, Zenon
  <2>3. CASE field # ""
    <3>1. x[field] \in Int
      BY <2>3 DEF Columns, FitNames, Example
    <3> DEFINE c == Clip(x[field])
               w == Weight(x)
    <3>2. c \in 0..Unit
      BY <3>1, ClipRange, Zenon
    <3>3. w \in Int
      BY <2>1, Zenon
    <3>4. w * c \in Int
      <4> HIDE DEF c, w
      <4>1. c \in Int
        BY <3>2 DEF Unit
      <4> QED
        BY <3>3, <4>1
    <3>5. Worth(x, field) = Weight(x) * Clip(x[field])
      BY <1>2, <2>3, Zenon DEF Worth
    <3> QED
      BY <3>4, <3>5
  <2> QED
    BY <2>2, <2>3
<1> QED
  BY <1>1, <1>2

LEMMA WorthsInt ==
  ASSUME NEW list \in Seq(Example), NEW field \in Columns
  PROVE  /\ Worths(list, field) \in Seq(Int) /\ Len(Worths(list, field)) = Len(list)
         /\ \A k \in 1..Len(list) : Worths(list, field)[k] = Worth(list[k], field)
<1>1. \A k \in 1..Len(list) : Worth(list[k], field) \in Int
  BY WorthInt
<1>2. Worths(list, field) = [k \in 1..Len(list) |-> Worth(list[k], field)]
  BY DEF Worths
<1> QED
  BY <1>1, <1>2

\* Coefficients come from how many examples are usable and from four sums.
LEMMA CalibratedBySums ==
  ASSUME NEW a, NEW b, UsableOf(a) = {} <=> UsableOf(b) = {},
         Cardinality(UsableOf(a)) = Cardinality(UsableOf(b)),
         \A field \in Columns : Total(Worths(a, field)) = Total(Worths(b, field))
  PROVE  Calibrated(a) = Calibrated(b)
<1>1. \A field \in FitNames : Weighted(a, field) = Weighted(b, field)
  <2> SUFFICES ASSUME NEW field \in FitNames PROVE Weighted(a, field) = Weighted(b, field)
    OBVIOUS
  <2>1. field # ""
    BY DEF FitNames
  <2>2. ASSUME NEW list PROVE Weighted(list, field) = Total(Worths(list, field))
    <3>1. \A x : (IF Usable(x) THEN Weight(x) * Clip(x[field]) ELSE 0) = Worth(x, field)
      BY <2>1, Zenon DEF Worth
    <3>2. [k \in DOMAIN list |-> IF Usable(list[k]) THEN Weight(list[k]) * Clip(list[k][field]) ELSE 0]
          = Worths(list, field)
      BY <3>1, Zenon DEF Worths
    <3> QED
      BY <3>2, Zenon DEF Weighted, Aggregate
  <2> QED
    BY <2>2 DEF Columns
<1>2. Aggregate(a, Weight) = Aggregate(b, Weight)
  <2>1. ASSUME NEW list PROVE Aggregate(list, Weight) = Total(Worths(list, ""))
    <3>1. \A x : (IF Usable(x) THEN Weight(x) ELSE 0) = Worth(x, "")
      BY Zenon DEF Worth
    <3>2. [k \in DOMAIN list |-> IF Usable(list[k]) THEN Weight(list[k]) ELSE 0] = Worths(list, "")
      BY <3>1, Zenon DEF Worths
    <3> QED
      BY <3>2, Zenon DEF Aggregate
  <2> QED
    BY <2>1 DEF Columns
<1>3. \A field \in FitNames : FeatureDelta(a, field) = FeatureDelta(b, field)
  BY <1>1 DEF FeatureDelta
<1>4. InterceptDelta(a) = InterceptDelta(b)
  BY <1>2 DEF InterceptDelta
<1> QED
  BY <1>3, <1>4 DEF Calibrated, FitNames

LEMMA ExamplesInit == JudgeInit => ExamplesInv
BY DEF JudgeInit, ExamplesInv

\* A review more.
LEMMA ReviewKeeps ==
  ASSUME ExamplesInv, NEW d \in Decisions, NEW f \in Fits, Review(d, f)
  PROVE  /\ ExamplesInv'
         /\ CorpusHash(examples') = CorpusHash(examples) => Calibrated(examples') = Calibrated(examples)
<1> DEFINE n == Len(examples)
           new == [id |-> n + 1, decision |-> d, fund_fit |-> f.fund_fit,
                   recruitment_fit |-> f.recruitment_fit, impact_fit |-> f.impact_fit]
           more == Append(examples, new)
<1>1. examples \in Seq(Example) /\ n \in Nat
  BY DEF ExamplesInv, Example
<1>2. examples' = more
  BY DEF Review
<1>3. new \in Example
  BY <1>1, JudgementAssumption DEF Example
<1>4. new.id = n + 1 /\ new.decision = d
  OBVIOUS
<1> HIDE DEF new
<1>5. more \in Seq(Example) /\ Len(more) = n + 1 /\ more[n + 1] = new
      /\ \A k \in 1..n : more[k] = examples[k]
  BY <1>1, <1>3
<1> HIDE DEF n, more
<1>6. \A k \in 1..n : examples[k].id \in 1..n
  BY DEF ExamplesInv, n
<1>7. \A j, k \in 1..n : examples[j].id = examples[k].id => j = k
  BY DEF ExamplesInv, n
<1>8. \A k \in 1..(n + 1) : k \in 1..n \/ k = n + 1
  BY <1>1
<1>9. ExamplesInv'
  <2>1. \A k \in 1..(n + 1) : more[k].id \in 1..(n + 1)
    BY <1>1, <1>4, <1>5, <1>6, <1>8
  <2>2. \A j, k \in 1..(n + 1) : more[j].id = more[k].id => j = k
    <3>1. \A k \in 1..n : examples[k].id # n + 1
      BY <1>1, <1>6
    <3> QED
      BY <1>4, <1>5, <1>7, <1>8, <3>1
  <2> QED
    BY <1>2, <1>5, <2>1, <2>2 DEF ExamplesInv, Example
<1>10. ASSUME CorpusHash(more) = CorpusHash(examples) PROVE Calibrated(more) = Calibrated(examples)
  <2>1. ~Usable(new)
    <3> SUFFICES ASSUME Usable(new) PROVE FALSE
      OBVIOUS
    <3> DEFINE Key(x) == [id |-> x.id, decision |-> x.decision, fund_fit |-> x.fund_fit,
                          recruitment_fit |-> x.recruitment_fit, impact_fit |-> x.impact_fit]
    <3>1. \A x : Key(x).id = x.id
      OBVIOUS
    <3>2. CorpusHash(more) = {Key(more[k]) : k \in UsableOf(more)}
          /\ CorpusHash(examples) = {Key(examples[k]) : k \in UsableOf(examples)}
      BY DEF CorpusHash
    <3> HIDE DEF Key
    <3>3. n + 1 \in UsableOf(more)
      BY <1>1, <1>5 DEF UsableOf
    <3>4. Key(new) \in CorpusHash(examples)
      BY <1>5, <1>10, <3>2, <3>3
    <3>5. PICK k \in UsableOf(examples) : Key(new) = Key(examples[k])
      BY <3>2, <3>4
    <3>6. k \in 1..n
      BY <1>1 DEF UsableOf, n
    <3>7. examples[k].id = n + 1
      BY <1>4, <3>1, <3>5
    <3> QED
      BY <1>1, <1>6, <3>6, <3>7
  <2>2. UsableOf(more) = UsableOf(examples)
    <3>1. DOMAIN more = 1..(n + 1) /\ DOMAIN examples = 1..n
      BY <1>1, <1>5 DEF n
    <3> QED
      BY <1>1, <1>5, <1>8, <2>1, <3>1 DEF UsableOf
  <2>3. ASSUME NEW field \in Columns
        PROVE  Total(Worths(more, field)) = Total(Worths(examples, field))
    <3> DEFINE old == Worths(examples, field)
               ws  == Worths(more, field)
    <3>1. old \in Seq(Int) /\ Len(old) = n /\ \A k \in 1..n : old[k] = Worth(examples[k], field)
      BY <1>1, WorthsInt DEF n
    <3>2. ws \in Seq(Int) /\ Len(ws) = n + 1 /\ \A k \in 1..(n + 1) : ws[k] = Worth(more[k], field)
      BY <1>1, <1>5, WorthsInt
    <3> HIDE DEF old, ws
    <3>3. \A k \in 1..n : ws[k] = old[k]
      BY <1>1, <1>5, <3>1, <3>2
    <3>4. n + 1 \in 1..(n + 1)
      BY <1>1
    <3>5. ws[n + 1] = 0
      BY <1>5, <2>1, <3>2, <3>4 DEF Worth
    <3>6. Total(old) \in Int
      BY <3>1, TotalInt
    <3>7. Total(ws) = Total(old) + ws[n + 1]
      BY <3>1, <3>2, <3>3, TotalAppend
    <3>8. Total(ws) = Total(old)
      BY <3>5, <3>6, <3>7
    <3> QED
      BY <3>8 DEF old, ws
  <2> QED
    BY <2>2, <2>3, CalibratedBySums
<1> QED
  BY <1>2, <1>9, <1>10

\* Another decision.
LEMMA RedecideKeeps ==
  ASSUME ExamplesInv, NEW k \in DOMAIN examples, NEW d \in Decisions, Redecide(k, d)
  PROVE  /\ ExamplesInv'
         /\ CorpusHash(examples') = CorpusHash(examples) => Calibrated(examples') = Calibrated(examples)
<1> DEFINE n == Len(examples)
           old == examples[k]
           new == [examples[k] EXCEPT !.decision = d]
           list == examples'
<1>1. examples \in Seq(Example) /\ n \in Nat /\ k \in 1..n /\ DOMAIN examples = 1..n
  BY DEF ExamplesInv, Example
<1>2. list = [examples EXCEPT ![k] = new]
  BY DEF Redecide
<1>3. old \in Example
  BY <1>1
<1>4. new \in Example /\ new.id = old.id /\ new.decision = d
  BY <1>3 DEF Example
<1>5. old.decision = d => new = old
  <2>1. DOMAIN new = DOMAIN old
    OBVIOUS
  <2> QED
    BY <1>3 DEF Example
<1> HIDE DEF new
<1>6. list \in Seq(Example) /\ Len(list) = n /\ DOMAIN list = 1..n /\ list[k] = new
      /\ \A j \in 1..n : j # k => list[j] = examples[j]
  BY <1>1, <1>2, <1>4
<1>7. /\ \A j \in 1..n : examples[j].id \in 1..n
      /\ \A i, j \in 1..n : examples[i].id = examples[j].id => i = j
  BY DEF ExamplesInv
<1> HIDE DEF n, list, old
<1>8. \A j \in 1..n : list[j].id = examples[j].id
  BY <1>4, <1>6 DEF old
<1>9. ExamplesInv'
  BY <1>6, <1>7, <1>8 DEF ExamplesInv, Example, list
<1>10. ASSUME CorpusHash(list) = CorpusHash(examples) PROVE Calibrated(list) = Calibrated(examples)
  <2> DEFINE Key(x) == [id |-> x.id, decision |-> x.decision, fund_fit |-> x.fund_fit,
                        recruitment_fit |-> x.recruitment_fit, impact_fit |-> x.impact_fit]
  <2>1. \A x : Key(x).id = x.id /\ Key(x).decision = x.decision
    OBVIOUS
  <2>2. CorpusHash(list) = {Key(list[j]) : j \in UsableOf(list)}
        /\ CorpusHash(examples) = {Key(examples[j]) : j \in UsableOf(examples)}
    BY DEF CorpusHash
  <2> HIDE DEF Key
  <2>3. CASE old.decision = d
    <3>1. list = examples
      BY <1>1, <1>2, <1>5, <2>3 DEF old
    <3> QED
      BY <3>1
  <2>4. CASE old.decision # d
    <3>1. ~Usable(new)
      <4> SUFFICES ASSUME Usable(new) PROVE FALSE
        OBVIOUS
      <4>1. k \in UsableOf(list)
        BY <1>1, <1>6 DEF UsableOf
      <4>2. PICK j \in UsableOf(examples) : Key(new) = Key(examples[j])
        BY <1>6, <1>10, <2>2, <4>1
      <4>3. j \in 1..n /\ examples[j].id = old.id /\ examples[j].decision = d
        BY <1>1, <1>4, <2>1, <4>2 DEF UsableOf
      <4>4. j = k
        BY <1>1, <1>7, <4>3 DEF old
      <4> QED
        BY <2>4, <4>3, <4>4 DEF old
    <3>2. ~Usable(old)
      <4> SUFFICES ASSUME Usable(old) PROVE FALSE
        OBVIOUS
      <4>1. k \in UsableOf(examples)
        BY <1>1 DEF UsableOf, old
      <4>2. PICK j \in UsableOf(list) : Key(old) = Key(list[j])
        BY <1>10, <2>2, <4>1 DEF old
      <4>3. j \in 1..n /\ list[j].id = old.id /\ list[j].decision = old.decision
        BY <1>6, <2>1, <4>2 DEF UsableOf
      <4>4. j = k
        BY <1>1, <1>7, <1>8, <4>3 DEF old
      <4> QED
        BY <1>4, <1>6, <2>4, <4>3, <4>4
    <3>3. UsableOf(list) = UsableOf(examples)
      BY <1>1, <1>6, <3>1, <3>2 DEF UsableOf, old
    <3>4. ASSUME NEW field \in Columns PROVE Worths(list, field) = Worths(examples, field)
      <4>1. \A j \in 1..n : Worth(list[j], field) = Worth(examples[j], field)
        <5> SUFFICES ASSUME NEW j \in 1..n PROVE Worth(list[j], field) = Worth(examples[j], field)
          OBVIOUS
        <5>1. CASE j = k
          <6>1. Worth(new, field) = 0 /\ Worth(old, field) = 0
            BY <3>1, <3>2, Zenon DEF Worth
          <6> QED
            BY <1>6, <5>1, <6>1 DEF old
        <5>2. CASE j # k
          BY <1>6, <5>2
        <5> QED
          BY <5>1, <5>2
      <4> QED
        BY <1>1, <1>6, <4>1, Zenon DEF Worths
    <3> QED
      BY <3>3, <3>4, CalibratedBySums
  <2> QED
    BY <2>3, <2>4
<1> QED
  BY <1>9, <1>10 DEF list

\* Sets that differ by one element taken for another are of one size.
LEMMA Exchange ==
  ASSUME NEW S, NEW T, IsFiniteSet(S), NEW x \in S, NEW y, y \notin S, T = (S \ {x}) \union {y}
  PROVE  Cardinality(T) = Cardinality(S) /\ T # {}
<1>1. IsFiniteSet(S \ {x}) /\ Cardinality(S \ {x}) = Cardinality(S) - 1
  BY FS_RemoveElement
<1>2. y \notin S \ {x} /\ Cardinality(S) \in Nat
  BY FS_CardinalityType
<1>3. Cardinality(T) = Cardinality(S \ {x}) + 1
  BY <1>1, <1>2, FS_AddElement
<1> QED
  BY <1>1, <1>2, <1>3

\* Neighbours in the other order.
LEMMA ReorderKeeps ==
  ASSUME ExamplesInv, NEW k \in DOMAIN examples, Reorder(k)
  PROVE  /\ ExamplesInv'
         /\ Calibrated(examples') = Calibrated(examples)
<1> DEFINE n == Len(examples)
           list == examples'
           U == UsableOf(examples)
           V == UsableOf(list)
<1>1. examples \in Seq(Example) /\ n \in Nat /\ k \in 1..n /\ DOMAIN examples = 1..n
  BY DEF ExamplesInv, Example
<1>2. k > 1 /\ list = [examples EXCEPT ![k] = examples[k - 1], ![k - 1] = examples[k]]
  BY DEF Reorder
<1>3. k - 1 \in 1..n /\ k \in 2..n /\ k # k - 1
  BY <1>1, <1>2
<1>4. list \in Seq(Example) /\ Len(list) = n /\ DOMAIN list = 1..n
      /\ list[k] = examples[k - 1] /\ list[k - 1] = examples[k]
      /\ \A j \in 1..n : j # k /\ j # k - 1 => list[j] = examples[j]
  BY <1>1, <1>2, <1>3
<1>5. /\ \A j \in 1..n : examples[j].id \in 1..n
      /\ \A i, j \in 1..n : examples[i].id = examples[j].id => i = j
  BY DEF ExamplesInv
<1> HIDE DEF n, list
<1>6. ExamplesInv'
  <2>1. \A j \in 1..n : list[j].id \in 1..n
    BY <1>1, <1>3, <1>4, <1>5
  <2>2. \A i, j \in 1..n : list[i].id = list[j].id => i = j
    BY <1>1, <1>3, <1>4, <1>5
  <2> QED
    BY <1>4, <2>1, <2>2 DEF ExamplesInv, Example, list
<1>7. Cardinality(V) = Cardinality(U) /\ (V = {} <=> U = {})
  <2>1. IsFiniteSet(U)
    <3>1. U \subseteq 1..n /\ IsFiniteSet(1..n)
      BY <1>1, FS_Interval DEF UsableOf
    <3> QED
      BY <3>1, FS_Subset
  <2>2. /\ k \in V <=> k - 1 \in U
        /\ k - 1 \in V <=> k \in U
        /\ \A j : j # k /\ j # k - 1 => (j \in V <=> j \in U)
    BY <1>1, <1>3, <1>4 DEF UsableOf
  <2> HIDE DEF U, V
  <2> DEFINE i == k - 1
  <2>3. i # k /\ (k \in V <=> i \in U) /\ (i \in V <=> k \in U)
        /\ \A j : j # k /\ j # i => (j \in V <=> j \in U)
    BY <1>3, <2>2
  <2> HIDE DEF i
  <2>4. CASE k \in U /\ i \notin U
    <3>1. V = (U \ {k}) \union {i}
      BY <2>3, <2>4
    <3> QED
      BY <2>1, <2>4, <3>1, Exchange
  <2>5. CASE i \in U /\ k \notin U
    <3>1. V = (U \ {i}) \union {k}
      BY <2>3, <2>5
    <3> QED
      BY <2>1, <2>5, <3>1, Exchange
  <2>6. CASE k \in U <=> i \in U
    <3>1. V = U
      BY <2>3, <2>6
    <3> QED
      BY <3>1
  <2> QED
    BY <2>4, <2>5, <2>6
<1>8. ASSUME NEW field \in Columns PROVE Total(Worths(list, field)) = Total(Worths(examples, field))
  <2> DEFINE a == Worths(examples, field)
             b == Worths(list, field)
  <2>1. a \in Seq(Int) /\ Len(a) = n /\ \A j \in 1..n : a[j] = Worth(examples[j], field)
    BY <1>1, WorthsInt DEF n
  <2>2. b \in Seq(Int) /\ Len(b) = n /\ \A j \in 1..n : b[j] = Worth(list[j], field)
    BY <1>4, WorthsInt
  <2> HIDE DEF a, b
  <2>3. b[k] = a[k - 1] /\ b[k - 1] = a[k] /\ \A j \in 1..n : j # k /\ j # k - 1 => b[j] = a[j]
    BY <1>1, <1>3, <1>4, <2>1, <2>2
  <2>4. Total(b) = Total(a)
    <3>1. Len(b) = Len(a) /\ k \in 2..Len(a)
      BY <1>3, <2>1, <2>2
    <3>2. \A j \in 1..Len(a) : j # k /\ j # k - 1 => b[j] = a[j]
      BY <2>1, <2>3
    <3> QED
      BY <2>1, <2>2, <2>3, <3>1, <3>2, TotalSwap
  <2> QED
    BY <2>4 DEF a, b
<1> QED
  BY <1>6, <1>7, <1>8, CalibratedBySums DEF list

THEOREM HashOfTheModel == JudgeSpec => SameHashSameModel
<1>1. ExamplesInv /\ [JudgeNext]_judged =>
        /\ ExamplesInv'
        /\ [CorpusHash(examples') = CorpusHash(examples) => Calibrated(examples') = Calibrated(examples)]_judged
  <2> SUFFICES ASSUME ExamplesInv, [JudgeNext]_judged
      PROVE  /\ ExamplesInv'
             /\ CorpusHash(examples') = CorpusHash(examples) => Calibrated(examples') = Calibrated(examples)
    OBVIOUS
  <2>1. ASSUME NEW d \in Decisions, NEW f \in Fits, Review(d, f)
        PROVE  /\ ExamplesInv'
               /\ CorpusHash(examples') = CorpusHash(examples) => Calibrated(examples') = Calibrated(examples)
    BY <2>1, ReviewKeeps
  <2>2. ASSUME NEW k \in DOMAIN examples, Reorder(k)
        PROVE  /\ ExamplesInv'
               /\ CorpusHash(examples') = CorpusHash(examples) => Calibrated(examples') = Calibrated(examples)
    BY <2>2, ReorderKeeps
  <2>3. ASSUME NEW k \in DOMAIN examples, NEW d \in Decisions, Redecide(k, d)
        PROVE  /\ ExamplesInv'
               /\ CorpusHash(examples') = CorpusHash(examples) => Calibrated(examples') = Calibrated(examples)
    BY <2>3, RedecideKeeps
  <2>4. ASSUME UNCHANGED examples
        PROVE  /\ ExamplesInv'
               /\ CorpusHash(examples') = CorpusHash(examples) => Calibrated(examples') = Calibrated(examples)
    BY <2>4 DEF ExamplesInv
  <2> QED
    BY <2>1, <2>2, <2>3, <2>4 DEF JudgeNext, judged, Signal, Learn, Mark
<1> QED
  BY <1>1, ExamplesInit, PTL DEF JudgeSpec, SameHashSameModel
=============================================================================
