------------------------------ MODULE SheetProofs ------------------------------
(***************************************************************************)
(* The two writers of the Google sheet.  That the news side of             *)
(* crawl_sources tells nothing twice, and that its default tab loses a     *)
(* news only by a death, a race or its age; and that a tab as              *)
(* GoogleSheetReviewQueue writes it loses rows and notes, or moves notes   *)
(* to the wrong columns, only when somebody writes in between.  All this   *)
(* for any targets, articles, rows, edits, processes and faults.           *)
(***************************************************************************)
EXTENDS PortfolioNews, SheetTab, NaturalsInduction, WellFoundedInduction, TLAPS
-----------------------------------------------------------------------------
(* Functions that are built place by place.                                *)

\* Induction, for a set of numbers.
LEMMA Induction ==
  ASSUME NEW T, 0 \in T, \A k \in Nat : k \in T => k + 1 \in T
  PROVE  Nat \subseteq T
<1> DEFINE R == {xy \in Nat \X Nat : xy[1] < xy[2]}
<1> SUFFICES ASSUME Nat \ T # {} PROVE FALSE
  OBVIOUS
<1>1. IsWellFoundedOn(R, Nat)
  BY NatLessThanWellFounded DEF OpToRel
<1>2. PICK k \in Nat \ T : \A y \in Nat \ T : <<y, k>> \notin R
  <2> HIDE DEF R
  <2> QED
    BY <1>1, WFMin
<1>3. k \in Nat /\ k # 0
  BY <1>2
<1>4. k - 1 \in Nat /\ <<k - 1, k>> \in R
  BY <1>3
<1>5. k - 1 \in T /\ (k - 1) + 1 = k
  BY <1>2, <1>3, <1>4
<1> QED
  BY <1>2, <1>4, <1>5

\* What Only builds.
OnlyUpTo(s, kept, g, n) ==
  IF n = 0 THEN <<>> ELSE IF s[n] \in kept THEN Append(g[n - 1], s[n]) ELSE g[n - 1]

LEMMA OnlyExists ==
  ASSUME NEW s, NEW kept, NEW m \in Nat
  PROVE  \E g : g = [n \in 0..m |-> OnlyUpTo(s, kept, g, n)]
<1> DEFINE U(g, n) == OnlyUpTo(s, kept, g, n)
           Has(k) == \E g : g = [n \in 0..k |-> U(g, n)]
<1>1. Has(0)
  <2>1. \A g : U(g, 0) = <<>>
    BY DEF OnlyUpTo
  <2> HIDE DEF U
  <2>2. [n \in 0..0 |-> <<>>] = [n \in 0..0 |-> U([i \in 0..0 |-> <<>>], n)]
    BY <2>1
  <2> QED
    BY <2>2
<1>2. ASSUME NEW k \in Nat, Has(k) PROVE Has(k + 1)
  <2>1. PICK g : g = [n \in 0..k |-> U(g, n)]
    BY <1>2
  <2> DEFINE h == [n \in 0..(k + 1) |-> U(g, n)]
  <2>2. ASSUME NEW n \in 0..(k + 1) PROVE U(h, n) = U(g, n)
    <3>1. n # 0 => n - 1 \in 0..k
      OBVIOUS
    <3>2. n # 0 => h[n - 1] = g[n - 1]
      <4> HIDE DEF U
      <4> QED
        BY <2>1, <3>1
    <3> QED
      <4> HIDE DEF h
      <4> QED
        BY <3>2 DEF OnlyUpTo
  <2>3. h = [n \in 0..(k + 1) |-> U(h, n)]
    <3> HIDE DEF U
    <3> QED
      BY <2>2
  <2> QED
    BY <2>3
<1>3. Nat \subseteq {k \in Nat : Has(k)}
  <2> HIDE DEF Has
  <2> DEFINE T == {k \in Nat : Has(k)}
  <2>1. 0 \in T /\ \A k \in Nat : k \in T => k + 1 \in T
    BY <1>1, <1>2
  <2> HIDE DEF T
  <2>2. Nat \subseteq T
    BY <2>1, Induction
  <2> QED
    BY <2>2 DEF T
<1> QED
  BY <1>3

\* What Placed builds.
PlacedUpTo(table, list, from, g, n) ==
  IF n = 0 THEN table ELSE Sheet!Place(g[n - 1], list[n], from)

PlacedBy(g, table, list, from, m) == g = [n \in 0..m |-> PlacedUpTo(table, list, from, g, n)]

LEMMA PlacedExists ==
  ASSUME NEW table, NEW list, NEW from, NEW m \in Nat
  PROVE  \E g : PlacedBy(g, table, list, from, m)
<1> DEFINE U(g, n) == PlacedUpTo(table, list, from, g, n)
           Has(k) == \E g : g = [n \in 0..k |-> U(g, n)]
<1>1. Has(0)
  <2>1. \A g : U(g, 0) = table
    BY DEF PlacedUpTo
  <2> HIDE DEF U
  <2>2. [n \in 0..0 |-> table] = [n \in 0..0 |-> U([i \in 0..0 |-> table], n)]
    BY <2>1
  <2> QED
    BY <2>2
<1>2. ASSUME NEW k \in Nat, Has(k) PROVE Has(k + 1)
  <2>1. PICK g : g = [n \in 0..k |-> U(g, n)]
    BY <1>2
  <2> DEFINE h == [n \in 0..(k + 1) |-> U(g, n)]
  <2>2. ASSUME NEW n \in 0..(k + 1) PROVE U(h, n) = U(g, n)
    <3>1. n # 0 => n - 1 \in 0..k
      OBVIOUS
    <3>2. n # 0 => h[n - 1] = g[n - 1]
      <4> HIDE DEF U
      <4> QED
        BY <2>1, <3>1
    <3> QED
      <4> HIDE DEF h
      <4> QED
        BY <3>2 DEF PlacedUpTo
  <2>3. h = [n \in 0..(k + 1) |-> U(h, n)]
    <3> HIDE DEF U
    <3> QED
      BY <2>2
  <2> QED
    BY <2>3
<1>3. Nat \subseteq {k \in Nat : Has(k)}
  <2> HIDE DEF Has
  <2> DEFINE T == {k \in Nat : Has(k)}
  <2>1. 0 \in T /\ \A k \in Nat : k \in T => k + 1 \in T
    BY <1>1, <1>2
  <2> HIDE DEF T
  <2>2. Nat \subseteq T
    BY <2>1, Induction
  <2> QED
    BY <2>2 DEF T
<1> QED
  BY <1>3 DEF PlacedBy

\* What Dedupe builds.
DedupedUpTo(list, keyless, g, n) ==
  CASE n = 0 -> Sheet!Nothing
    [] n # 0 /\ list[n] \in keyless -> g[n - 1]
    [] OTHER -> Sheet!Merge(g[n - 1], list[n])

LEMMA DedupedExists ==
  ASSUME NEW list, NEW keyless, NEW m \in Nat
  PROVE  \E g : g = [n \in 0..m |-> DedupedUpTo(list, keyless, g, n)]
<1> DEFINE U(g, n) == DedupedUpTo(list, keyless, g, n)
           Has(k) == \E g : g = [n \in 0..k |-> U(g, n)]
<1>1. Has(0)
  <2>1. \A g : U(g, 0) = Sheet!Nothing
    BY DEF DedupedUpTo
  <2> HIDE DEF U
  <2>2. [n \in 0..0 |-> Sheet!Nothing] = [n \in 0..0 |-> U([i \in 0..0 |-> Sheet!Nothing], n)]
    BY <2>1
  <2> QED
    BY <2>2
<1>2. ASSUME NEW k \in Nat, Has(k) PROVE Has(k + 1)
  <2>1. PICK g : g = [n \in 0..k |-> U(g, n)]
    BY <1>2
  <2> DEFINE h == [n \in 0..(k + 1) |-> U(g, n)]
  <2>2. ASSUME NEW n \in 0..(k + 1) PROVE U(h, n) = U(g, n)
    <3>1. n # 0 => n - 1 \in 0..k
      OBVIOUS
    <3>2. n # 0 => h[n - 1] = g[n - 1]
      <4> HIDE DEF U
      <4> QED
        BY <2>1, <3>1
    <3> QED
      <4> HIDE DEF h
      <4> QED
        BY <3>2 DEF DedupedUpTo
  <2>3. h = [n \in 0..(k + 1) |-> U(h, n)]
    <3> HIDE DEF U
    <3> QED
      BY <2>2
  <2> QED
    BY <2>3
<1>3. Nat \subseteq {k \in Nat : Has(k)}
  <2> HIDE DEF Has
  <2> DEFINE T == {k \in Nat : Has(k)}
  <2>1. 0 \in T /\ \A k \in Nat : k \in T => k + 1 \in T
    BY <1>1, <1>2
  <2> HIDE DEF T
  <2>2. Nat \subseteq T
    BY <2>1, Induction
  <2> QED
    BY <2>2 DEF T
<1> QED
  BY <1>3

\* What Extracted builds.
ExtractedUpTo(t, articles, g, n) ==
  IF n = 0 THEN <<>>
  ELSE g[n - 1] \o Sheet!Only(Watch[t], {m \in News : m[1] = articles[n]})

LEMMA ExtractedExists ==
  ASSUME NEW t, NEW articles, NEW m \in Nat
  PROVE  \E g : g = [n \in 0..m |-> ExtractedUpTo(t, articles, g, n)]
<1> DEFINE U(g, n) == ExtractedUpTo(t, articles, g, n)
           Has(k) == \E g : g = [n \in 0..k |-> U(g, n)]
<1>1. Has(0)
  <2>1. \A g : U(g, 0) = <<>>
    BY DEF ExtractedUpTo
  <2> HIDE DEF U
  <2>2. [n \in 0..0 |-> <<>>] = [n \in 0..0 |-> U([i \in 0..0 |-> <<>>], n)]
    BY <2>1
  <2> QED
    BY <2>2
<1>2. ASSUME NEW k \in Nat, Has(k) PROVE Has(k + 1)
  <2>1. PICK g : g = [n \in 0..k |-> U(g, n)]
    BY <1>2
  <2> DEFINE h == [n \in 0..(k + 1) |-> U(g, n)]
  <2>2. ASSUME NEW n \in 0..(k + 1) PROVE U(h, n) = U(g, n)
    <3>1. n # 0 => n - 1 \in 0..k
      OBVIOUS
    <3>2. n # 0 => h[n - 1] = g[n - 1]
      <4> HIDE DEF U
      <4> QED
        BY <2>1, <3>1
    <3> QED
      <4> HIDE DEF h
      <4> QED
        BY <3>2 DEF ExtractedUpTo
  <2>3. h = [n \in 0..(k + 1) |-> U(h, n)]
    <3> HIDE DEF U
    <3> QED
      BY <2>2
  <2> QED
    BY <2>3
<1>3. Nat \subseteq {k \in Nat : Has(k)}
  <2> HIDE DEF Has
  <2> DEFINE T == {k \in Nat : Has(k)}
  <2>1. 0 \in T /\ \A k \in Nat : k \in T => k + 1 \in T
    BY <1>1, <1>2
  <2> HIDE DEF T
  <2>2. Nat \subseteq T
    BY <2>1, Induction
  <2> QED
    BY <2>2 DEF T
<1> QED
  BY <1>3

-----------------------------------------------------------------------------
(* What they amount to.                                                    *)

LEMMA ToSetOfAppend ==
  ASSUME NEW S, NEW s \in Seq(S), NEW e \in S
  PROVE  ToSet(Append(s, e)) = ToSet(s) \union {e}
<1> DEFINE a == Append(s, e)
<1>1. DOMAIN s = 1..Len(s) /\ DOMAIN a = 1..(Len(s) + 1) /\ Len(s) \in Nat
  OBVIOUS
<1>2. a[Len(s) + 1] = e /\ \A i \in 1..Len(s) : a[i] = s[i]
  OBVIOUS
<1> HIDE DEF a
<1>3. \A i \in DOMAIN a : i \in 1..Len(s) \/ i = Len(s) + 1
  BY <1>1
<1>4. ToSet(a) \subseteq ToSet(s) \union {e}
  BY <1>1, <1>2, <1>3 DEF ToSet
<1>5. ToSet(s) \union {e} \subseteq ToSet(a)
  BY <1>1, <1>2 DEF ToSet
<1> QED
  BY <1>4, <1>5 DEF a

LEMMA ToSetOfConcat ==
  ASSUME NEW S, NEW s \in Seq(S), NEW r \in Seq(S)
  PROVE  ToSet(s \o r) = ToSet(s) \union ToSet(r)
<1> DEFINE a == s \o r
<1>1. /\ DOMAIN s = 1..Len(s) /\ DOMAIN r = 1..Len(r) /\ DOMAIN a = 1..(Len(s) + Len(r))
      /\ Len(s) \in Nat /\ Len(r) \in Nat
  OBVIOUS
<1>2. /\ \A i \in 1..Len(s) : a[i] = s[i]
      /\ \A i \in 1..Len(r) : a[Len(s) + i] = r[i]
  OBVIOUS
<1> HIDE DEF a
<1>3. ASSUME NEW i \in DOMAIN a PROVE a[i] \in ToSet(s) \union ToSet(r)
  <2>1. CASE i \in 1..Len(s)
    BY <1>1, <1>2, <2>1 DEF ToSet
  <2>2. CASE i \notin 1..Len(s)
    <3>1. i - Len(s) \in 1..Len(r) /\ Len(s) + (i - Len(s)) = i
      BY <1>1, <1>3, <2>2
    <3>2. a[i] = r[i - Len(s)]
      BY <1>2, <3>1
    <3> QED
      BY <1>1, <3>1, <3>2 DEF ToSet
  <2> QED
    BY <2>1, <2>2
<1>4. \A i \in 1..Len(s) : i \in DOMAIN a
  BY <1>1
<1>5. \A i \in 1..Len(r) : Len(s) + i \in DOMAIN a
  BY <1>1
<1>6. ToSet(s) \union ToSet(r) \subseteq ToSet(a)
  BY <1>1, <1>2, <1>4, <1>5 DEF ToSet
<1> QED
  BY <1>3, <1>6 DEF a, ToSet

\* The elements that are kept are those of the list that are in the set.
LEMMA OnlyOf ==
  ASSUME NEW S, NEW s \in Seq(S), NEW kept
  PROVE  /\ Sheet!Only(s, kept) \in Seq(S \intersect kept)
         /\ ToSet(Sheet!Only(s, kept)) = ToSet(s) \intersect kept
<1> DEFINE L == Len(s)
           K == S \intersect kept
           g == CHOOSE f : f = [n \in 0..L |-> OnlyUpTo(s, kept, f, n)]
           Good(n) == /\ g[n] \in Seq(K)
                      /\ ToSet(g[n]) = {s[i] : i \in {i \in 1..n : s[i] \in kept}}
           T == {n \in Nat : n <= L => Good(n)}
<1>1. Sheet!Only(s, kept) = g[L] /\ L \in Nat
  BY DEF Sheet!Only, OnlyUpTo
<1>2. g = [n \in 0..L |-> OnlyUpTo(s, kept, g, n)]
  BY <1>1, OnlyExists
<1> HIDE DEF g
<1>3. \A n \in 0..L : g[n] = OnlyUpTo(s, kept, g, n)
  BY <1>2
<1>4. 0 \in T
  <2>1. g[0] = <<>>
    BY <1>1, <1>3 DEF OnlyUpTo
  <2>2. <<>> \in Seq(K) /\ ToSet(<<>>) = {}
    BY DEF ToSet
  <2>3. {i \in 1..0 : s[i] \in kept} = {}
    OBVIOUS
  <2> QED
    BY <2>1, <2>2, <2>3
<1>5. ASSUME NEW k \in Nat, k \in T PROVE k + 1 \in T
  <2> SUFFICES ASSUME k + 1 <= L PROVE Good(k + 1)
    OBVIOUS
  <2>1. k + 1 \in 0..L /\ k + 1 # 0 /\ k + 1 \in 1..L /\ (k + 1) - 1 = k /\ k <= L
    BY <1>1
  <2>2. Good(k)
    BY <1>5, <2>1
  <2>3. g[k + 1] = IF s[k + 1] \in kept THEN Append(g[k], s[k + 1]) ELSE g[k]
    BY <1>3, <2>1 DEF OnlyUpTo
  <2>4. s[k + 1] \in S
    BY <2>1
  <2> DEFINE Upto(n) == {i \in 1..n : s[i] \in kept}
  <2>5. CASE s[k + 1] \in kept
    <3>1. g[k + 1] = Append(g[k], s[k + 1]) /\ g[k + 1] \in Seq(K)
      BY <2>2, <2>3, <2>4, <2>5
    <3>2. ToSet(g[k + 1]) = ToSet(g[k]) \union {s[k + 1]}
      BY <3>1, <2>2, <2>4, <2>5, ToSetOfAppend, SMTT(60)
    <3>3. Upto(k + 1) = Upto(k) \union {k + 1}
      BY <2>5, <2>1
    <3> QED
      BY <3>1, <3>2, <3>3, <2>2
  <2>6. CASE s[k + 1] \notin kept
    <3>1. Upto(k + 1) = Upto(k)
      BY <2>6, <2>1
    <3> QED
      BY <3>1, <2>2, <2>3, <2>6
  <2> QED
    BY <2>5, <2>6
<1>6. Nat \subseteq T
  <2> HIDE DEF T
  <2> QED
    BY <1>4, <1>5, Induction
<1>7. Good(L)
  <2> HIDE DEF Good
  <2> QED
    BY <1>1, <1>6
<1>8. ToSet(s) = {s[i] : i \in 1..L}
  BY DEF ToSet
<1> QED
  BY <1>1, <1>7, <1>8

\* Everything that is read for a tab is on its watchlist.
LEMMA ExtractedFromWatch ==
  ASSUME site \in Seq(Articles), NEW t \in TabSet, NEW m \in Nat \ {0}
  PROVE  Extracted(t, m) \in Seq(ToSet(Watch[t]))
<1> DEFINE articles == Reverse(Shown(m))
           W == ToSet(Watch[t])
           L == Len(articles)
           g == CHOOSE f : f = [n \in 0..L |-> ExtractedUpTo(t, articles, f, n)]
           T == {n \in Nat : n <= L => g[n] \in Seq(W)}
<1>1. Extracted(t, m) = g[L]
  BY DEF Extracted, ExtractedUpTo
<1> SUFFICES L \in Nat /\ g[L] \in Seq(W)
  BY <1>1
<1>2. L \in Nat
  <2>1. Shown(m) \in Seq(Articles)
    <3>1. Len(site) \in Nat
      OBVIOUS
    <3>2. Len(site) > m => Len(site) - m + 1 \in 1..Len(site)
      BY <3>1
    <3> QED
      BY <3>1, <3>2 DEF Shown
  <2>2. articles = [i \in 1..Len(Shown(m)) |-> Shown(m)[(Len(Shown(m)) - i) + 1]]
    BY DEF Reverse
  <2>3. Len(Shown(m)) \in Nat
    BY <2>1
  <2>4. DOMAIN articles = 1..Len(Shown(m))
    <3> HIDE DEF articles
    <3> QED
      BY <2>2
  <2> QED
    BY <2>2, <2>3
<1> HIDE DEF articles
<1>3. g = [n \in 0..L |-> ExtractedUpTo(t, articles, g, n)]
  <2> HIDE DEF L
  <2>1. \E f : f = [n \in 0..L |-> ExtractedUpTo(t, articles, f, n)]
    BY <1>2, ExtractedExists, ZenonT(60)
  <2> QED
    BY <2>1
<1> HIDE DEF g
<1>4. \A n \in 0..L : g[n] = ExtractedUpTo(t, articles, g, n)
  BY <1>3
<1>5. 0 \in T
  <2>1. <<>> \in Seq(W)
    OBVIOUS
  <2>2. g[0] = <<>>
    <3>1. 0 \in 0..L
      BY <1>2
    <3> QED
      BY <1>4, <3>1 DEF ExtractedUpTo
  <2> QED
    BY <2>1, <2>2
<1>6. ASSUME NEW k \in Nat, k \in T PROVE k + 1 \in T
  <2> SUFFICES ASSUME k + 1 <= L PROVE g[k + 1] \in Seq(W)
    OBVIOUS
  <2>1. k + 1 \in 0..L /\ k + 1 # 0 /\ (k + 1) - 1 = k /\ k <= L
    BY <1>2
  <2> DEFINE K == {n \in News : n[1] = articles[k + 1]}
  <2>2. g[k] \in Seq(W)
    BY <1>6, <2>1
  <2>3. g[k + 1] = g[k] \o Sheet!Only(Watch[t], K)
    BY <1>4, <2>1 DEF ExtractedUpTo
  <2>4. Sheet!Only(Watch[t], K) \in Seq(W \intersect K)
    <3>1. Watch[t] \in Seq(W)
      BY NewsAssumption DEF TabSet
    <3> QED
      BY <3>1, OnlyOf
  <2>5. Sheet!Only(Watch[t], K) \in Seq(W)
    <3> HIDE DEF K, W
    <3> QED
      BY <2>4
  <2> QED
    BY <2>2, <2>3, <2>5
<1>7. Nat \subseteq T
  <2> HIDE DEF T
  <2> QED
    BY <1>5, <1>6, Induction
<1> QED
  BY <1>2, <1>7
-----------------------------------------------------------------------------
(* An upsert of news that are apart.                                       *)

\* The rows of a tab, and the news that rows are about.
Pair(row)   == <<row.url, row.company>>
Pairs(list) == {Pair(row) : row \in ToSet(list)}
RowsOf(t)   == {row \in [url : Articles, company : Companies, notified_at : {"", "now"}] :
                  Pair(row) \in ToSet(Watch[t])}
KeySet(row) == {<<"url", row.url>>, <<"company", row.company>>}

\* A table whose index leads from a key to a row that has it.
Sound(t, table) ==
  /\ table.rows \in Seq(RowsOf(t))
  /\ \A key \in DOMAIN table.index :
       /\ table.index[key] \in DOMAIN table.rows
       /\ key \in KeySet(table.rows[table.index[key]])

LEMMA RowOfNews ==
  ASSUME NEW t \in TabSet, NEW row
  PROVE  row \in RowsOf(t) <=>
           /\ row = [url |-> row.url, company |-> row.company, notified_at |-> row.notified_at]
           /\ Pair(row) \in ToSet(Watch[t]) /\ row.notified_at \in {"", "now"}
<1>1. \A n \in ToSet(Watch[t]) : n \in News /\ n = <<n[1], n[2]>>
  BY NewsAssumption DEF News, TabSet
<1>2. Pair(row) \in ToSet(Watch[t]) => row.url \in Articles /\ row.company \in Companies
  <2>1. Pair(row)[1] = row.url /\ Pair(row)[2] = row.company
    BY DEF Pair
  <2> HIDE DEF Pair
  <2> QED
    BY <1>1, <2>1 DEF Articles, Companies
<1> QED
  BY <1>2 DEF RowsOf

LEMMA NotBlank ==
  ASSUME NEW t \in TabSet, NEW row \in RowsOf(t)
  PROVE  row.url # "" /\ row.company # ""
<1>1. \A n \in ToSet(Watch[t]) : n \in News /\ n[1] # "" /\ n[2] # ""
  BY NewsAssumption DEF News, TabSet
<1>2. Pair(row) \in ToSet(Watch[t])
  BY RowOfNews
<1> QED
  BY <1>1, <1>2 DEF Pair

\* Such a row has both keys.
LEMMA KeysOf ==
  ASSUME NEW t \in TabSet, NEW row \in RowsOf(t)
  PROVE  Sheet!Keys(row) \in Seq(KeySet(row)) /\ Sheet!Keys(row) # <<>>
<1> DEFINE F == <<"url", "company">>
           S == {"url", "company"}
           K == {f \in ToSet(F) : ~Sheet!IsBlank(row[f])}
           filled == Sheet!Only(F, K)
<1>1. F \in Seq(S) /\ ToSet(F) = S
  BY DEF ToSet
<1>2. K = S
  BY <1>1, NotBlank DEF Sheet!IsBlank
<1> HIDE DEF K, F
<1>3. filled \in Seq(S) /\ ToSet(filled) = S
  <2>1. filled \in Seq(S \intersect K) /\ ToSet(filled) = ToSet(F) \intersect K
    BY <1>1, OnlyOf
  <2> QED
    BY <2>1, <1>1, <1>2
<1>4. Sheet!Keys(row) = [k \in DOMAIN filled |-> <<filled[k], row[filled[k]]>>]
  BY DEF Sheet!Keys, Sheet!ToSet, ToSet, K, F
<1> HIDE DEF filled
<1>5. DOMAIN filled = 1..Len(filled) /\ Len(filled) \in Nat /\ DOMAIN filled # {}
  BY <1>3 DEF ToSet
<1>6. \A k \in DOMAIN filled : filled[k] \in S /\ <<filled[k], row[filled[k]]>> \in KeySet(row)
  BY <1>3 DEF KeySet
<1>7. Sheet!Keys(row) \in [1..Len(filled) -> KeySet(row)]
  BY <1>4, <1>5, <1>6
<1> QED
  BY <1>5, <1>7

\* Of news that are apart, one key is enough to tell which it is.
LEMMA OneKeyTells ==
  ASSUME NEW t \in TabSet, Apart(t), NEW r \in RowsOf(t), NEW s \in RowsOf(t),
         NEW key \in KeySet(r), key \in KeySet(s)
  PROVE  Pair(r) = Pair(s)
<1>1. Pair(r) \in ToSet(Watch[t]) /\ Pair(s) \in ToSet(Watch[t])
  BY RowOfNews
<1>2. r.url = s.url \/ r.company = s.company
  BY DEF KeySet
<1> QED
  BY <1>1, <1>2 DEF Apart, Pair

\* A table with one row more, or with the row in another about its news.
Adds(t, result, table, row) ==
  Sound(t, result) /\ Pairs(result.rows) = Pairs(table.rows) \union {Pair(row)}
AddsAll(t, result, table, list) ==
  Sound(t, result) /\ Pairs(result.rows) = Pairs(table.rows) \union Pairs(list)

LEMMA NothingSound ==
  ASSUME NEW t \in TabSet
  PROVE  Sound(t, Sheet!Nothing) /\ Pairs(Sheet!Nothing.rows) = {}
<1>1. <<>> \in Seq(RowsOf(t)) /\ ToSet(<<>>) = {} /\ DOMAIN <<>> = {}
  BY DEF ToSet
<1>2. Sheet!Nothing.rows = <<>> /\ Sheet!Nothing.index = <<>>
  BY DEF Sheet!Nothing
<1> QED
  BY <1>1, <1>2 DEF Sound, Pairs

\* A row put at a place of its own, or over one about the same news.
LEMMA PutSound ==
  ASSUME NEW t \in TabSet, NEW table, Sound(t, table), NEW row \in RowsOf(t),
         NEW k \in 1..(Len(table.rows) + 1), NEW keys \in SUBSET KeySet(row),
         k <= Len(table.rows) => Pair(table.rows[k]) = Pair(row)
  PROVE  Adds(t, Sheet!Put(table, k, row, keys), table, row)
<1> DEFINE R == RowsOf(t)
           was == table.rows
           new == IF k > Len(was) THEN Append(was, row) ELSE [was EXCEPT ![k] = row]
           index == [key \in keys \union DOMAIN table.index |->
                       IF key \in keys THEN k ELSE table.index[key]]
<1>1. Sheet!Put(table, k, row, keys).rows = new /\ Sheet!Put(table, k, row, keys).index = index
  BY DEF Sheet!Put
<1>2. was \in Seq(R) /\ Len(was) \in Nat /\ DOMAIN was = 1..Len(was)
  BY DEF Sound
<1>3. new \in Seq(R) /\ k \in DOMAIN new /\ new[k] = row
  BY <1>2
<1>4. \A i \in DOMAIN was : i \in DOMAIN new /\ (i # k => new[i] = was[i])
  BY <1>2
<1>5. \A i \in DOMAIN new : i = k \/ i \in DOMAIN was
  BY <1>2
<1>6. ToSet(was) = {was[i] : i \in DOMAIN was} /\ ToSet(new) = {new[i] : i \in DOMAIN new}
  BY DEF ToSet
<1> HIDE DEF new
<1>7. \A i \in DOMAIN was : Pair(new[i]) = Pair(was[i])
  BY <1>2, <1>3, <1>4
<1>8. Pairs(new) = Pairs(was) \union {Pair(row)}
  BY <1>3, <1>4, <1>5, <1>6, <1>7 DEF Pairs
<1>9. ASSUME NEW key \in DOMAIN index
      PROVE  index[key] \in DOMAIN new /\ key \in KeySet(new[index[key]])
  <2>1. CASE key \in keys
    BY <2>1, <1>3
  <2>2. CASE key \notin keys
    <3>1. key \in DOMAIN table.index /\ index[key] = table.index[key]
      BY <1>9, <2>2
    <3>2. table.index[key] \in DOMAIN was /\ key \in KeySet(was[table.index[key]])
      BY <3>1 DEF Sound
    <3> DEFINE i == table.index[key]
    <3>3. Pair(new[i]) = Pair(was[i]) /\ i \in DOMAIN new
      BY <1>4, <1>7, <3>2
    <3>4. KeySet(new[i]) = KeySet(was[i])
      BY <3>3 DEF Pair, KeySet
    <3> QED
      BY <3>1, <3>2, <3>3, <3>4
  <2> QED
    BY <2>1, <2>2
<1> HIDE DEF index
<1> QED
  BY <1>1, <1>3, <1>8, <1>9 DEF Sound, Adds

\* Rows about the same news merge into one about it.
LEMMA MergedRows ==
  ASSUME NEW t \in TabSet, NEW r \in RowsOf(t), NEW s \in RowsOf(t), Pair(r) = Pair(s)
  PROVE  \A m \in {Sheet!MergeExisting(r, s), Sheet!MergeDuplicate(r, s), Sheet!MergeGenerated(r, s)} :
           m \in RowsOf(t) /\ Pair(m) = Pair(s)
<1> DEFINE Names == {"url", "company", "notified_at"}
           Takes(m) == /\ m = [f \in Names |-> m[f]]
                       /\ \A f \in Names : m[f] \in {r[f], s[f]}
<1>1. r = [url |-> r.url, company |-> r.company, notified_at |-> r.notified_at]
  BY RowOfNews
<1>2. DOMAIN r = Names
  BY <1>1
<1>3. Takes(Sheet!MergeExisting(r, s))
  BY <1>2 DEF Sheet!MergeExisting
<1>4. Takes(Sheet!MergeDuplicate(r, s))
  BY <1>2 DEF Sheet!MergeDuplicate
<1>5. Takes(Sheet!MergeGenerated(r, s))
  BY <1>2 DEF Sheet!MergeGenerated
<1>6. ASSUME NEW m, Takes(m) PROVE m \in RowsOf(t) /\ Pair(m) = Pair(s)
  <2>1. r.url = s.url /\ r.company = s.company
    BY DEF Pair
  <2>2. m.url = s.url /\ m.company = s.company /\ m.notified_at \in {"", "now"}
    <3>1. r.notified_at \in {"", "now"} /\ s.notified_at \in {"", "now"}
      BY RowOfNews
    <3> QED
      BY <1>6, <2>1, <3>1
  <2>3. m = [url |-> m.url, company |-> m.company, notified_at |-> m.notified_at]
    BY <1>6
  <2>4. Pair(m) = Pair(s) /\ Pair(m) \in ToSet(Watch[t])
    BY <2>2, RowOfNews DEF Pair
  <2> QED
    BY <2>2, <2>3, <2>4, RowOfNews
<1> HIDE DEF Takes
<1> QED
  BY <1>3, <1>4, <1>5, <1>6

LEMMA FirstOfList ==
  ASSUME NEW S, NEW s \in Seq(S), s # <<>>
  PROVE  s[1] \in S
OBVIOUS

LEMMA ListFacts ==
  ASSUME NEW S, NEW s \in Seq(S)
  PROVE  /\ DOMAIN s = 1..Len(s) /\ Len(s) \in Nat
         /\ \A k \in DOMAIN s : s[k] \in S
OBVIOUS

LEMMA MakeList ==
  ASSUME NEW S, NEW n \in Nat, NEW s \in [1..n -> S]
  PROVE  s \in Seq(S)
OBVIOUS

\* What is known of a row that has a key of the index.
LEMMA FoundRow ==
  ASSUME NEW t \in TabSet, Apart(t), NEW table, Sound(t, table), NEW row \in RowsOf(t),
         NEW key \in KeySet(row), key \in DOMAIN table.index
  PROVE  /\ table.index[key] \in 1..Len(table.rows)
         /\ table.rows[table.index[key]] \in RowsOf(t)
         /\ Pair(table.rows[table.index[key]]) = Pair(row)
<1>1. /\ table.rows \in Seq(RowsOf(t)) /\ table.index[key] \in DOMAIN table.rows
      /\ key \in KeySet(table.rows[table.index[key]])
  BY DEF Sound
<1>2. table.index[key] \in 1..Len(table.rows) /\ table.rows[table.index[key]] \in RowsOf(t)
  BY <1>1
<1> QED
  BY <1>1, <1>2, OneKeyTells

\* A row put over the one that was found.
LEMMA PutOverFound ==
  ASSUME NEW t \in TabSet, Apart(t), NEW table, Sound(t, table), NEW row \in RowsOf(t),
         NEW key \in KeySet(row), key \in DOMAIN table.index,
         NEW new \in RowsOf(t), Pair(new) = Pair(row), NEW keys \in SUBSET KeySet(new)
  PROVE  Adds(t, Sheet!Put(table, table.index[key], new, keys), table, row)
<1> DEFINE k == table.index[key]
<1>1. k \in 1..Len(table.rows) /\ Pair(table.rows[k]) = Pair(new)
  BY FoundRow
<1>2. table.rows \in Seq(RowsOf(t))
  BY DEF Sound
<1>3. k \in 1..(Len(table.rows) + 1)
  BY <1>1, <1>2
<1> HIDE DEF k
<1>4. k <= Len(table.rows) => Pair(table.rows[k]) = Pair(new)
  BY <1>1
<1>5. Adds(t, Sheet!Put(table, k, new, keys), table, new)
  BY <1>3, <1>4, PutSound
<1> QED
  BY <1>5 DEF k, Adds

LEMMA PutAtEnd ==
  ASSUME NEW t \in TabSet, NEW table, Sound(t, table), NEW row \in RowsOf(t),
         NEW keys \in SUBSET KeySet(row)
  PROVE  Adds(t, Sheet!Put(table, Len(table.rows) + 1, row, keys), table, row)
<1>1. table.rows \in Seq(RowsOf(t))
  BY DEF Sound
<1>2. Len(table.rows) \in Nat
  BY <1>1
<1> DEFINE k == Len(table.rows) + 1
<1>3. k \in 1..(Len(table.rows) + 1)
  BY <1>2
<1>5. k <= Len(table.rows) => Pair(table.rows[k]) = Pair(row)
  BY <1>2
<1> HIDE DEF k
<1>4. Adds(t, Sheet!Put(table, k, row, keys), table, row)
  BY <1>3, <1>5, PutSound
<1> QED
  BY <1>4 DEF k

LEMMA KeysAsSet ==
  ASSUME NEW t \in TabSet, NEW row \in RowsOf(t)
  PROVE  ToSet(Sheet!Keys(row)) \in SUBSET KeySet(row)
BY KeysOf DEF ToSet

\* The bodies of the two loops of _compact_sheet_rows.
LEMMA PlaceSound ==
  ASSUME NEW t \in TabSet, Apart(t), NEW table, Sound(t, table), NEW row \in RowsOf(t),
         NEW from
  PROVE  Adds(t, Sheet!Place(table, row, from), table, row)
<1> DEFINE found == Sheet!Matches(table, row)
<1>1. found \in Seq(KeySet(row) \intersect DOMAIN table.index)
  BY KeysOf, OnlyOf DEF Sheet!Matches
<1>2. CASE found = <<>>
  <2>1. Sheet!Place(table, row, from)
          = Sheet!Put(table, Len(table.rows) + 1, row, ToSet(Sheet!Keys(row)))
    BY <1>2 DEF Sheet!Place, Sheet!ToSet, ToSet
  <2> QED
    BY <2>1, KeysAsSet, PutAtEnd
<1>3. CASE found # <<>>
  <2> DEFINE key == found[1]
             k == table.index[key]
             new == IF from = "incoming" THEN Sheet!MergeExisting(table.rows[k], row)
                    ELSE Sheet!MergeDuplicate(table.rows[k], row)
  <2>1. key \in KeySet(row) /\ key \in DOMAIN table.index
    <3>1. key \in KeySet(row) \intersect DOMAIN table.index
      BY <1>1, <1>3, FirstOfList
    <3> QED
      BY <3>1
  <2>2. Sheet!Place(table, row, from) = Sheet!Put(table, k, new, ToSet(Sheet!Keys(new)))
    BY <1>3 DEF Sheet!Place, Sheet!ToSet, ToSet
  <2> HIDE DEF found
  <2>3. table.rows[k] \in RowsOf(t) /\ Pair(table.rows[k]) = Pair(row)
    BY <2>1, FoundRow
  <2>4. new \in RowsOf(t) /\ Pair(new) = Pair(row)
    BY <2>3, MergedRows
  <2>5. ToSet(Sheet!Keys(new)) \in SUBSET KeySet(new)
    BY <2>4, KeysAsSet
  <2> HIDE DEF key, new
  <2> QED
    BY <2>1, <2>2, <2>4, <2>5, PutOverFound
<1> QED
  BY <1>2, <1>3

\* The body of the loop of _dedupe_rows_by_key.
LEMMA MergeSound ==
  ASSUME NEW t \in TabSet, Apart(t), NEW table, Sound(t, table), NEW row \in RowsOf(t)
  PROVE  Adds(t, Sheet!Merge(table, row), table, row)
<1> DEFINE key == Sheet!Keys(row)[1]
           k == table.index[key]
           new == Sheet!MergeGenerated(table.rows[k], row)
<1>1. key \in KeySet(row)
  BY KeysOf, FirstOfList
<1>2. CASE key \in DOMAIN table.index
  <2>1. Sheet!Merge(table, row) = Sheet!Put(table, k, new, {key})
    BY <1>2 DEF Sheet!Merge
  <2> HIDE DEF key
  <2>2. table.rows[k] \in RowsOf(t) /\ Pair(table.rows[k]) = Pair(row)
    BY <1>1, <1>2, FoundRow
  <2>3. new \in RowsOf(t) /\ Pair(new) = Pair(row)
    BY <2>2, MergedRows
  <2>4. {key} \in SUBSET KeySet(new)
    BY <1>1, <2>3 DEF KeySet, Pair
  <2> HIDE DEF new
  <2> QED
    BY <1>1, <1>2, <2>1, <2>3, <2>4, PutOverFound
<1>3. CASE key \notin DOMAIN table.index
  <2>1. Sheet!Merge(table, row) = Sheet!Put(table, Len(table.rows) + 1, row, {key})
    BY <1>3 DEF Sheet!Merge
  <2> HIDE DEF key
  <2>2. {key} \in SUBSET KeySet(row)
    BY <1>1
  <2> QED
    BY <2>1, <2>2, PutAtEnd
<1> QED
  BY <1>2, <1>3

\* The rows of the first n places.
LEMMA OneRowMore ==
  ASSUME NEW S, NEW list \in Seq(S), NEW k \in Nat, k + 1 <= Len(list)
  PROVE  {Pair(list[i]) : i \in 1..(k + 1)}
           = {Pair(list[i]) : i \in 1..k} \union {Pair(list[k + 1])}
<1>1. 1..(k + 1) = 1..k \union {k + 1}
  OBVIOUS
<1> QED
  BY <1>1

LEMMA AllRows ==
  ASSUME NEW S, NEW list \in Seq(S)
  PROVE  /\ {Pair(list[i]) : i \in 1..Len(list)} = Pairs(list)
         /\ {Pair(list[i]) : i \in 1..0} = {}
<1>1. ToSet(list) = {list[i] : i \in 1..Len(list)}
  BY DEF ToSet
<1> QED
  BY <1>1 DEF Pairs

LEMMA PlacedSound ==
  ASSUME NEW t \in TabSet, Apart(t), NEW table, Sound(t, table),
         NEW list \in Seq(RowsOf(t)), NEW from
  PROVE  AddsAll(t, Sheet!Placed(table, list, from), table, list)
<1> DEFINE L == Len(list)
           Upto(n) == {Pair(list[i]) : i \in 1..n}
           g == CHOOSE f : f = [n \in 0..L |-> PlacedUpTo(table, list, from, f, n)]
           Good(n) == Sound(t, g[n]) /\ Pairs(g[n].rows) = Pairs(table.rows) \union Upto(n)
           T == {n \in Nat : n <= L => Good(n)}
<1>1. Sheet!Placed(table, list, from) = g[L] /\ L \in Nat
  BY DEF Sheet!Placed, PlacedUpTo
<1>2. g = [n \in 0..L |-> PlacedUpTo(table, list, from, g, n)]
  <2> HIDE DEF L
  <2>1. L \in Nat
    BY <1>1
  <2>2. \E f : PlacedBy(f, table, list, from, L)
    BY <2>1, PlacedExists
  <2> QED
    BY <2>2 DEF PlacedBy
<1> HIDE DEF g
<1>3. \A n \in 0..L : g[n] = PlacedUpTo(table, list, from, g, n)
  BY <1>2
<1>4. 0 \in T
  <2>1. g[0] = table
    BY <1>1, <1>3 DEF PlacedUpTo
  <2>2. Upto(0) = {}
    BY AllRows
  <2> HIDE DEF Upto
  <2> QED
    BY <2>1, <2>2
<1>5. ASSUME NEW k \in Nat, k \in T PROVE k + 1 \in T
  <2> SUFFICES ASSUME k + 1 <= L PROVE Good(k + 1)
    OBVIOUS
  <2>1. k + 1 \in 0..L /\ k + 1 # 0 /\ k + 1 \in 1..L /\ (k + 1) - 1 = k /\ k <= L
    BY <1>1
  <2>2. Good(k)
    BY <1>5, <2>1
  <2>3. g[k + 1] = Sheet!Place(g[k], list[k + 1], from)
    BY <1>3, <2>1 DEF PlacedUpTo
  <2>4. list[k + 1] \in RowsOf(t)
    BY <2>1
  <2>5. Adds(t, g[k + 1], g[k], list[k + 1])
    BY <2>2, <2>3, <2>4, PlaceSound
  <2>6. Upto(k + 1) = Upto(k) \union {Pair(list[k + 1])}
    BY OneRowMore
  <2> HIDE DEF Upto
  <2> QED
    BY <2>2, <2>5, <2>6 DEF Adds
<1>6. Nat \subseteq T
  <2> HIDE DEF T
  <2> QED
    BY <1>4, <1>5, Induction
<1>7. Good(L)
  <2> HIDE DEF Good
  <2> QED
    BY <1>1, <1>6
<1>8. Upto(L) = Pairs(list)
  BY AllRows
<1> HIDE DEF Upto
<1> QED
  BY <1>1, <1>7, <1>8 DEF AddsAll

LEMMA DedupeSound ==
  ASSUME NEW t \in TabSet, Apart(t), NEW list \in Seq(RowsOf(t))
  PROVE  /\ Sheet!Dedupe(list) \in Seq(RowsOf(t))
         /\ Pairs(Sheet!Dedupe(list)) = Pairs(list)
<1> DEFINE L == Len(list)
           keyless == {row \in ToSet(list) : Sheet!Keys(row) = <<>>}
           Upto(n) == {Pair(list[i]) : i \in 1..n}
           g == CHOOSE f : f = [n \in 0..L |-> DedupedUpTo(list, keyless, f, n)]
           Good(n) == Sound(t, g[n]) /\ Pairs(g[n].rows) = Upto(n)
           T == {n \in Nat : n <= L => Good(n)}
<1>1. Sheet!Dedupe(list) = g[L].rows \o Sheet!Only(list, keyless) /\ L \in Nat
  BY DEF Sheet!Dedupe, DedupedUpTo, Sheet!ToSet, ToSet
<1>2. keyless = {}
  <2>1. \A row \in ToSet(list) : row \in RowsOf(t)
    BY DEF ToSet
  <2> QED
    BY <2>1, KeysOf
<1> HIDE DEF keyless
<1>3. g = [n \in 0..L |-> DedupedUpTo(list, keyless, g, n)]
  BY <1>1, DedupedExists
<1> HIDE DEF g
<1>4. \A n \in 0..L : g[n] = DedupedUpTo(list, keyless, g, n)
  BY <1>3
<1>5. 0 \in T
  <2>1. g[0] = Sheet!Nothing
    BY <1>1, <1>4 DEF DedupedUpTo
  <2>2. Upto(0) = {}
    BY AllRows
  <2> HIDE DEF Upto
  <2> QED
    BY <2>1, <2>2, NothingSound
<1>6. ASSUME NEW k \in Nat, k \in T PROVE k + 1 \in T
  <2> SUFFICES ASSUME k + 1 <= L PROVE Good(k + 1)
    OBVIOUS
  <2>1. k + 1 \in 0..L /\ k + 1 # 0 /\ k + 1 \in 1..L /\ (k + 1) - 1 = k /\ k <= L
    BY <1>1
  <2>2. Good(k)
    BY <1>6, <2>1
  <2>3. g[k + 1] = Sheet!Merge(g[k], list[k + 1])
    BY <1>2, <1>4, <2>1 DEF DedupedUpTo
  <2>4. list[k + 1] \in RowsOf(t)
    BY <2>1
  <2>5. Adds(t, g[k + 1], g[k], list[k + 1])
    BY <2>2, <2>3, <2>4, MergeSound
  <2>6. Upto(k + 1) = Upto(k) \union {Pair(list[k + 1])}
    BY OneRowMore
  <2> HIDE DEF Upto
  <2> QED
    BY <2>2, <2>5, <2>6 DEF Adds
<1>7. Nat \subseteq T
  <2> HIDE DEF T
  <2> QED
    BY <1>5, <1>6, Induction
<1>8. Good(L)
  <2> HIDE DEF Good
  <2> QED
    BY <1>1, <1>7
<1>9. Upto(L) = Pairs(list)
  BY AllRows
<1> HIDE DEF Upto
<1>10. Sheet!Only(list, keyless) = <<>>
  <2> DEFINE rest == Sheet!Only(list, keyless)
  <2>1. rest \in Seq(RowsOf(t) \intersect keyless) /\ ToSet(rest) = {}
    BY <1>2, OnlyOf
  <2> HIDE DEF rest
  <2>2. DOMAIN rest = 1..Len(rest) /\ Len(rest) \in Nat
    BY <2>1
  <2>3. ToSet(rest) = {rest[i] : i \in DOMAIN rest}
    BY DEF ToSet
  <2>4. DOMAIN rest = {}
    BY <2>1, <2>3
  <2> QED
    BY <2>1, <2>2, <2>4 DEF rest
<1>11. g[L].rows \in Seq(RowsOf(t))
  BY <1>8 DEF Sound
<1>12. g[L].rows \o <<>> = g[L].rows
  BY <1>11
<1> QED
  BY <1>1, <1>8, <1>9, <1>10, <1>11, <1>12

\* After an upsert the tab has the news it had and the new ones.
Grown(t, result, existing, incoming) ==
  result \in Seq(RowsOf(t)) /\ Pairs(result) = Pairs(existing) \union Pairs(incoming)

LEMMA UpsertRows ==
  ASSUME NEW t \in TabSet, Apart(t), NEW existing \in Seq(RowsOf(t)), NEW incoming \in Seq(RowsOf(t))
  PROVE  Grown(t, Sheet!Upsert(existing, incoming), existing, incoming)
<1> USE DEF Grown
<1>1. CASE incoming = <<>>
  <2>1. Pairs(<<>>) = {}
    BY DEF Pairs, ToSet
  <2> QED
    BY <1>1, <2>1 DEF Sheet!Upsert
<1>2. CASE incoming # <<>>
  <2> DEFINE table == Sheet!Placed(Sheet!Nothing, existing, "sheet")
             list == Sheet!Dedupe(incoming)
             all == Sheet!Placed(table, list, "incoming")
  <2>1. Sheet!Upsert(existing, incoming) = all.rows
    BY <1>2 DEF Sheet!Upsert
  <2>2. Sound(t, table) /\ Pairs(table.rows) = Pairs(existing)
    <3>2. Sound(t, Sheet!Nothing) /\ Pairs(Sheet!Nothing.rows) = {}
      BY NothingSound
    <3>3. AddsAll(t, table, Sheet!Nothing, existing)
      BY <3>2, PlacedSound
    <3> QED
      BY <3>2, <3>3 DEF AddsAll
  <2>3. list \in Seq(RowsOf(t)) /\ Pairs(list) = Pairs(incoming)
    BY DedupeSound
  <2> HIDE DEF table, list
  <2>4. AddsAll(t, all, table, list)
    BY <2>2, <2>3, PlacedSound
  <2> QED
    BY <2>1, <2>2, <2>3, <2>4 DEF Sound, AddsAll
<1> QED
  BY <1>1, <1>2
-----------------------------------------------------------------------------
(* The invariant.                                                          *)

\* What the argument needs to know of the values; of the tabs, those that are
\* a memory of what was told.
Shape ==
  /\ site \in Seq(Articles) /\ faults \in Nat
  /\ step \in {"idle", "read", "ingest", "publish", "notify", "mark"} /\ at \in DOMAIN Tabs
  /\ DOMAIN batch = TabSet /\ \A t \in TabSet : batch[t] \in Seq(ToSet(Watch[t]))
  /\ announced \in [TabSet -> [News -> Nat]] /\ edits \in [TabSet -> Nat]
  /\ DOMAIN sheet = TabSet
  /\ \A t \in TabSet \ {DefaultTab} : Apart(t) => sheet[t] \in Seq(RowsOf(t))
  /\ step = "mark" => told \in Seq(ToSet(Watch[Tab]))

\* Where the run stands with the tab of the j-th target: not read yet, not yet
\* told, on the tab already.
Unread(j)    == step = "idle" \/ (step = "read" /\ j >= at)
Ahead(j)     == \/ step \in {"read", "ingest", "publish"}
                \/ step = "notify" /\ j >= at
                \/ step = "mark" /\ j > at
Published(j) == step \in {"notify", "mark"} \/ (step = "publish" /\ j < at)

EmptyBefore == \A j \in DOMAIN Tabs : Unread(j) => batch[Tabs[j]] = <<>>

Here(t, n) == IF n \in OnSheet(t) THEN 1 ELSE 0

\* The store remembers what the default tab was told, another tab what it was
\* told itself, but for rows that were deleted.
Remembered ==
  /\ \A n \in News : announced[DefaultTab][n] <= 1 /\ (announced[DefaultTab][n] > 0 => n \in known)
  /\ \A t \in TabSet \ {DefaultTab} : Apart(t) =>
       \A n \in News : announced[t][n] <= edits[t] + Here(t, n)

\* Of the default tab's news of a run: they are stored before they are told, and
\* all are told unless they got old.
DefaultPending(j, n) ==
  /\ n \in sources \union known /\ (step \notin {"read", "ingest"} => n \in known)
  /\ Ahead(j) => announced[DefaultTab][n] = 0
  /\ ~Ahead(j) => announced[DefaultTab][n] > 0 \/ (DefaultTab \in RecentOnly /\ n[1] \in old)

\* Of another tab's: once on the tab there is room for one more message.
OtherPending(j, n) ==
  Ahead(j) => announced[Tabs[j]][n] + 1
                <= edits[Tabs[j]] + (IF Published(j) THEN Here(Tabs[j], n) ELSE 1)

Pending ==
  \A j \in DOMAIN Tabs : \A n \in ToSet(batch[Tabs[j]]) :
    IF Tabs[j] = DefaultTab THEN DefaultPending(j, n)
    ELSE Apart(Tabs[j]) => OtherPending(j, n)

NewsInv == Shape /\ EmptyBefore /\ Remembered /\ Pending

LEMMA TabFacts ==
  /\ Len(Tabs) \in Nat /\ DOMAIN Tabs = 1..Len(Tabs) /\ 1 \in DOMAIN Tabs
  /\ \A j \in DOMAIN Tabs : Tabs[j] \in TabSet
  /\ \A i, j \in DOMAIN Tabs : Tabs[i] = Tabs[j] => i = j
  /\ \A t \in TabSet : \E j \in DOMAIN Tabs : Tabs[j] = t
  /\ DefaultTab \in TabSet
<1>1. Len(Tabs) \in Nat /\ DOMAIN Tabs = 1..Len(Tabs)
  <2>1. Tabs \in Seq(ToSet(Tabs))
    BY NewsAssumption
  <2> QED
    BY <2>1, ListFacts
<1>2. \A i, j \in DOMAIN Tabs : Tabs[i] = Tabs[j] => i = j
  BY NewsAssumption DEF IsInjective
<1>3. /\ \A j \in DOMAIN Tabs : Tabs[j] \in TabSet
      /\ \A t \in TabSet : \E j \in DOMAIN Tabs : Tabs[j] = t
  BY DEF TabSet, ToSet
<1>4. DefaultTab \in TabSet
  BY NewsAssumption DEF TabSet
<1>5. 1 \in DOMAIN Tabs
  BY <1>1, <1>3, <1>4
<1> QED
  BY <1>1, <1>2, <1>3, <1>4, <1>5

LEMMA Least ==
  ASSUME NEW S \in SUBSET Nat, S # {}
  PROVE  \E j \in S : \A i \in S : j <= i
<1> DEFINE T == {k \in Nat : \A i \in S : i >= k}
<1>1. SUFFICES ASSUME \A j \in S : \E i \in S : i < j PROVE FALSE
  OBVIOUS
<1>2. 0 \in T
  OBVIOUS
<1>3. ASSUME NEW k \in Nat, k \in T PROVE k + 1 \in T
  BY <1>1, <1>3
<1>4. Nat \subseteq T
  <2> HIDE DEF T
  <2> QED
    BY <1>2, <1>3, Induction
<1>5. PICK k \in S : TRUE
  OBVIOUS
<1>6. k + 1 \in T
  BY <1>4
<1> QED
  BY <1>6

LEMMA OnSheetIsPairs == \A t : OnSheet(t) = Pairs(sheet[t])
BY DEF OnSheet, Pairs, Pair

LEMMA OnTheWatchlist ==
  ASSUME NEW t \in TabSet, NEW news \in Seq(ToSet(Watch[t]))
  PROVE  \A n \in ToSet(news) : n \in News /\ n \in ToSet(Watch[t])
<1>1. \A n \in ToSet(news) : n \in ToSet(Watch[t])
  BY DEF ToSet
<1>2. ToSet(Watch[t]) \subseteq News
  BY NewsAssumption DEF News, TabSet
<1> QED
  BY <1>1, <1>2

LEMMA NoElement == ToSet(<<>>) = {}
BY DEF ToSet

\* Without news in hand nothing is pending.
LEMMA NothingPending ==
  ASSUME \A t \in TabSet : batch'[t] = <<>>
  PROVE  EmptyBefore' /\ Pending'
<1>1. ToSet(<<>>) = {}
  BY DEF ToSet
<1> QED
  BY <1>1, TabFacts DEF EmptyBefore, Pending

LEMMA NewsInit == Init => NewsInv
<1> SUFFICES ASSUME Init PROVE NewsInv
  OBVIOUS
<1>1. ToSet(<<>>) = {} /\ \A t \in TabSet : NoBatch[t] = <<>>
  BY DEF ToSet, NoBatch
<1>2. Shape
  <2>1. <<>> \in Seq(Articles)
    OBVIOUS
  <2>2. \A t : <<>> \in Seq(RowsOf(t)) /\ <<>> \in Seq(ToSet(Watch[t]))
    OBVIOUS
  <2>3. announced \in [TabSet -> [News -> Nat]] /\ edits \in [TabSet -> Nat]
    BY DEF Init
  <2> QED
    BY <1>1, <2>1, <2>2, <2>3, TabFacts DEF Init, Shape, NoBatch
<1>3. EmptyBefore /\ Pending
  BY <1>1, TabFacts DEF Init, EmptyBefore, Pending
<1>4. Remembered
  BY TabFacts DEF Init, Remembered, Here
<1> QED
  BY <1>2, <1>3, <1>4 DEF NewsInv

\* Rows made of news.
LEMMA RowsOfNews ==
  ASSUME NEW t \in TabSet, NEW news \in Seq(ToSet(Watch[t])), NEW told_at \in {"", "now"}
  PROVE  Rows(news, told_at) \in Seq(RowsOf(t)) /\ Pairs(Rows(news, told_at)) = ToSet(news)
<1> DEFINE list == Rows(news, told_at)
<1>1. ASSUME NEW n \in ToSet(Watch[t]) PROVE Row(n, told_at) \in RowsOf(t) /\ Pair(Row(n, told_at)) = n
  <2>1. n \in News /\ n = <<n[1], n[2]>>
    BY NewsAssumption DEF News, TabSet
  <2> DEFINE r == Row(n, told_at)
  <2>2. r.url = n[1] /\ r.company = n[2] /\ r.notified_at = told_at
        /\ r = [url |-> r.url, company |-> r.company, notified_at |-> r.notified_at]
    BY DEF Row
  <2> HIDE DEF r
  <2>3. Pair(r) = n
    BY <2>1, <2>2 DEF Pair
  <2>4. r \in RowsOf(t)
    BY <2>2, <2>3, RowOfNews
  <2> QED
    BY <2>3, <2>4 DEF r
<1>2. DOMAIN news = 1..Len(news) /\ Len(news) \in Nat /\ \A k \in DOMAIN news : news[k] \in ToSet(Watch[t])
  BY ListFacts
<1>3. list = [k \in 1..Len(news) |-> Row(news[k], told_at)]
  BY <1>2 DEF Rows
<1> HIDE DEF list
<1>4. list \in [1..Len(news) -> RowsOf(t)]
  BY <1>1, <1>2, <1>3
<1>5. list \in Seq(RowsOf(t))
  BY <1>2, <1>4, MakeList
<1>6. DOMAIN list = DOMAIN news /\ \A k \in DOMAIN news : Pair(list[k]) = news[k]
  BY <1>1, <1>2, <1>3
<1>7. Pairs(list) = ToSet(news)
  BY <1>6 DEF Pairs, ToSet
<1> QED
  BY <1>5, <1>7 DEF list
-----------------------------------------------------------------------------
(* The steps of a run.                                                     *)

\* Where a run goes on after a phase: at the next tab that has news in hand.
LEMMA PublishNext ==
  ASSUME Shape, NEW k \in 1..(Len(Tabs) + 1), ToPublish(k)
  PROVE  /\ step' \in {"publish", "notify"} /\ at' \in DOMAIN Tabs
         /\ step' = "notify" => at' = 1 /\ \A j \in DOMAIN Tabs : j >= k => batch[Tabs[j]] = <<>>
         /\ step' = "publish" =>
              at' >= k /\ \A j \in DOMAIN Tabs : j >= k /\ j < at' => batch[Tabs[j]] = <<>>
<1> DEFINE left == {j \in k .. Len(Tabs) : batch[Tabs[j]] # <<>>}
           first == CHOOSE j \in left : \A i \in left : j <= i
<1>1. IF (IF left = {} THEN 0 ELSE first) = 0 THEN Goto("notify", 1)
      ELSE Goto("publish", IF left = {} THEN 0 ELSE first)
  BY DEF ToPublish, NextTab
<1>2. DOMAIN Tabs = 1..Len(Tabs) /\ 1 \in DOMAIN Tabs /\ Len(Tabs) \in Nat
  BY TabFacts
<1>3. left \subseteq k .. Len(Tabs) /\ \A j \in k .. Len(Tabs) : j \notin left => batch[Tabs[j]] = <<>>
  OBVIOUS
<1> HIDE DEF left
<1>4. CASE left = {}
  <2>1. step' = "notify" /\ at' = 1
    BY <1>1, <1>4 DEF Goto
  <2>2. \A j \in DOMAIN Tabs : j >= k => j \in k .. Len(Tabs)
    BY <1>2
  <2> QED
    BY <1>2, <1>3, <1>4, <2>1, <2>2
<1>5. CASE left # {}
  <2>1. left \in SUBSET Nat
    BY <1>2, <1>3
  <2>2. \E j \in left : \A i \in left : j <= i
    BY <1>5, <2>1, Least
  <2>3. first \in left /\ \A i \in left : first <= i
    BY <2>2
  <2> HIDE DEF first
  <2>4. first \in k .. Len(Tabs) /\ first # 0
    BY <1>3, <2>3
  <2>5. step' = "publish" /\ at' = first
    BY <1>1, <1>5, <2>4 DEF Goto
  <2>6. \A j \in DOMAIN Tabs : j >= k /\ j < first => j \in k .. Len(Tabs) /\ j \notin left
    BY <1>2, <2>1, <2>3, <2>4
  <2> QED
    BY <1>2, <1>3, <2>4, <2>5, <2>6
<1> QED
  BY <1>4, <1>5

\* Whatever a run does elsewhere, a tab's list of news and messages stays.
LEMMA StartStep == NewsInv /\ Start => NewsInv'
<1> SUFFICES ASSUME NewsInv, Start PROVE NewsInv'
  OBVIOUS
<1> USE DEF NewsInv
<1>1. /\ step = "idle" /\ step' = "read" /\ at' = 1
      /\ UNCHANGED <<site, old, known, sheet, announced, sources, batch, told, faults, edits>>
  BY DEF Start, Goto, world, bound
<1>2. \A t \in TabSet : batch'[t] = <<>>
  BY <1>1, TabFacts DEF EmptyBefore, Unread
<1>3. EmptyBefore' /\ Pending'
  BY <1>2, NothingPending
<1>4. Shape'
  BY <1>1, TabFacts DEF Shape
<1>5. Remembered'
  BY <1>1 DEF Remembered, Here, OnSheet
<1> QED
  BY <1>3, <1>4, <1>5

\* The run ends, or dies.
LEMMA DoneStep ==
  ASSUME NewsInv, Done, UNCHANGED <<site, known, sheet, announced, edits>>, faults' \in Nat
  PROVE  NewsInv'
<1> USE DEF NewsInv
<1>1. step' = "idle" /\ at' = 1 /\ batch' = NoBatch
  BY DEF Done, Goto
<1>2. DOMAIN batch' = TabSet /\ \A t \in TabSet : batch'[t] = <<>>
  BY <1>1 DEF NoBatch
<1>3. EmptyBefore' /\ Pending'
  BY <1>2, NothingPending
<1>4. \A t : <<>> \in Seq(ToSet(Watch[t]))
  OBVIOUS
<1>5. Shape'
  <2>1. \A t \in TabSet : batch'[t] \in Seq(ToSet(Watch[t]))
    BY <1>2, <1>4
  <2> QED
    BY <1>1, <1>2, <2>1, TabFacts DEF Shape
<1>6. Remembered'
  BY DEF Remembered, Here, OnSheet
<1> QED
  BY <1>3, <1>5, <1>6

LEMMA DieStep == NewsInv /\ Die => NewsInv'
<1> SUFFICES ASSUME NewsInv, Die PROVE NewsInv'
  OBVIOUS
<1>1. faults \in Nat
  BY DEF NewsInv, Shape
<1>2. Done /\ UNCHANGED <<site, known, sheet, announced, edits>> /\ faults' \in Nat
  BY <1>1 DEF Die, world
<1> QED
  BY <1>2, DoneStep

\* What a target brings in: news of its watchlist that its tab has not, and that
\* the store has not if it is the default one.
LEMMA BroughtIn ==
  ASSUME Shape, NEW t \in TabSet, NEW k \in {OnePage, AllPages}
  PROVE  LET found == Extracted(t, k)
             news  == Sheet!Only(Candidates(t, found), News \ OnSheet(t))
         IN  /\ news \in Seq(ToSet(Watch[t]))
             /\ \A n \in ToSet(news) : /\ n \in ToSet(found) /\ n \notin OnSheet(t)
                                       /\ t = DefaultTab => n \notin known
<1> DEFINE W == ToSet(Watch[t])
           found == Extracted(t, k)
           some == Candidates(t, found)
           news == Sheet!Only(some, News \ OnSheet(t))
<1>1. site \in Seq(Articles) /\ k \in Nat \ {0}
  <2>1. OnePage \in Nat \ {0} /\ AllPages \in Nat /\ OnePage <= AllPages
    BY NewsAssumption
  <2> QED
    BY <2>1 DEF Shape
<1>2. found \in Seq(W)
  BY <1>1, ExtractedFromWatch
<1> HIDE DEF found
<1>3. some \in Seq(W) /\ \A n \in ToSet(some) : n \in ToSet(found) /\ (t = DefaultTab => n \notin known)
  <2>1. CASE t # DefaultTab
    BY <1>2, <2>1 DEF Candidates
  <2>2. CASE t = DefaultTab
    <3> DEFINE K == News \ known
    <3>1. some = Sheet!Only(found, K)
      BY <2>2 DEF Candidates
    <3>2. some \in Seq(W \intersect K) /\ ToSet(some) = ToSet(found) \intersect K
      BY <1>2, <3>1, OnlyOf
    <3> HIDE DEF W
    <3>3. some \in Seq(W)
      <4> HIDE DEF K, some
      <4> QED
        BY <3>2
    <3> QED
      BY <3>2, <3>3
  <2> QED
    BY <2>1, <2>2
<1> HIDE DEF some
<1> DEFINE K == News \ OnSheet(t)
<1>4. news \in Seq(W \intersect K) /\ ToSet(news) = ToSet(some) \intersect K
  BY <1>3, OnlyOf
<1>5. news \in Seq(W)
  <2> HIDE DEF K, news, W
  <2> QED
    BY <1>4
<1>6. \A n \in ToSet(news) : n \in ToSet(some) /\ n \notin OnSheet(t)
  BY <1>4
<1> QED
  BY <1>3, <1>5, <1>6 DEF some, found

LEMMA ReadStep == NewsInv /\ Read => NewsInv'
<1> SUFFICES ASSUME NewsInv, Read PROVE NewsInv'
  OBVIOUS
<1> USE DEF NewsInv
<1> DEFINE t == Tabs[at]
<1>1. /\ at \in DOMAIN Tabs /\ t \in TabSet
      /\ \A j \in DOMAIN Tabs : Tabs[j] \in TabSet /\ (j # at => Tabs[j] # t)
  BY TabFacts DEF Shape
<1>2. PICK k \in {OnePage, AllPages} :
        LET found == Extracted(t, k)
        IN  /\ faults' = IF k = AllPages THEN faults ELSE faults + 1
            /\ sources' = sources \union {n \in ToSet(found) : n \notin known}
            /\ batch' = [batch EXCEPT ![t] =
                 Sheet!Only(Candidates(t, found), News \ OnSheet(t))]
  BY DEF Read, Tab
<1>3. /\ step = "read" /\ step' \in {"read", "ingest"}
      /\ step' = "read" => at' = at + 1 /\ at < Len(Tabs)
      /\ step' = "ingest" => at' = 1
      /\ UNCHANGED <<site, old, known, sheet, announced, told, edits>>
  BY DEF Read, Goto, world
<1> DEFINE found == Extracted(t, k)
           news == Sheet!Only(Candidates(t, found), News \ OnSheet(t))
<1>4. /\ news \in Seq(ToSet(Watch[t]))
      /\ \A n \in ToSet(news) : /\ n \in ToSet(found) /\ n \notin OnSheet(t)
                                /\ t = DefaultTab => n \notin known
  BY <1>1, BroughtIn
<1>5. /\ sources' = sources \union {n \in ToSet(found) : n \notin known}
      /\ batch' = [batch EXCEPT ![t] = news]
  BY <1>2
<1>6. faults' \in Nat
  BY <1>2 DEF Shape
<1> HIDE DEF found, news, t
<1>7. DOMAIN batch' = TabSet /\ batch'[t] = news /\ \A s \in TabSet : s # t => batch'[s] = batch[s]
  BY <1>1, <1>5 DEF Shape
<1>8. Shape'
  <2>1. \A s \in TabSet : batch'[s] \in Seq(ToSet(Watch[s]))
    BY <1>4, <1>7 DEF Shape
  <2>2. at' \in DOMAIN Tabs
    BY <1>1, <1>3, TabFacts
  <2> QED
    BY <1>3, <1>6, <1>7, <2>1, <2>2 DEF Shape
<1>9. EmptyBefore'
  <2> SUFFICES ASSUME NEW j \in DOMAIN Tabs, Unread(j)' PROVE batch'[Tabs[j]] = <<>>
    BY DEF EmptyBefore
  <2>1. at \in Nat /\ j \in Nat /\ j >= at + 1
    BY <1>1, <1>3, TabFacts DEF Unread
  <2>2. j # at /\ Unread(j)
    BY <1>3, <2>1 DEF Unread
  <2> QED
    BY <1>1, <1>7, <2>2 DEF EmptyBefore
<1>10. Remembered'
  BY <1>3 DEF Remembered, Here, OnSheet
<1>11. Pending'
  <2> SUFFICES ASSUME NEW j \in DOMAIN Tabs, NEW n \in ToSet(batch'[Tabs[j]])
               PROVE  IF Tabs[j] = DefaultTab THEN DefaultPending(j, n)'
                      ELSE Apart(Tabs[j]) => OtherPending(j, n)'
    BY DEF Pending
  <2>1. Ahead(j)' /\ ~Published(j)' /\ ~Published(j) /\ Ahead(j)
    BY <1>3 DEF Ahead, Published
  <2>2. n \in News
    <3>1. batch'[Tabs[j]] \in Seq(ToSet(Watch[Tabs[j]]))
      BY <1>1, <1>8 DEF Shape
    <3> QED
      BY <1>1, <3>1, OnTheWatchlist
  <2>3. CASE j # at
    <3>1. n \in ToSet(batch[Tabs[j]])
      BY <1>1, <1>7, <2>3
    <3>2. IF Tabs[j] = DefaultTab THEN DefaultPending(j, n) ELSE Apart(Tabs[j]) => OtherPending(j, n)
      BY <3>1 DEF Pending
    <3> QED
      BY <1>3, <1>5, <2>1, <3>2 DEF DefaultPending, OtherPending
  <2>4. CASE j = at
    <3>1. n \in ToSet(found) /\ n \notin OnSheet(t) /\ (t = DefaultTab => n \notin known) /\ Tabs[j] = t
      BY <1>4, <1>7, <2>4 DEF t
    <3>2. CASE t = DefaultTab
      <4>1. announced[DefaultTab][n] \in Nat
        BY <1>1, <2>2, <3>2 DEF Shape
      <4>2. announced[DefaultTab][n] = 0
        BY <2>2, <3>1, <3>2, <4>1 DEF Remembered
      <4> QED
        BY <1>3, <1>5, <2>1, <3>1, <3>2, <4>2 DEF DefaultPending
    <3>3. CASE t # DefaultTab
      <4> SUFFICES ASSUME Apart(t) PROVE OtherPending(j, n)'
        BY <3>1, <3>3
      <4>1. announced[t][n] <= edits[t] + Here(t, n)
        BY <1>1, <2>2, <3>3 DEF Remembered
      <4>2. Here(t, n) = 0
        BY <3>1 DEF Here
      <4>3. announced[t][n] \in Nat /\ edits[t] \in Nat
        BY <1>1, <2>2 DEF Shape
      <4> QED
        BY <1>3, <2>1, <3>1, <4>1, <4>2, <4>3 DEF OtherPending
    <3> QED
      BY <3>2, <3>3
  <2> QED
    BY <2>3, <2>4
<1> QED
  BY <1>8, <1>9, <1>10, <1>11

LEMMA IngestStep == NewsInv /\ Ingest => NewsInv'
<1> SUFFICES ASSUME NewsInv, Ingest PROVE NewsInv'
  OBVIOUS
<1> USE DEF NewsInv
<1>1. /\ step = "ingest" /\ known' = known \union sources /\ ToPublish(1)
      /\ UNCHANGED <<site, old, sheet, announced, sources, batch, told, faults, edits>>
  BY DEF Ingest, Same, world, bound
<1>2. /\ step' \in {"publish", "notify"} /\ at' \in DOMAIN Tabs
      /\ step' = "notify" => at' = 1 /\ \A j \in DOMAIN Tabs : j >= 1 => batch[Tabs[j]] = <<>>
      /\ step' = "publish" =>
           at' >= 1 /\ \A j \in DOMAIN Tabs : j >= 1 /\ j < at' => batch[Tabs[j]] = <<>>
  <2>1. 1 \in 1..(Len(Tabs) + 1)
    BY TabFacts
  <2> QED
    BY <1>1, <2>1, PublishNext
<1>3. Shape'
  BY <1>1, <1>2 DEF Shape
<1>4. EmptyBefore'
  BY <1>2 DEF EmptyBefore, Unread
<1>5. Remembered'
  BY <1>1 DEF Remembered, Here, OnSheet
<1>6. Pending'
  <2> SUFFICES ASSUME NEW j \in DOMAIN Tabs, NEW n \in ToSet(batch[Tabs[j]])
               PROVE  IF Tabs[j] = DefaultTab THEN DefaultPending(j, n)'
                      ELSE Apart(Tabs[j]) => OtherPending(j, n)'
    BY <1>1 DEF Pending
  <2>1. j \in Nat /\ j >= 1 /\ batch[Tabs[j]] # <<>>
    BY TabFacts, NoElement
  <2>2. step' = "publish" /\ ~(j < at')
    BY <1>2, <2>1
  <2>3. Ahead(j) /\ Ahead(j)' /\ ~Published(j) /\ ~Published(j)'
    BY <1>1, <2>2 DEF Ahead, Published
  <2>4. IF Tabs[j] = DefaultTab THEN DefaultPending(j, n) ELSE Apart(Tabs[j]) => OtherPending(j, n)
    BY DEF Pending
  <2> QED
    BY <1>1, <2>3, <2>4 DEF DefaultPending, OtherPending
<1> QED
  BY <1>3, <1>4, <1>5, <1>6

\* An upsert of news into a tab that remembers.
LEMMA TabGrows ==
  ASSUME Shape, NEW t \in TabSet \ {DefaultTab}, Apart(t), NEW news \in Seq(ToSet(Watch[t])),
         NEW told_at \in {"", "now"},
         sheet' = [sheet EXCEPT ![t] = Sheet!Upsert(@, Rows(news, told_at))]
  PROVE  sheet'[t] \in Seq(RowsOf(t)) /\ OnSheet(t)' = OnSheet(t) \union ToSet(news)
<1> DEFINE more == Rows(news, told_at)
<1>1. sheet[t] \in Seq(RowsOf(t)) /\ sheet'[t] = Sheet!Upsert(sheet[t], more)
  BY DEF Shape
<1>2. more \in Seq(RowsOf(t)) /\ Pairs(more) = ToSet(news)
  BY RowsOfNews
<1> HIDE DEF more
<1>3. Grown(t, Sheet!Upsert(sheet[t], more), sheet[t], more)
  BY <1>1, <1>2, UpsertRows
<1>5. /\ sheet'[t] \in Seq(RowsOf(t))
      /\ Pairs(sheet'[t]) = Pairs(sheet[t]) \union ToSet(news)
  BY <1>1, <1>2, <1>3 DEF Grown
<1>4. OnSheet(t) = Pairs(sheet[t]) /\ OnSheet(t)' = Pairs(sheet'[t])
  BY DEF OnSheet, Pairs, Pair
<1> QED
  BY <1>4, <1>5

LEMMA RoomForOne ==
  ASSUME NEW a \in Nat, NEW b \in Nat, NEW c \in {0, 1}, a <= b + c
  PROVE  a <= b + 1
OBVIOUS

LEMMA RoomStays ==
  ASSUME NEW a \in Nat, NEW b \in Nat, NEW t, NEW n,
         a <= b + Here(t, n), n \in OnSheet(t) => n \in OnSheet(t)'
  PROVE  a <= b + Here(t, n)'
<1>1. CASE n \in OnSheet(t)'
  <2>1. Here(t, n)' = 1 /\ Here(t, n) \in {0, 1}
    BY <1>1 DEF Here
  <2>2. a <= b + 1
    BY <2>1, RoomForOne
  <2> QED
    BY <2>1, <2>2
<1>2. CASE n \notin OnSheet(t)'
  <2>1. Here(t, n)' = 0 /\ Here(t, n) = 0
    BY <1>2 DEF Here
  <2> QED
    BY <2>1
<1> QED
  BY <1>1, <1>2

\* What an upsert of the tab at hand leaves as it was, and what it adds.
LEMMA UpsertStep ==
  ASSUME Shape, NEW news \in Seq(ToSet(Watch[Tab])), NEW told_at \in {"", "now"},
         sheet' = [sheet EXCEPT ![Tab] = Sheet!Upsert(@, Rows(news, told_at))],
         UNCHANGED <<announced, edits, known>>, Remembered
  PROVE  /\ DOMAIN sheet' = TabSet
         /\ \A t \in TabSet \ {DefaultTab} : Apart(t) => sheet'[t] \in Seq(RowsOf(t))
         /\ \A t \in TabSet \ {DefaultTab} : Apart(t) => OnSheet(t) \subseteq OnSheet(t)'
         /\ \A t \in TabSet \ {DefaultTab} : t = Tab /\ Apart(t) => ToSet(news) \subseteq OnSheet(t)'
         /\ Remembered'
<1>1. Tab \in TabSet
  BY TabFacts DEF Shape, Tab
<1>2. DOMAIN sheet' = TabSet
  BY DEF Shape
<1>3. ASSUME NEW t \in TabSet \ {DefaultTab}, Apart(t)
      PROVE  /\ sheet'[t] \in Seq(RowsOf(t)) /\ OnSheet(t) \subseteq OnSheet(t)'
             /\ t = Tab => ToSet(news) \subseteq OnSheet(t)'
  <2>1. CASE t = Tab
    <3>1. sheet'[t] \in Seq(RowsOf(t)) /\ OnSheet(t)' = OnSheet(t) \union ToSet(news)
      BY <1>3, <2>1, TabGrows
    <3> QED
      BY <3>1
  <2>2. CASE t # Tab
    <3>1. sheet'[t] = sheet[t]
      BY <2>2 DEF Shape
    <3>2. OnSheet(t)' = OnSheet(t)
      BY <3>1 DEF OnSheet
    <3> QED
      BY <1>3, <2>2, <3>1, <3>2 DEF Shape
  <2> QED
    BY <2>1, <2>2
<1>4. Remembered'
  <2>1. ASSUME NEW t \in TabSet \ {DefaultTab}, Apart(t), NEW n \in News
        PROVE  announced[t][n] <= edits[t] + Here(t, n)'
    <3>1. n \in OnSheet(t) => n \in OnSheet(t)'
      BY <1>3, <2>1
    <3>2. announced[t][n] \in Nat /\ edits[t] \in Nat
      BY DEF Shape
    <3>3. announced[t][n] <= edits[t] + Here(t, n)
      BY <2>1 DEF Remembered
    <3> QED
      BY <3>1, <3>2, <3>3, RoomStays
  <2> QED
    BY <2>1 DEF Remembered
<1>5. \A t \in TabSet \ {DefaultTab} : t = Tab /\ Apart(t) => ToSet(news) \subseteq OnSheet(t)'
  BY <1>3
<1>6. \A t \in TabSet \ {DefaultTab} : Apart(t) => sheet'[t] \in Seq(RowsOf(t))
  BY <1>3
<1>7. \A t \in TabSet \ {DefaultTab} : Apart(t) => OnSheet(t) \subseteq OnSheet(t)'
  BY <1>3
<1> QED
  BY <1>2, <1>4, <1>5, <1>6, <1>7

LEMMA PublishStep == NewsInv /\ Publish => NewsInv'
<1> SUFFICES ASSUME NewsInv, Publish PROVE NewsInv'
  OBVIOUS
<1> USE DEF NewsInv
<1>1. /\ step = "publish" /\ ToPublish(at + 1)
      /\ sheet' = [sheet EXCEPT ![Tab] = Sheet!Upsert(@, Rows(batch[Tab], ""))]
      /\ UNCHANGED <<site, old, known, announced, sources, batch, told, faults, edits>>
  BY DEF Publish, Same, world, bound
<1>8. step = "publish"
  BY <1>1
<1>2. at \in DOMAIN Tabs /\ at \in Nat /\ Tab \in TabSet
  BY TabFacts DEF Shape, Tab
<1>3. /\ step' \in {"publish", "notify"} /\ at' \in DOMAIN Tabs
      /\ step' = "notify" => at' = 1 /\ \A j \in DOMAIN Tabs : j >= at + 1 => batch[Tabs[j]] = <<>>
      /\ step' = "publish" =>
           at' >= at + 1 /\ \A j \in DOMAIN Tabs : j >= at + 1 /\ j < at' => batch[Tabs[j]] = <<>>
  <2>1. at + 1 \in 1..(Len(Tabs) + 1)
    BY <1>2, TabFacts
  <2> QED
    BY <1>1, <2>1, PublishNext
<1>4. /\ DOMAIN sheet' = TabSet
      /\ \A t \in TabSet \ {DefaultTab} : Apart(t) => sheet'[t] \in Seq(RowsOf(t))
      /\ \A t \in TabSet \ {DefaultTab} : Apart(t) => OnSheet(t) \subseteq OnSheet(t)'
      /\ \A t \in TabSet \ {DefaultTab} : t = Tab /\ Apart(t) => ToSet(batch[Tab]) \subseteq OnSheet(t)'
      /\ Remembered'
  <2> DEFINE news == batch[Tab]
  <2>1. news \in Seq(ToSet(Watch[Tab]))
    BY <1>2 DEF Shape
  <2>2. sheet' = [sheet EXCEPT ![Tab] = Sheet!Upsert(@, Rows(news, ""))]
    BY <1>1
  <2>3. UNCHANGED <<announced, edits, known>>
    BY <1>1
  <2> HIDE DEF news
  <2>4. /\ DOMAIN sheet' = TabSet
        /\ \A t \in TabSet \ {DefaultTab} : Apart(t) => sheet'[t] \in Seq(RowsOf(t))
        /\ \A t \in TabSet \ {DefaultTab} : Apart(t) => OnSheet(t) \subseteq OnSheet(t)'
        /\ \A t \in TabSet \ {DefaultTab} : t = Tab /\ Apart(t) => ToSet(news) \subseteq OnSheet(t)'
        /\ Remembered'
    BY <2>1, <2>2, <2>3, UpsertStep
  <2> QED
    BY <2>4 DEF news
<1>5. Shape'
  BY <1>1, <1>3, <1>4 DEF Shape
<1>6. EmptyBefore'
  BY <1>3 DEF EmptyBefore, Unread
<1>7. Pending'
  <2> SUFFICES ASSUME NEW j \in DOMAIN Tabs, NEW n \in ToSet(batch[Tabs[j]])
               PROVE  IF Tabs[j] = DefaultTab THEN DefaultPending(j, n)'
                      ELSE Apart(Tabs[j]) => OtherPending(j, n)'
    BY <1>1 DEF Pending
  <2>1. j \in Nat /\ j >= 1 /\ Tabs[j] \in TabSet /\ batch[Tabs[j]] # <<>>
    BY TabFacts, NoElement
  <2>2. Ahead(j) /\ Ahead(j)'
    BY <1>3, <1>8, <2>1 DEF Ahead
  <2>3. IF Tabs[j] = DefaultTab THEN DefaultPending(j, n) ELSE Apart(Tabs[j]) => OtherPending(j, n)
    BY DEF Pending
  <2>4. CASE Tabs[j] = DefaultTab
    BY <1>1, <1>3, <2>2, <2>3, <2>4 DEF DefaultPending
  <2>5. CASE Tabs[j] # DefaultTab
    <3> SUFFICES ASSUME Apart(Tabs[j]) PROVE OtherPending(j, n)'
      BY <2>5
    <3> DEFINE t == Tabs[j]
    <3>1. OtherPending(j, n) /\ t \in TabSet \ {DefaultTab}
      BY <2>1, <2>3, <2>5
    <3>2. announced[t][n] + 1 <= edits[t] + (IF Published(j) THEN Here(t, n) ELSE 1)
      BY <2>2, <3>1 DEF OtherPending
    <3>3. SUFFICES announced[t][n] + 1 <= edits[t] + (IF Published(j)' THEN Here(t, n)' ELSE 1)
      BY <1>1 DEF OtherPending
    <3>4. announced[t][n] + 1 \in Nat /\ edits[t] \in Nat
      <4>1. batch[t] \in Seq(ToSet(Watch[t]))
        BY <3>1 DEF Shape
      <4>2. n \in News
        BY <3>1, <4>1, OnTheWatchlist
      <4> QED
        BY <3>1, <4>2 DEF Shape
    <3>5. CASE j < at
      <4>1. Published(j) /\ Published(j)'
        BY <1>2, <1>3, <1>8, <2>1, <3>5, TabFacts DEF Published
      <4>2. n \in OnSheet(t) => n \in OnSheet(t)'
        BY <1>4, <3>1
      <4>3. announced[t][n] + 1 <= edits[t] + Here(t, n)
        BY <3>2, <4>1
      <4>4. announced[t][n] + 1 <= edits[t] + Here(t, n)'
        BY <3>4, <4>2, <4>3, RoomStays
      <4> QED
        BY <4>1, <4>4
    <3>6. CASE j = at
      <4>1. ~Published(j)
        BY <1>2, <1>8, <3>6 DEF Published
      <4>2. t = Tab /\ n \in ToSet(batch[Tab])
        BY <3>6 DEF Tab
      <4>3. n \in OnSheet(t)'
        BY <1>4, <3>1, <4>2
      <4>4. Here(t, n)' = 1
        BY <4>3 DEF Here
      <4> QED
        BY <3>2, <4>1, <4>4
    <3>7. CASE j > at
      <4>1. ~Published(j)
        BY <1>2, <1>8, <2>1, <3>7 DEF Published
      <4>2. j >= at + 1
        BY <1>2, <2>1, <3>7
      <4>3. step' = "publish" /\ ~(j < at')
        BY <1>3, <2>1, <4>2
      <4>4. ~Published(j)'
        BY <4>3 DEF Published
      <4> QED
        BY <3>2, <4>1, <4>4
    <3> QED
      BY <1>2, <2>1, <3>5, <3>6, <3>7
  <2> QED
    BY <2>4, <2>5
<1> QED
  BY <1>4, <1>5, <1>6, <1>7

\* What a tab tells of the news in hand.
LEMMA NotifiableOf ==
  ASSUME Shape, NEW t \in TabSet
  PROVE  /\ Notifiable(t) \in Seq(ToSet(Watch[t]))
         /\ ToSet(Notifiable(t)) =
              {n \in ToSet(batch[t]) : t \notin RecentOnly \/ n[1] \notin old}
<1> DEFINE W == ToSet(Watch[t])
           K == {n \in News : t \notin RecentOnly \/ n[1] \notin old}
<1>1. batch[t] \in Seq(W)
  BY DEF Shape
<1>2. Notifiable(t) \in Seq(W \intersect K) /\ ToSet(Notifiable(t)) = ToSet(batch[t]) \intersect K
  BY <1>1, OnlyOf DEF Notifiable
<1>3. \A n \in ToSet(batch[t]) : n \in News
  BY <1>1, OnTheWatchlist
<1>4. Notifiable(t) \in Seq(W)
  <2> HIDE DEF W, K
  <2> QED
    BY <1>2
<1> QED
  BY <1>2, <1>3, <1>4

Tells(j) ==
  /\ announced' = [announced EXCEPT ![Tabs[j]] =
       [n \in News |-> IF n \in ToSet(Notifiable(Tabs[j])) THEN @[n] + 1 ELSE @[n]]]
  /\ told' = Notifiable(Tabs[j])
  /\ Goto("mark", j)
  /\ UNCHANGED <<sources, batch>>

LEMMA NotifyNext ==
  ASSUME Shape, Notify
  PROVE  \/ /\ Done /\ UNCHANGED announced
            /\ \A j \in DOMAIN Tabs : j >= at => Notifiable(Tabs[j]) = <<>>
         \/ \E j \in DOMAIN Tabs :
              /\ j >= at /\ Tells(j)
              /\ \A i \in DOMAIN Tabs : i >= at /\ i < j => Notifiable(Tabs[i]) = <<>>
<1> DEFINE left == {j \in at .. Len(Tabs) : Notifiable(Tabs[j]) # <<>>}
           first == CHOOSE j \in left : \A i \in left : j <= i
           where == IF left = {} THEN 0 ELSE first
<1>1. IF where = 0 THEN Done /\ UNCHANGED announced ELSE Tells(where)
  BY DEF Notify, NextTab, Tells
<1>2. DOMAIN Tabs = 1..Len(Tabs) /\ Len(Tabs) \in Nat /\ at \in 1..Len(Tabs)
  BY TabFacts DEF Shape
<1>3. left \subseteq at .. Len(Tabs) /\ \A j \in at .. Len(Tabs) : j \notin left => Notifiable(Tabs[j]) = <<>>
  OBVIOUS
<1> HIDE DEF left
<1>4. CASE left = {}
  <2>1. Done /\ UNCHANGED announced
    BY <1>1, <1>4
  <2>2. \A j \in DOMAIN Tabs : j >= at => j \in at .. Len(Tabs)
    BY <1>2
  <2> QED
    BY <1>3, <1>4, <2>1, <2>2
<1>5. CASE left # {}
  <2>1. left \in SUBSET Nat
    BY <1>2, <1>3
  <2>2. \E j \in left : \A i \in left : j <= i
    BY <1>5, <2>1, Least
  <2>3. first \in left /\ \A i \in left : first <= i
    BY <2>2
  <2>4. where = first
    BY <1>5
  <2> HIDE DEF first, where
  <2>5. first \in at .. Len(Tabs) /\ first # 0
    BY <1>2, <1>3, <2>3
  <2>6. Tells(first)
    BY <1>1, <2>4, <2>5
  <2>7. \A j \in DOMAIN Tabs : j >= at /\ j < first => j \in at .. Len(Tabs) /\ j \notin left
    BY <1>2, <2>1, <2>3, <2>5
  <2>8. first \in DOMAIN Tabs /\ first >= at
    BY <1>2, <2>5
  <2> QED
    BY <1>3, <2>6, <2>7, <2>8
<1> QED
  BY <1>4, <1>5

LEMMA NotifyStep == NewsInv /\ Notify => NewsInv'
<1> SUFFICES ASSUME NewsInv, Notify PROVE NewsInv'
  OBVIOUS
<1>1. step = "notify" /\ UNCHANGED <<site, old, known, sheet, faults, edits>>
  BY DEF Notify, world, bound
<1>2. CASE Done /\ UNCHANGED announced
  <2>1. faults' \in Nat
    BY <1>1 DEF NewsInv, Shape
  <2> QED
    BY <1>1, <1>2, <2>1, DoneStep
<1>3. CASE \E j \in DOMAIN Tabs :
             /\ j >= at /\ Tells(j)
             /\ \A i \in DOMAIN Tabs : i >= at /\ i < j => Notifiable(Tabs[i]) = <<>>
  <2> USE DEF NewsInv
  <2>1. PICK m \in DOMAIN Tabs :
             /\ m >= at /\ Tells(m)
             /\ \A i \in DOMAIN Tabs : i >= at /\ i < m => Notifiable(Tabs[i]) = <<>>
    BY <1>3
  <2> DEFINE t == Tabs[m]
             news == Notifiable(t)
  <2>2. t \in TabSet /\ at \in DOMAIN Tabs /\ at \in Nat /\ m \in Nat
    BY TabFacts DEF Shape
  <2>3. /\ news \in Seq(ToSet(Watch[t]))
        /\ ToSet(news) = {n \in ToSet(batch[t]) : t \notin RecentOnly \/ n[1] \notin old}
    BY <2>2, NotifiableOf
  <2>4. /\ announced' = [announced EXCEPT ![t] =
             [n \in News |-> IF n \in ToSet(news) THEN @[n] + 1 ELSE @[n]]]
        /\ told' = news /\ step' = "mark" /\ at' = m /\ UNCHANGED <<sources, batch>>
    BY <2>1 DEF Tells, Goto
  <2> HIDE DEF news, t
  <2>5. /\ \A s \in TabSet : s # t => announced'[s] = announced[s]
        /\ \A n \in News : announced[t][n] \in Nat
                           /\ announced'[t][n] = IF n \in ToSet(news) THEN announced[t][n] + 1
                                                 ELSE announced[t][n]
        /\ announced' \in [TabSet -> [News -> Nat]]
    BY <2>2, <2>4 DEF Shape
  <2>6. \A n \in ToSet(news) : n \in ToSet(batch[t]) /\ n \in News
    BY <2>2, <2>3, OnTheWatchlist
  <2>11. step' = "mark" /\ at' = m /\ told' = news
    BY <2>4
  <2>7. Shape'
    <3>1. Tab' = t
      BY <2>11 DEF Tab, t
    <3>2. told' \in Seq(ToSet(Watch[Tab']))
      BY <2>3, <2>11, <3>1
    <3> QED
      BY <1>1, <2>4, <2>5, <3>2 DEF Shape
  <2>8. EmptyBefore'
    BY <2>11 DEF EmptyBefore, Unread
  <2>12. IF t = DefaultTab THEN \A n \in ToSet(news) : n \in known /\ announced[t][n] = 0
         ELSE Apart(t) => \A n \in ToSet(news) : announced[t][n] + 1 <= edits[t] + Here(t, n)
    <3>1. Ahead(m) /\ Published(m) /\ Tabs[m] = t
      BY <1>1, <2>1 DEF Ahead, Published, t
    <3>2. \A n \in ToSet(batch[t]) : IF t = DefaultTab THEN DefaultPending(m, n)
                                     ELSE Apart(t) => OtherPending(m, n)
      BY <3>1 DEF Pending
    <3>3. CASE t = DefaultTab
      BY <1>1, <2>6, <3>1, <3>2, <3>3 DEF DefaultPending
    <3>4. CASE t # DefaultTab
      BY <2>6, <3>1, <3>2, <3>4 DEF OtherPending
    <3> QED
      BY <3>3, <3>4
  <2>9. Remembered'
    <3>1. ASSUME NEW n \in News
          PROVE  announced'[DefaultTab][n] <= 1 /\ (announced'[DefaultTab][n] > 0 => n \in known)
      <4>1. announced[DefaultTab][n] <= 1 /\ (announced[DefaultTab][n] > 0 => n \in known)
        BY <3>1 DEF Remembered
      <4>2. CASE t = DefaultTab /\ n \in ToSet(news)
        <5>1. announced'[t][n] = announced[t][n] + 1 /\ announced[t][n] = 0 /\ n \in known
          BY <2>5, <2>12, <3>1, <4>2
        <5> QED
          BY <4>2, <5>1
      <4>3. CASE ~(t = DefaultTab /\ n \in ToSet(news))
        <5>1. announced'[DefaultTab][n] = announced[DefaultTab][n]
          BY <2>5, <3>1, <4>3, TabFacts
        <5> QED
          BY <4>1, <5>1
      <4> QED
        BY <4>2, <4>3
    <3>2. ASSUME NEW s \in TabSet \ {DefaultTab}, Apart(s), NEW n \in News
          PROVE  announced'[s][n] <= edits[s] + Here(s, n)
      <4>1. announced[s][n] <= edits[s] + Here(s, n)
        BY <3>2 DEF Remembered
      <4>2. CASE s = t /\ n \in ToSet(news)
        <5>1. announced'[t][n] = announced[t][n] + 1
          BY <2>5, <3>2, <4>2
        <5>2. announced[t][n] + 1 <= edits[t] + Here(t, n)
          BY <2>12, <3>2, <4>2
        <5> QED
          BY <4>2, <5>1, <5>2
      <4>3. CASE ~(s = t /\ n \in ToSet(news))
        <5>1. announced'[s][n] = announced[s][n]
          BY <2>5, <3>2, <4>3
        <5> QED
          BY <4>1, <5>1
      <4> QED
        BY <4>2, <4>3
    <3>3. \A s, n : Here(s, n)' = Here(s, n)
      BY <1>1 DEF Here, OnSheet
    <3> QED
      BY <1>1, <3>1, <3>2, <3>3 DEF Remembered
  <2>10. Pending'
    <3> SUFFICES ASSUME NEW j \in DOMAIN Tabs, NEW n \in ToSet(batch[Tabs[j]])
                 PROVE  IF Tabs[j] = DefaultTab THEN DefaultPending(j, n)'
                        ELSE Apart(Tabs[j]) => OtherPending(j, n)'
      BY <2>4 DEF Pending
    <3>1. IF Tabs[j] = DefaultTab THEN DefaultPending(j, n) ELSE Apart(Tabs[j]) => OtherPending(j, n)
      BY DEF Pending
    <3>2. n \in News /\ j \in Nat /\ Tabs[j] \in TabSet
      <4>1. Tabs[j] \in TabSet /\ batch[Tabs[j]] \in Seq(ToSet(Watch[Tabs[j]]))
        BY TabFacts DEF Shape
      <4> QED
        BY <4>1, OnTheWatchlist, TabFacts
    <3>3. Published(j) /\ Published(j)' /\ (Ahead(j)' <=> j > m) /\ (Ahead(j) <=> j >= at)
      BY <1>1, <2>11 DEF Published, Ahead
    <3>4. CASE j > m
      <4>1. Tabs[j] # t /\ Ahead(j) /\ Ahead(j)'
        BY <2>1, <2>2, <3>2, <3>3, <3>4, TabFacts DEF t
      <4>2. announced'[Tabs[j]] = announced[Tabs[j]]
        BY <2>5, <3>2, <4>1
      <4>3. CASE Tabs[j] = DefaultTab
        BY <1>1, <2>4, <3>1, <4>1, <4>2, <4>3 DEF DefaultPending
      <4>4. CASE Tabs[j] # DefaultTab
        <5>1. Here(Tabs[j], n)' = Here(Tabs[j], n)
          BY <1>1 DEF Here, OnSheet
        <5> QED
          BY <1>1, <3>1, <3>3, <4>1, <4>2, <4>4, <5>1 DEF OtherPending
      <4> QED
        BY <4>3, <4>4
    <3>5. CASE ~(j > m)
      <4>1. ~Ahead(j)'
        BY <3>3, <3>5
      <4>2. CASE Tabs[j] # DefaultTab
        BY <4>1, <4>2 DEF OtherPending
      <4>3. CASE Tabs[j] = DefaultTab
        <5>1. DefaultPending(j, n)
          BY <3>1, <4>3
        <5>2. n \in known'
          BY <1>1, <5>1 DEF DefaultPending
        <5>3. announced'[DefaultTab][n] > 0 \/ (DefaultTab \in RecentOnly /\ n[1] \in old)
          <6>1. CASE j < at
            <7>1. ~Ahead(j) /\ Tabs[j] # t
              BY <2>1, <2>2, <3>2, <3>3, <6>1, TabFacts DEF t
            <7>2. announced'[DefaultTab] = announced[DefaultTab]
              BY <2>5, <3>2, <4>3, <7>1
            <7> QED
              BY <5>1, <7>1, <7>2 DEF DefaultPending
          <6>2. CASE j >= at /\ j < m
            <7>1. Notifiable(Tabs[j]) = <<>>
              BY <2>1, <6>2
            <7>2. n \notin ToSet(Notifiable(Tabs[j]))
              BY <7>1, NoElement
            <7> QED
              BY <3>2, <4>3, <7>2, NotifiableOf
          <6>3. CASE j = m
            <7>1. Tabs[j] = t
              BY <6>3 DEF t
            <7>2. CASE n \in ToSet(news)
              <8>1. announced'[t][n] = announced[t][n] + 1 /\ announced[t][n] \in Nat
                BY <2>5, <3>2, <7>2
              <8> QED
                BY <4>3, <7>1, <8>1
            <7>3. CASE n \notin ToSet(news)
              BY <2>3, <4>3, <7>1, <7>3
            <7> QED
              BY <7>2, <7>3
          <6> QED
            BY <2>2, <3>2, <3>5, <6>1, <6>2, <6>3
        <5>4. n \in sources' \union known' /\ (step' \notin {"read", "ingest"} => n \in known')
          BY <5>2
        <5>5. UNCHANGED old
          BY <1>1
        <5>6. DefaultPending(j, n)'
          BY <4>1, <5>3, <5>4, <5>5 DEF DefaultPending
        <5> QED
          BY <4>3, <5>6
      <4> QED
        BY <4>2, <4>3
    <3> QED
      BY <3>4, <3>5
  <2> QED
    BY <2>7, <2>8, <2>9, <2>10
<1> QED
  BY <1>2, <1>3, NotifyNext DEF NewsInv

LEMMA MarkStep == NewsInv /\ Mark => NewsInv'
<1> SUFFICES ASSUME NewsInv, Mark PROVE NewsInv'
  OBVIOUS
<1> USE DEF NewsInv
<1>1. /\ sheet' = [sheet EXCEPT ![Tab] = Sheet!Upsert(@, Rows(told, "now"))]
      /\ UNCHANGED <<site, old, known, announced, faults, edits>>
  BY DEF Mark, world, bound
<1>2. step = "mark" /\ at \in DOMAIN Tabs /\ at \in Nat /\ Tab \in TabSet
  BY TabFacts DEF Mark, Shape, Tab
<1>3. /\ DOMAIN sheet' = TabSet
      /\ \A t \in TabSet \ {DefaultTab} : Apart(t) => sheet'[t] \in Seq(RowsOf(t))
      /\ \A t \in TabSet \ {DefaultTab} : Apart(t) => OnSheet(t) \subseteq OnSheet(t)'
      /\ Remembered'
  <2> DEFINE news == told
  <2>1. news \in Seq(ToSet(Watch[Tab]))
    BY <1>2 DEF Shape
  <2>2. sheet' = [sheet EXCEPT ![Tab] = Sheet!Upsert(@, Rows(news, "now"))]
    BY <1>1
  <2>3. UNCHANGED <<announced, edits, known>>
    BY <1>1
  <2> HIDE DEF news
  <2> QED
    BY <2>1, <2>2, <2>3, UpsertStep
<1>4. UNCHANGED <<site, old, known, announced, faults, edits>>
  BY <1>1
<1>5. CASE at >= Len(Tabs) /\ Done
  <2>1. step' = "idle" /\ at' = 1 /\ batch' = NoBatch
    BY <1>5 DEF Done, Goto
  <2>2. DOMAIN batch' = TabSet /\ \A t \in TabSet : batch'[t] = <<>>
    BY <2>1 DEF NoBatch
  <2>3. EmptyBefore' /\ Pending'
    BY <2>2, NothingPending
  <2>4. \A t : <<>> \in Seq(ToSet(Watch[t]))
    OBVIOUS
  <2>5. \A t \in TabSet : batch'[t] \in Seq(ToSet(Watch[t]))
    BY <2>2, <2>4
  <2>6. Shape'
    BY <1>3, <1>4, <2>1, <2>2, <2>5, TabFacts DEF Shape
  <2> QED
    BY <1>3, <2>3, <2>6
<1>6. CASE at < Len(Tabs) /\ Goto("notify", at + 1) /\ Same
  <2>1. step' = "notify" /\ at' = at + 1 /\ at' \in DOMAIN Tabs /\ UNCHANGED <<sources, batch, told>>
    BY <1>2, <1>6, TabFacts DEF Goto, Same
  <2>2. Shape'
    BY <1>3, <1>4, <2>1 DEF Shape
  <2>3. EmptyBefore'
    BY <2>1 DEF EmptyBefore, Unread
  <2>4. Pending'
    <3> SUFFICES ASSUME NEW j \in DOMAIN Tabs, NEW n \in ToSet(batch[Tabs[j]])
                 PROVE  IF Tabs[j] = DefaultTab THEN DefaultPending(j, n)'
                        ELSE Apart(Tabs[j]) => OtherPending(j, n)'
      BY <2>1 DEF Pending
    <3>1. IF Tabs[j] = DefaultTab THEN DefaultPending(j, n) ELSE Apart(Tabs[j]) => OtherPending(j, n)
      BY DEF Pending
    <3>2. j \in Nat /\ Tabs[j] \in TabSet /\ batch[Tabs[j]] \in Seq(ToSet(Watch[Tabs[j]]))
      BY TabFacts DEF Shape
    <3>3. Published(j) /\ Published(j)' /\ (Ahead(j)' <=> Ahead(j))
      BY <1>2, <2>1, <3>2 DEF Published, Ahead
    <3>4. CASE Tabs[j] = DefaultTab
      BY <1>2, <1>4, <2>1, <3>1, <3>3, <3>4 DEF DefaultPending
    <3>5. CASE Tabs[j] # DefaultTab
      <4> SUFFICES ASSUME Apart(Tabs[j]), Ahead(j) PROVE OtherPending(j, n)'
        BY <3>3, <3>5 DEF OtherPending
      <4> DEFINE t == Tabs[j]
      <4>1. announced[t][n] + 1 <= edits[t] + Here(t, n)
        BY <3>1, <3>3, <3>5 DEF OtherPending
      <4>2. announced[t][n] + 1 \in Nat /\ edits[t] \in Nat
        <5>1. n \in News
          BY <3>2, OnTheWatchlist
        <5> QED
          BY <3>2, <5>1 DEF Shape
      <4>3. n \in OnSheet(t) => n \in OnSheet(t)'
        BY <1>3, <3>2, <3>5
      <4>4. announced[t][n] + 1 <= edits[t] + Here(t, n)'
        BY <4>1, <4>2, <4>3, RoomStays
      <4> QED
        BY <1>4, <3>3, <4>4 DEF OtherPending
    <3> QED
      BY <3>4, <3>5
  <2> QED
    BY <1>3, <2>2, <2>3, <2>4
<1> QED
  <2>1. IF at < Len(Tabs) THEN Goto("notify", at + 1) /\ Same ELSE Done
    BY DEF Mark
  <2>2. at >= Len(Tabs) \/ at < Len(Tabs)
    BY <1>2, TabFacts
  <2> QED
    BY <1>5, <1>6, <2>1, <2>2
-----------------------------------------------------------------------------
(* The steps of the world.                                                 *)

\* Nothing but the age of an article changes for the run.
LEMMA AppearStep == ASSUME NewsInv, NEW a \in Articles, Appear(a) PROVE NewsInv'
<1> USE DEF NewsInv
<1>1. /\ site' = Append(site, a)
      /\ UNCHANGED <<old, known, sheet, announced, step, at, sources, batch, told, faults, edits>>
  BY DEF Appear, run, bound
<1>2. site' \in Seq(Articles)
  BY <1>1 DEF Shape
<1>3. UNCHANGED <<old, known, sheet, announced, step, at, sources, batch, told, faults, edits>>
  BY <1>1
<1>4. Shape'
  BY <1>2, <1>3 DEF Shape, Tab
<1>5. EmptyBefore'
  BY <1>3 DEF EmptyBefore, Unread
<1>6. Remembered'
  BY <1>3 DEF Remembered, Here, OnSheet
<1>7. Pending'
  BY <1>3 DEF Pending, DefaultPending, OtherPending, Ahead, Published, Here, OnSheet
<1> QED
  BY <1>4, <1>5, <1>6, <1>7

LEMMA AgeStep == ASSUME NewsInv, NEW a \in Articles, Age(a) PROVE NewsInv'
<1> USE DEF NewsInv
<1>1. old \subseteq old'
  BY DEF Age
<1>2. UNCHANGED <<site, known, sheet, announced, step, at, sources, batch, told, faults, edits>>
  BY DEF Age, run, bound
<1>3. Shape'
  BY <1>2 DEF Shape, Tab
<1>4. EmptyBefore'
  BY <1>2 DEF EmptyBefore, Unread
<1>5. Remembered'
  BY <1>2 DEF Remembered, Here, OnSheet
<1>6. Pending'
  <2> SUFFICES ASSUME NEW j \in DOMAIN Tabs, NEW n \in ToSet(batch[Tabs[j]])
               PROVE  IF Tabs[j] = DefaultTab THEN DefaultPending(j, n)'
                      ELSE Apart(Tabs[j]) => OtherPending(j, n)'
    BY <1>2 DEF Pending
  <2>1. IF Tabs[j] = DefaultTab THEN DefaultPending(j, n) ELSE Apart(Tabs[j]) => OtherPending(j, n)
    BY DEF Pending
  <2>2. Ahead(j)' <=> Ahead(j)
    BY <1>2 DEF Ahead
  <2>3. CASE Tabs[j] = DefaultTab
    BY <1>1, <1>2, <2>1, <2>2, <2>3 DEF DefaultPending
  <2>4. CASE Tabs[j] # DefaultTab
    BY <1>2, <2>1, <2>2, <2>4 DEF OtherPending, Published, Here, OnSheet
  <2> QED
    BY <2>3, <2>4
<1> QED
  BY <1>3, <1>4, <1>5, <1>6

\* A deleted row makes room for one more message.
LEMMA DeleteStep ==
  ASSUME NewsInv, NEW t \in TabSet, NEW k \in DOMAIN sheet[t], Delete(t, k)
  PROVE  NewsInv'
<1> USE DEF NewsInv
<1>1. /\ sheet' = [sheet EXCEPT ![t] = RemoveAt(@, k)]
      /\ edits' = [edits EXCEPT ![t] = @ + 1]
      /\ UNCHANGED <<site, old, known, announced, step, at, sources, batch, told, faults>>
  BY DEF Delete, world, run
<1>2. UNCHANGED <<site, old, known, announced, step, at, sources, batch, told, faults>>
  BY <1>1
<1>3. edits' \in [TabSet -> Nat] /\ \A s \in TabSet : edits'[s] = IF s = t THEN edits[s] + 1 ELSE edits[s]
  BY <1>1 DEF Shape
<1>4. DOMAIN sheet' = TabSet /\ \A s \in TabSet : s # t => sheet'[s] = sheet[s]
  BY <1>1 DEF Shape
<1>5. ASSUME NEW s \in TabSet \ {DefaultTab}, Apart(s) PROVE sheet'[s] \in Seq(RowsOf(s))
  <2>1. sheet[s] \in Seq(RowsOf(s))
    BY <1>5 DEF Shape
  <2>2. CASE s = t
    <3> DEFINE R == RowsOf(s)  q == sheet[s]
    <3>1. sheet'[s] = SubSeq(q, 1, k - 1) \o SubSeq(q, k + 1, Len(q))
      BY <1>1, <2>2 DEF Shape, RemoveAt
    <3>2. q \in Seq(R) /\ k \in 1..Len(q)
      BY <2>1, <2>2
    <3> HIDE DEF R, q
    <3>3. SubSeq(q, 1, k - 1) \in Seq(R) /\ SubSeq(q, k + 1, Len(q)) \in Seq(R)
      BY <3>2
    <3>4. sheet'[s] \in Seq(R)
      BY <3>1, <3>3
    <3> QED
      BY <3>4 DEF R
  <2> QED
    BY <1>4, <2>1, <2>2
<1>6. Shape'
  BY <1>2, <1>3, <1>4, <1>5 DEF Shape, Tab
<1>7. EmptyBefore'
  BY <1>2 DEF EmptyBefore, Unread
<1>8. ASSUME NEW s \in TabSet, NEW n \in News, NEW a \in Nat, a <= edits[s] + Here(s, n)
      PROVE  a <= edits'[s] + Here(s, n)'
  <2>1. CASE s = t
    <3>1. Here(s, n) \in {0, 1} /\ (Here(s, n)' = 0 \/ Here(s, n)' = 1)
      BY DEF Here
    <3>2. edits[s] \in Nat /\ edits'[s] = edits[s] + 1
      BY <1>3, <2>1 DEF Shape
    <3>3. a <= edits'[s]
      BY <1>8, <3>1, <3>2, RoomForOne
    <3> QED
      BY <3>1, <3>2, <3>3
  <2>2. CASE s # t
    <3>1. Here(s, n)' = Here(s, n)
      BY <1>4, <2>2 DEF Here, OnSheet
    <3> QED
      BY <1>3, <1>8, <2>2, <3>1
  <2> QED
    BY <2>1, <2>2
<1>9. Remembered'
  <2>1. ASSUME NEW s \in TabSet \ {DefaultTab}, Apart(s), NEW n \in News
        PROVE  announced[s][n] <= edits'[s] + Here(s, n)'
    <3>1. announced[s][n] <= edits[s] + Here(s, n) /\ announced[s][n] \in Nat
      BY <2>1 DEF Remembered, Shape
    <3> QED
      BY <1>8, <3>1
  <2> QED
    BY <1>2, <2>1 DEF Remembered
<1>10. Pending'
  <2> SUFFICES ASSUME NEW j \in DOMAIN Tabs, NEW n \in ToSet(batch[Tabs[j]])
               PROVE  IF Tabs[j] = DefaultTab THEN DefaultPending(j, n)'
                      ELSE Apart(Tabs[j]) => OtherPending(j, n)'
    BY <1>2 DEF Pending
  <2>1. IF Tabs[j] = DefaultTab THEN DefaultPending(j, n) ELSE Apart(Tabs[j]) => OtherPending(j, n)
    BY DEF Pending
  <2>2. (Ahead(j)' <=> Ahead(j)) /\ (Published(j)' <=> Published(j))
    BY <1>2 DEF Ahead, Published
  <2>3. CASE Tabs[j] = DefaultTab
    BY <1>2, <2>1, <2>2, <2>3 DEF DefaultPending
  <2>4. CASE Tabs[j] # DefaultTab
    <3> DEFINE s == Tabs[j]  a == announced[s][n] + 1
    <3> SUFFICES ASSUME Apart(s), Ahead(j) PROVE OtherPending(j, n)'
      BY <2>2, <2>4 DEF OtherPending
    <3>1. a <= edits[s] + (IF Published(j) THEN Here(s, n) ELSE 1)
      BY <2>1, <2>4 DEF OtherPending
    <3>2. s \in TabSet /\ n \in News /\ a \in Nat /\ edits[s] \in Nat
      <4>1. s \in TabSet /\ batch[s] \in Seq(ToSet(Watch[s]))
        BY TabFacts DEF Shape
      <4>2. n \in News
        BY <4>1, OnTheWatchlist
      <4> QED
        BY <4>1, <4>2 DEF Shape
    <3> HIDE DEF a, s
    <3>3. CASE Published(j)
      <4>1. a <= edits[s] + Here(s, n)
        BY <3>1, <3>3
      <4>2. a <= edits'[s] + Here(s, n)'
        BY <1>8, <3>2, <4>1
      <4> QED
        BY <1>2, <2>2, <3>3, <4>2 DEF OtherPending, a, s
    <3>4. CASE ~Published(j)
      <4>1. a <= edits[s] + 1
        BY <3>1, <3>4
      <4>2. edits'[s] \in Nat /\ edits[s] <= edits'[s]
        BY <1>3, <3>2
      <4>3. a <= edits'[s] + 1
        BY <3>2, <4>1, <4>2
      <4> QED
        BY <1>2, <2>2, <3>4, <4>3 DEF OtherPending, a, s
    <3> QED
      BY <3>3, <3>4
  <2> QED
    BY <2>3, <2>4
<1> QED
  BY <1>6, <1>7, <1>9, <1>10

LEMMA NewsStep == NewsInv /\ [Next]_vars => NewsInv'
<1> SUFFICES ASSUME NewsInv, [Next]_vars PROVE NewsInv'
  OBVIOUS
<1>1. CASE Crawl
  BY <1>1, StartStep, ReadStep, IngestStep, PublishStep, NotifyStep, MarkStep DEF Crawl
<1>2. CASE Die
  BY <1>2, DieStep
<1>3. CASE \E a \in Articles : Appear(a) \/ Age(a)
  BY <1>3, AppearStep, AgeStep
<1>4. CASE \E t \in TabSet : \E k \in DOMAIN sheet[t] : Delete(t, k)
  BY <1>4, DeleteStep
<1>5. CASE UNCHANGED vars
  <2>1. UNCHANGED <<site, old, known, sheet, announced, step, at, sources, batch, told, faults, edits>>
    BY <1>5 DEF vars, world, run, bound
  <2>2. Shape'
    BY <2>1 DEF NewsInv, Shape, Tab
  <2>3. EmptyBefore' /\ Remembered' /\ Pending'
    BY <2>1 DEF NewsInv, EmptyBefore, Unread, Remembered, Pending, DefaultPending, OtherPending,
                Ahead, Published, Here, OnSheet
  <2> QED
    BY <2>2, <2>3 DEF NewsInv
<1> QED
  BY <1>1, <1>2, <1>3, <1>4, <1>5 DEF Next

LEMMA NewsInvHolds == Spec => []NewsInv
<1> QED
  BY NewsInit, NewsStep, PTL DEF Spec

\* No news is told twice in a channel: the store remembers what the default tab
\* told, and the rows of another tab what that one told, but for the rows that
\* operators delete.
THEOREM ToldOnce == Spec => []AnnouncedOnce
<1>1. NewsInv => AnnouncedOnce
  <2> SUFFICES ASSUME NewsInv, NEW t \in TabSet, NEW n \in News
               PROVE  IF t = DefaultTab THEN announced[t][n] <= 1
                      ELSE Apart(t) => announced[t][n] <= 1 + edits[t]
    BY DEF AnnouncedOnce
  <2>1. CASE t = DefaultTab
    BY <2>1 DEF NewsInv, Remembered
  <2>2. CASE t # DefaultTab
    <3> SUFFICES ASSUME Apart(t) PROVE announced[t][n] <= 1 + edits[t]
      BY <2>2
    <3>1. announced[t][n] <= edits[t] + Here(t, n)
      BY <2>2 DEF NewsInv, Remembered
    <3>2. announced[t][n] \in Nat /\ edits[t] \in Nat
      BY DEF NewsInv, Shape
    <3>3. Here(t, n) \in {0, 1}
      BY DEF Here
    <3>4. announced[t][n] <= edits[t] + 1
      BY <3>1, <3>2, <3>3, RoomForOne
    <3> QED
      BY <3>2, <3>4
  <2> QED
    BY <2>1, <2>2
<1> QED
  BY <1>1, NewsInvHolds, PTL
-----------------------------------------------------------------------------
(* What the default tab loses.                                             *)

\* A step that ends the run drops the list of the default tab; what is on it
\* then was told, or left out for its age.
LEMMA EndOfRun ==
  ASSUME NewsInv, NEW d \in DOMAIN Tabs, Tabs[d] = DefaultTab, ~Ahead(d),
         NEW n \in ToSet(batch[DefaultTab])
  PROVE  announced[DefaultTab][n] > 0 \/ (DefaultTab \in RecentOnly /\ n[1] \in old)
<1>1. DefaultPending(d, n)
  BY DEF NewsInv, Pending
<1> QED
  BY <1>1 DEF DefaultPending

LossCause ==
  \A n \in ToSet(Watch[DefaultTab]) :
    ~Lost(n) /\ Lost(n)' =>
      \/ faults' > faults
      \/ n \notin ToSet(batch[DefaultTab])
      \/ DefaultTab \in RecentOnly /\ n[1] \in old

LEMMA LossStep == NewsInv /\ [Next]_vars => LossCause
<1> SUFFICES ASSUME NewsInv, [Next]_vars,
                    NEW n \in ToSet(Watch[DefaultTab]), ~Lost(n), Lost(n)',
                    n \in ToSet(batch[DefaultTab]),
                    ~(DefaultTab \in RecentOnly /\ n[1] \in old)
             PROVE  faults' > faults
  BY DEF LossCause
<1>1. PICK d \in DOMAIN Tabs : Tabs[d] = DefaultTab
  BY TabFacts
<1>2. d \in Nat /\ at \in Nat /\ at \in DOMAIN Tabs /\ faults \in Nat
  BY TabFacts DEF NewsInv, Shape
<1>3. ~Unread(d) /\ step # "idle"
  <2>1. batch[DefaultTab] # <<>>
    BY NoElement
  <2>2. ~Unread(d)
    BY <1>1, <2>1 DEF NewsInv, EmptyBefore
  <2> QED
    BY <2>2 DEF Unread
<1>4. /\ n \in known' /\ announced'[DefaultTab][n] = 0
      /\ step' = "idle" \/ n \notin ToSet(batch'[DefaultTab])
  BY DEF Lost
<1>5. ~Ahead(d) => announced[DefaultTab][n] > 0
  BY <1>1, EndOfRun
<1>6. CASE Start
  BY <1>3, <1>6 DEF Start
<1>7. CASE Read
  <2>1. step = "read" /\ at # d
    BY <1>2, <1>3, <1>7 DEF Read, Unread
  <2>2. Tab # DefaultTab /\ step' # "idle"
    BY <1>1, <1>2, <1>7, <2>1, TabFacts DEF Tab, Read, Goto
  <2>3. batch'[DefaultTab] = batch[DefaultTab]
    BY <1>7, <2>2, TabFacts DEF Read, NewsInv, Shape
  <2> QED
    BY <1>4, <2>2, <2>3
<1>8. CASE Ingest \/ Publish
  <2>1. batch' = batch /\ step' # "idle"
    BY <1>8 DEF Ingest, Publish, Same, ToPublish, Goto
  <2> QED
    BY <1>4, <2>1
<1>9. CASE Notify
  <2>1. step = "notify"
    BY <1>9 DEF Notify
  <2>2. CASE /\ Done /\ UNCHANGED announced
             /\ \A j \in DOMAIN Tabs : j >= at => Notifiable(Tabs[j]) = <<>>
    <3>1. CASE d >= at
      <4>1. n \notin ToSet(Notifiable(DefaultTab))
        BY <1>1, <2>2, <3>1, NoElement
      <4>2. n \in ToSet(Notifiable(DefaultTab))
        BY TabFacts, NotifiableOf DEF NewsInv
      <4> QED
        BY <4>1, <4>2
    <3>2. CASE d < at
      <4>1. ~Ahead(d)
        BY <1>2, <2>1, <3>2 DEF Ahead
      <4> QED
        BY <1>4, <1>5, <2>2, <4>1
    <3> QED
      BY <1>2, <3>1, <3>2
  <2>3. CASE \E j \in DOMAIN Tabs :
               /\ j >= at /\ Tells(j)
               /\ \A i \in DOMAIN Tabs : i >= at /\ i < j => Notifiable(Tabs[i]) = <<>>
    <3>1. batch' = batch /\ step' = "mark"
      BY <2>3 DEF Tells, Goto
    <3> QED
      BY <1>4, <3>1
  <2> QED
    BY <1>9, <2>2, <2>3, NotifyNext DEF NewsInv
<1>10. CASE Mark
  <2>1. step = "mark" /\ UNCHANGED announced
    BY <1>10 DEF Mark
  <2>2. CASE at < Len(Tabs)
    <3>1. batch' = batch /\ step' = "notify"
      BY <1>10, <2>2 DEF Mark, Same, Goto
    <3> QED
      BY <1>4, <3>1
  <2>3. CASE ~(at < Len(Tabs))
    <3>1. ~Ahead(d)
      BY <1>2, <2>1, <2>3, TabFacts DEF Ahead
    <3> QED
      BY <1>4, <1>5, <2>1, <3>1
  <2> QED
    BY <2>2, <2>3
<1>11. CASE Die
  BY <1>2, <1>11 DEF Die
<1>12. CASE \/ \E a \in Articles : Appear(a) \/ Age(a)
            \/ \E t \in TabSet : \E k \in DOMAIN sheet[t] : Delete(t, k)
  <2>1. step' = step /\ batch' = batch
    BY <1>12 DEF Appear, Age, Delete, run
  <2> QED
    BY <1>3, <1>4, <2>1
<1>13. CASE UNCHANGED vars
  <2>1. step' = step /\ batch' = batch
    BY <1>13 DEF vars, run
  <2> QED
    BY <1>3, <1>4, <2>1
<1> QED
  BY <1>6, <1>7, <1>8, <1>9, <1>10, <1>11, <1>12, <1>13 DEF Next, Crawl

\* A news of the default tab's that the run had in hand is lost only when the
\* run dies, or on purpose, because it got old; any other that is lost came with
\* another target.
THEOREM LossHasACause == Spec => LostByDeathOrRace
<1>1. NewsInv /\ [Next]_vars
        => [\A n \in ToSet(Watch[DefaultTab]) :
              ~Lost(n) /\ Lost(n)' =>
                \/ faults' > faults
                \/ n \notin ToSet(batch[DefaultTab])
                \/ DefaultTab \in RecentOnly /\ n[1] \in old]_vars
  BY LossStep DEF LossCause
<1> QED
  BY <1>1, NewsInvHolds, PTL DEF Spec, LostByDeathOrRace
-----------------------------------------------------------------------------
(* Upserts of the tabs of GoogleSheetReviewQueue.                          *)

\* What Placed builds, for them.
TabPlacedUpTo(table, list, from, g, n) ==
  IF n = 0 THEN table ELSE Algorithm!Place(g[n - 1], list[n], from)

TabPlacedBy(g, table, list, from, m) == g = [n \in 0..m |-> TabPlacedUpTo(table, list, from, g, n)]

LEMMA TabPlacedExists ==
  ASSUME NEW table, NEW list, NEW from, NEW m \in Nat
  PROVE  \E g : TabPlacedBy(g, table, list, from, m)
<1> DEFINE U(g, n) == TabPlacedUpTo(table, list, from, g, n)
           Has(k) == \E g : g = [n \in 0..k |-> U(g, n)]
<1>1. Has(0)
  <2>1. \A g : U(g, 0) = table
    BY DEF TabPlacedUpTo
  <2> HIDE DEF U
  <2>2. [n \in 0..0 |-> table] = [n \in 0..0 |-> U([i \in 0..0 |-> table], n)]
    BY <2>1
  <2> QED
    BY <2>2
<1>2. ASSUME NEW k \in Nat, Has(k) PROVE Has(k + 1)
  <2>1. PICK g : g = [n \in 0..k |-> U(g, n)]
    BY <1>2
  <2> DEFINE h == [n \in 0..(k + 1) |-> U(g, n)]
  <2>2. ASSUME NEW n \in 0..(k + 1) PROVE U(h, n) = U(g, n)
    <3>1. n # 0 => n - 1 \in 0..k
      OBVIOUS
    <3>2. n # 0 => h[n - 1] = g[n - 1]
      <4> HIDE DEF U
      <4> QED
        BY <2>1, <3>1
    <3> QED
      <4> HIDE DEF h
      <4> QED
        BY <3>2 DEF TabPlacedUpTo
  <2>3. h = [n \in 0..(k + 1) |-> U(h, n)]
    <3> HIDE DEF U
    <3> QED
      BY <2>2
  <2> QED
    BY <2>3
<1>3. Nat \subseteq {k \in Nat : Has(k)}
  <2> HIDE DEF Has
  <2> DEFINE T == {k \in Nat : Has(k)}
  <2>1. 0 \in T /\ \A k \in Nat : k \in T => k + 1 \in T
    BY <1>1, <1>2
  <2> HIDE DEF T
  <2>2. Nat \subseteq T
    BY <2>1, Induction
  <2> QED
    BY <2>2 DEF T
<1> QED
  BY <1>3 DEF TabPlacedBy

\* What Dedupe builds, for them.
TabDedupedUpTo(list, keyless, g, n) ==
  CASE n = 0 -> Algorithm!Nothing
    [] n # 0 /\ list[n] \in keyless -> g[n - 1]
    [] OTHER -> Algorithm!Merge(g[n - 1], list[n])

LEMMA TabDedupedExists ==
  ASSUME NEW list, NEW keyless, NEW m \in Nat
  PROVE  \E g : g = [n \in 0..m |-> TabDedupedUpTo(list, keyless, g, n)]
<1> DEFINE U(g, n) == TabDedupedUpTo(list, keyless, g, n)
           Has(k) == \E g : g = [n \in 0..k |-> U(g, n)]
<1>1. Has(0)
  <2>1. \A g : U(g, 0) = Algorithm!Nothing
    BY DEF TabDedupedUpTo
  <2> HIDE DEF U
  <2>2. [n \in 0..0 |-> Algorithm!Nothing] = [n \in 0..0 |-> U([i \in 0..0 |-> Algorithm!Nothing], n)]
    BY <2>1
  <2> QED
    BY <2>2
<1>2. ASSUME NEW k \in Nat, Has(k) PROVE Has(k + 1)
  <2>1. PICK g : g = [n \in 0..k |-> U(g, n)]
    BY <1>2
  <2> DEFINE h == [n \in 0..(k + 1) |-> U(g, n)]
  <2>2. ASSUME NEW n \in 0..(k + 1) PROVE U(h, n) = U(g, n)
    <3>1. n # 0 => n - 1 \in 0..k
      OBVIOUS
    <3>2. n # 0 => h[n - 1] = g[n - 1]
      <4> HIDE DEF U
      <4> QED
        BY <2>1, <3>1
    <3> QED
      <4> HIDE DEF h
      <4> QED
        BY <3>2 DEF TabDedupedUpTo
  <2>3. h = [n \in 0..(k + 1) |-> U(h, n)]
    <3> HIDE DEF U
    <3> QED
      BY <2>2
  <2> QED
    BY <2>3
<1>3. Nat \subseteq {k \in Nat : Has(k)}
  <2> HIDE DEF Has
  <2> DEFINE T == {k \in Nat : Has(k)}
  <2>1. 0 \in T /\ \A k \in Nat : k \in T => k + 1 \in T
    BY <1>1, <1>2
  <2> HIDE DEF T
  <2>2. Nat \subseteq T
    BY <2>1, Induction
  <2> QED
    BY <2>2 DEF T
<1> QED
  BY <1>3

\* The elements that are kept, for the upserts of a tab with one key.
LEMMA TabOnlyOf ==
  ASSUME NEW S, NEW s \in Seq(S), NEW kept
  PROVE  /\ Algorithm!Only(s, kept) \in Seq(S \intersect kept)
         /\ ToSet(Algorithm!Only(s, kept)) = ToSet(s) \intersect kept
<1>1. Algorithm!Only(s, kept) = Sheet!Only(s, kept)
  BY DEF Algorithm!Only, Sheet!Only
<1> QED
  BY <1>1, OnlyOf
-----------------------------------------------------------------------------
(* Rows of a tab.                                                          *)

\* Rows with the operators' cell in one of these orders of columns.
Fields     == [key : Text, gen : Text, collected : {"", "yes"},
               own : Text, cols : {"", "old", "new", "wrong"}]
Written(C) == {row \in Fields : (row.own = "" <=> row.cols = "") /\ row.cols \in C \union {""}}
NewRows    == [key : Text, gen : Text, collected : {"", "yes"}, own : {""}, cols : {""}]

\* The row of a number, blank below the last one.
At(s, k) == IF k \in DOMAIN s THEN s[k] ELSE Blank

\* A row of this key, with a note if this one has one.
HasRow(s, row) == \E k \in DOMAIN s : s[k].key = row.key /\ (row.own # "" => s[k].own # "")
Kept(s, t)     == \A k \in DOMAIN s : HasRow(t, s[k])

LEMMA EmptyCell == "" \in Text
BY TabAssumption

LEMMA WrittenRows ==
  ASSUME NEW C
  PROVE  /\ Blank \in Written(C) /\ NewRows \subseteq Written(C)
         /\ Blank.key = "" /\ Blank.own = ""
<1>1. Blank \in Written(C) /\ Blank.key = "" /\ Blank.own = ""
  BY EmptyCell DEF Written, Fields, Blank
<1>2. ASSUME NEW r \in NewRows PROVE r \in Written(C)
  <2>1. r \in Fields /\ r.own = "" /\ r.cols = ""
    BY EmptyCell DEF NewRows, Fields
  <2> QED
    BY <2>1 DEF Written
<1> QED
  BY <1>1, <1>2

LEMMA RowFields ==
  ASSUME NEW r \in Fields
  PROVE  /\ DOMAIN r = {"key", "gen", "collected", "own", "cols"}
         /\ r.key \in Text /\ r.gen \in Text /\ r.own \in Text /\ r.collected \in {"", "yes"}
         /\ r.cols \in {"", "old", "new", "wrong"}
BY DEF Fields

LEMMA MakeRow ==
  ASSUME NEW m, m = [f \in {"key", "gen", "collected", "own", "cols"} |-> m[f]],
         m.key \in Text, m.gen \in Text, m.own \in Text, m.collected \in {"", "yes"},
         m.cols \in {"", "old", "new", "wrong"}
  PROVE  m \in Fields
<1>1. m = [key |-> m.key, gen |-> m.gen, collected |-> m.collected, own |-> m.own, cols |-> m.cols]
  OBVIOUS
<1> QED
  BY <1>1 DEF Fields

LEMMA NewRow ==
  ASSUME NEW r
  PROVE  r \in NewRows <=> r \in Fields /\ r.own = "" /\ r.cols = ""
<1>1. r \in NewRows => r \in Fields /\ r.own = "" /\ r.cols = ""
  BY EmptyCell DEF NewRows, Fields
<1>2. ASSUME r \in Fields, r.own = "", r.cols = "" PROVE r \in NewRows
  <2>1. r = [key |-> r.key, gen |-> r.gen, collected |-> r.collected, own |-> r.own, cols |-> r.cols]
    BY <1>2 DEF Fields
  <2> QED
    BY <1>2, <2>1, RowFields DEF NewRows
<1> QED
  BY <1>1, <1>2

LEMMA MergedExisting ==
  ASSUME NEW C, NEW e \in Written(C), NEW i \in NewRows
  PROVE  LET m == Algorithm!MergeExisting(e, i)
         IN  /\ m \in Written(C) /\ m.own = e.own
             /\ m.key = IF i.key = "" THEN e.key ELSE i.key
<1> DEFINE F == {"key", "gen", "collected", "own", "cols"}
           m == [f \in F |-> IF i[f] = "" THEN e[f] ELSE i[f]]
<1>1. e \in Fields /\ i \in Fields /\ i.own = "" /\ i.cols = "" /\ DOMAIN e = F
  BY NewRow, RowFields DEF Written
<1>2. Algorithm!MergeExisting(e, i) = m
  BY <1>1 DEF Algorithm!MergeExisting, Algorithm!IsBlank
<1>3. m = [f \in F |-> m[f]]
  OBVIOUS
<1>4. /\ m.key = IF i.key = "" THEN e.key ELSE i.key
      /\ m.gen = IF i.gen = "" THEN e.gen ELSE i.gen
      /\ m.collected = IF i.collected = "" THEN e.collected ELSE i.collected
      /\ m.own = e.own /\ m.cols = e.cols
  BY <1>1
<1> HIDE DEF m
<1>5. m \in Fields
  BY <1>1, <1>3, <1>4, RowFields, MakeRow
<1> QED
  BY <1>2, <1>4, <1>5 DEF Written

LEMMA MergedDuplicate ==
  ASSUME NEW C, NEW e \in Written(C), NEW i \in Written(C)
  PROVE  LET m == Algorithm!MergeDuplicate(e, i)
         IN  /\ m \in Written(C) /\ m.own = IF e.own = "" THEN i.own ELSE e.own
             /\ m.key = IF e.key = "" THEN i.key ELSE e.key
<1> DEFINE F == {"key", "gen", "collected", "own", "cols"}
           m == [f \in F |-> IF e[f] = "" THEN i[f] ELSE e[f]]
<1>1. e \in Fields /\ i \in Fields /\ DOMAIN e = F
  BY RowFields DEF Written
<1>2. Algorithm!MergeDuplicate(e, i) = m
  BY <1>1 DEF Algorithm!MergeDuplicate, Algorithm!IsBlank
<1>3. m = [f \in F |-> m[f]]
  OBVIOUS
<1>4. /\ m.key = IF e.key = "" THEN i.key ELSE e.key
      /\ m.gen = IF e.gen = "" THEN i.gen ELSE e.gen
      /\ m.collected = IF e.collected = "" THEN i.collected ELSE e.collected
      /\ m.own = IF e.own = "" THEN i.own ELSE e.own
      /\ m.cols = IF e.cols = "" THEN i.cols ELSE e.cols
  OBVIOUS
<1> HIDE DEF m
<1>5. m \in Fields
  BY <1>1, <1>3, <1>4, RowFields, MakeRow
<1> QED
  BY <1>2, <1>4, <1>5 DEF Written

LEMMA MergedGenerated ==
  ASSUME NEW e \in NewRows, NEW i \in NewRows
  PROVE  Algorithm!MergeGenerated(e, i) \in NewRows
<1> DEFINE F == {"key", "gen", "collected", "own", "cols"}
           m == [f \in F |-> IF i[f] = "" THEN e[f] ELSE i[f]]
<1>1. e \in Fields /\ i \in Fields /\ e.own = "" /\ e.cols = "" /\ i.own = "" /\ i.cols = "" /\ DOMAIN e = F
  BY NewRow, RowFields
<1>2. Algorithm!MergeGenerated(e, i) = m
  BY <1>1 DEF Algorithm!MergeGenerated, Algorithm!IsBlank
<1>3. m = [f \in F |-> m[f]]
  OBVIOUS
<1>4. /\ m.key = IF i.key = "" THEN e.key ELSE i.key
      /\ m.gen = IF i.gen = "" THEN e.gen ELSE i.gen
      /\ m.collected = IF i.collected = "" THEN e.collected ELSE i.collected
      /\ m.own = "" /\ m.cols = ""
  BY <1>1
<1> HIDE DEF m
<1>5. m \in Fields
  BY <1>1, <1>3, <1>4, RowFields, MakeRow
<1> QED
  BY <1>2, <1>4, <1>5, NewRow

\* A row has one key, or none.
RowKey(row)  == <<"key", row.key>>
RowKeys(row) == IF row.key = "" THEN {} ELSE {RowKey(row)}

LEMMA KeysOfRow ==
  ASSUME NEW row \in Fields
  PROVE  Algorithm!Keys(row) = IF row.key = "" THEN <<>> ELSE <<RowKey(row)>>
<1> DEFINE F == <<"key">>
           K == {f \in ToSet(F) : ~Algorithm!IsBlank(row[f])}
           filled == Algorithm!Only(F, K)
<1>1. F \in Seq({"key"}) /\ ToSet(F) = {"key"}
  BY DEF ToSet
<1>2. K = IF row.key = "" THEN {} ELSE {"key"}
  BY <1>1 DEF Algorithm!IsBlank
<1>3. filled = IF row.key = "" THEN <<>> ELSE <<"key">>
  <2> DEFINE g == CHOOSE f : f = [n \in 0..1 |-> OnlyUpTo(F, K, f, n)]
  <2>1. Len(F) = 1 /\ F[1] = "key"
    OBVIOUS
  <2>2. filled = g[1]
    <3> HIDE DEF F, K
    <3> QED
      BY <2>1 DEF Algorithm!Only, OnlyUpTo
  <2>3. g = [n \in 0..1 |-> OnlyUpTo(F, K, g, n)]
    <3> HIDE DEF F, K
    <3>1. 1 \in Nat
      OBVIOUS
    <3> QED
      BY <3>1, OnlyExists
  <2> HIDE DEF g
  <2>4. g[0] = <<>>
    BY <2>3 DEF OnlyUpTo
  <2>5. g[1] = IF F[1] \in K THEN Append(g[0], F[1]) ELSE g[0]
    <3> HIDE DEF K, F
    <3>1. g[1] = OnlyUpTo(F, K, g, 1)
      BY <2>3
    <3> QED
      BY <3>1 DEF OnlyUpTo
  <2>6. Append(<<>>, "key") = <<"key">>
    OBVIOUS
  <2> HIDE DEF K, F
  <2> QED
    BY <2>1, <2>2, <2>4, <2>5, <2>6, <1>2
<1>4. Algorithm!Keys(row) = [k \in DOMAIN filled |-> <<filled[k], row[filled[k]]>>]
  BY DEF Algorithm!Keys, Algorithm!ToSet, ToSet, K, F
<1> HIDE DEF filled
<1>5. CASE row.key = ""
  <2>1. filled = <<>>
    BY <1>3, <1>5
  <2>2. DOMAIN filled = {}
    BY <2>1
  <2>3. Algorithm!Keys(row) \in [{} -> Text]
    BY <1>4, <2>2
  <2>4. \A s \in [{} -> Text] : s = <<>>
    OBVIOUS
  <2> QED
    BY <1>5, <2>3, <2>4
<1>6. CASE row.key # ""
  <2>0. filled = <<"key">>
    BY <1>3, <1>6
  <2>1. DOMAIN filled = {1} /\ filled[1] = "key"
    BY <2>0
  <2>2. Algorithm!Keys(row) = [k \in {1} |-> RowKey(row)]
    BY <1>4, <2>1 DEF RowKey
  <2>3. \A x : [k \in {1} |-> x] = <<x>>
    OBVIOUS
  <2> QED
    BY <1>6, <2>2, <2>3
<1> QED
  BY <1>5, <1>6
-----------------------------------------------------------------------------
(* An upsert of a tab with one key.                                        *)

LEMMA ListOf ==
  ASSUME NEW S, NEW s \in Seq(S)
  PROVE  /\ DOMAIN s = 1..Len(s) /\ Len(s) \in Nat
         /\ \A k \in DOMAIN s : s[k] \in S
OBVIOUS

LEMMA HasRowStays ==
  ASSUME NEW s, NEW t, NEW row, Kept(s, t), HasRow(s, row)
  PROVE  HasRow(t, row)
<1>1. PICK k \in DOMAIN s : s[k].key = row.key /\ (row.own # "" => s[k].own # "")
  BY DEF HasRow
<1>2. HasRow(t, s[k])
  BY DEF Kept
<1>3. PICK j \in DOMAIN t : t[j].key = s[k].key /\ (s[k].own # "" => t[j].own # "")
  BY <1>2 DEF HasRow
<1>4. t[j].key = row.key /\ (row.own # "" => t[j].own # "")
  BY <1>1, <1>3
<1> QED
  BY <1>4 DEF HasRow

LEMMA KeptFurther ==
  ASSUME NEW s, NEW t, NEW u, Kept(s, t), Kept(t, u)
  PROVE  Kept(s, u)
<1> SUFFICES ASSUME NEW k \in DOMAIN s PROVE HasRow(u, s[k])
  BY DEF Kept
<1>1. HasRow(t, s[k])
  BY DEF Kept
<1> QED
  BY <1>1, HasRowStays

\* A table whose index leads from a key to the row that has it.
Indexed(C, table) ==
  /\ table.rows \in Seq(Written(C))
  /\ \A key \in DOMAIN table.index :
       /\ table.index[key] \in DOMAIN table.rows
       /\ key = RowKey(table.rows[table.index[key]])

\* A table with one row more, or with the row in another of its key.
Gains(C, result, table, row) ==
  /\ Indexed(C, result) /\ Kept(table.rows, result.rows) /\ HasRow(result.rows, row)
  /\ Len(table.rows) <= Len(result.rows)
  /\ RowKey(row) \notin DOMAIN table.index => Len(result.rows) = Len(table.rows) + 1
  /\ DOMAIN result.index \subseteq DOMAIN table.index \union RowKeys(row)

LEMMA NothingIndexed ==
  ASSUME NEW C
  PROVE  /\ Indexed(C, Algorithm!Nothing) /\ DOMAIN Algorithm!Nothing.index = {}
         /\ Len(Algorithm!Nothing.rows) = 0 /\ Kept(<<>>, Algorithm!Nothing.rows)
<1>1. <<>> \in Seq(Written(C)) /\ DOMAIN <<>> = {} /\ Len(<<>>) = 0
  OBVIOUS
<1>2. Algorithm!Nothing.rows = <<>> /\ Algorithm!Nothing.index = <<>>
  BY DEF Algorithm!Nothing
<1> QED
  BY <1>1, <1>2 DEF Indexed, Kept

\* A row put at the end, or over one of its key.
PutIn(s, k, row)  == IF k > Len(s) THEN Append(s, row) ELSE [s EXCEPT ![k] = row]
MayPut(s, k, row) == k <= Len(s) => s[k].key = row.key /\ (s[k].own # "" => row.own # "")

IsPut(S, s, k, e, t) ==
  /\ t \in Seq(S) /\ k \in DOMAIN t /\ t[k] = e
  /\ \A i \in DOMAIN s : i \in DOMAIN t /\ (i # k => t[i] = s[i])
  /\ Len(s) <= Len(t) /\ (k = Len(s) + 1 => Len(t) = Len(s) + 1)

LEMMA PutInList ==
  ASSUME NEW S, NEW s \in Seq(S), NEW k \in 1..(Len(s) + 1), NEW e \in S
  PROVE  IsPut(S, s, k, e, PutIn(s, k, e))
<1>1. CASE k > Len(s)
  <2>1. k = Len(s) + 1
    BY <1>1
  <2> QED
    BY <1>1, <2>1 DEF PutIn, IsPut
<1>2. CASE ~(k > Len(s))
  <2>1. k \in 1..Len(s)
    BY <1>2
  <2> QED
    BY <1>2, <2>1 DEF PutIn, IsPut
<1> QED
  BY <1>1, <1>2

LEMMA PutGains ==
  ASSUME NEW C, NEW table, Indexed(C, table), NEW row \in Written(C),
         NEW k \in 1..(Len(table.rows) + 1), NEW keys,
         keys \subseteq RowKeys(row), MayPut(table.rows, k, row)
  PROVE  LET result == Algorithm!Put(table, k, row, keys)
         IN  /\ Indexed(C, result) /\ Kept(table.rows, result.rows)
             /\ k \in DOMAIN result.rows /\ result.rows[k] = row
             /\ Len(table.rows) <= Len(result.rows)
             /\ k = Len(table.rows) + 1 => Len(result.rows) = Len(table.rows) + 1
             /\ DOMAIN result.index \subseteq DOMAIN table.index \union RowKeys(row)
<1> DEFINE R == Written(C)
           was == table.rows
           new == PutIn(was, k, row)
           index == [key \in keys \union DOMAIN table.index |->
                       IF key \in keys THEN k ELSE table.index[key]]
<1>1. Algorithm!Put(table, k, row, keys).rows = new /\ Algorithm!Put(table, k, row, keys).index = index
  BY DEF Algorithm!Put, PutIn
<1>2. was \in Seq(R) /\ Len(was) \in Nat /\ DOMAIN was = 1..Len(was)
  <2>1. was \in Seq(R)
    BY DEF Indexed
  <2> QED
    BY <2>1, ListOf
<1>3. /\ new \in Seq(R) /\ k \in DOMAIN new /\ new[k] = row
      /\ \A i \in DOMAIN was : i \in DOMAIN new /\ (i # k => new[i] = was[i])
      /\ Len(was) <= Len(new) /\ (k = Len(was) + 1 => Len(new) = Len(was) + 1)
  <2> HIDE DEF was, new, R
  <2>1. k \in 1..(Len(was) + 1)
    BY DEF was
  <2>2. row \in R
    BY DEF R
  <2>3. IsPut(R, was, k, row, new)
    BY <1>2, <2>1, <2>2, PutInList DEF new
  <2> QED
    BY <2>3 DEF IsPut
<1>6. \A i \in DOMAIN was : new[i].key = was[i].key /\ (was[i].own # "" => new[i].own # "")
  <2>1. k \in DOMAIN was => k <= Len(was)
    BY <1>2
  <2>2. MayPut(was, k, row)
    OBVIOUS
  <2> HIDE DEF new, was
  <2> QED
    BY <1>3, <2>1, <2>2 DEF MayPut
<1> HIDE DEF new
<1>7. Kept(was, new)
  BY <1>3, <1>6 DEF Kept, HasRow
<1>8. ASSUME NEW key \in DOMAIN index
      PROVE  index[key] \in DOMAIN new /\ key = RowKey(new[index[key]])
  <2>1. CASE key \in keys
    <3>1. index[key] = k /\ key \in RowKeys(row)
      BY <1>8, <2>1
    <3>2. key = RowKey(row)
      BY <3>1 DEF RowKeys
    <3> HIDE DEF index
    <3> QED
      BY <1>3, <3>1, <3>2
  <2>2. CASE key \notin keys
    <3>1. key \in DOMAIN table.index /\ index[key] = table.index[key]
      BY <1>8, <2>2
    <3>2. table.index[key] \in DOMAIN was /\ key = RowKey(was[table.index[key]])
      BY <3>1 DEF Indexed
    <3> DEFINE i == table.index[key]
    <3>3. i \in DOMAIN new /\ new[i].key = was[i].key
      BY <1>3, <1>6, <3>2
    <3>4. RowKey(new[i]) = RowKey(was[i])
      BY <3>3 DEF RowKey
    <3>5. index[key] = i /\ key = RowKey(was[i])
      BY <3>1, <3>2
    <3> HIDE DEF i, index, was
    <3> QED
      BY <3>3, <3>4, <3>5
  <2> QED
    BY <2>1, <2>2
<1>9. DOMAIN index \subseteq DOMAIN table.index \union RowKeys(row)
  BY DEF index
<1> HIDE DEF index
<1> QED
  BY <1>1, <1>3, <1>7, <1>8, <1>9 DEF Indexed

LEMMA KeySetOfRow ==
  ASSUME NEW row \in Fields
  PROVE  ToSet(Algorithm!Keys(row)) = RowKeys(row)
<1>1. ToSet(<<>>) = {} /\ \A x : ToSet(<<x>>) = {x}
  BY DEF ToSet
<1> QED
  BY <1>1, KeysOfRow DEF RowKeys

\* The body of the loops of _compact_sheet_rows, over rows of the sheet and over
\* incoming ones.
LEMMA PlaceGains ==
  ASSUME NEW C, NEW table, Indexed(C, table), NEW row \in Written(C),
         NEW from \in {"sheet", "incoming"}, from = "incoming" => row \in NewRows
  PROVE  Gains(C, Algorithm!Place(table, row, from), table, row)
<1> DEFINE found == Algorithm!Matches(table, row)
           L == Len(table.rows)
           key == RowKey(row)
<1>1. row \in Fields /\ table.rows \in Seq(Written(C)) /\ L \in Nat
  <2>1. row \in Fields
    BY DEF Written
  <2>2. table.rows \in Seq(Written(C))
    BY DEF Indexed
  <2> QED
    BY <2>1, <2>2, ListOf
<1>2. found \in Seq({key} \intersect DOMAIN table.index)
  <2>0. <<>> \in Seq({key}) /\ <<key>> \in Seq({key})
    OBVIOUS
  <2>1. Algorithm!Keys(row) \in Seq({key})
    BY <1>1, <2>0, KeysOfRow
  <2> QED
    BY <2>1, TabOnlyOf DEF Algorithm!Matches
<1>3. CASE found = <<>>
  <2>1. Algorithm!Place(table, row, from) = Algorithm!Put(table, L + 1, row, ToSet(Algorithm!Keys(row)))
    BY <1>3 DEF Algorithm!Place, Algorithm!ToSet, ToSet
  <2> DEFINE result == Algorithm!Put(table, L + 1, row, ToSet(Algorithm!Keys(row)))
             k == L + 1
  <2>2. k \in 1..(L + 1) /\ ~(k <= L)
    BY <1>1
  <2>4. MayPut(table.rows, k, row)
    BY <2>2 DEF MayPut
  <2>5. ToSet(Algorithm!Keys(row)) \subseteq RowKeys(row)
    BY <1>1, KeySetOfRow
  <2>6. k \in 1..(Len(table.rows) + 1) /\ k = Len(table.rows) + 1
    BY <2>2
  <2> HIDE DEF k
  <2>7. result = Algorithm!Put(table, k, row, ToSet(Algorithm!Keys(row)))
    BY DEF k
  <2> HIDE DEF result
  <2>3. /\ Indexed(C, result) /\ Kept(table.rows, result.rows)
        /\ k \in DOMAIN result.rows /\ result.rows[k] = row
        /\ Len(table.rows) <= Len(result.rows)
        /\ Len(result.rows) = Len(table.rows) + 1
        /\ DOMAIN result.index \subseteq DOMAIN table.index \union RowKeys(row)
    BY <2>4, <2>5, <2>6, <2>7, PutGains
  <2> QED
    BY <2>1, <2>3 DEF Gains, HasRow, result, k
<1>4. CASE found # <<>>
  <2> DEFINE k == table.index[key]
             e == table.rows[k]
             new == IF from = "incoming" THEN Algorithm!MergeExisting(e, row)
                    ELSE Algorithm!MergeDuplicate(e, row)
             result == Algorithm!Put(table, k, new, ToSet(Algorithm!Keys(new)))
  <2>1. found[1] = key /\ key \in DOMAIN table.index
    <3>1. found[1] \in {key} \intersect DOMAIN table.index
      <4> HIDE DEF found
      <4> QED
        BY <1>2, <1>4
    <3> QED
      BY <3>1
  <2>2. Algorithm!Place(table, row, from) = result
    BY <1>4, <2>1 DEF Algorithm!Place, Algorithm!ToSet, ToSet
  <2>3. k \in DOMAIN table.rows /\ key = RowKey(e)
    BY <2>1 DEF Indexed
  <2>4. e \in Written(C) /\ e.key = row.key /\ k \in 1..L
    BY <1>1, <2>3 DEF RowKey
  <2>5. row.key # ""
    <3>1. row.key = "" => Algorithm!Keys(row) = <<>>
      BY <1>1, KeysOfRow
    <3>2. \A S : Algorithm!Only(<<>>, S) \in Seq({} \intersect S)
      <4>1. <<>> \in Seq({})
        OBVIOUS
      <4> QED
        BY <4>1, TabOnlyOf
    <3>3. \A s \in Seq({} \intersect DOMAIN table.index) : s = <<>>
      OBVIOUS
    <3> QED
      BY <1>4, <3>1, <3>2, <3>3 DEF Algorithm!Matches
  <2>6. /\ new \in Written(C) /\ new.key = row.key
        /\ (e.own # "" => new.own # "") /\ (row.own # "" => new.own # "")
    <3>1. CASE from = "incoming"
      <4>1. row \in NewRows /\ row.own = ""
        BY <3>1 DEF NewRows
      <4>2. new = Algorithm!MergeExisting(e, row)
        BY <3>1
      <4> HIDE DEF new, e
      <4> QED
        BY <2>4, <2>5, <4>1, <4>2, MergedExisting
    <3>2. CASE from # "incoming"
      <4>1. new = Algorithm!MergeDuplicate(e, row)
        BY <3>2
      <4> HIDE DEF new, e
      <4>2. /\ new \in Written(C) /\ new.own = IF e.own = "" THEN row.own ELSE e.own
            /\ new.key = IF e.key = "" THEN row.key ELSE e.key
        BY <2>4, <4>1, MergedDuplicate
      <4> QED
        BY <2>4, <2>5, <4>2
    <3> QED
      BY <3>1, <3>2
  <2>7. k \in 1..(L + 1)
    BY <1>1, <2>4
  <2>8. new \in Fields
    BY <2>6 DEF Written
  <2> HIDE DEF new
  <2>9. ToSet(Algorithm!Keys(new)) \subseteq RowKeys(new)
    BY <2>8, KeySetOfRow
  <2>10. MayPut(table.rows, k, new)
    BY <2>4, <2>6 DEF MayPut
  <2>13. result = Algorithm!Put(table, k, new, ToSet(Algorithm!Keys(new)))
    OBVIOUS
  <2>15. new \in Written(C)
    BY <2>6
  <2> HIDE DEF k, result
  <2>11. /\ Indexed(C, result) /\ Kept(table.rows, result.rows)
         /\ k \in DOMAIN result.rows /\ result.rows[k] = new
         /\ Len(table.rows) <= Len(result.rows)
         /\ DOMAIN result.index \subseteq DOMAIN table.index \union RowKeys(new)
    BY <2>7, <2>9, <2>10, <2>13, <2>15, PutGains
  <2>12. RowKey(new) = RowKey(row) /\ HasRow(result.rows, row)
    BY <2>6, <2>11 DEF RowKey, HasRow
  <2>14. RowKeys(new) = RowKeys(row)
    BY <2>6, <2>12 DEF RowKeys
  <2> QED
    BY <2>1, <2>2, <2>11, <2>12, <2>14 DEF Gains
<1> QED
  BY <1>3, <1>4

\* A table with several rows more.
GainsAll(C, result, table, list) ==
  /\ Indexed(C, result) /\ Kept(table.rows, result.rows) /\ Kept(list, result.rows)
  /\ Len(table.rows) <= Len(result.rows)

\* No key stands twice.
Unique(s) == \A j, k \in DOMAIN s : s[j].key # "" /\ s[j].key = s[k].key => j = k

\* The table after the first n rows of the sheet, if no key stands twice.
Apiece(list, n, table) ==
  /\ Len(table.rows) = n
  /\ \A key \in DOMAIN table.index : \E j \in 1..n : list[j].key # "" /\ key = RowKey(list[j])

LEMMA Reflexive ==
  ASSUME NEW s
  PROVE  Kept(s, s)
BY DEF Kept, HasRow

LEMMA OneGainMore ==
  ASSUME NEW C, NEW list \in Seq(Written(C)), NEW table, NEW k \in Nat, k + 1 \in 1..Len(list),
         NEW result, Gains(C, result, table, list[k + 1])
  PROVE  Unique(list) /\ Apiece(list, k, table) => Apiece(list, k + 1, result)
<1> SUFFICES ASSUME Unique(list), Apiece(list, k, table) PROVE Apiece(list, k + 1, result)
  OBVIOUS
<1> DEFINE row == list[k + 1]
<1>1. DOMAIN list = 1..Len(list) /\ Len(list) \in Nat
  BY ListOf
<1>2. RowKey(row) \notin DOMAIN table.index
  <2> SUFFICES ASSUME RowKey(row) \in DOMAIN table.index PROVE FALSE
    OBVIOUS
  <2>1. PICK j \in 1..k : list[j].key # "" /\ RowKey(row) = RowKey(list[j])
    BY DEF Apiece
  <2>2. list[j].key = list[k + 1].key
    BY <2>1 DEF RowKey
  <2>3. j \in DOMAIN list /\ k + 1 \in DOMAIN list /\ j # k + 1
    BY <1>1
  <2> QED
    BY <2>1, <2>2, <2>3 DEF Unique
<1>3. Len(result.rows) = k + 1
  BY <1>2 DEF Gains, Apiece
<1>4. ASSUME NEW key \in DOMAIN result.index
      PROVE  \E j \in 1..(k + 1) : list[j].key # "" /\ key = RowKey(list[j])
  <2>1. key \in DOMAIN table.index \/ key \in RowKeys(row)
    BY DEF Gains
  <2>2. CASE key \in DOMAIN table.index
    <3>1. PICK j \in 1..k : list[j].key # "" /\ key = RowKey(list[j])
      BY <2>2 DEF Apiece
    <3>2. j \in 1..(k + 1)
      OBVIOUS
    <3> QED
      BY <3>1, <3>2
  <2>3. CASE key \in RowKeys(row)
    <3>1. row.key # "" /\ key = RowKey(row)
      BY <2>3 DEF RowKeys
    <3>2. k + 1 \in 1..(k + 1)
      OBVIOUS
    <3> QED
      BY <3>1, <3>2
  <2> QED
    BY <2>1, <2>2, <2>3
<1> QED
  BY <1>3, <1>4 DEF Apiece

LEMMA PlacedGains ==
  ASSUME NEW C, NEW table, Indexed(C, table), NEW list \in Seq(Written(C)),
         NEW from \in {"sheet", "incoming"}, from = "incoming" => list \in Seq(NewRows)
  PROVE  LET result == Algorithm!Placed(table, list, from)
         IN  /\ GainsAll(C, result, table, list)
             /\ Unique(list) /\ Apiece(list, 0, table) => Apiece(list, Len(list), result)
<1> DEFINE L == Len(list)
           g == CHOOSE f : f = [n \in 0..L |-> TabPlacedUpTo(table, list, from, f, n)]
           Good(n) == /\ Indexed(C, g[n]) /\ Kept(table.rows, g[n].rows)
                      /\ \A j \in 1..n : HasRow(g[n].rows, list[j])
                      /\ Len(table.rows) <= Len(g[n].rows)
                      /\ Unique(list) /\ Apiece(list, 0, table) => Apiece(list, n, g[n])
           T == {n \in Nat : n <= L => Good(n)}
<1>1. Algorithm!Placed(table, list, from) = g[L] /\ L \in Nat
  BY DEF Algorithm!Placed, TabPlacedUpTo
<1>2. g = [n \in 0..L |-> TabPlacedUpTo(table, list, from, g, n)]
  <2> HIDE DEF L
  <2>1. L \in Nat
    BY <1>1
  <2>2. \E f : TabPlacedBy(f, table, list, from, L)
    BY <2>1, TabPlacedExists
  <2> QED
    BY <2>2 DEF TabPlacedBy
<1> HIDE DEF g
<1>3. \A n \in 0..L : g[n] = TabPlacedUpTo(table, list, from, g, n)
  BY <1>2
<1>4. 0 \in T
  <2>1. g[0] = table
    BY <1>1, <1>3 DEF TabPlacedUpTo
  <2>2. Len(table.rows) <= Len(table.rows)
    <3>1. table.rows \in Seq(Written(C))
      BY DEF Indexed
    <3>2. Len(table.rows) \in Nat
      BY <3>1, ListOf
    <3> QED
      BY <3>2
  <2>3. \A j \in 1..0 : FALSE
    OBVIOUS
  <2>4. Good(0)
    BY <2>1, <2>2, <2>3, Reflexive
  <2> HIDE DEF Good
  <2> QED
    BY <2>4
<1>5. ASSUME NEW k \in Nat, k \in T PROVE k + 1 \in T
  <2> SUFFICES ASSUME k + 1 <= L PROVE Good(k + 1)
    OBVIOUS
  <2>1. k + 1 \in 0..L /\ k + 1 # 0 /\ k + 1 \in 1..L /\ (k + 1) - 1 = k /\ k <= L
    BY <1>1
  <2>2. Good(k)
    BY <1>5, <2>1
  <2>3. g[k + 1] = Algorithm!Place(g[k], list[k + 1], from)
    BY <1>3, <2>1 DEF TabPlacedUpTo
  <2>4. list[k + 1] \in Written(C) /\ (from = "incoming" => list[k + 1] \in NewRows)
    BY <2>1
  <2>5. Indexed(C, g[k])
    BY <2>2
  <2>6. Gains(C, g[k + 1], g[k], list[k + 1])
    BY <2>3, <2>4, <2>5, PlaceGains
  <2>7. Indexed(C, g[k + 1]) /\ Kept(g[k].rows, g[k + 1].rows) /\ HasRow(g[k + 1].rows, list[k + 1])
    BY <2>6 DEF Gains
  <2>8. Kept(table.rows, g[k + 1].rows)
    BY <2>2, <2>7, KeptFurther
  <2>9. ASSUME NEW j \in 1..(k + 1) PROVE HasRow(g[k + 1].rows, list[j])
    <3>1. CASE j = k + 1
      BY <2>7, <3>1
    <3>2. CASE j # k + 1
      <4>1. j \in 1..k
        BY <3>2
      <4>2. HasRow(g[k].rows, list[j])
        BY <2>2, <4>1
      <4> QED
        BY <2>7, <4>2, HasRowStays
    <3> QED
      BY <3>1, <3>2
  <2>10. Len(table.rows) <= Len(g[k + 1].rows)
    <3>1. Len(table.rows) <= Len(g[k].rows) /\ Len(g[k].rows) <= Len(g[k + 1].rows)
      BY <2>2, <2>6 DEF Gains
    <3>2. table.rows \in Seq(Written(C)) /\ g[k].rows \in Seq(Written(C)) /\ g[k + 1].rows \in Seq(Written(C))
      BY <2>5, <2>7 DEF Indexed
    <3>3. Len(table.rows) \in Nat /\ Len(g[k].rows) \in Nat /\ Len(g[k + 1].rows) \in Nat
      BY <3>2, ListOf
    <3> QED
      BY <3>1, <3>3, SMTT(60)
  <2>11. Unique(list) /\ Apiece(list, 0, table) => Apiece(list, k + 1, g[k + 1])
    <3>1. Unique(list) /\ Apiece(list, 0, table) => Apiece(list, k, g[k])
      BY <2>2
    <3> QED
      BY <2>1, <2>6, <3>1, OneGainMore
  <2> QED
    BY <2>7, <2>8, <2>9, <2>10, <2>11
<1>6. Nat \subseteq T
  <2> HIDE DEF T
  <2> QED
    BY <1>4, <1>5, Induction
<1>7. Good(L)
  <2> HIDE DEF Good
  <2> QED
    BY <1>1, <1>6
<1>8. Kept(list, g[L].rows)
  <2>1. DOMAIN list = 1..L
    BY ListOf
  <2> QED
    BY <1>7, <2>1 DEF Kept
<1> QED
  BY <1>1, <1>7, <1>8 DEF GainsAll

\* Of what _dedupe_rows_by_key makes it is enough that the rows have no notes.
Listed(table) ==
  /\ table.rows \in Seq(NewRows)
  /\ \A key \in DOMAIN table.index : table.index[key] \in DOMAIN table.rows

LEMMA PutListed ==
  ASSUME NEW table, Listed(table), NEW row \in NewRows, NEW k \in 1..(Len(table.rows) + 1), NEW keys
  PROVE  Listed(Algorithm!Put(table, k, row, keys))
<1> DEFINE was == table.rows
           new == PutIn(was, k, row)
           index == [key \in keys \union DOMAIN table.index |->
                       IF key \in keys THEN k ELSE table.index[key]]
<1>1. Algorithm!Put(table, k, row, keys).rows = new /\ Algorithm!Put(table, k, row, keys).index = index
  BY DEF Algorithm!Put, PutIn
<1>2. was \in Seq(NewRows)
  BY DEF Listed
<1>3. IsPut(NewRows, was, k, row, new)
  <2> HIDE DEF was, new
  <2>1. k \in 1..(Len(was) + 1)
    BY DEF was
  <2> QED
    BY <1>2, <2>1, PutInList DEF new
<1> HIDE DEF new
<1>4. /\ new \in Seq(NewRows) /\ k \in DOMAIN new
      /\ \A i \in DOMAIN was : i \in DOMAIN new
  BY <1>3 DEF IsPut
<1>5. ASSUME NEW key \in DOMAIN index PROVE index[key] \in DOMAIN new
  <2>1. CASE key \in keys
    BY <1>4, <1>5, <2>1
  <2>2. CASE key \notin keys
    <3>1. key \in DOMAIN table.index /\ index[key] = table.index[key]
      BY <1>5, <2>2
    <3>2. table.index[key] \in DOMAIN was
      BY <3>1 DEF Listed
    <3> QED
      BY <1>4, <3>1, <3>2
  <2> QED
    BY <2>1, <2>2
<1> HIDE DEF index
<1> QED
  BY <1>1, <1>4, <1>5 DEF Listed

LEMMA MergeListed ==
  ASSUME NEW table, Listed(table), NEW row \in NewRows
  PROVE  Listed(Algorithm!Merge(table, row))
<1> DEFINE key == Algorithm!Keys(row)[1]
           k == table.index[key]
           L == Len(table.rows)
           new == Algorithm!MergeGenerated(table.rows[k], row)
<1>1. table.rows \in Seq(NewRows) /\ L \in Nat /\ DOMAIN table.rows = 1..L
  <2>1. table.rows \in Seq(NewRows)
    BY DEF Listed
  <2> QED
    BY <2>1, ListOf
<1>2. CASE key \in DOMAIN table.index
  <2>1. Algorithm!Merge(table, row) = Algorithm!Put(table, k, new, {key})
    BY <1>2 DEF Algorithm!Merge
  <2>2. k \in 1..L
    BY <1>1, <1>2 DEF Listed
  <2>3. table.rows[k] \in NewRows /\ k \in 1..(L + 1)
    BY <1>1, <2>2
  <2>4. new \in NewRows
    BY <2>3, MergedGenerated
  <2> HIDE DEF new, k, key
  <2> QED
    BY <2>1, <2>3, <2>4, PutListed
<1>3. CASE key \notin DOMAIN table.index
  <2>1. Algorithm!Merge(table, row) = Algorithm!Put(table, L + 1, row, {key})
    BY <1>3 DEF Algorithm!Merge
  <2>2. L + 1 \in 1..(L + 1)
    BY <1>1
  <2> HIDE DEF key
  <2> QED
    BY <2>1, <2>2, PutListed
<1> QED
  BY <1>2, <1>3

LEMMA Deduped ==
  ASSUME NEW list \in Seq(NewRows)
  PROVE  Algorithm!Dedupe(list) \in Seq(NewRows)
<1> DEFINE L == Len(list)
           keyless == {row \in ToSet(list) : Algorithm!Keys(row) = <<>>}
           g == CHOOSE f : f = [n \in 0..L |-> TabDedupedUpTo(list, keyless, f, n)]
           T == {n \in Nat : n <= L => Listed(g[n])}
<1>1. Algorithm!Dedupe(list) = g[L].rows \o Algorithm!Only(list, keyless) /\ L \in Nat
  BY DEF Algorithm!Dedupe, TabDedupedUpTo, Algorithm!ToSet, ToSet
<1> HIDE DEF keyless
<1>2. g = [n \in 0..L |-> TabDedupedUpTo(list, keyless, g, n)]
  BY <1>1, TabDedupedExists
<1> HIDE DEF g
<1>3. \A n \in 0..L : g[n] = TabDedupedUpTo(list, keyless, g, n)
  BY <1>2
<1>4. 0 \in T
  <2>1. g[0] = Algorithm!Nothing
    BY <1>1, <1>3 DEF TabDedupedUpTo
  <2>2. <<>> \in Seq(NewRows) /\ DOMAIN <<>> = {}
    OBVIOUS
  <2>3. Algorithm!Nothing.rows = <<>> /\ Algorithm!Nothing.index = <<>>
    BY DEF Algorithm!Nothing
  <2> QED
    BY <2>1, <2>2, <2>3 DEF Listed
<1>5. ASSUME NEW k \in Nat, k \in T PROVE k + 1 \in T
  <2> SUFFICES ASSUME k + 1 <= L PROVE Listed(g[k + 1])
    OBVIOUS
  <2>1. k + 1 \in 0..L /\ k + 1 # 0 /\ k + 1 \in 1..L /\ (k + 1) - 1 = k /\ k <= L
    BY <1>1
  <2>2. Listed(g[k])
    BY <1>5, <2>1
  <2>3. g[k + 1] = g[k] \/ g[k + 1] = Algorithm!Merge(g[k], list[k + 1])
    BY <1>3, <2>1 DEF TabDedupedUpTo
  <2>4. list[k + 1] \in NewRows
    BY <2>1
  <2> QED
    BY <2>2, <2>3, <2>4, MergeListed
<1>6. Nat \subseteq T
  <2> HIDE DEF T
  <2> QED
    BY <1>4, <1>5, Induction
<1>7. g[L].rows \in Seq(NewRows)
  BY <1>1, <1>6 DEF Listed
<1>8. Algorithm!Only(list, keyless) \in Seq(NewRows)
  <2>1. Algorithm!Only(list, keyless) \in Seq(NewRows \intersect keyless)
    BY TabOnlyOf
  <2> QED
    BY <2>1
<1> HIDE DEF L
<1> QED
  BY <1>1, <1>7, <1>8

\* An upsert keeps every key and every note, and a tab without a key that
\* stands twice does not get shorter.
LEMMA UpsertKeeps ==
  ASSUME NEW C, NEW s \in Seq(Written(C)), NEW put \in Seq(NewRows)
  PROVE  LET result == Algorithm!Upsert(s, put)
         IN  /\ result \in Seq(Written(C)) /\ Kept(s, result)
             /\ Unique(s) => Len(s) <= Len(result)
<1>1. CASE put = <<>>
  <2>1. Algorithm!Upsert(s, put) = s
    BY <1>1 DEF Algorithm!Upsert
  <2>2. Len(s) <= Len(s)
    <3>1. Len(s) \in Nat
      BY ListOf
    <3> QED
      BY <3>1
  <2> QED
    BY <2>1, <2>2, Reflexive
<1>2. CASE put # <<>>
  <2> DEFINE zero == Algorithm!Nothing
             table == Algorithm!Placed(zero, s, "sheet")
             list == Algorithm!Dedupe(put)
             all == Algorithm!Placed(table, list, "incoming")
  <2>1. Algorithm!Upsert(s, put) = all.rows
    BY <1>2 DEF Algorithm!Upsert
  <2>2. Indexed(C, zero) /\ Apiece(s, 0, zero)
    BY NothingIndexed DEF Apiece
  <2> HIDE DEF zero
  <2>3. GainsAll(C, table, zero, s) /\ (Unique(s) => Apiece(s, Len(s), table))
    <3>1. GainsAll(C, table, zero, s) /\ (Unique(s) /\ Apiece(s, 0, zero) => Apiece(s, Len(s), table))
      BY <2>2, PlacedGains
    <3> QED
      BY <2>2, <3>1
  <2>4. list \in Seq(NewRows)
    BY Deduped
  <2> HIDE DEF table, list
  <2>5. list \in Seq(Written(C)) /\ Indexed(C, table)
    <3>1. NewRows \subseteq Written(C)
      BY WrittenRows
    <3> QED
      BY <2>3, <2>4, <3>1 DEF GainsAll
  <2>6. GainsAll(C, all, table, list)
    BY <2>4, <2>5, PlacedGains
  <2> HIDE DEF all
  <2>7. Kept(s, table.rows) /\ Kept(table.rows, all.rows)
    BY <2>3, <2>6 DEF GainsAll
  <2>8. Kept(s, all.rows)
    BY <2>7, KeptFurther
  <2>9. all.rows \in Seq(Written(C))
    BY <2>6 DEF GainsAll, Indexed
  <2>10. Unique(s) => Len(s) <= Len(all.rows)
    BY <2>3, <2>6 DEF GainsAll, Apiece
  <2> QED
    BY <2>1, <2>8, <2>9, <2>10
<1> QED
  BY <1>1, <1>2
-----------------------------------------------------------------------------
(* Ranges of a tab.                                                        *)

LEMMA Greatest ==
  ASSUME NEW n \in Nat, NEW S, S \subseteq 1..n, S # {}
  PROVE  \E k \in S : \A j \in S : j <= k
<1> DEFINE Has(m) == \A R : R \subseteq 1..m /\ R # {} => \E k \in R : \A j \in R : j <= k
           T == {m \in Nat : Has(m)}
<1>1. 0 \in T
  <2>1. \A R : R \subseteq 1..0 => R = {}
    OBVIOUS
  <2> QED
    BY <2>1
<1>2. ASSUME NEW m \in Nat, m \in T PROVE m + 1 \in T
  <2> SUFFICES ASSUME NEW R, R \subseteq 1..(m + 1), R # {} PROVE \E k \in R : \A j \in R : j <= k
    OBVIOUS
  <2>1. CASE m + 1 \in R
    BY <2>1
  <2>2. CASE m + 1 \notin R
    <3>1. R \subseteq 1..m
      BY <2>2
    <3>2. Has(m)
      BY <1>2
    <3> QED
      BY <3>1, <3>2
  <2> QED
    BY <2>1, <2>2
<1>3. Nat \subseteq T
  <2> HIDE DEF T
  <2> QED
    BY <1>1, <1>2, Induction
<1>4. Has(n)
  BY <1>3
<1> QED
  BY <1>4

LEMMA FirstPart ==
  ASSUME NEW S, NEW s \in Seq(S), NEW n \in 0..Len(s)
  PROVE  /\ SubSeq(s, 1, n) \in Seq(S) /\ Len(SubSeq(s, 1, n)) = n
         /\ \A k \in 1..n : SubSeq(s, 1, n)[k] = s[k]
OBVIOUS

\* The rows of t are those of s, also below the last row.
SameCells(s, t) == \A k \in Nat \ {0} : At(t, k) = At(s, k)

LEMMA TrimmedCells ==
  ASSUME NEW C, NEW s \in Seq(Written(C))
  PROVE  Trim(s) \in Seq(Written(C)) /\ SameCells(s, Trim(s)) /\ Len(Trim(s)) <= Len(s)
<1> DEFINE filled == {k \in DOMAIN s : s[k] # Blank}
           n == IF filled = {} THEN 0 ELSE CHOOSE k \in filled : \A j \in filled : j <= k
<1>1. Trim(s) = SubSeq(s, 1, n)
  BY DEF Trim
<1>2. DOMAIN s = 1..Len(s) /\ Len(s) \in Nat
  BY ListOf
<1>3. n \in 0..Len(s) /\ \A j \in filled : j <= n
  <2>1. CASE filled = {}
    BY <1>2, <2>1
  <2>2. CASE filled # {}
    <3>1. filled \subseteq 1..Len(s)
      BY <1>2
    <3> HIDE DEF filled
    <3>2. \E k \in filled : \A j \in filled : j <= k
      BY <1>2, <2>2, <3>1, Greatest
    <3>3. n \in filled /\ \A j \in filled : j <= n
      BY <2>2, <3>2
    <3> HIDE DEF n
    <3> QED
      BY <1>2, <3>1, <3>3
  <2> QED
    BY <2>1, <2>2
<1>4. \A k \in DOMAIN s : k > n => s[k] = Blank
  BY <1>2, <1>3
<1> HIDE DEF n
<1> DEFINE t == SubSeq(s, 1, n)
<1>5. t \in Seq(Written(C)) /\ Len(t) = n /\ \A k \in 1..n : t[k] = s[k]
  BY <1>3, FirstPart
<1> HIDE DEF t
<1>6. ASSUME NEW k \in Nat \ {0} PROVE At(t, k) = At(s, k)
  <2>1. DOMAIN t = 1..n
    BY <1>5, ListOf
  <2>2. CASE k \in 1..n
    BY <1>2, <1>3, <1>5, <2>1, <2>2 DEF At
  <2>3. CASE k \notin 1..n
    BY <1>2, <1>3, <1>4, <2>1, <2>3 DEF At
  <2> QED
    BY <2>2, <2>3
<1>7. Len(t) <= Len(s)
  BY <1>2, <1>3, <1>5
<1> QED
  BY <1>1, <1>5, <1>6, <1>7 DEF SameCells, t

\* What values.update leaves of s and brings of new.
Overwritten(s, first, new, t) ==
  \A k \in Nat \ {0} :
    At(t, k) = IF k \in first..(first + Len(new) - 1) THEN new[k - first + 1] ELSE At(s, k)

LEMMA WrittenCells ==
  ASSUME NEW C, NEW D, NEW s \in Seq(Written(D)), NEW new \in Seq(Written(C)), NEW first \in Nat \ {0},
         \A k \in 1..Len(s) : k \in first..(first + Len(new) - 1) \/ s[k] \in Written(C)
  PROVE  LET t == Write(s, first, new)
         IN  /\ t \in Seq(Written(C)) /\ Overwritten(s, first, new, t)
             /\ Len(t) <= Len(s) \/ Len(t) <= first + Len(new) - 1
<1> DEFINE last == first + Len(new) - 1
           end == IF last > Len(s) THEN last ELSE Len(s)
           Cell(k) == IF k \in first..last THEN new[k - first + 1]
                      ELSE IF k <= Len(s) THEN s[k] ELSE Blank
           t == [k \in 1..end |-> Cell(k)]
<1>1. Write(s, first, new) = Trim(t)
  BY DEF Write
<1>2. /\ DOMAIN s = 1..Len(s) /\ Len(s) \in Nat
      /\ DOMAIN new = 1..Len(new) /\ Len(new) \in Nat
      /\ \A k \in 1..Len(new) : new[k] \in Written(C)
  BY ListOf
<1>3. end \in Nat /\ last <= end /\ Len(s) <= end
  BY <1>2
<1>15. end = last \/ end = Len(s)
  OBVIOUS
<1>4. \A k \in first..last : k - first + 1 \in 1..Len(new)
  BY <1>2
<1>5. Blank \in Written(C)
  BY WrittenRows
<1>6. \A k \in 1..end : Cell(k) \in Written(C)
  <2> HIDE DEF end
  <2> SUFFICES ASSUME NEW k \in 1..end PROVE Cell(k) \in Written(C)
    OBVIOUS
  <2>1. CASE k \in first..last
    BY <1>2, <1>4, <2>1
  <2>2. CASE k \notin first..last /\ k <= Len(s)
    <3>1. k \in 1..Len(s)
      BY <1>2, <1>3, <2>2
    <3> QED
      BY <2>2, <3>1
  <2>3. CASE k \notin first..last /\ ~(k <= Len(s))
    BY <1>5, <2>3
  <2> QED
    BY <2>1, <2>2, <2>3
<1> HIDE DEF end, last
<1>7. t \in [1..end -> Written(C)]
  BY <1>6
<1>8. \A k \in 1..end : t[k] = Cell(k)
  OBVIOUS
<1>9. DOMAIN t = 1..end
  OBVIOUS
<1> HIDE DEF t
<1>10. t \in Seq(Written(C)) /\ Len(t) = end
  BY <1>3, <1>7
<1>11. Trim(t) \in Seq(Written(C)) /\ SameCells(t, Trim(t)) /\ Len(Trim(t)) <= end
  BY <1>10, TrimmedCells
<1>14. Len(Trim(t)) <= Len(s) \/ Len(Trim(t)) <= last
  BY <1>11, <1>15
<1>12. ASSUME NEW k \in Nat \ {0}
       PROVE  At(t, k) = IF k \in first..last THEN new[k - first + 1] ELSE At(s, k)
  <2>1. CASE k \in 1..end
    BY <1>2, <1>8, <1>9, <2>1 DEF At
  <2>2. CASE k \notin 1..end
    <3>1. k \notin first..last /\ k \notin DOMAIN s
      <4>1. k > end
        BY <1>3, <2>2
      <4>2. last \in Int
        BY <1>2 DEF last
      <4> QED
        BY <1>2, <1>3, <4>1, <4>2
    <3> QED
      BY <1>9, <2>2, <3>1 DEF At
  <2> QED
    BY <2>1, <2>2
<1>13. \A k \in Nat \ {0} : At(Trim(t), k) = IF k \in first..last THEN new[k - first + 1] ELSE At(s, k)
  BY <1>11, <1>12 DEF SameCells
<1> QED
  BY <1>1, <1>11, <1>13, <1>14 DEF Overwritten, last

\* What values.clear leaves of s.
Cleared(s, first, last, t) ==
  \A k \in Nat \ {0} : At(t, k) = IF k \in first..last THEN Blank ELSE At(s, k)

LEMMA ClearedCells ==
  ASSUME NEW C, NEW D, NEW s \in Seq(Written(D)), NEW first \in Nat \ {0}, NEW last \in Nat,
         \A k \in DOMAIN s : k \in first..last \/ s[k] \in Written(C)
  PROVE  Clear(s, first, last) \in Seq(Written(C)) /\ Cleared(s, first, last, Clear(s, first, last))
<1> DEFINE t == [k \in DOMAIN s |-> IF k \in first..last THEN Blank ELSE s[k]]
<1>1. Clear(s, first, last) = Trim(t)
  BY DEF Clear
<1>2. DOMAIN s = 1..Len(s) /\ Len(s) \in Nat
  BY ListOf
<1>3. Blank \in Written(C)
  BY WrittenRows
<1>4. t \in [1..Len(s) -> Written(C)]
  BY <1>2, <1>3
<1>5. DOMAIN t = DOMAIN s /\ \A k \in DOMAIN s : t[k] = IF k \in first..last THEN Blank ELSE s[k]
  OBVIOUS
<1> HIDE DEF t
<1>6. t \in Seq(Written(C))
  BY <1>2, <1>4
<1>7. Trim(t) \in Seq(Written(C)) /\ SameCells(t, Trim(t))
  BY <1>6, TrimmedCells
<1>8. \A k \in Nat \ {0} : At(t, k) = IF k \in first..last THEN Blank ELSE At(s, k)
  BY <1>5 DEF At
<1> QED
  BY <1>1, <1>7, <1>8 DEF SameCells, Cleared
-----------------------------------------------------------------------------
(* What a call works out when it reads.                                    *)


LEMMA NumberedRow ==
  ASSUME NEW C, NEW s \in Seq(Written(C)), NEW key, RowNumber(s, key) # 0
  PROVE  /\ RowNumber(s, key) \in DOMAIN s /\ RowNumber(s, key) \in Nat \ {0}
         /\ s[RowNumber(s, key)].key = key /\ key # ""
<1> DEFINE found == {k \in DOMAIN s : s[k].key = key /\ key # ""}
           n == CHOOSE k \in found : \A j \in found : k <= j
<1>1. RowNumber(s, key) = IF found = {} THEN 0 ELSE n
  BY DEF RowNumber
<1>2. found # {} /\ RowNumber(s, key) = n
  BY <1>1
<1>3. found \subseteq 1..Len(s) /\ Len(s) \in Nat /\ DOMAIN s = 1..Len(s)
  BY ListOf
<1> HIDE DEF found
<1>4. n \in found
  <2>1. found \in SUBSET Nat
    BY <1>3
  <2> QED
    BY <1>2, <2>1, Least
<1> HIDE DEF n
<1>5. n \in DOMAIN s /\ s[n].key = key /\ key # ""
  BY <1>4 DEF found
<1>6. n \in Nat \ {0}
  BY <1>3, <1>4
<1> QED
  BY <1>2, <1>5, <1>6

\* Rows to be written over others, and one that has the key and the note of the
\* row it is to be written over.
Patches(C)    == [at : Nat \ {0}, row : Written(C)]
SameRow(s, p) == At(s, p.at).key = p.row.key /\ At(s, p.at).own = p.row.own

LEMMA UpdatesFit ==
  ASSUME NEW C, NEW s \in Seq(Written(C)), NEW put \in Seq(NewRows)
  PROVE  /\ Updates(s, put) \in Seq(Patches(C))
         /\ \A k \in DOMAIN Updates(s, put) : SameRow(s, Updates(s, put)[k])
<1> DEFINE found == Algorithm!Only(put, OnTab(s, put))
           Patch(row) == [at |-> RowNumber(s, row.key),
                          row |-> Algorithm!MergeExisting(s[RowNumber(s, row.key)], row)]
<1>1. Updates(s, put) = [k \in DOMAIN found |-> Patch(found[k])]
  BY DEF Updates
<1>2. found \in Seq(NewRows \intersect OnTab(s, put))
  BY TabOnlyOf
<1>3. ASSUME NEW row \in NewRows \intersect OnTab(s, put)
      PROVE  Patch(row) \in Patches(C) /\ SameRow(s, Patch(row))
  <2> DEFINE n == RowNumber(s, row.key)
             m == Algorithm!MergeExisting(s[n], row)
  <2>1. n # 0
    BY DEF OnTab
  <2>2. n \in DOMAIN s /\ n \in Nat \ {0} /\ s[n].key = row.key /\ row.key # ""
    BY <2>1, NumberedRow
  <2>3. s[n] \in Written(C)
    BY <2>2, ListOf
  <2>4. m \in Written(C) /\ m.own = s[n].own /\ m.key = IF row.key = "" THEN s[n].key ELSE row.key
    BY <2>3, MergedExisting
  <2>5. At(s, n) = s[n]
    BY <2>2 DEF At
  <2> HIDE DEF n, m
  <2>6. [at |-> n, row |-> m].at = n /\ [at |-> n, row |-> m].row = m
    OBVIOUS
  <2>7. [at |-> n, row |-> m] \in Patches(C) /\ SameRow(s, [at |-> n, row |-> m])
    BY <2>2, <2>4, <2>5, <2>6 DEF Patches, SameRow
  <2> QED
    BY <2>7 DEF n, m
<1>4. DOMAIN found = 1..Len(found) /\ Len(found) \in Nat
      /\ \A k \in DOMAIN found : found[k] \in NewRows \intersect OnTab(s, put)
  BY <1>2, ListOf
<1> HIDE DEF found, Patch
<1>5. \A k \in DOMAIN found : Patch(found[k]) \in Patches(C) /\ SameRow(s, Patch(found[k]))
  BY <1>3, <1>4
<1> DEFINE u == [k \in DOMAIN found |-> Patch(found[k])]
<1>6. u \in [1..Len(found) -> Patches(C)]
  BY <1>4, <1>5
<1>7. DOMAIN u = DOMAIN found /\ \A k \in DOMAIN u : SameRow(s, u[k])
  BY <1>5
<1> HIDE DEF u
<1>8. u \in Seq(Patches(C))
  BY <1>4, <1>6
<1> QED
  BY <1>1, <1>7, <1>8 DEF u

LEMMA AppendedRows ==
  ASSUME NEW s, NEW put \in Seq(NewRows)
  PROVE  Appended(s, put) \in Seq(NewRows)
<1>1. Appended(s, put) \in Seq(NewRows \intersect (ToSet(put) \ OnTab(s, put)))
  BY TabOnlyOf DEF Appended
<1> QED
  BY <1>1

Orders == {"old", "new", "wrong"}

\* A row that is moved keeps its key and its note.
MovedRow(row) ==
  [row EXCEPT !.cols = CASE @ = "" -> "" [] @ = "old" -> "new" [] OTHER -> "wrong"]

LEMMA MovedFields ==
  ASSUME NEW row \in Written(Orders)
  PROVE  /\ MovedRow(row) \in Fields
         /\ MovedRow(row).key = row.key /\ MovedRow(row).own = row.own
         /\ MovedRow(row).cols = CASE row.cols = "" -> "" [] row.cols = "old" -> "new" [] OTHER -> "wrong"
<1> DEFINE F == {"key", "gen", "collected", "own", "cols"}
           c == CASE row.cols = "" -> "" [] row.cols = "old" -> "new" [] OTHER -> "wrong"
           m == [f \in F |-> IF f = "cols" THEN c ELSE row[f]]
<1>1. row \in Fields /\ DOMAIN row = F
  BY RowFields DEF Written
<1>2. MovedRow(row) = m
  BY <1>1 DEF MovedRow
<1>3. c \in {"", "old", "new", "wrong"}
  OBVIOUS
<1> HIDE DEF c
<1>4. m = [f \in F |-> m[f]]
  OBVIOUS
<1>5. m.key = row.key /\ m.gen = row.gen /\ m.collected = row.collected /\ m.own = row.own /\ m.cols = c
  OBVIOUS
<1> HIDE DEF m
<1>6. m \in Fields
  BY <1>1, <1>3, <1>4, <1>5, RowFields, MakeRow
<1> QED
  BY <1>2, <1>5, <1>6 DEF c

\* Moved rows are in the new order; only a cell that was not in the old one is
\* in a wrong place.
LEMMA RemappedRows ==
  ASSUME NEW s \in Seq(Written(Orders)), NEW E, "new" \in E,
         "wrong" \in E \/ s \in Seq(Written({"old"}))
  PROVE  LET r == Remapped(s, "old")
         IN  r \in Seq(Written(E)) /\ Kept(s, r) /\ Len(r) = Len(s) /\ (Unique(s) => Unique(r))
<1> DEFINE r == [k \in DOMAIN s |-> MovedRow(s[k])]
<1>1. Remapped(s, "old") = r
  BY DEF Remapped, MovedRow
<1>2. DOMAIN s = 1..Len(s) /\ Len(s) \in Nat /\ \A k \in DOMAIN s : s[k] \in Written(Orders)
  BY ListOf
<1>3. \A k \in DOMAIN s : s[k].cols \in {"", "old"} \/ "wrong" \in E
  <2>1. CASE "wrong" \in E
    BY <2>1
  <2>2. CASE s \in Seq(Written({"old"}))
    <3>1. \A k \in DOMAIN s : s[k] \in Written({"old"})
      BY <2>2, ListOf
    <3> QED
      BY <3>1 DEF Written
  <2> QED
    BY <2>1, <2>2
<1>4. ASSUME NEW k \in DOMAIN s
      PROVE  /\ MovedRow(s[k]) \in Written(E)
             /\ MovedRow(s[k]).key = s[k].key /\ MovedRow(s[k]).own = s[k].own
  <2> DEFINE m == MovedRow(s[k])
  <2>1. /\ m \in Fields /\ m.key = s[k].key /\ m.own = s[k].own
        /\ m.cols = CASE s[k].cols = "" -> "" [] s[k].cols = "old" -> "new" [] OTHER -> "wrong"
    BY <1>2, MovedFields
  <2>2. s[k].own = "" <=> s[k].cols = ""
    BY <1>2 DEF Written
  <2> HIDE DEF m
  <2>3. m.cols \in E \union {""} /\ (m.own = "" <=> m.cols = "")
    BY <1>3, <2>1, <2>2
  <2>4. m \in Written(E)
    BY <2>1, <2>3 DEF Written
  <2> QED
    BY <2>1, <2>4 DEF m
<1>5. DOMAIN r = DOMAIN s /\ \A k \in DOMAIN s : r[k] = MovedRow(s[k])
  OBVIOUS
<1>6. r \in [1..Len(s) -> Written(E)]
  BY <1>2, <1>4
<1> HIDE DEF r
<1>7. r \in Seq(Written(E)) /\ Len(r) = Len(s)
  BY <1>2, <1>6
<1>8. \A k \in DOMAIN s : r[k].key = s[k].key /\ r[k].own = s[k].own
  BY <1>4, <1>5
<1>9. Kept(s, r)
  BY <1>5, <1>8 DEF Kept, HasRow
<1>10. Unique(s) => Unique(r)
  BY <1>5, <1>8 DEF Unique
<1> QED
  BY <1>1, <1>7, <1>9, <1>10
-----------------------------------------------------------------------------
(* The invariant.                                                          *)

TabKinds == {"single", "multi", "replace"} \union Details
Stages == {"idle", "header", "read", "rewrite", "clear", "update", "append", "batch"}
Plans  == [was : {"", "old", "new"}, put : Seq(NewRows), out : Seq(Written(Orders)),
           todo : Seq(Patches(Orders) \union Written(Orders)), count : Nat, scratch : BOOLEAN]

\* What the plan of a call is at each of its steps.
PlanFits(k, h, s, p) ==
  /\ s = "header" => k # "replace" /\ p.was = "old"
  /\ s \in {"header", "read"} => p.todo = <<>>
  /\ s \notin {"idle", "header"} => p.was \in {"old", "new"} /\ h = "new"
  /\ k = "replace" /\ s # "idle" => p.was = "new"
  /\ s \in {"rewrite", "update", "append"} => k # "replace"
  /\ s \in {"update", "append", "batch"} => p.out \in Seq(NewRows)
  /\ s = "update" => p.todo \in Seq(Patches(Orders)) /\ p.todo # <<>>
  /\ s = "batch" => k = "replace" /\ Len(p.todo) <= Len(p.out)
  /\ p.scratch => k \in Details

TabShape ==
  /\ kind \in TabKinds /\ header \in {"old", "new"}
  /\ kind = "replace" => header = "new"
  /\ rows \in Seq(Written(Orders)) /\ now \in DOMAIN Contents
  /\ pc \in [Writers -> Stages] /\ plan \in [Writers -> Plans] /\ DOMAIN disturbed = Writers
  /\ manual \in Nat /\ handEdits \in Nat /\ failures \in Nat
  /\ \A w \in Writers : PlanFits(kind, header, pc[w], plan[w])

\* The rows of s with a key or a note have a row in t.
Filled(row) == row.key # "" \/ row.own # ""
Keeps(s, t) ==
  \A i \in Nat \ {0} : Filled(At(s, i)) =>
    \E j \in Nat \ {0} : At(t, j).key = At(s, i).key /\ (At(s, i).own # "" => At(t, j).own # "")

\* What nobody has disturbed is still as the plan takes it to be, and all of it
\* is to be written again unless the tab is rewritten from scratch.
PlanKeeps(r, s, p) ==
  /\ s \in {"rewrite", "clear"} => p.scratch \/ Keeps(r, p.out)
  /\ s = "clear" => \A k \in DOMAIN p.out : At(r, k) = p.out[k]
  /\ s = "update" => \A k \in DOMAIN p.todo : SameRow(r, p.todo[k])

UndisturbedKeeps ==
  kind # "replace" => \A w \in Writers : ~disturbed[w] => PlanKeeps(rows, pc[w], plan[w])

\* As long as the loop is alone and nothing fails, cells are in the order of the
\* header, or in a wrong place if somebody typed; between the header and the
\* rewriting they are in the old order, and what is to be written covers them.
\* On Candidate Detail the rows below those written from scratch are as they
\* were until they are cleared, and an edit may spread them.
Allowed(k, h, e) ==
  {h} \union (IF e > 0 THEN IF k \in Details THEN Orders ELSE {"wrong"} ELSE {})
Mixed(e) == {"old"} \union (IF e > 0 THEN {"new", "wrong"} ELSE {})

\* What is still to be cleared.
Remains(k, r, p) == k \in Details /\ Len(r) <= p.count
Headed(C, r, p)  == \A i \in DOMAIN r : i <= Len(p.out) => r[i] \in Written(C)

InOrder(k, h, r, e, s, p) ==
  /\ s = "header" => h = "old"
  /\ h = "old" => s \in {"idle", "header"} /\ Unique(r)
  /\ s \notin {"read", "rewrite", "clear"} => r \in Seq(Written(Allowed(k, h, e)))
  /\ s = "read" /\ p.was = "old" => r \in Seq(Written(Mixed(e))) /\ Unique(r)
  /\ s = "read" /\ p.was # "old" => r \in Seq(Written(Allowed(k, "new", e)))
  /\ s = "rewrite" => /\ p.out \in Seq(Written(Allowed(k, "new", e)))
                      /\ \/ r \in Seq(Written(Allowed(k, "new", e)))
                         \/ Len(r) <= Len(p.out) \/ Remains(k, r, p)
  /\ s = "clear" => \/ r \in Seq(Written(Allowed(k, "new", e)))
                    \/ Remains(k, r, p) /\ Headed(Allowed(k, "new", e), r, p)
  /\ s = "update" => p.todo \in Seq(Patches(Allowed(k, "new", e)))

Quiet == failures = 0 /\ manual = 0

QuietTab ==
  Quiet => /\ \A w \in Writers \ {Loop} : pc[w] = "idle"
           /\ InOrder(kind, header, rows, handEdits, pc[Loop], plan[Loop])

TabInv == TabShape /\ UndisturbedKeeps /\ QuietTab
-----------------------------------------------------------------------------
(* Steps of a call.                                                        *)

LEMMA KeepsFurther ==
  ASSUME NEW s, NEW t, NEW u, Keeps(s, t), Keeps(t, u)
  PROVE  Keeps(s, u)
<1> SUFFICES ASSUME NEW i \in Nat \ {0}, Filled(At(s, i))
             PROVE  \E j \in Nat \ {0} : /\ At(u, j).key = At(s, i).key
                                         /\ At(s, i).own # "" => At(u, j).own # ""
  BY DEF Keeps
<1>1. PICK k \in Nat \ {0} : At(t, k).key = At(s, i).key /\ (At(s, i).own # "" => At(t, k).own # "")
  BY DEF Keeps
<1>2. Filled(At(t, k))
  BY <1>1 DEF Filled
<1>3. PICK j \in Nat \ {0} : At(u, j).key = At(t, k).key /\ (At(t, k).own # "" => At(u, j).own # "")
  BY <1>2 DEF Keeps
<1>4. At(u, j).key = At(s, i).key /\ (At(s, i).own # "" => At(u, j).own # "")
  BY <1>1, <1>3
<1> QED
  BY <1>4

LEMMA BlankIsEmpty == ~Filled(Blank)
BY DEF Filled, Blank

LEMMA KeptIsKeeps ==
  ASSUME NEW C, NEW s \in Seq(Written(C)), NEW D, NEW t \in Seq(Written(D)), Kept(s, t)
  PROVE  Keeps(s, t)
<1> SUFFICES ASSUME NEW i \in Nat \ {0}, Filled(At(s, i))
             PROVE  \E j \in Nat \ {0} : /\ At(t, j).key = At(s, i).key
                                         /\ At(s, i).own # "" => At(t, j).own # ""
  BY DEF Keeps
<1>1. i \in DOMAIN s /\ At(s, i) = s[i]
  BY BlankIsEmpty DEF At
<1>2. PICK j \in DOMAIN t : t[j].key = s[i].key /\ (s[i].own # "" => t[j].own # "")
  BY <1>1 DEF Kept, HasRow
<1>3. DOMAIN t = 1..Len(t) /\ Len(t) \in Nat
  BY ListOf
<1>4. j \in Nat \ {0} /\ At(t, j) = t[j]
  <2>1. j \in DOMAIN t
    BY <1>2
  <2> QED
    BY <1>3, <2>1 DEF At
<1>5. At(t, j).key = At(s, i).key /\ (At(s, i).own # "" => At(t, j).own # "")
  BY <1>1, <1>2, <1>4
<1> QED
  BY <1>4, <1>5

\* The writer w moves on to the step s with the plan p; whoever is not disturbed
\* by that has read nothing yet.
Moves(w, s, p) == pc' = [pc EXCEPT ![w] = s] /\ plan' = [plan EXCEPT ![w] = p]
Spared(w) == \A v \in Writers \ {w} :
  ~disturbed'[v] => ~disturbed[v] /\ (rows' = rows \/ pc[v] \in Reading \union {"idle"})

LEMMA WriterStep ==
  ASSUME TabInv, NEW w \in Writers, NEW s \in Stages, NEW p \in Plans, Moves(w, s, p), Spared(w),
         kind' = kind, header' \in {header, "new"}, now' = now, handEdits' = handEdits,
         manual' \in Nat, failures' \in Nat, DOMAIN disturbed' = Writers,
         rows' \in Seq(Written(Orders)), PlanFits(kind, header', s, p),
         kind # "replace" /\ ~disturbed'[w] => PlanKeeps(rows', s, p),
         Quiet' => /\ Quiet /\ (pc[w] # "idle" \/ w = Loop)
                   /\ InOrder(kind, header, rows, handEdits, pc[w], plan[w])
                        => InOrder(kind, header', rows', handEdits, s, p)
  PROVE  TabInv'
<1>1. /\ pc \in [Writers -> Stages] /\ plan \in [Writers -> Plans]
      /\ kind \in TabKinds /\ header \in {"old", "new"}
      /\ kind = "replace" => header = "new"
      /\ now \in DOMAIN Contents /\ handEdits \in Nat
      /\ \A v \in Writers : PlanFits(kind, header, pc[v], plan[v])
  BY DEF TabInv, TabShape
<1>2. pc'[w] = s /\ plan'[w] = p
  BY <1>1 DEF Moves
<1>3. \A v \in Writers \ {w} : pc'[v] = pc[v] /\ plan'[v] = plan[v]
  BY <1>1 DEF Moves
<1>4. pc' \in [Writers -> Stages] /\ plan' \in [Writers -> Plans]
  BY <1>1 DEF Moves
<1>5. ASSUME NEW v \in Writers PROVE PlanFits(kind, header', pc'[v], plan'[v])
  <2>1. CASE v = w
    BY <1>2, <2>1
  <2>2. CASE v # w
    <3>1. PlanFits(kind, header, pc[v], plan[v])
      BY <1>1
    <3>2. PlanFits(kind, header', pc[v], plan[v])
      BY <3>1 DEF PlanFits
    <3> QED
      BY <1>3, <2>2, <3>2
  <2> QED
    BY <2>1, <2>2
<1>6. TabShape'
  BY <1>1, <1>4, <1>5 DEF TabShape
<1>7. UndisturbedKeeps'
  <2> SUFFICES ASSUME kind # "replace", NEW v \in Writers, ~disturbed'[v]
               PROVE  PlanKeeps(rows', pc'[v], plan'[v])
    BY DEF UndisturbedKeeps
  <2>1. CASE v = w
    BY <1>2, <2>1
  <2>2. CASE v # w
    <3>1. ~disturbed[v] /\ (rows' = rows \/ pc[v] \in Reading \union {"idle"})
      BY <2>2 DEF Spared
    <3>2. PlanKeeps(rows, pc[v], plan[v])
      BY <3>1 DEF TabInv, UndisturbedKeeps
    <3>3. pc[v] \in Reading \union {"idle"} => PlanKeeps(rows', pc[v], plan[v])
      BY DEF PlanKeeps, Reading
    <3>4. PlanKeeps(rows', pc[v], plan[v])
      BY <3>1, <3>2, <3>3
    <3> QED
      BY <1>3, <2>2, <3>4
  <2> QED
    BY <2>1, <2>2
<1>8. QuietTab'
  <2> SUFFICES ASSUME Quiet'
               PROVE  /\ \A v \in Writers \ {Loop} : pc'[v] = "idle"
                      /\ InOrder(kind', header', rows', handEdits', pc'[Loop], plan'[Loop])
    BY DEF QuietTab
  <2>1. Quiet /\ (pc[w] # "idle" \/ w = Loop)
    OBVIOUS
  <2>2. /\ \A v \in Writers \ {Loop} : pc[v] = "idle"
        /\ InOrder(kind, header, rows, handEdits, pc[Loop], plan[Loop])
    BY <2>1 DEF TabInv, QuietTab
  <2>3. w = Loop
    BY <2>1, <2>2
  <2>4. InOrder(kind, header', rows', handEdits, s, p)
    BY <2>2, <2>3
  <2> QED
    BY <1>2, <1>3, <2>2, <2>3, <2>4
<1> QED
  BY <1>6, <1>7, <1>8 DEF TabInv

\* Touch and Finish disturb all the others that have read.
Advances(w, s, p) ==
  /\ Moves(w, s, p) /\ DOMAIN disturbed' = Writers
  /\ \A v \in Writers \ {w} : ~disturbed'[v] => ~disturbed[v] /\ pc[v] \in Reading \union {"idle"}
  /\ s # "idle" /\ ~disturbed'[w] => ~disturbed[w]

LEMMA ProceedAdvances ==
  ASSUME NEW w \in Writers, NEW s, NEW p, Proceed(w, s, p)
  PROVE  Advances(w, s, p)
<1>1. Touch(w) /\ Moves(w, s, p)
  BY DEF Proceed, Moves
<1>2. DOMAIN disturbed' = Writers
  BY <1>1 DEF Touch
<1>3. ASSUME NEW v \in Writers \ {w}, ~disturbed'[v] PROVE ~disturbed[v] /\ pc[v] \in Reading \union {"idle"}
  BY <1>1, <1>3 DEF Touch
<1>4. ~disturbed'[w] => ~disturbed[w]
  BY <1>1 DEF Touch
<1> QED
  BY <1>1, <1>2, <1>3, <1>4 DEF Advances

LEMMA FinishAdvances ==
  ASSUME NEW w \in Writers, Finish(w)
  PROVE  Advances(w, "idle", NoPlan)
<1>1. Moves(w, "idle", NoPlan)
  BY DEF Finish, Moves
<1>2. DOMAIN disturbed' = Writers
  BY DEF Finish
<1>3. ASSUME NEW v \in Writers \ {w}, ~disturbed'[v] PROVE ~disturbed[v] /\ pc[v] \in Reading \union {"idle"}
  BY <1>3 DEF Finish
<1> QED
  BY <1>1, <1>2, <1>3 DEF Advances

LEMMA WrittenGrows ==
  ASSUME NEW C, NEW D, C \subseteq D
  PROVE  /\ Written(C) \subseteq Written(D) /\ Seq(Written(C)) \subseteq Seq(Written(D))
         /\ Seq(Patches(C)) \subseteq Seq(Patches(D))
<1>1. Written(C) \subseteq Written(D)
  BY DEF Written
<1>2. Patches(C) \subseteq Patches(D)
  BY <1>1 DEF Patches
<1> QED
  BY <1>1, <1>2

LEMMA AllowedOrders ==
  ASSUME NEW k, NEW e
  PROVE  Allowed(k, "new", e) \subseteq Orders /\ Allowed(k, "old", e) \subseteq Mixed(e)
BY DEF Allowed, Mixed, Orders

LEMMA NewRowsWritten ==
  ASSUME NEW C
  PROVE  Seq(NewRows) \subseteq Seq(Written(C))
<1>1. NewRows \subseteq Written(C)
  BY WrittenRows
<1> QED
  BY <1>1

LEMMA ContentRows ==
  ASSUME TabShape
  PROVE  Contents[now] \in Seq(NewRows)
<1>1. Contents \in Seq(Seq(NewRows))
  BY TabAssumption DEF NewRows
<1>2. now \in DOMAIN Contents
  BY DEF TabShape
<1> QED
  BY <1>1, <1>2, ListOf

LEMMA NoPlanFits ==
  /\ NoPlan \in Plans
  /\ \A k, h : PlanFits(k, h, "idle", NoPlan)
<1>1. /\ <<>> \in Seq(NewRows) /\ <<>> \in Seq(Written(Orders))
      /\ <<>> \in Seq(Patches(Orders) \union Written(Orders))
  OBVIOUS
<1>2. NoPlan \in Plans
  BY <1>1 DEF NoPlan, Plans
<1>3. \A k, h : PlanFits(k, h, "idle", NoPlan)
  BY DEF PlanFits, NoPlan
<1> QED
  BY <1>2, <1>3

\* What a step needs to know of the plan it carries out.
LEMMA PlanOf ==
  ASSUME TabInv, NEW w \in Writers
  PROVE  /\ plan[w] \in Plans /\ PlanFits(kind, header, pc[w], plan[w])
         /\ plan[w].out \in Seq(Written(Orders)) /\ plan[w].put \in Seq(NewRows)
         /\ plan[w].count \in Nat /\ plan[w].todo \in Seq(Patches(Orders) \union Written(Orders))
<1>1. plan[w] \in Plans /\ PlanFits(kind, header, pc[w], plan[w])
  BY DEF TabInv, TabShape
<1> QED
  BY <1>1 DEF Plans

LEMMA BeginStep ==
  ASSUME TabInv, NEW w \in Writers, Begin(w)
  PROVE  TabInv'
<1> DEFINE s == IF kind # "replace" /\ header = "old" THEN "header" ELSE "read"
           was == IF kind = "replace" THEN "new" ELSE header
           p == [NoPlan EXCEPT !.put = Contents[now], !.was = was]
<1>1. /\ pc[w] = "idle" /\ Moves(w, s, p)
      /\ kind' = kind /\ header' = header /\ rows' = rows /\ now' = now /\ disturbed' = disturbed
      /\ handEdits' = handEdits /\ failures' = failures
  BY DEF Begin, Moves
<1>2. IF w = Loop THEN manual' = manual ELSE manual' = manual + 1
  BY DEF Begin
<1>3. /\ kind \in TabKinds /\ header \in {"old", "new"}
      /\ kind = "replace" => header = "new"
      /\ rows \in Seq(Written(Orders)) /\ manual \in Nat /\ failures \in Nat /\ DOMAIN disturbed = Writers
  BY DEF TabInv, TabShape
<1>4. s \in Stages /\ s \in {"header", "read"} /\ was \in {"old", "new"}
      /\ (s = "header" => header = "old" /\ was = "old" /\ kind # "replace")
      /\ (s = "read" => header = "new" /\ was = "new")
      /\ (kind = "replace" => was = "new")
  BY <1>3 DEF Stages
<1>5. p \in Plans /\ p.was = was /\ p.todo = <<>> /\ ~p.scratch
  <2>1. Contents[now] \in Seq(NewRows)
    BY ContentRows DEF TabInv
  <2>2. NoPlan \in Plans /\ NoPlan.todo = <<>> /\ ~NoPlan.scratch
    BY NoPlanFits DEF NoPlan
  <2> HIDE DEF was
  <2> DEFINE c == Contents[now]
  <2>3. c \in Seq(NewRows)
    BY <2>1
  <2> HIDE DEF c
  <2>4. /\ [NoPlan EXCEPT !.put = c, !.was = was] \in Plans
        /\ [NoPlan EXCEPT !.put = c, !.was = was].was = was
        /\ [NoPlan EXCEPT !.put = c, !.was = was].todo = <<>>
        /\ ~[NoPlan EXCEPT !.put = c, !.was = was].scratch
    BY <1>4, <2>2, <2>3 DEF Plans
  <2> QED
    BY <2>4 DEF c
<1> HIDE DEF s, was, p
<1>6. PlanFits(kind, header', s, p)
  BY <1>1, <1>4, <1>5 DEF PlanFits
<1>7. PlanKeeps(rows', s, p)
  BY <1>4 DEF PlanKeeps
<1>8. Quiet' => Quiet /\ w = Loop
  BY <1>1, <1>2, <1>3 DEF Quiet
<1>9. InOrder(kind, header, rows, handEdits, pc[w], plan[w]) => InOrder(kind, header', rows', handEdits, s, p)
  <2>1. /\ pc[w] \notin {"read", "rewrite", "clear"}
        /\ s # "rewrite" /\ s # "update" /\ s # "clear"
    BY <1>1, <1>4
  <2>2. InOrder(kind, header, rows, handEdits, pc[w], plan[w])
          => rows \in Seq(Written(Allowed(kind, header, handEdits))) /\ (header = "old" => Unique(rows))
    BY <2>1 DEF InOrder
  <2> QED
    BY <1>1, <1>4, <1>5, <2>1, <2>2 DEF InOrder
<1>10. Spared(w)
  BY <1>1 DEF Spared
<1>11. manual' \in Nat /\ failures' \in Nat
  BY <1>1, <1>2, <1>3
<1> QED
  BY <1>1, <1>3, <1>4, <1>5, <1>6, <1>7, <1>8, <1>9, <1>10, <1>11, WriterStep

LEMMA WriteHeaderStep ==
  ASSUME TabInv, NEW w \in Writers, WriteHeader(w)
  PROVE  TabInv'
<1> DEFINE p == plan[w]
<1>1. /\ pc[w] = "header" /\ Advances(w, "read", p) /\ header' = "new"
      /\ kind' = kind /\ rows' = rows /\ now' = now
      /\ manual' = manual /\ handEdits' = handEdits /\ failures' = failures
  BY ProceedAdvances DEF WriteHeader, bounds
<1>2. p \in Plans /\ PlanFits(kind, header, "header", p)
  BY <1>1, PlanOf
<1>3. rows \in Seq(Written(Orders)) /\ manual \in Nat /\ failures \in Nat
  BY DEF TabInv, TabShape
<1>4. kind # "replace" /\ p.was = "old" /\ p.todo = <<>> /\ (p.scratch => kind \in Details)
  BY <1>2 DEF PlanFits
<1> HIDE DEF p
<1>5. PlanFits(kind, header', "read", p) /\ PlanKeeps(rows', "read", p)
  BY <1>1, <1>4 DEF PlanFits, PlanKeeps
<1>6. InOrder(kind, header, rows, handEdits, "header", p) => InOrder(kind, header', rows', handEdits, "read", p)
  <2> SUFFICES ASSUME InOrder(kind, header, rows, handEdits, "header", p)
               PROVE  InOrder(kind, "new", rows, handEdits, "read", p)
    BY <1>1
  <2>1. header = "old" /\ Unique(rows) /\ rows \in Seq(Written(Allowed(kind, "old", handEdits)))
    BY DEF InOrder
  <2>2. rows \in Seq(Written(Mixed(handEdits)))
    BY <2>1, AllowedOrders, WrittenGrows
  <2> QED
    BY <1>4, <2>1, <2>2 DEF InOrder
<1>7. Spared(w) /\ Moves(w, "read", p) /\ DOMAIN disturbed' = Writers
  BY <1>1 DEF Spared, Advances
<1>8. "read" \in Stages
  BY DEF Stages
<1>9. Quiet' => Quiet
  BY <1>1 DEF Quiet
<1> QED
  BY <1>1, <1>2, <1>3, <1>5, <1>6, <1>7, <1>8, <1>9, WriterStep DEF p

\* What is to be written in the end covers what is there, in the order of the
\* columns of the header.
LEMMA WorkedOut ==
  ASSUME TabShape, NEW put \in Seq(NewRows), NEW was \in {"old", "new"}
  PROVE  LET out == Algorithm!Upsert(Remapped(rows, was), put)
         IN  /\ out \in Seq(Written(Orders)) /\ Keeps(rows, out)
             /\ was = "new" /\ rows \in Seq(Written(Allowed(kind, "new", handEdits)))
                  => out \in Seq(Written(Allowed(kind, "new", handEdits)))
             /\ was = "old" /\ rows \in Seq(Written(Mixed(handEdits))) /\ Unique(rows)
                  => out \in Seq(Written(Allowed(kind, "new", handEdits))) /\ Len(rows) <= Len(out)
<1> DEFINE r == Remapped(rows, was)
           out == Algorithm!Upsert(r, put)
           A == Allowed(kind, "new", handEdits)
<1>1. rows \in Seq(Written(Orders))
  BY DEF TabShape
<1>2. CASE was = "new"
  <2>1. r = rows
    BY <1>2 DEF Remapped
  <2> HIDE DEF r
  <2>2. out \in Seq(Written(Orders)) /\ Kept(rows, out)
    BY <1>1, <2>1, UpsertKeeps
  <2>3. rows \in Seq(Written(A)) => out \in Seq(Written(A))
    <3> HIDE DEF A
    <3> QED
      BY <2>1, UpsertKeeps
  <2>4. Keeps(rows, out)
    BY <1>1, <2>2, KeptIsKeeps
  <2> HIDE DEF out
  <2>5. was # "old"
    BY <1>2
  <2> QED
    BY <2>2, <2>3, <2>4, <2>5 DEF out, r
<1>3. CASE was = "old"
  <2>1. r = Remapped(rows, "old")
    BY <1>3
  <2>2. r \in Seq(Written(Orders)) /\ Kept(rows, r)
    <3>1. "new" \in Orders /\ "wrong" \in Orders
      BY DEF Orders
    <3> HIDE DEF r
    <3> QED
      BY <1>1, <2>1, <3>1, RemappedRows
  <2>3. out \in Seq(Written(Orders)) /\ Kept(r, out)
    <3> HIDE DEF r
    <3> QED
      BY <2>2, UpsertKeeps
  <2>4. Keeps(rows, out)
    <3> HIDE DEF r, out
    <3>1. Kept(rows, out)
      BY <2>2, <2>3, KeptFurther
    <3> QED
      BY <1>1, <2>3, <3>1, KeptIsKeeps
  <2>5. ASSUME rows \in Seq(Written(Mixed(handEdits))), Unique(rows)
        PROVE  out \in Seq(Written(A)) /\ Len(rows) <= Len(out)
    <3>1. "new" \in A /\ ("wrong" \in A \/ rows \in Seq(Written({"old"})))
      <4>1. CASE handEdits > 0
        BY <4>1 DEF Allowed, Orders
      <4>2. CASE ~(handEdits > 0)
        <5>1. Mixed(handEdits) = {"old"}
          BY <4>2 DEF Mixed
        <5> QED
          BY <2>5, <5>1 DEF Allowed
      <4> QED
        BY <4>1, <4>2
    <3> HIDE DEF A, r, out
    <3>2. r \in Seq(Written(A)) /\ Len(r) = Len(rows) /\ Unique(r)
      BY <1>1, <2>1, <2>5, <3>1, RemappedRows
    <3> QED
      BY <3>2, UpsertKeeps DEF out
  <2> HIDE DEF A, out
  <2> QED
    BY <1>3, <2>3, <2>4, <2>5 DEF out, r, A
<1> QED
  BY <1>2, <1>3

\* From scratch only what is to be put is written.
LEMMA FromScratchFits ==
  ASSUME NEW C, NEW put \in Seq(NewRows)
  PROVE  Algorithm!Upsert(<<>>, put) \in Seq(Written(C))
<1>1. <<>> \in Seq(Written(C))
  OBVIOUS
<1> QED
  BY <1>1, UpsertKeeps

LEMMA ReadRowsStep ==
  ASSUME TabInv, NEW w \in Writers, ReadRows(w)
  PROVE  TabInv'
<1> DEFINE q == plan[w]
           n == Len(rows)
           put == Algorithm!Dedupe(q.put)
           t == Remapped(rows, q.was)
           scratch == FromScratch(t, q.was)
           out == Algorithm!Upsert(IF scratch THEN <<>> ELSE t, q.put)
           s == CASE kind = "replace" -> "batch"
                  [] kind \in Several \/ q.was = "old" -> "rewrite"
                  [] OTHER -> IF Updates(t, put) = <<>> THEN "append" ELSE "update"
           p == CASE s = "batch" -> [q EXCEPT !.count = n, !.scratch = scratch, !.out = q.put]
                  [] s = "rewrite" -> [q EXCEPT !.count = n, !.scratch = scratch, !.out = out]
                  [] OTHER -> [q EXCEPT !.count = n, !.scratch = scratch,
                                        !.todo = Updates(t, put), !.out = Appended(t, put)]
<1>1. /\ pc[w] = "read"
      /\ kind' = kind /\ header' = header /\ rows' = rows /\ now' = now /\ disturbed' = disturbed
      /\ manual' = manual /\ handEdits' = handEdits /\ failures' = failures
  BY DEF ReadRows, bounds
<1>2. Moves(w, s, p)
  BY DEF ReadRows, Moves
<1>3. /\ q \in Plans /\ PlanFits(kind, header, "read", q) /\ q.put \in Seq(NewRows)
  BY <1>1, PlanOf
<1>4. /\ q.was \in {"old", "new"} /\ header = "new" /\ (kind = "replace" => q.was = "new")
      /\ q.todo = <<>>
  BY <1>3 DEF PlanFits
<1>5. /\ kind \in TabKinds /\ rows \in Seq(Written(Orders))
      /\ manual \in Nat /\ failures \in Nat /\ DOMAIN disturbed = Writers /\ TabShape
  BY DEF TabInv, TabShape
<1>6. n \in Nat
  BY <1>5, ListOf
<1> DEFINE A == Allowed(kind, "new", handEdits)
<1> HIDE DEF q, A
<1>7. /\ out \in Seq(Written(Orders)) /\ (scratch \/ Keeps(rows, out))
      /\ q.was = "new" /\ rows \in Seq(Written(A)) => out \in Seq(Written(A))
      /\ q.was = "old" /\ rows \in Seq(Written(Mixed(handEdits))) /\ Unique(rows)
           => out \in Seq(Written(A)) /\ (scratch \/ Len(rows) <= Len(out))
  <2>1. CASE scratch
    <3>1. out = Algorithm!Upsert(<<>>, q.put)
      BY <2>1
    <3>2. \A C : out \in Seq(Written(C))
      BY <1>3, <3>1, FromScratchFits
    <3> QED
      BY <2>1, <3>2
  <2>2. CASE ~scratch
    <3>1. out = Algorithm!Upsert(t, q.put)
      BY <2>2
    <3> QED
      BY <1>3, <1>4, <1>5, <3>1, WorkedOut DEF A
  <2> QED
    BY <2>1, <2>2
<1>23. scratch \in BOOLEAN /\ (scratch => kind \in Details)
  BY DEF FromScratch
<1>8. put \in Seq(NewRows)
  BY <1>3, Deduped
<1> HIDE DEF out, put, scratch
<1>9. q.was = "new" => t = rows
  BY DEF Remapped
<1> HIDE DEF t
<1>10. ASSUME NEW C, q.was = "new", rows \in Seq(Written(C))
       PROVE  /\ Updates(t, put) \in Seq(Patches(C)) /\ Appended(t, put) \in Seq(NewRows)
              /\ \A k \in DOMAIN Updates(t, put) : SameRow(rows, Updates(t, put)[k])
  BY <1>8, <1>9, <1>10, UpdatesFit, AppendedRows
<1> DEFINE u == Updates(t, put)
           a == Appended(t, put)
<1>11. s \in {"batch", "rewrite", "append", "update"} /\ (s = "batch" <=> kind = "replace")
       /\ (s \in {"append", "update"} => q.was = "new") /\ (s = "update" => u # <<>>)
  <2>1. CASE kind = "replace"
    <3>1. kind \notin Several /\ q.was # "old"
      BY <1>4, <2>1 DEF Several, Details
    <3>2. s = "batch"
      BY <2>1, <3>1
    <3> QED
      BY <2>1, <3>2
  <2>2. CASE kind # "replace" /\ (kind \in Several \/ q.was = "old")
    <3>1. s = "rewrite"
      BY <2>2
    <3> QED
      BY <2>2, <3>1
  <2>3. CASE kind # "replace" /\ ~(kind \in Several \/ q.was = "old")
    <3>1. s = IF u = <<>> THEN "append" ELSE "update"
      BY <2>3
    <3> HIDE DEF s, u
    <3>2. q.was = "new"
      BY <1>4, <2>3
    <3>3. s \in {"append", "update"} /\ (s = "update" => u # <<>>)
      BY <3>1
    <3> QED
      BY <2>3, <3>2, <3>3
  <2> QED
    BY <2>1, <2>2, <2>3
<1>12. /\ q.was = "new" => u \in Seq(Patches(Orders)) /\ a \in Seq(NewRows)
       /\ q.was = "new" => \A k \in DOMAIN u : SameRow(rows, u[k])
       /\ q.was = "new" /\ rows \in Seq(Written(A)) => u \in Seq(Patches(A))
  BY <1>5, <1>10
<1> HIDE DEF n, u, a
<1>13. /\ s = "batch" => p = [q EXCEPT !.count = n, !.scratch = scratch, !.out = q.put]
       /\ s = "rewrite" => p = [q EXCEPT !.count = n, !.scratch = scratch, !.out = out]
       /\ s \in {"append", "update"} =>
            p = [q EXCEPT !.count = n, !.scratch = scratch, !.todo = u, !.out = a]
  BY <1>11 DEF u, a
<1> HIDE DEF s, p
<1>14. NewRows \subseteq Written(Orders)
  BY WrittenRows
<1>15. p \in Plans /\ p.was = q.was
  <2>1. CASE s = "batch"
    <3>1. q.put \in Seq(Written(Orders))
      BY <1>3, NewRowsWritten
    <3> QED
      BY <1>3, <1>6, <1>13, <1>23, <2>1, <3>1 DEF Plans
  <2>2. CASE s = "rewrite"
    BY <1>3, <1>6, <1>7, <1>13, <1>23, <2>2 DEF Plans
  <2>3. CASE s \in {"append", "update"}
    <3>1. u \in Seq(Patches(Orders)) /\ a \in Seq(NewRows)
      BY <1>11, <1>12, <2>3
    <3>2. u \in Seq(Patches(Orders) \union Written(Orders))
      BY <3>1
    <3>3. a \in Seq(Written(Orders))
      BY <3>1, NewRowsWritten
    <3> QED
      BY <1>3, <1>6, <1>13, <1>23, <2>3, <3>2, <3>3 DEF Plans
  <2> QED
    BY <1>11, <2>1, <2>2, <2>3
<1>16. /\ s = "batch" => p.out = q.put /\ p.todo = q.todo
       /\ s = "rewrite" => p.out = out
       /\ s \in {"append", "update"} => p.todo = u /\ p.out = a
  BY <1>3, <1>13 DEF Plans
<1>24. p.scratch = scratch /\ p.count = n
  BY <1>3, <1>11, <1>13 DEF Plans
<1>17. PlanFits(kind, header', s, p)
  <2>1. s = "batch" => Len(p.todo) <= Len(p.out)
    <3>1. Len(<<>>) = 0
      OBVIOUS
    <3>2. Len(q.put) \in Nat
      BY <1>3, ListOf
    <3> QED
      BY <1>4, <1>16, <3>1, <3>2
  <2>2. s \in {"update", "append", "batch"} => p.out \in Seq(NewRows)
    BY <1>3, <1>11, <1>12, <1>16
  <2>3. s = "update" => p.todo \in Seq(Patches(Orders)) /\ p.todo # <<>>
    BY <1>11, <1>12, <1>16
  <2> QED
    BY <1>1, <1>4, <1>11, <1>15, <1>23, <1>24, <2>1, <2>2, <2>3 DEF PlanFits
<1>18. PlanKeeps(rows', s, p)
  <2>1. s = "rewrite" => p.scratch \/ Keeps(rows, p.out)
    BY <1>7, <1>16, <1>24
  <2>2. s = "update" => \A k \in DOMAIN p.todo : SameRow(rows, p.todo[k])
    BY <1>11, <1>12, <1>16
  <2> QED
    BY <1>1, <1>11, <2>1, <2>2 DEF PlanKeeps
<1>19. InOrder(kind, header, rows, handEdits, "read", q) => InOrder(kind, header', rows', handEdits, s, p)
  <2> SUFFICES ASSUME InOrder(kind, header, rows, handEdits, "read", q)
               PROVE  InOrder(kind, "new", rows, handEdits, s, p)
    BY <1>1, <1>4
  <2>1. /\ q.was = "old" => rows \in Seq(Written(Mixed(handEdits))) /\ Unique(rows)
        /\ q.was # "old" => rows \in Seq(Written(A))
    BY DEF InOrder, A
  <2>2. s = "rewrite" => /\ p.out \in Seq(Written(A))
                         /\ \/ rows \in Seq(Written(A))
                            \/ Len(rows) <= Len(p.out) \/ Remains(kind, rows, p)
    <3>1. scratch => Remains(kind, rows, p)
      <4>1. Len(rows) <= n
        BY <1>6 DEF n
      <4> QED
        BY <1>23, <1>24, <4>1 DEF Remains
    <3> QED
      BY <1>4, <1>7, <1>16, <2>1, <3>1
  <2>3. s # "rewrite" => q.was = "new" /\ rows \in Seq(Written(A))
    BY <1>4, <1>11, <2>1
  <2>4. s = "update" => p.todo \in Seq(Patches(A))
    BY <1>11, <1>12, <1>16, <2>3
  <2> QED
    BY <1>11, <2>2, <2>3, <2>4 DEF InOrder, A
<1>20. Spared(w)
  BY <1>1 DEF Spared
<1>21. s \in Stages
  BY <1>11 DEF Stages
<1>22. Quiet' => Quiet
  BY <1>1 DEF Quiet
<1> QED
  BY <1>1, <1>2, <1>5, <1>15, <1>17, <1>18, <1>19, <1>20, <1>21, <1>22, WriterStep DEF q

\* What a step of a call does to the rows: nothing is lost that nobody disturbed
\* unless the tab is rewritten from scratch.
Careful(w) == kind # "replace" /\ ~disturbed[w] /\ ~plan[w].scratch => Keeps(rows, rows')

\* A step that was to write, and the step and the plan after it.
LEMMA WritingStep ==
  ASSUME TabInv, NEW w \in Writers, NEW s \in Stages, NEW p \in Plans, Advances(w, s, p),
         pc[w] \in Stages \ {"idle"}, UNCHANGED <<kind, header, now, bounds>>,
         rows' \in Seq(Written(Orders)), PlanFits(kind, header, s, p),
         kind # "replace" /\ ~disturbed[w] /\ s # "idle" => PlanKeeps(rows', s, p),
         InOrder(kind, header, rows, handEdits, pc[w], plan[w]) => InOrder(kind, header, rows', handEdits, s, p)
  PROVE  TabInv'
<1>1. kind' = kind /\ header' = header /\ now' = now /\ manual' = manual
      /\ handEdits' = handEdits /\ failures' = failures
  BY DEF bounds
<1>2. manual' \in Nat /\ failures' \in Nat
  BY <1>1 DEF TabInv, TabShape
<1>3. Spared(w) /\ Moves(w, s, p) /\ DOMAIN disturbed' = Writers
  BY DEF Spared, Advances
<1>4. kind # "replace" /\ ~disturbed'[w] => PlanKeeps(rows', s, p)
  <2>1. CASE s = "idle"
    BY <2>1 DEF PlanKeeps
  <2>2. CASE s # "idle"
    BY <2>2 DEF Advances
  <2> QED
    BY <2>1, <2>2
<1>5. Quiet' => Quiet /\ (pc[w] # "idle" \/ w = Loop)
  BY <1>1 DEF Quiet
<1> QED
  BY <1>1, <1>2, <1>3, <1>4, <1>5, WriterStep

LEMMA IdleInOrder ==
  ASSUME NEW k, NEW e, NEW r, r \in Seq(Written(Allowed(k, "new", e)))
  PROVE  /\ InOrder(k, "new", r, e, "idle", NoPlan)
         /\ \A p : InOrder(k, "new", r, e, "clear", p)
BY DEF InOrder

LEMMA ToClearAdvances ==
  ASSUME NEW w \in Writers, ToClear(w)
  PROVE  \/ Advances(w, "clear", plan[w])
         \/ Advances(w, "idle", NoPlan) /\ ~(plan[w].count > Len(plan[w].out))
<1>1. CASE plan[w].count > Len(plan[w].out)
  BY <1>1, ProceedAdvances DEF ToClear
<1>2. CASE ~(plan[w].count > Len(plan[w].out))
  <2>1. Finish(w)
    BY <1>2 DEF ToClear
  <2>2. Advances(w, "idle", NoPlan)
    BY <2>1, FinishAdvances
  <2> QED
    BY <1>2, <2>2
<1> QED
  BY <1>1, <1>2

LEMMA RewriteStep ==
  ASSUME TabInv, NEW w \in Writers, Rewrite(w)
  PROVE  TabInv' /\ Careful(w)
<1> DEFINE p == plan[w]
           A == Allowed(kind, "new", handEdits)
<1>1. /\ pc[w] = "rewrite" /\ rows' = Write(rows, 1, p.out)
      /\ UNCHANGED <<kind, header, now, bounds>>
  BY DEF Rewrite
<1>2. Advances(w, "clear", p) \/ (Advances(w, "idle", NoPlan) /\ ~(p.count > Len(p.out)))
  <2>1. ToClear(w)
    BY DEF Rewrite
  <2> QED
    BY <2>1, ToClearAdvances
<1>3. p \in Plans /\ PlanFits(kind, header, "rewrite", p) /\ p.out \in Seq(Written(Orders))
      /\ p.count \in Nat
  BY <1>1, PlanOf
<1>4. kind # "replace" /\ header = "new" /\ p.was \in {"old", "new"}
  BY <1>3 DEF PlanFits
<1>5. rows \in Seq(Written(Orders))
  BY DEF TabInv, TabShape
<1>6. ~disturbed[w] => p.scratch \/ Keeps(rows, p.out)
  <2>1. UndisturbedKeeps
    BY DEF TabInv
  <2>2. ~disturbed[w] => PlanKeeps(rows, "rewrite", p)
    BY <1>1, <1>4, <2>1 DEF UndisturbedKeeps
  <2> QED
    BY <2>2 DEF PlanKeeps
<1> HIDE DEF p, A
<1>7. /\ DOMAIN p.out = 1..Len(p.out) /\ Len(p.out) \in Nat
      /\ DOMAIN rows = 1..Len(rows) /\ Len(rows) \in Nat
      /\ \A k \in DOMAIN rows : rows[k] \in Written(Orders)
  BY <1>3, <1>5, ListOf
<1>8. /\ rows' \in Seq(Written(Orders)) /\ Overwritten(rows, 1, p.out, rows')
      /\ Len(rows') <= Len(rows) \/ Len(rows') <= 1 + Len(p.out) - 1
  <2>1. 1 \in Nat \ {0}
    OBVIOUS
  <2>2. \A k \in 1..Len(rows) : k \in 1..(1 + Len(p.out) - 1) \/ rows[k] \in Written(Orders)
    BY <1>7
  <2> QED
    BY <1>1, <1>3, <1>5, <2>1, <2>2, WrittenCells
<1>9. \A k \in Nat \ {0} : At(rows', k) = IF k \in DOMAIN p.out THEN p.out[k] ELSE At(rows, k)
  <2>1. \A k \in Nat \ {0} : k \in 1..(1 + Len(p.out) - 1) <=> k \in DOMAIN p.out
    BY <1>7
  <2>2. \A k \in Nat \ {0} : k - 1 + 1 = k
    OBVIOUS
  <2> QED
    BY <1>8, <2>1, <2>2 DEF Overwritten
<1>10. Keeps(p.out, rows')
  <2> SUFFICES ASSUME NEW i \in Nat \ {0}, Filled(At(p.out, i))
               PROVE  At(rows', i) = At(p.out, i)
    BY DEF Keeps
  <2>1. i \in DOMAIN p.out
    BY BlankIsEmpty DEF At
  <2> QED
    BY <1>9, <2>1 DEF At
<1>11. Keeps(rows, p.out) => Keeps(rows, rows')
  BY <1>10, KeepsFurther
<1>12. Careful(w)
  BY <1>6, <1>11 DEF Careful, p
<1>13. \A k \in DOMAIN p.out : At(rows', k) = p.out[k]
  <2>1. \A k \in DOMAIN p.out : k \in Nat \ {0}
    BY <1>7
  <2> QED
    BY <1>9, <2>1
<1>14. ~disturbed[w] => PlanKeeps(rows', "clear", p)
  <2> SUFFICES ASSUME ~disturbed[w] PROVE PlanKeeps(rows', "clear", p)
    OBVIOUS
  <2>1. p.scratch \/ Keeps(rows', p.out)
    <3> SUFFICES ASSUME ~p.scratch PROVE Keeps(rows', p.out)
      OBVIOUS
    <3> SUFFICES ASSUME NEW i \in Nat \ {0}, Filled(At(rows', i))
                 PROVE  \E j \in Nat \ {0} : /\ At(p.out, j).key = At(rows', i).key
                                             /\ At(rows', i).own # "" => At(p.out, j).own # ""
      BY DEF Keeps
    <3>1. CASE i \in DOMAIN p.out
      <4>1. At(p.out, i) = At(rows', i)
        BY <1>9, <3>1 DEF At
      <4> QED
        BY <4>1
    <3>2. CASE i \notin DOMAIN p.out
      <4>1. At(rows', i) = At(rows, i)
        BY <1>9, <3>2
      <4> QED
        BY <1>6, <4>1 DEF Keeps
    <3> QED
      BY <3>1, <3>2
  <2> QED
    BY <1>13, <2>1 DEF PlanKeeps
<1>15. ASSUME InOrder(kind, header, rows, handEdits, "rewrite", p),
              rows \in Seq(Written(A)) \/ Len(rows) <= Len(p.out)
       PROVE  rows' \in Seq(Written(A))
  <2>1. p.out \in Seq(Written(A))
    BY <1>15 DEF InOrder, A
  <2>2. \A k \in 1..Len(rows) : k \in 1..(1 + Len(p.out) - 1) \/ rows[k] \in Written(A)
    <3>1. CASE rows \in Seq(Written(A))
      BY <3>1, ListOf
    <3>2. CASE Len(rows) <= Len(p.out)
      BY <1>7, <3>2
    <3> QED
      BY <1>15, <3>1, <3>2
  <2>3. 1 \in Nat \ {0}
    OBVIOUS
  <2> QED
    BY <1>1, <1>5, <2>1, <2>2, <2>3, WrittenCells
<1>19. ASSUME InOrder(kind, header, rows, handEdits, "rewrite", p), Remains(kind, rows, p), p.count > Len(p.out)
       PROVE  Remains(kind, rows', p) /\ Headed(A, rows', p)
  <2>1. p.out \in Seq(Written(A)) /\ Len(rows) <= p.count /\ kind \in Details
    BY <1>19 DEF InOrder, A, Remains
  <2>2. DOMAIN rows' = 1..Len(rows') /\ Len(rows') \in Nat
    BY <1>8, ListOf
  <2>3. \A k \in DOMAIN rows' : k <= Len(p.out) => rows'[k] \in Written(A)
    <3> SUFFICES ASSUME NEW k \in DOMAIN rows', k <= Len(p.out) PROVE rows'[k] \in Written(A)
      OBVIOUS
    <3>1. k \in DOMAIN p.out /\ k \in Nat \ {0}
      BY <1>7, <2>2
    <3>2. rows'[k] = p.out[k]
      BY <1>9, <3>1 DEF At
    <3>3. p.out[k] \in Written(A)
      BY <2>1, <3>1, ListOf
    <3> QED
      BY <3>2, <3>3
  <2>4. Len(rows') <= p.count
    <3>1. Len(rows') <= Len(rows) \/ Len(rows') <= Len(p.out)
      BY <1>7, <1>8
    <3> QED
      BY <1>3, <1>7, <1>19, <2>1, <2>2, <3>1
  <2> QED
    BY <2>1, <2>3, <2>4 DEF Remains, Headed
<1>16. "rewrite" \in Stages \ {"idle"} /\ "clear" \in Stages /\ "idle" \in Stages
  BY DEF Stages
<1>17. CASE Advances(w, "clear", p)
  <2>1. PlanFits(kind, header, "clear", p)
    BY <1>3, <1>4 DEF PlanFits
  <2>2. ASSUME InOrder(kind, header, rows, handEdits, "rewrite", p)
        PROVE  InOrder(kind, header, rows', handEdits, "clear", p)
    <3>1. CASE rows \in Seq(Written(A)) \/ Len(rows) <= Len(p.out)
      BY <1>4, <1>15, <2>2, <3>1, IdleInOrder DEF A
    <3>2. CASE Remains(kind, rows, p) /\ p.count > Len(p.out)
      BY <1>4, <1>19, <2>2, <3>2 DEF A, InOrder
    <3>3. Remains(kind, rows, p) /\ ~(p.count > Len(p.out)) => Len(rows) <= Len(p.out)
      BY <1>3, <1>7 DEF Remains
    <3>4. rows \in Seq(Written(A)) \/ Len(rows) <= Len(p.out) \/ Remains(kind, rows, p)
      BY <2>2 DEF InOrder, A
    <3> QED
      BY <3>1, <3>2, <3>3, <3>4
  <2>3. TabInv'
    BY <1>1, <1>3, <1>8, <1>14, <1>16, <1>17, <2>1, <2>2, WritingStep DEF p
  <2> QED
    BY <1>12, <2>3
<1>18. CASE Advances(w, "idle", NoPlan) /\ ~(p.count > Len(p.out))
  <2>1. ASSUME InOrder(kind, header, rows, handEdits, "rewrite", p)
        PROVE  InOrder(kind, header, rows', handEdits, "idle", NoPlan)
    <3>1. Remains(kind, rows, p) => Len(rows) <= Len(p.out)
      BY <1>3, <1>7, <1>18 DEF Remains
    <3>2. rows \in Seq(Written(A)) \/ Len(rows) <= Len(p.out) \/ Remains(kind, rows, p)
      BY <2>1 DEF InOrder, A
    <3>3. rows' \in Seq(Written(A))
      BY <1>15, <2>1, <3>1, <3>2
    <3> QED
      BY <1>4, <3>3, IdleInOrder DEF A
  <2>2. TabInv'
    BY <1>1, <1>8, <1>16, <1>18, <2>1, NoPlanFits, WritingStep DEF p
  <2> QED
    BY <1>12, <2>2
<1> QED
  BY <1>2, <1>17, <1>18

LEMMA ClearTailStep ==
  ASSUME TabInv, NEW w \in Writers, ClearTail(w)
  PROVE  TabInv' /\ Careful(w)
<1> DEFINE p == plan[w]
           first == Len(p.out) + 1
<1>1. /\ pc[w] = "clear" /\ rows' = Clear(rows, first, p.count)
      /\ UNCHANGED <<kind, header, now, bounds>>
  BY DEF ClearTail
<1>2. Advances(w, "idle", NoPlan)
  BY FinishAdvances DEF ClearTail
<1>3. PlanFits(kind, header, "clear", p) /\ p.out \in Seq(Written(Orders)) /\ p.count \in Nat
  BY <1>1, PlanOf
<1>4. header = "new"
  BY <1>3 DEF PlanFits
<1>5. rows \in Seq(Written(Orders))
  BY DEF TabInv, TabShape
<1>6. ~disturbed[w] /\ kind # "replace"
        => (p.scratch \/ Keeps(rows, p.out)) /\ \A k \in DOMAIN p.out : At(rows, k) = p.out[k]
  <2>1. UndisturbedKeeps
    BY DEF TabInv
  <2>2. ~disturbed[w] /\ kind # "replace" => PlanKeeps(rows, "clear", p)
    BY <1>1, <2>1 DEF UndisturbedKeeps
  <2> QED
    BY <2>2 DEF PlanKeeps
<1> HIDE DEF p
<1>7. DOMAIN p.out = 1..Len(p.out) /\ Len(p.out) \in Nat
  BY <1>3, ListOf
<1>8. first \in Nat \ {0} /\ \A k \in DOMAIN p.out : k \notin first..p.count /\ k \in Nat \ {0}
  BY <1>7
<1> HIDE DEF first
<1>9. ASSUME NEW C, rows \in Seq(Written(C))
      PROVE  /\ rows' \in Seq(Written(C))
             /\ \A k \in Nat \ {0} : At(rows', k) = IF k \in first..p.count THEN Blank ELSE At(rows, k)
  <2> DEFINE last == p.count
  <2>1. first \in Nat \ {0} /\ last \in Nat /\ rows' = Clear(rows, first, last)
    BY <1>1, <1>3, <1>8
  <2> HIDE DEF last
  <2>3. \A k \in DOMAIN rows : k \in first..last \/ rows[k] \in Written(C)
    BY <1>9, ListOf
  <2>2. rows' \in Seq(Written(C)) /\ Cleared(rows, first, last, rows')
    BY <1>9, <2>1, <2>3, ClearedCells
  <2> QED
    BY <2>2 DEF last, Cleared
<1>10. rows' \in Seq(Written(Orders)) /\ \A k \in DOMAIN p.out : At(rows', k) = At(rows, k)
  BY <1>5, <1>8, <1>9
<1>11. Careful(w)
  <2> SUFFICES ASSUME kind # "replace", ~disturbed[w], ~p.scratch PROVE Keeps(rows, rows')
    BY DEF Careful, p
  <2>1. Keeps(rows, p.out) /\ \A k \in DOMAIN p.out : At(rows', k) = p.out[k]
    BY <1>6, <1>10
  <2>2. Keeps(p.out, rows')
    <3> SUFFICES ASSUME NEW i \in Nat \ {0}, Filled(At(p.out, i))
                 PROVE  At(rows', i) = At(p.out, i)
      BY DEF Keeps
    <3>1. i \in DOMAIN p.out
      BY BlankIsEmpty DEF At
    <3> QED
      BY <2>1, <3>1 DEF At
  <2> QED
    BY <2>1, <2>2, KeepsFurther
<1>15. ASSUME NEW C, Remains(kind, rows, p), Headed(C, rows, p)
       PROVE  rows' \in Seq(Written(C))
  <2>1. DOMAIN rows = 1..Len(rows) /\ Len(rows) \in Nat /\ Len(rows) <= p.count
    BY <1>5, <1>15, ListOf DEF Remains
  <2>2. \A k \in DOMAIN rows : k \in first..p.count \/ rows[k] \in Written(C)
    BY <1>3, <1>7, <1>15, <2>1 DEF Headed, first
  <2> DEFINE last == p.count
  <2>3. first \in Nat \ {0} /\ last \in Nat /\ rows' = Clear(rows, first, last)
    BY <1>1, <1>3, <1>8
  <2>4. \A k \in DOMAIN rows : k \in first..last \/ rows[k] \in Written(C)
    BY <2>2
  <2> HIDE DEF last
  <2> QED
    BY <1>5, <2>3, <2>4, ClearedCells
<1>12. ASSUME InOrder(kind, header, rows, handEdits, "clear", p)
       PROVE  InOrder(kind, header, rows', handEdits, "idle", NoPlan)
  <2> DEFINE A == Allowed(kind, "new", handEdits)
  <2>1. rows \in Seq(Written(A)) \/ (Remains(kind, rows, p) /\ Headed(A, rows, p))
    BY <1>12 DEF InOrder
  <2> HIDE DEF A
  <2>2. rows' \in Seq(Written(A))
    BY <1>9, <1>15, <2>1
  <2> QED
    BY <1>4, <2>2, IdleInOrder DEF A
<1>13. "clear" \in Stages \ {"idle"} /\ "idle" \in Stages
  BY DEF Stages
<1>14. TabInv'
  BY <1>1, <1>2, <1>10, <1>12, <1>13, NoPlanFits, WritingStep DEF p
<1> QED
  BY <1>11, <1>14

LEMMA RestOf ==
  ASSUME NEW S, NEW s \in Seq(S), s # <<>>
  PROVE  /\ 1 \in DOMAIN s /\ Head(s) = s[1] /\ Head(s) \in S /\ Tail(s) \in Seq(S)
         /\ \A k \in DOMAIN Tail(s) : k + 1 \in DOMAIN s /\ Tail(s)[k] = s[k + 1]
<1>1. DOMAIN s = 1..Len(s) /\ Len(s) \in Nat /\ Len(s) # 0
  OBVIOUS
<1>2. Head(s) = s[1] /\ 1 \in DOMAIN s /\ Head(s) \in S
  BY <1>1
<1>3. Tail(s) \in Seq(S)
  OBVIOUS
<1>4. DOMAIN Tail(s) = 1..(Len(s) - 1)
  OBVIOUS
<1>5. \A k \in DOMAIN Tail(s) : k + 1 \in DOMAIN s
  BY <1>1, <1>4
<1>6. \A k \in DOMAIN Tail(s) : Tail(s)[k] = s[k + 1]
  OBVIOUS
<1> QED
  BY <1>2, <1>3, <1>5, <1>6

LEMMA UpdateStep ==
  ASSUME TabInv, NEW w \in Writers, Update(w)
  PROVE  TabInv' /\ Careful(w)
<1> DEFINE p == plan[w]
           first == Head(p.todo)
           q == [p EXCEPT !.todo = Tail(p.todo)]
<1>1. /\ pc[w] = "update" /\ rows' = Write(rows, first.at, <<first.row>>)
      /\ UNCHANGED <<kind, header, now, bounds>>
  BY DEF Update
<1>2. IF q.todo # <<>> THEN Proceed(w, "update", q)
      ELSE IF q.out # <<>> THEN Proceed(w, "append", q) ELSE Finish(w)
  BY DEF Update
<1>3. /\ p \in Plans /\ PlanFits(kind, header, "update", p)
  BY <1>1, PlanOf
<1>4. /\ kind # "replace" /\ header = "new" /\ p.was \in {"old", "new"}
      /\ p.out \in Seq(NewRows) /\ p.todo \in Seq(Patches(Orders)) /\ p.todo # <<>>
      /\ (p.scratch => kind \in Details)
  BY <1>3 DEF PlanFits
<1>5. ~disturbed[w] => \A k \in DOMAIN p.todo : SameRow(rows, p.todo[k])
  <2>1. UndisturbedKeeps
    BY DEF TabInv
  <2>2. ~disturbed[w] => PlanKeeps(rows, "update", p)
    BY <1>1, <1>4, <2>1 DEF UndisturbedKeeps
  <2> QED
    BY <2>2 DEF PlanKeeps
<1>6. rows \in Seq(Written(Orders))
  BY DEF TabInv, TabShape
<1> HIDE DEF p
<1>7. q \in Plans /\ q.todo = Tail(p.todo) /\ q.out = p.out /\ q.was = p.was /\ (q.scratch => p.scratch)
  <2>1. Tail(p.todo) \in Seq(Patches(Orders))
    BY <1>4, RestOf
  <2>2. Tail(p.todo) \in Seq(Patches(Orders) \union Written(Orders))
    BY <2>1
  <2> DEFINE t == Tail(p.todo)
  <2> HIDE DEF t
  <2>3. [p EXCEPT !.todo = t] \in Plans /\ [p EXCEPT !.todo = t].todo = t
        /\ [p EXCEPT !.todo = t].out = p.out /\ [p EXCEPT !.todo = t].was = p.was
        /\ [p EXCEPT !.todo = t].scratch = p.scratch
    BY <1>3, <2>2 DEF Plans, t
  <2> QED
    BY <2>3 DEF t
<1> HIDE DEF q
<1>8. /\ 1 \in DOMAIN p.todo /\ first = p.todo[1]
      /\ \A k \in DOMAIN q.todo : k + 1 \in DOMAIN p.todo /\ q.todo[k] = p.todo[k + 1]
  BY <1>4, <1>7, RestOf
<1>9. ASSUME NEW C, p.todo \in Seq(Patches(C)), rows \in Seq(Written(C))
      PROVE  /\ q.todo \in Seq(Patches(C)) /\ rows' \in Seq(Written(C))
             /\ \A k \in Nat \ {0} : At(rows', k) = IF k = first.at THEN first.row ELSE At(rows, k)
  <2>1. q.todo \in Seq(Patches(C)) /\ first \in Patches(C)
    BY <1>4, <1>7, <1>9, RestOf
  <2> DEFINE n == first.at
             row == first.row
  <2>2. n \in Nat \ {0} /\ row \in Written(C)
    BY <2>1 DEF Patches
  <2> HIDE DEF n, row
  <2>3. <<row>> \in Seq(Written(C)) /\ Len(<<row>>) = 1 /\ <<row>>[1] = row
    BY <2>2
  <2>4. \A k \in 1..Len(rows) : k \in n..(n + Len(<<row>>) - 1) \/ rows[k] \in Written(C)
    BY <1>9, ListOf
  <2>5. rows' = Write(rows, n, <<row>>)
    BY <1>1 DEF n, row
  <2>6. rows' \in Seq(Written(C)) /\ Overwritten(rows, n, <<row>>, rows')
    BY <1>9, <2>2, <2>3, <2>4, <2>5, WrittenCells
  <2>7. \A k \in Nat \ {0} : /\ k \in n..(n + Len(<<row>>) - 1) <=> k = n
                             /\ k = n => k - n + 1 = 1
    BY <2>2, <2>3
  <2>8. \A k \in Nat \ {0} : At(rows', k) = IF k = n THEN row ELSE At(rows, k)
    BY <2>3, <2>6, <2>7 DEF Overwritten
  <2> QED
    BY <2>1, <2>6, <2>8 DEF n, row
<1>10. /\ q.todo \in Seq(Patches(Orders)) /\ rows' \in Seq(Written(Orders))
       /\ \A k \in Nat \ {0} : At(rows', k) = IF k = first.at THEN first.row ELSE At(rows, k)
  BY <1>4, <1>6, <1>9
<1> HIDE DEF first
<1>11. ~disturbed[w] => \A k \in Nat \ {0} : /\ At(rows', k).key = At(rows, k).key
                                             /\ At(rows', k).own = At(rows, k).own
  <2> SUFFICES ASSUME ~disturbed[w], NEW k \in Nat \ {0}
               PROVE  At(rows', k).key = At(rows, k).key /\ At(rows', k).own = At(rows, k).own
    OBVIOUS
  <2>1. SameRow(rows, first)
    BY <1>5, <1>8
  <2>2. CASE k = first.at
    <3>1. At(rows', k) = first.row /\ At(rows, first.at) = At(rows, k)
      BY <1>10, <2>2
    <3> QED
      BY <2>1, <3>1 DEF SameRow
  <2>3. CASE k # first.at
    <3>1. At(rows', k) = At(rows, k)
      BY <1>10, <2>3
    <3> QED
      BY <3>1
  <2> QED
    BY <2>2, <2>3
<1>12. Careful(w)
  <2> SUFFICES ASSUME ~disturbed[w] PROVE Keeps(rows, rows')
    BY DEF Careful
  <2> QED
    BY <1>11 DEF Keeps
<1>13. ~disturbed[w] => \A k \in DOMAIN q.todo : SameRow(rows', q.todo[k])
  <2> SUFFICES ASSUME ~disturbed[w], NEW k \in DOMAIN q.todo PROVE SameRow(rows', q.todo[k])
    OBVIOUS
  <2>1. SameRow(rows, q.todo[k])
    BY <1>5, <1>8
  <2>2. q.todo[k] \in Patches(Orders)
    BY <1>10, ListOf
  <2>3. q.todo[k].at \in Nat \ {0}
    BY <2>2 DEF Patches
  <2> QED
    BY <1>11, <2>1, <2>3 DEF SameRow
<1>14. ASSUME InOrder(kind, header, rows, handEdits, "update", p)
       PROVE  /\ rows' \in Seq(Written(Allowed(kind, "new", handEdits)))
              /\ q.todo \in Seq(Patches(Allowed(kind, "new", handEdits)))
  <2>1. /\ rows \in Seq(Written(Allowed(kind, "new", handEdits)))
        /\ p.todo \in Seq(Patches(Allowed(kind, "new", handEdits)))
    BY <1>4, <1>14 DEF InOrder
  <2> QED
    BY <1>9, <2>1
<1>15. "update" \in Stages \ {"idle"} /\ "append" \in Stages /\ "idle" \in Stages
  BY DEF Stages
<1>16. CASE q.todo # <<>> /\ Proceed(w, "update", q)
  <2>1. Advances(w, "update", q)
    BY <1>16, ProceedAdvances
  <2>2. PlanFits(kind, header, "update", q)
    BY <1>3, <1>4, <1>7, <1>10, <1>16 DEF PlanFits
  <2>3. InOrder(kind, header, rows, handEdits, "update", p) => InOrder(kind, header, rows', handEdits, "update", q)
    BY <1>4, <1>14 DEF InOrder
  <2>4. ~disturbed[w] => PlanKeeps(rows', "update", q)
    BY <1>13 DEF PlanKeeps
  <2>5. TabInv'
    BY <1>1, <1>7, <1>10, <1>15, <2>1, <2>2, <2>3, <2>4, WritingStep DEF p
  <2> QED
    BY <1>12, <2>5
<1>17. CASE Proceed(w, "append", q)
  <2>1. Advances(w, "append", q)
    BY <1>17, ProceedAdvances
  <2>2. PlanFits(kind, header, "append", q)
    BY <1>3, <1>4, <1>7 DEF PlanFits
  <2>3. InOrder(kind, header, rows, handEdits, "update", p) => InOrder(kind, header, rows', handEdits, "append", q)
    BY <1>4, <1>14 DEF InOrder
  <2>4. PlanKeeps(rows', "append", q)
    BY DEF PlanKeeps
  <2>5. TabInv'
    BY <1>1, <1>7, <1>10, <1>15, <2>1, <2>2, <2>3, <2>4, WritingStep DEF p
  <2> QED
    BY <1>12, <2>5
<1>18. CASE Finish(w)
  <2>1. Advances(w, "idle", NoPlan)
    BY <1>18, FinishAdvances
  <2>2. InOrder(kind, header, rows, handEdits, "update", p) => InOrder(kind, header, rows', handEdits, "idle", NoPlan)
    BY <1>4, <1>14, IdleInOrder
  <2>3. TabInv'
    BY <1>1, <1>10, <1>15, <2>1, <2>2, NoPlanFits, WritingStep DEF p
  <2> QED
    BY <1>12, <2>3
<1> QED
  BY <1>2, <1>16, <1>17, <1>18 DEF q

LEMMA AppendRowsStep ==
  ASSUME TabInv, NEW w \in Writers, AppendRows(w)
  PROVE  TabInv' /\ Careful(w)
<1> DEFINE out == plan[w].out
<1>1. /\ pc[w] = "append" /\ rows' = rows \o out
      /\ UNCHANGED <<kind, header, now, bounds>>
  BY DEF AppendRows
<1>2. Advances(w, "idle", NoPlan)
  BY FinishAdvances DEF AppendRows
<1>3. header = "new" /\ out \in Seq(NewRows)
  <2>1. PlanFits(kind, header, "append", plan[w])
    BY <1>1, PlanOf
  <2> QED
    BY <2>1 DEF PlanFits
<1>4. rows \in Seq(Written(Orders))
  BY DEF TabInv, TabShape
<1> HIDE DEF out
<1>5. ASSUME NEW C, rows \in Seq(Written(C)) PROVE rows' \in Seq(Written(C))
  <2>1. out \in Seq(Written(C))
    BY <1>3, NewRowsWritten
  <2> QED
    BY <1>1, <1>5, <2>1
<1>6. rows' \in Seq(Written(Orders))
  BY <1>4, <1>5
<1>7. Careful(w)
  <2>1. \A k \in DOMAIN rows : k \in DOMAIN rows' /\ rows'[k] = rows[k]
    BY <1>1, <1>3, <1>4
  <2>2. Kept(rows, rows')
    BY <2>1 DEF Kept, HasRow
  <2>3. Keeps(rows, rows')
    BY <1>4, <1>6, <2>2, KeptIsKeeps
  <2> QED
    BY <2>3 DEF Careful
<1>8. InOrder(kind, header, rows, handEdits, pc[w], plan[w]) => InOrder(kind, header, rows', handEdits, "idle", NoPlan)
  <2>1. InOrder(kind, header, rows, handEdits, pc[w], plan[w]) => rows \in Seq(Written(Allowed(kind, "new", handEdits)))
    BY <1>1, <1>3 DEF InOrder
  <2> QED
    BY <1>3, <1>5, <2>1, IdleInOrder
<1>9. pc[w] \in Stages \ {"idle"} /\ "idle" \in Stages
  BY <1>1 DEF Stages
<1>10. TabInv'
  BY <1>1, <1>2, <1>6, <1>8, <1>9, NoPlanFits, WritingStep
<1> QED
  BY <1>7, <1>10

LEMMA NextBatch ==
  ASSUME NEW S, NEW out \in Seq(S), NEW n \in Nat, n <= Len(out), NEW size \in Nat \ {0}
  PROVE  LET last == n + size
             next == SubSeq(out, n + 1, IF last < Len(out) THEN last ELSE Len(out))
         IN  next \in Seq(S) /\ n + Len(next) <= Len(out)
<1> DEFINE end == IF n + size < Len(out) THEN n + size ELSE Len(out)
<1>1. Len(out) \in Nat
  OBVIOUS
<1>2. end \in Nat /\ n <= end /\ end <= Len(out)
  BY <1>1
<1> HIDE DEF end
<1>3. SubSeq(out, n + 1, end) \in Seq(S) /\ Len(SubSeq(out, n + 1, end)) = end - n
  BY <1>1, <1>2
<1>4. n + (end - n) = end
  BY <1>2
<1> QED
  BY <1>2, <1>3, <1>4 DEF end

LEMMA BatchStep ==
  ASSUME TabInv, NEW w \in Writers, Batch(w)
  PROVE  TabInv' /\ Careful(w)
<1> DEFINE p == plan[w]
           n == Len(p.todo)
           last == n + BatchSize
           next == SubSeq(p.out, n + 1, IF last < Len(p.out) THEN last ELSE Len(p.out))
           q == [p EXCEPT !.todo = p.todo \o next]
<1>1. /\ pc[w] = "batch" /\ rows' = Write(rows, n + 1, next)
      /\ UNCHANGED <<kind, header, now, bounds>>
  BY DEF Batch
<1>2. Proceed(w, "batch", q) \/ ToClear(w)
  BY DEF Batch
<1>3. /\ p \in Plans /\ PlanFits(kind, header, "batch", p)
      /\ p.todo \in Seq(Patches(Orders) \union Written(Orders))
  BY <1>1, PlanOf
<1>4. /\ kind = "replace" /\ header = "new" /\ p.was = "new"
      /\ p.out \in Seq(NewRows) /\ n <= Len(p.out)
      /\ (p.scratch => kind \in Details)
  BY <1>3 DEF PlanFits
<1>5. rows \in Seq(Written(Orders)) /\ BatchSize \in Nat \ {0}
  BY TabAssumption DEF TabInv, TabShape
<1> HIDE DEF p
<1>6. n \in Nat /\ n + 1 \in Nat \ {0}
  BY <1>3, ListOf
<1>7. next \in Seq(NewRows) /\ n + Len(next) <= Len(p.out)
  <2> HIDE DEF n
  <2> QED
    BY <1>4, <1>5, <1>6, NextBatch
<1> HIDE DEF next
<1>8. next \in Seq(Written(Orders)) /\ next \in Seq(Patches(Orders) \union Written(Orders))
  <2>1. next \in Seq(Written(Orders))
    BY <1>7, NewRowsWritten
  <2> QED
    BY <2>1
<1>9. q \in Plans /\ q.todo = p.todo \o next /\ q.out = p.out /\ q.was = "new" /\ (q.scratch => p.scratch)
  <2> DEFINE t == p.todo \o next
  <2>1. t \in Seq(Patches(Orders) \union Written(Orders))
    BY <1>3, <1>8
  <2> HIDE DEF t
  <2>2. /\ [p EXCEPT !.todo = t] \in Plans /\ [p EXCEPT !.todo = t].todo = t
        /\ [p EXCEPT !.todo = t].out = p.out /\ [p EXCEPT !.todo = t].was = p.was
        /\ [p EXCEPT !.todo = t].scratch = p.scratch
    BY <1>3, <2>1 DEF Plans
  <2> QED
    BY <1>4, <2>2 DEF t
<1>10. Len(q.todo) <= Len(q.out)
  <2>1. Len(p.todo \o next) = n + Len(next)
    BY <1>3, <1>8
  <2> HIDE DEF q, n
  <2> QED
    BY <1>7, <1>9, <2>1
<1> HIDE DEF q, n
<1>11. ASSUME NEW C, rows \in Seq(Written(C)) PROVE rows' \in Seq(Written(C))
  <2>1. next \in Seq(Written(C))
    BY <1>7, NewRowsWritten
  <2>2. \A k \in 1..Len(rows) : k \in (n + 1)..((n + 1) + Len(next) - 1) \/ rows[k] \in Written(C)
    BY <1>11, ListOf
  <2> DEFINE first == n + 1
  <2>3. /\ first \in Nat \ {0} /\ rows' = Write(rows, first, next)
        /\ \A k \in 1..Len(rows) : k \in first..(first + Len(next) - 1) \/ rows[k] \in Written(C)
    BY <1>1, <1>6, <2>2
  <2> HIDE DEF first
  <2> QED
    BY <1>11, <2>1, <2>3, WrittenCells
<1>12. rows' \in Seq(Written(Orders))
  BY <1>5, <1>11
<1>13. InOrder(kind, header, rows, handEdits, "batch", p) => rows' \in Seq(Written(Allowed(kind, "new", handEdits)))
  <2>1. InOrder(kind, header, rows, handEdits, "batch", p) => rows \in Seq(Written(Allowed(kind, "new", handEdits)))
    BY <1>4 DEF InOrder
  <2> QED
    BY <1>11, <2>1
<1>14. "batch" \in Stages \ {"idle"} /\ "clear" \in Stages /\ "idle" \in Stages
  BY DEF Stages
<1>15. Careful(w)
  BY <1>4 DEF Careful
<1>16. CASE Proceed(w, "batch", q)
  <2>1. Advances(w, "batch", q)
    BY <1>16, ProceedAdvances
  <2>2. PlanFits(kind, header, "batch", q)
    BY <1>3, <1>4, <1>9, <1>10 DEF PlanFits
  <2>3. InOrder(kind, header, rows, handEdits, "batch", p) => InOrder(kind, header, rows', handEdits, "batch", q)
    BY <1>4, <1>13 DEF InOrder
  <2>4. TabInv'
    BY <1>1, <1>4, <1>9, <1>12, <1>14, <2>1, <2>2, <2>3, WritingStep DEF p
  <2> QED
    BY <1>15, <2>4
<1>17. CASE Advances(w, "clear", p)
  <2>1. PlanFits(kind, header, "clear", p)
    BY <1>4 DEF PlanFits
  <2>2. InOrder(kind, header, rows, handEdits, "batch", p) => InOrder(kind, header, rows', handEdits, "clear", p)
    BY <1>4, <1>13, IdleInOrder
  <2>3. TabInv'
    BY <1>1, <1>3, <1>4, <1>12, <1>14, <1>17, <2>1, <2>2, WritingStep DEF p
  <2> QED
    BY <1>15, <2>3
<1>18. CASE Advances(w, "idle", NoPlan)
  <2>1. InOrder(kind, header, rows, handEdits, "batch", p) => InOrder(kind, header, rows', handEdits, "idle", NoPlan)
    BY <1>4, <1>13, IdleInOrder
  <2>2. TabInv'
    BY <1>1, <1>12, <1>14, <1>18, <2>1, NoPlanFits, WritingStep DEF p
  <2> QED
    BY <1>15, <2>2
<1> QED
  BY <1>2, <1>16, <1>17, <1>18, ToClearAdvances DEF p

LEMMA FailStep ==
  ASSUME TabInv, NEW w \in Writers, Fail(w)
  PROVE  TabInv'
<1>1. /\ failures' = failures + 1 /\ Finish(w)
      /\ kind' = kind /\ header' = header /\ rows' = rows /\ now' = now
      /\ manual' = manual /\ handEdits' = handEdits
  BY DEF Fail
<1>2. Advances(w, "idle", NoPlan)
  BY <1>1, FinishAdvances
<1>3. Moves(w, "idle", NoPlan) /\ Spared(w) /\ DOMAIN disturbed' = Writers
  BY <1>2 DEF Advances, Spared
<1>4. manual' \in Nat /\ failures' \in Nat /\ failures' # 0 /\ rows' \in Seq(Written(Orders))
  BY <1>1 DEF TabInv, TabShape
<1>5. ~Quiet'
  BY <1>4 DEF Quiet
<1>6. PlanKeeps(rows', "idle", NoPlan) /\ "idle" \in Stages
  BY DEF PlanKeeps, Stages
<1> QED
  BY <1>1, <1>3, <1>4, <1>5, <1>6, NoPlanFits, WriterStep
-----------------------------------------------------------------------------
(* Steps of the world.                                                     *)

LEMMA RefreshStep ==
  ASSUME TabInv, Refresh
  PROVE  TabInv'
<1>1. /\ now < Len(Contents) /\ now' = now + 1
      /\ kind' = kind /\ header' = header /\ rows' = rows /\ pc' = pc /\ plan' = plan
      /\ disturbed' = disturbed /\ manual' = manual /\ handEdits' = handEdits /\ failures' = failures
  BY DEF Refresh, bounds
<1>2. DOMAIN Contents = 1..Len(Contents) /\ Len(Contents) \in Nat
  <2>1. Contents \in Seq(Seq(NewRows))
    BY TabAssumption DEF NewRows
  <2> QED
    BY <2>1, ListOf
<1>3. now' \in DOMAIN Contents
  BY <1>1, <1>2 DEF TabInv, TabShape
<1>4. TabShape'
  BY <1>1, <1>3 DEF TabInv, TabShape
<1>5. UndisturbedKeeps' /\ QuietTab'
  BY <1>1 DEF TabInv, UndisturbedKeeps, QuietTab, Quiet
<1> QED
  BY <1>4, <1>5 DEF TabInv

\* An edit writes in the order of the header that the tab shows.
Edited(s, t, h) == \A C : s \in Seq(Written(C)) => t \in Seq(Written(C \union {h}))

LEMMA EditInOrder ==
  ASSUME NEW h \in {"old", "new"}, NEW r \in Seq(Written(Orders)), NEW t \in Seq(Written(Orders)),
         NEW e \in Nat, NEW k, NEW s, NEW p, PlanFits(k, h, s, p), InOrder(k, h, r, e, s, p),
         Edited(r, t, h), Len(t) <= Len(r), Unique(r) => Unique(t)
  PROVE  InOrder(k, h, t, e + 1, s, p)
<1> DEFINE A == Allowed(k, h, e)
           B == Allowed(k, h, e + 1)
           N == Allowed(k, "new", e)
           M == Allowed(k, "new", e + 1)
<1>1. A \union {h} \subseteq B /\ N \subseteq M /\ Mixed(e) \union {h} \subseteq Mixed(e + 1)
  <2>1. e + 1 > 0
    OBVIOUS
  <2> QED
    BY <2>1 DEF Allowed, Mixed, Orders
<1>2. s \in {"read", "rewrite", "clear", "update"} => h = "new"
  BY DEF PlanFits
<1>3. s \notin {"read", "rewrite", "clear"} => t \in Seq(Written(B))
  <2>1. r \in Seq(Written(A)) => t \in Seq(Written(A \union {h}))
    BY DEF Edited
  <2>2. s \notin {"read", "rewrite", "clear"} => r \in Seq(Written(A))
    BY DEF InOrder
  <2> HIDE DEF A, B
  <2> QED
    BY <1>1, <2>1, <2>2, WrittenGrows
<1>4. h = "new" => A = N /\ B = M
  OBVIOUS
<1>5. r \in Seq(Written(N)) /\ h = "new" => t \in Seq(Written(M))
  <2>1. r \in Seq(Written(N)) => t \in Seq(Written(N \union {h}))
    BY DEF Edited
  <2> HIDE DEF A, B, N, M
  <2> QED
    BY <1>1, <1>4, <2>1, WrittenGrows
<1>6. r \in Seq(Written(Mixed(e))) => t \in Seq(Written(Mixed(e + 1)))
  <2>1. r \in Seq(Written(Mixed(e))) => t \in Seq(Written(Mixed(e) \union {h}))
    BY DEF Edited
  <2> QED
    BY <1>1, <2>1, WrittenGrows
<1>9. k \in Details => t \in Seq(Written(M))
  <2>1. k \in Details => Orders \subseteq M
    BY DEF Allowed
  <2> HIDE DEF M
  <2> QED
    BY <2>1, WrittenGrows
<1>7. s = "rewrite" => /\ p.out \in Seq(Written(M))
                       /\ t \in Seq(Written(M)) \/ Len(t) <= Len(p.out) \/ Remains(k, t, p)
  <2> SUFFICES ASSUME s = "rewrite"
               PROVE  p.out \in Seq(Written(M)) /\ (t \in Seq(Written(M)) \/ Len(t) <= Len(p.out) \/ Remains(k, t, p))
    OBVIOUS
  <2>1. p.out \in Seq(Written(N)) /\ (r \in Seq(Written(N)) \/ Len(r) <= Len(p.out) \/ k \in Details)
    BY DEF InOrder, Remains
  <2>4. k \in Details => t \in Seq(Written(M))
    BY <1>9
  <2> HIDE DEF A, B, N, M
  <2>2. p.out \in Seq(Written(M))
    BY <1>1, <2>1, WrittenGrows
  <2>3. Len(p.out) \in Nat /\ Len(r) \in Nat /\ Len(t) \in Nat
    BY <2>1, ListOf
  <2> QED
    BY <1>2, <1>5, <2>1, <2>2, <2>3, <2>4
<1>8. s = "update" => p.todo \in Seq(Patches(M))
  <2>1. s = "update" => p.todo \in Seq(Patches(N))
    BY DEF InOrder
  <2> HIDE DEF A, B, N, M
  <2> QED
    BY <1>1, <2>1, WrittenGrows
<1>10. s = "clear" => t \in Seq(Written(M))
  <2>1. s = "clear" => r \in Seq(Written(N)) \/ k \in Details
    BY DEF InOrder, Remains
  <2> QED
    BY <1>2, <1>5, <1>9, <2>1
<1> QED
  BY <1>2, <1>3, <1>5, <1>6, <1>7, <1>8, <1>10 DEF InOrder

LEMMA EditStep ==
  ASSUME TabInv, NEW new, Edit(new), Edited(rows, new, header), Len(new) <= Len(rows),
         Unique(rows) => Unique(new)
  PROVE  TabInv'
<1>1. /\ handEdits' = handEdits + 1 /\ rows' = new
      /\ kind' = kind /\ header' = header /\ now' = now /\ pc' = pc /\ plan' = plan
      /\ manual' = manual /\ failures' = failures
  BY DEF Edit
<1>2. disturbed' = [w \in Writers |-> disturbed[w] \/ pc[w] \notin Reading \union {"idle"}]
  BY DEF Edit
<1>3. DOMAIN disturbed' = Writers /\ \A w \in Writers : ~disturbed'[w] => pc[w] \in Reading \union {"idle"}
  BY <1>2
<1>4. /\ rows \in Seq(Written(Orders)) /\ header \in {"old", "new"} /\ handEdits \in Nat
      /\ \A w \in Writers : PlanFits(kind, header, pc[w], plan[w])
  BY DEF TabInv, TabShape
<1>5. new \in Seq(Written(Orders))
  <2>1. new \in Seq(Written(Orders \union {header}))
    BY <1>4 DEF Edited
  <2>2. Orders \union {header} = Orders
    BY <1>4 DEF Orders
  <2> QED
    BY <2>1, <2>2
<1>6. TabShape'
  BY <1>1, <1>3, <1>5 DEF TabInv, TabShape
<1>7. UndisturbedKeeps'
  <2> SUFFICES ASSUME NEW w \in Writers, ~disturbed'[w] PROVE PlanKeeps(rows', pc'[w], plan'[w])
    BY DEF UndisturbedKeeps
  <2>1. pc'[w] \in Reading \union {"idle"}
    BY <1>1, <1>3
  <2> QED
    BY <2>1 DEF PlanKeeps, Reading
<1>8. QuietTab'
  <2> SUFFICES ASSUME Quiet'
               PROVE  /\ \A v \in Writers \ {Loop} : pc'[v] = "idle"
                      /\ InOrder(kind', header', rows', handEdits', pc'[Loop], plan'[Loop])
    BY DEF QuietTab
  <2>1. Quiet
    BY <1>1 DEF Quiet
  <2>2. /\ \A v \in Writers \ {Loop} : pc[v] = "idle"
        /\ InOrder(kind, header, rows, handEdits, pc[Loop], plan[Loop])
    BY <2>1 DEF TabInv, QuietTab
  <2>3. PlanFits(kind, header, pc[Loop], plan[Loop])
    BY <1>4, TabAssumption
  <2>4. InOrder(kind, header, new, handEdits + 1, pc[Loop], plan[Loop])
    BY <1>4, <1>5, <2>2, <2>3, EditInOrder
  <2> QED
    BY <1>1, <2>2, <2>4
<1> QED
  BY <1>6, <1>7, <1>8 DEF TabInv

LEMMA FunctionIsList ==
  ASSUME NEW S, NEW n \in Nat, NEW t \in [1..n -> S]
  PROVE  t \in Seq(S) /\ Len(t) = n
OBVIOUS

LEMMA ListIsFunction ==
  ASSUME NEW S, NEW s \in Seq(S)
  PROVE  s = [k \in 1..Len(s) |-> s[k]]
OBVIOUS

LEMMA TypeStep ==
  ASSUME TabInv, NEW k \in DOMAIN rows, Type(k)
  PROVE  TabInv'
<1> DEFINE row == [rows[k] EXCEPT !.own = "note", !.cols = header]
           new == [j \in DOMAIN rows |-> IF j = k THEN row ELSE rows[j]]
<1>1. rows \in Seq(Written(Orders)) /\ header \in {"old", "new"}
  BY DEF TabInv, TabShape
<1>2. DOMAIN rows = 1..Len(rows) /\ Len(rows) \in Nat
  BY <1>1, ListOf
<1>3. Edit(new)
  <2>1. [rows EXCEPT ![k].own = "note", ![k].cols = header] = new
    <3>1. rows = [j \in DOMAIN rows |-> rows[j]]
      BY <1>1
    <3> QED
      BY <3>1
  <2> QED
    BY <2>1 DEF Type
<1>4. "note" \in Text /\ "note" # ""
  BY TabAssumption
<1>5. ASSUME NEW C, rows[k] \in Written(C)
      PROVE  row \in Written(C \union {header}) /\ row.key = rows[k].key
  <2> DEFINE was == rows[k]
             noted == [was EXCEPT !.own = "note", !.cols = header]
  <2>1. was \in Fields
    BY <1>5 DEF Written
  <2> HIDE DEF was
  <2>2. /\ DOMAIN noted = {"key", "gen", "collected", "own", "cols"}
        /\ noted = [f \in {"key", "gen", "collected", "own", "cols"} |-> noted[f]]
        /\ noted.key = was.key /\ noted.gen = was.gen /\ noted.collected = was.collected
        /\ noted.own = "note" /\ noted.cols = header
    BY <2>1 DEF Fields
  <2> HIDE DEF noted
  <2>3. noted \in Fields
    BY <1>1, <1>4, <2>1, <2>2, RowFields, MakeRow
  <2>4. noted.own # "" /\ noted.cols # "" /\ noted.cols \in C \union {header}
    BY <1>1, <1>4, <2>2
  <2>5. noted \in Written(C \union {header})
    BY <2>3, <2>4 DEF Written
  <2> QED
    BY <2>2, <2>5 DEF noted, was
<1> HIDE DEF row
<1>6. DOMAIN new = DOMAIN rows /\ \A j \in DOMAIN rows : new[j] = IF j = k THEN row ELSE rows[j]
  OBVIOUS
<1>7. ASSUME NEW C, rows \in Seq(Written(C)) PROVE new \in Seq(Written(C \union {header}))
  <2>1. \A j \in DOMAIN rows : rows[j] \in Written(C)
    BY <1>7, ListOf
  <2>2. row \in Written(C \union {header})
    BY <1>5, <2>1
  <2>3. Written(C) \subseteq Written(C \union {header})
    BY WrittenGrows
  <2>4. new \in [1..Len(rows) -> Written(C \union {header})]
    BY <1>2, <2>1, <2>2, <2>3
  <2> HIDE DEF new
  <2> QED
    BY <1>2, <2>4, FunctionIsList
<1>8. Len(new) = Len(rows)
  BY <1>2
<1> HIDE DEF new
<1>9. Edited(rows, new, header)
  BY <1>7 DEF Edited
<1>10. Unique(rows) => Unique(new)
  <2>1. rows[k] \in Written(Orders)
    BY <1>1, ListOf
  <2>2. row.key = rows[k].key
    BY <1>5, <2>1
  <2>3. \A j \in DOMAIN rows : new[j].key = rows[j].key
    BY <1>6, <2>2
  <2> QED
    BY <1>6, <2>3 DEF Unique
<1> QED
  BY <1>2, <1>3, <1>8, <1>9, <1>10, EditStep

\* An edit that only leaves rows away, or puts them in another order.
LEMMA PickedRows ==
  ASSUME NEW D, NEW s \in Seq(Written(D)), NEW n \in Nat, NEW t, NEW from \in [1..n -> DOMAIN s],
         t = [j \in 1..n |-> s[from[j]]], \A i, j \in 1..n : from[i] = from[j] => i = j
  PROVE  /\ \A h : Edited(s, t, h)
         /\ Len(t) = n /\ (Unique(s) => Unique(t))
<1>1. DOMAIN t = 1..n /\ \A j \in 1..n : t[j] = s[from[j]] /\ from[j] \in DOMAIN s
  OBVIOUS
<1>2. Len(t) = n
  OBVIOUS
<1>3. ASSUME NEW h, NEW C, s \in Seq(Written(C)) PROVE t \in Seq(Written(C \union {h}))
  <2>1. \A j \in DOMAIN s : s[j] \in Written(C)
    BY <1>3, ListOf
  <2>2. Written(C) \subseteq Written(C \union {h})
    BY WrittenGrows
  <2>3. t \in [1..n -> Written(C \union {h})]
    BY <2>1, <2>2
  <2> QED
    BY <2>3, FunctionIsList
<1>4. Unique(s) => Unique(t)
  <2> SUFFICES ASSUME Unique(s), NEW i \in 1..n, NEW j \in 1..n, t[i].key # "", t[i].key = t[j].key
               PROVE  i = j
    BY <1>1 DEF Unique
  <2>1. s[from[i]].key # "" /\ s[from[i]].key = s[from[j]].key
    BY <1>1
  <2>2. from[i] = from[j]
    BY <1>1, <2>1 DEF Unique
  <2> QED
    BY <2>2
<1> QED
  BY <1>2, <1>3, <1>4 DEF Edited

LEMMA CutStep ==
  ASSUME TabInv, NEW k \in DOMAIN rows, Cut(k)
  PROVE  TabInv'
<1> DEFINE n == Len(rows) - 1
           from == [j \in 1..n |-> IF j < k THEN j ELSE j + 1]
           new == [j \in 1..n |-> rows[from[j]]]
<1>1. rows \in Seq(Written(Orders))
  BY DEF TabInv, TabShape
<1>2. DOMAIN rows = 1..Len(rows) /\ Len(rows) \in Nat /\ k \in 1..Len(rows) /\ n \in Nat /\ n <= Len(rows)
  BY <1>1, ListOf
<1>3. RemoveAt(rows, k) = new
  <2> DEFINE a == SubSeq(rows, 1, k - 1)
             b == SubSeq(rows, k + 1, Len(rows))
  <2>1. RemoveAt(rows, k) = a \o b
    BY DEF RemoveAt
  <2>2. /\ a \in Seq(Written(Orders)) /\ Len(a) = k - 1
        /\ b \in Seq(Written(Orders)) /\ Len(b) = Len(rows) - k
    BY <1>1, <1>2
  <2>3. \A j \in 1..(k - 1) : a[j] = rows[j]
    BY <1>1, <1>2
  <2>4. \A j \in 1..(Len(rows) - k) : b[j] = rows[k + j]
    BY <1>1, <1>2
  <2> HIDE DEF a, b
  <2>9. a \o b \in Seq(Written(Orders)) /\ Len(a \o b) = n
    <3>1. (k - 1) + (Len(rows) - k) = n
      BY <1>2
    <3>2. a \o b \in Seq(Written(Orders)) /\ Len(a \o b) = Len(a) + Len(b)
      BY <2>2
    <3> QED
      BY <2>2, <3>1, <3>2
  <2>5. DOMAIN (a \o b) = 1..n
    BY <2>9
  <2>6. ASSUME NEW j \in 1..n PROVE (a \o b)[j] = rows[from[j]]
    <3>1. CASE j < k
      <4>1. j \in 1..Len(a) /\ (a \o b)[j] = a[j]
        BY <1>2, <2>2, <3>1
      <4>2. from[j] = j
        BY <3>1
      <4> QED
        BY <1>2, <2>3, <3>1, <4>1, <4>2
    <3>2. CASE ~(j < k)
      <4>1. j - Len(a) \in 1..Len(b) /\ (a \o b)[j] = b[j - Len(a)]
        BY <1>2, <2>2, <3>2
      <4>2. j - Len(a) = j - k + 1 /\ j - k + 1 \in 1..(Len(rows) - k) /\ k + (j - k + 1) = j + 1
        BY <1>2, <2>2, <3>2
      <4>3. from[j] = j + 1
        BY <3>2
      <4> QED
        BY <2>4, <4>1, <4>2, <4>3
    <3> QED
      BY <3>1, <3>2
  <2>7. a \o b = [j \in 1..n |-> (a \o b)[j]]
    BY <2>9, ListIsFunction
  <2> HIDE DEF from
  <2>8. [j \in 1..n |-> (a \o b)[j]] = new
    BY <2>6
  <2> QED
    BY <2>1, <2>7, <2>8
<1>4. from \in [1..n -> DOMAIN rows] /\ \A i, j \in 1..n : from[i] = from[j] => i = j
  BY <1>2
<1>5. Edit(new)
  BY <1>3 DEF Cut
<1> HIDE DEF from, n
<1>6. Edited(rows, new, header) /\ Len(new) = n /\ (Unique(rows) => Unique(new))
  BY <1>1, <1>2, <1>4, PickedRows
<1> HIDE DEF new
<1> QED
  BY <1>2, <1>5, <1>6, EditStep

LEMMA SortStep ==
  ASSUME TabInv, NEW k \in DOMAIN rows, Sort(k)
  PROVE  TabInv'
<1> DEFINE n == Len(rows)
           from == [j \in 1..n |-> IF j = k THEN k - 1 ELSE IF j = k - 1 THEN k ELSE j]
           new == [j \in 1..n |-> rows[from[j]]]
<1>1. rows \in Seq(Written(Orders))
  BY DEF TabInv, TabShape
<1>2. DOMAIN rows = 1..n /\ n \in Nat /\ k \in 1..n /\ k > 1 /\ k - 1 \in 1..n /\ k - 1 # k
  BY <1>1, ListOf DEF Sort
<1>3. Edit(new)
  <2>1. [rows EXCEPT ![k - 1] = rows[k], ![k] = rows[k - 1]] = new
    <3>1. rows = [j \in 1..n |-> rows[j]]
      BY <1>1, <1>2
    <3> HIDE DEF n
    <3>2. [rows EXCEPT ![k - 1] = rows[k], ![k] = rows[k - 1]]
            = [j \in 1..n |-> IF j = k THEN rows[k - 1] ELSE IF j = k - 1 THEN rows[k] ELSE rows[j]]
      BY <1>2, <3>1
    <3> QED
      BY <1>2, <3>2
  <2> QED
    BY <2>1 DEF Sort
<1>4. from \in [1..n -> DOMAIN rows] /\ \A i, j \in 1..n : from[i] = from[j] => i = j
  BY <1>2
<1> HIDE DEF from, n
<1>5. Edited(rows, new, header) /\ Len(new) = n /\ (Unique(rows) => Unique(new))
  BY <1>1, <1>2, <1>4, PickedRows
<1> HIDE DEF new
<1>6. Len(new) <= Len(rows)
  BY <1>2, <1>5 DEF n
<1> QED
  BY <1>3, <1>5, <1>6, EditStep
-----------------------------------------------------------------------------
(* What holds of every behaviour.                                          *)

LEMMA TabStarts == TabInit => TabInv
<1> SUFFICES ASSUME TabInit PROVE TabInv
  OBVIOUS
<1>1. /\ kind \in TabKinds /\ header \in {"old", "new"}
      /\ kind = "replace" => header = "new"
      /\ rows = IF header = "old" THEN Old ELSE <<>>
      /\ now = 1 /\ pc = [w \in Writers |-> "idle"] /\ plan = [w \in Writers |-> NoPlan]
      /\ disturbed = [w \in Writers |-> FALSE]
      /\ manual = 0 /\ handEdits = 0 /\ failures = 0
  BY TabAssumption DEF TabInit, TabKinds
<1>2. Old \in Seq(Written({"old"})) /\ Unique(Old)
  <2>1. /\ Old \in Seq([key : Text \ {""}, gen : Text, collected : {"", "yes"},
                        own : Text, cols : {"", "old"}])
        /\ \A k \in DOMAIN Old : Old[k].own = "" <=> Old[k].cols = ""
        /\ \A j, k \in DOMAIN Old : Old[j].key = Old[k].key => j = k
    BY TabAssumption
  <2>2. DOMAIN Old = 1..Len(Old) /\ Len(Old) \in Nat
    BY <2>1, ListOf
  <2>3. ASSUME NEW k \in DOMAIN Old PROVE Old[k] \in Written({"old"})
    <3>1. Old[k] \in [key : Text \ {""}, gen : Text, collected : {"", "yes"},
                      own : Text, cols : {"", "old"}]
      BY <2>1, ListOf
    <3>2. Old[k] \in Fields /\ Old[k].cols \in {"", "old"}
      BY <3>1 DEF Fields
    <3> QED
      BY <2>1, <3>2 DEF Written
  <2>4. Old = [k \in 1..Len(Old) |-> Old[k]]
    BY <2>1, ListIsFunction
  <2>6. Old \in [1..Len(Old) -> Written({"old"})]
    BY <2>2, <2>3, <2>4
  <2>5. Old \in Seq(Written({"old"}))
    BY <2>2, <2>6, FunctionIsList
  <2> QED
    BY <2>1, <2>5 DEF Unique
<1>3. <<>> \in Seq(Written({"new"}))
  OBVIOUS
<1>4. rows \in Seq(Written({header})) /\ (header = "old" => Unique(rows))
  BY <1>1, <1>2, <1>3
<1>5. {header} = Allowed(kind, header, 0) /\ {header} \subseteq Orders
  BY <1>1 DEF Allowed, Orders
<1>6. rows \in Seq(Written(Orders)) /\ rows \in Seq(Written(Allowed(kind, header, 0)))
  BY <1>4, <1>5, WrittenGrows
<1>7. now \in DOMAIN Contents
  <2>1. Contents \in Seq(Seq(NewRows)) /\ Contents # <<>>
    BY TabAssumption DEF NewRows
  <2> QED
    BY <1>1, <2>1, RestOf
<1>8. \A w \in Writers : pc[w] = "idle" /\ plan[w] = NoPlan
  BY <1>1
<1>9. TabShape
  <2>1. pc \in [Writers -> Stages] /\ plan \in [Writers -> Plans]
    BY <1>1, NoPlanFits DEF Stages
  <2>2. \A w \in Writers : PlanFits(kind, header, pc[w], plan[w])
    BY <1>8, NoPlanFits
  <2> QED
    BY <1>1, <1>6, <1>7, <2>1, <2>2 DEF TabShape
<1>10. UndisturbedKeeps
  BY <1>8 DEF UndisturbedKeeps, PlanKeeps
<1>11. QuietTab
  <2>1. InOrder(kind, header, rows, 0, "idle", NoPlan)
    BY <1>4, <1>6 DEF InOrder
  <2>2. Loop \in Writers
    BY TabAssumption
  <2> QED
    BY <1>1, <1>8, <2>1, <2>2 DEF QuietTab
<1> QED
  BY <1>9, <1>10, <1>11 DEF TabInv

LEMMA TabStep == TabInv /\ [TabNext]_tabVars => TabInv'
<1> SUFFICES ASSUME TabInv, [TabNext]_tabVars PROVE TabInv'
  OBVIOUS
<1>1. ASSUME NEW w \in Writers, Step(w) PROVE TabInv'
  BY <1>1, BeginStep, WriteHeaderStep, ReadRowsStep, RewriteStep, ClearTailStep, UpdateStep,
     AppendRowsStep, BatchStep DEF Step
<1>2. ASSUME NEW w \in Writers, Fail(w) PROVE TabInv'
  BY <1>2, FailStep
<1>3. CASE Refresh
  BY <1>3, RefreshStep
<1>4. ASSUME NEW k \in DOMAIN rows, Type(k) \/ Cut(k) \/ Sort(k) PROVE TabInv'
  BY <1>4, TypeStep, CutStep, SortStep
<1>5. CASE UNCHANGED tabVars
  <2>1. /\ kind' = kind /\ header' = header /\ rows' = rows /\ now' = now /\ pc' = pc /\ plan' = plan
        /\ disturbed' = disturbed /\ manual' = manual /\ handEdits' = handEdits /\ failures' = failures
    BY <1>5 DEF tabVars, bounds
  <2> QED
    BY <2>1 DEF TabInv, TabShape, UndisturbedKeeps, QuietTab, Quiet
<1> QED
  BY <1>1, <1>2, <1>3, <1>4, <1>5 DEF TabNext

\* The rows, the plans of the calls and the order of the columns fit together, as
\* long as nobody writes in between.
THEOREM TabInvHolds == TabSpec => []TabInv
<1>1. TabInit => TabInv
  BY TabStarts
<1>2. TabInv /\ [TabNext]_tabVars => TabInv'
  BY TabStep
<1> QED
  BY <1>1, <1>2, PTL DEF TabSpec

\* A note stands in a wrong column for good only if a call died, if two calls
\* overlapped, if it was typed between the new header and the rewriting, or if an
\* operator edited Candidate Detail, that may be rewritten from scratch.
THEOREM NotesStayInPlace == TabSpec => []MisplacedByDeathOrOverlap
<1>1. TabInv => MisplacedByDeathOrOverlap
  <2> SUFFICES ASSUME TabInv, failures = 0, manual = 0, pc[Loop] \notin {"read", "rewrite", "clear"},
                      NEW row \in ToSet(rows), Misplaced(row)
               PROVE  handEdits > 0 /\ (row.cols = "wrong" \/ kind \in Details)
    BY DEF MisplacedByDeathOrOverlap
  <2>1. InOrder(kind, header, rows, handEdits, pc[Loop], plan[Loop])
    BY DEF TabInv, QuietTab, Quiet
  <2>2. rows \in Seq(Written(Allowed(kind, header, handEdits)))
    BY <2>1 DEF InOrder
  <2>3. row \in Written(Allowed(kind, header, handEdits))
    BY <2>2, ListOf DEF ToSet
  <2>4. row.own # "" /\ row.cols # header
    BY DEF Misplaced
  <2>5. row.cols # "" /\ row.cols \in Allowed(kind, header, handEdits)
    BY <2>3, <2>4 DEF Written
  <2> QED
    BY <2>4, <2>5 DEF Allowed
<1> QED
  BY <1>1, TabInvHolds, PTL

LEMMA KeysKept ==
  ASSUME NEW s \in Seq(Written(Orders)), NEW t \in Seq(Written(Orders)), Keeps(s, t)
  PROVE  /\ {row.key : row \in ToSet(s)} \ {""} \subseteq {row.key : row \in ToSet(t)} \ {""}
         /\ {row.key : row \in {r \in ToSet(s) : r.own # ""}}
              \subseteq {row.key : row \in {r \in ToSet(t) : r.own # ""}}
<1>1. ASSUME NEW row \in ToSet(s), row.key # "" \/ row.own # ""
      PROVE  \E r \in ToSet(t) : r.key = row.key /\ (row.own # "" => r.own # "")
  <2>1. PICK i \in DOMAIN s : row = s[i]
    BY DEF ToSet
  <2>2. i \in Nat \ {0} /\ At(s, i) = row
    <3>1. DOMAIN s = 1..Len(s) /\ Len(s) \in Nat
      BY ListOf
    <3> QED
      BY <2>1, <3>1 DEF At
  <2>3. Filled(At(s, i))
    BY <1>1, <2>2 DEF Filled
  <2>4. PICK j \in Nat \ {0} : At(t, j).key = row.key /\ (row.own # "" => At(t, j).own # "")
    BY <2>2, <2>3 DEF Keeps
  <2>5. Filled(At(t, j))
    BY <1>1, <2>4 DEF Filled
  <2>6. j \in DOMAIN t /\ At(t, j) = t[j]
    BY <2>5, BlankIsEmpty DEF At
  <2>7. t[j] \in ToSet(t)
    BY <2>6 DEF ToSet
  <2> QED
    BY <2>4, <2>6, <2>7
<1> QED
  BY <1>1

LEMMA RestIsShorter ==
  ASSUME NEW S, NEW s \in Seq(S), s # <<>>
  PROVE  Tail(s) # s
<1> DEFINE t == Tail(s)
<1>1. Len(t) = Len(s) - 1 /\ Len(s) \in Nat
  OBVIOUS
<1> HIDE DEF t
<1>2. t = s => Len(t) = Len(s)
  OBVIOUS
<1>3. t # s
  BY <1>1, <1>2
<1> QED
  BY <1>3 DEF t

\* A step of a call that writes rows is seen in the call.
LEMMA StepIsSeen ==
  ASSUME TabInv, NEW w \in Writers, Rewrite(w) \/ ClearTail(w) \/ Update(w) \/ AppendRows(w)
  PROVE  <<pc'[w], plan'[w]>> # <<pc[w], plan[w]>>
<1>1. pc \in [Writers -> Stages] /\ plan \in [Writers -> Plans]
  BY DEF TabInv, TabShape
<1>2. ASSUME NEW s, NEW p, Moves(w, s, p) PROVE pc'[w] = s /\ plan'[w] = p
  BY <1>1, <1>2 DEF Moves
<1>3. CASE Finish(w) /\ pc[w] # "idle"
  <2>1. Moves(w, "idle", NoPlan)
    BY <1>3, FinishAdvances DEF Advances
  <2> QED
    BY <1>2, <1>3, <2>1
<1>4. CASE Rewrite(w)
  <2>1. pc[w] = "rewrite"
    BY <1>4 DEF Rewrite
  <2>2. Advances(w, "clear", plan[w]) \/ Advances(w, "idle", NoPlan)
    BY <1>4, ToClearAdvances DEF Rewrite
  <2>3. pc'[w] \in {"clear", "idle"}
    BY <1>2, <2>2 DEF Advances
  <2> QED
    BY <2>1, <2>3
<1>5. CASE ClearTail(w)
  BY <1>3, <1>5 DEF ClearTail
<1>6. CASE AppendRows(w)
  BY <1>3, <1>6 DEF AppendRows
<1>7. CASE Update(w)
  <2> DEFINE p == plan[w]
             q == [p EXCEPT !.todo = Tail(p.todo)]
  <2>1. pc[w] = "update" /\ (Proceed(w, "update", q) \/ Proceed(w, "append", q) \/ Finish(w))
    BY <1>7 DEF Update
  <2>2. p \in Plans /\ p.todo \in Seq(Patches(Orders)) /\ p.todo # <<>>
    BY <2>1, PlanOf DEF PlanFits
  <2>3. q # p
    <3>1. Tail(p.todo) # p.todo
      BY <2>2, RestIsShorter
    <3> HIDE DEF p
    <3>2. q.todo = Tail(p.todo)
      BY <2>2 DEF Plans
    <3> QED
      BY <3>1, <3>2
  <2> HIDE DEF q, p
  <2>4. CASE Proceed(w, "update", q)
    <3>1. plan'[w] = q
      BY <1>2, <2>4, ProceedAdvances DEF Advances
    <3> QED
      BY <2>3, <3>1 DEF p
  <2>5. CASE Proceed(w, "append", q)
    <3>1. pc'[w] = "append"
      BY <1>2, <2>5, ProceedAdvances DEF Advances
    <3> QED
      BY <2>1, <3>1
  <2>6. CASE Finish(w)
    BY <1>3, <2>1, <2>6
  <2> QED
    BY <2>1, <2>4, <2>5, <2>6
<1> QED
  BY <1>4, <1>5, <1>6, <1>7

LEMMA UnwrittenKeeps ==
  ASSUME rows' = rows
  PROVE  ShownKeys \subseteq ShownKeys' /\ NotedKeys \subseteq NotedKeys'
BY DEF ShownKeys, NotedKeys

\* An upsert that nobody disturbs takes no row and no note off the tab, unless it
\* rewrites Candidate Detail from scratch.
THEOREM UpsertsTakeNothing == TabSpec => KeptUnlessDisturbed
<1> DEFINE Nothing == ShownKeys \subseteq ShownKeys' /\ NotedKeys \subseteq NotedKeys'
           Excused == \/ kind = "replace" \/ handEdits' > handEdits
                      \/ \E w \in Writers : /\ disturbed[w] \/ (kind \in Details /\ plan[w].scratch)
                                         /\ <<pc[w], plan[w]>>' # <<pc[w], plan[w]>>
<1>1. TabInv /\ TabInv' /\ [TabNext]_tabVars => [~Nothing => Excused]_tabVars
  <2> SUFFICES ASSUME TabInv, TabInv', TabNext PROVE ~Nothing => Excused
    OBVIOUS
  <2>1. rows \in Seq(Written(Orders)) /\ rows' \in Seq(Written(Orders)) /\ handEdits \in Nat
    BY DEF TabInv, TabShape
  <2>2. Keeps(rows, rows') => Nothing
    BY <2>1, KeysKept DEF ShownKeys, NotedKeys
  <2>3. rows' = rows => Nothing
    BY UnwrittenKeeps
  <2>4. ASSUME NEW w \in Writers, Rewrite(w) \/ ClearTail(w) \/ Update(w) \/ AppendRows(w)
        PROVE  ~Nothing => Excused
    <3>1. Careful(w)
      BY <2>4, RewriteStep, ClearTailStep, UpdateStep, AppendRowsStep
    <3>2. <<pc'[w], plan'[w]>> # <<pc[w], plan[w]>>
      BY <2>4, StepIsSeen
    <3> HIDE DEF Nothing
    <3>3. ~Nothing => kind = "replace" \/ disturbed[w] \/ plan[w].scratch
      BY <2>2, <3>1 DEF Careful
    <3>4. plan[w].scratch => kind \in Details
      BY PlanOf DEF PlanFits
    <3> QED
      BY <3>2, <3>3, <3>4
  <2>5. ASSUME NEW w \in Writers, Batch(w) PROVE kind = "replace"
    BY <2>5, PlanOf DEF Batch, PlanFits
  <2>6. ASSUME NEW w \in Writers, Begin(w) \/ WriteHeader(w) \/ ReadRows(w) \/ Fail(w) PROVE rows' = rows
    BY <2>6 DEF Begin, WriteHeader, ReadRows, Fail
  <2>7. ASSUME NEW k \in DOMAIN rows, Type(k) \/ Cut(k) \/ Sort(k) PROVE handEdits' > handEdits
    <3>1. handEdits' = handEdits + 1
      BY <2>7 DEF Type, Cut, Sort, Edit
    <3> QED
      BY <2>1, <3>1
  <2>8. Refresh => rows' = rows
    BY DEF Refresh
  <2> HIDE DEF Nothing
  <2> QED
    BY <2>3, <2>4, <2>5, <2>6, <2>7, <2>8 DEF TabNext, Step
<1> QED
  BY <1>1, TabInvHolds, PTL DEF TabSpec, KeptUnlessDisturbed
=============================================================================
