-------------------------- MODULE BackupExportProofs --------------------------
(***************************************************************************)
(* What WikiStore and BackupExport promise, for every set of processes,    *)
(* documents and pages: the rows, links and pages of the wiki belong       *)
(* together, and so do the parts of a backup, wherever a process dies and  *)
(* however the jobs and the export overlap.                                *)
(***************************************************************************)
EXTENDS BackupExport, FiniteSetTheorems, WellFoundedInduction, TLAPS

Named  == ACs \union Startups
Pages  == Named \union Theses
Paging == {"page", "theses", "select", "commit", "unlink", "list", "index"}
Working  == Paging \union ToSet(Tables)

IsFun(f) == f = [x \in DOMAIN f |-> f[x]]
Ids(rows) == {r.id : r \in rows}
-----------------------------------------------------------------------------
(* The wiki.                                                               *)

Writer == [at : Working \union {"idle"}, docs : Seq(Docs), took : Seq(Docs), left : Seq(Theses),
           stale : SUBSET Theses, gone : SUBSET Theses, listed : SUBSET Pages]

WikiTypes ==
  /\ IsFun(files) /\ DOMAIN files \subseteq Pages
  /\ pages \subseteq Pages /\ index \subseteq Pages /\ links \subseteq ACs \X Theses
  /\ mother = [t \in ToSet(Tables) |-> mother[t]]
  /\ w \in [Writers -> Writer]
  /\ overlap \in {"no", "yes", "same"}

\* Where a process stands says what it holds.
Stations ==
  \A p \in Writers :
    /\ At(p, "idle") => w[p] = Idle
    /\ w[p].at \in Paging => w[p].docs # <<>>
    /\ w[p].at \in {"theses", "select", "unlink"} => Doc(p).kind = "ac"

\* The page of an AC or a startup is there before its row, and is never deleted.
PagesFirst ==
  /\ (pages \union index) \ Theses \subseteq DOMAIN files
  /\ \A p \in Writers :
       /\ w[p].listed \ Theses \subseteq DOMAIN files
       /\ w[p].at \in {"theses", "select", "commit"} => Doc(p).who \in DOMAIN files

LinkedIn(lks, ac) == {l[2] : l \in {m \in lks : m[1] = ac}}

\* As long as no two processes write one AC, what one of them has selected is
\* still what is stale when it commits.
SelectionHolds ==
  overlap # "same" =>
    /\ \A p, q \in Writers : p # q => Whose(w[p].docs) \intersect Whose(w[q].docs) = {}
    /\ \A p \in Writers : At(p, "commit") /\ Doc(p).kind = "ac" =>
         w[p].stale = LinkedIn(links, Doc(p).who) \ ToSet(Doc(p).theses)

\* A process that works alone finds the pages of the theses it has written, and
\* deletes none that anybody is linked to.
AloneHolds ==
  overlap = "no" =>
    /\ \A p, q \in Writers : p # q => At(p, "idle") \/ At(q, "idle")
    /\ \A l \in links : l[2] \in DOMAIN files
    /\ \A p \in Writers :
         /\ At(p, "theses") => ToSet(Doc(p).theses) \subseteq DOMAIN files \union ToSet(w[p].left)
         /\ w[p].at \in {"select", "commit"} /\ Doc(p).kind = "ac" =>
              ToSet(Doc(p).theses) \subseteq DOMAIN files
         /\ At(p, "unlink") => \A l \in links : l[2] \notin w[p].gone

\* Sources are stored before entities, and those before signals.
SignalsLast ==
  /\ Closed(mother)
  /\ \A p \in Writers : \A k \in DOMAIN w[p].took :
       /\ w[p].at \in {"mother_entities", "signals"} =>
            w[p].took[k].source \in Ids(mother["raw_sources"])
       /\ At(p, "signals") => w[p].took[k].who \in Ids(mother["mother_entities"])

WikiInv ==
  /\ WikiTypes /\ Stations /\ PagesFirst /\ LinksHaveRows /\ NoOrphansStay
  /\ SelectionHolds /\ AloneHolds /\ SignalsLast
-----------------------------------------------------------------------------
(* The export.                                                             *)

Steps == {"idle", "copy", "tables", "list", "archive", "manifest", "list again", "wiki rows"}
Early == {"idle", "copy"}
Files == Pages \union {"index"}

ExportTypes ==
  /\ at \in Steps /\ run \in 0 .. MaxExports /\ (at # "idle" => run > 0)
  /\ IsFun(tables) /\ IsFun(read) /\ todo \subseteq Files
  /\ disk = [r \in 1 .. MaxExports |-> [copy |-> disk[r].copy, tables |-> disk[r].tables,
                                        archive |-> disk[r].archive, manifest |-> disk[r].manifest]]
  /\ tabs = [t \in ToSet(TabOrder) |-> tabs[t]]
  /\ \A t \in ToSet(TabOrder) : tabs[t].run \in Nat

\* A run writes its own directory, and nothing of it before its copy.
Written ==
  /\ \A r \in 1 .. MaxExports : r > run \/ (r = run /\ at = "copy") => disk[r] = Unwritten
  /\ at \notin Early => OnDisk.tables = tables /\ OnDisk.copy # NoTables
  /\ at \in {"tables", "list", "archive", "manifest"} => OnDisk.manifest = NoTables

\* The tables come in their order, each once.
InOrder ==
  LET n == Cardinality(DOMAIN tables)
  IN  /\ IsFiniteSet(DOMAIN tables)
      /\ at = "tables" => n < Len(TableOrder) /\ DOMAIN tables = {TableOrder[i] : i \in 1 .. n}
      /\ at \notin Early \union {"tables"} => DOMAIN tables = ToSet(TableOrder)

\* While the tables are read, those that were read are as they are in the
\* database, unless it has changed, and the database has lost no id of the copy.
ReadTables ==
  /\ at = "tables" =>
       /\ <<run, "tables">> \in changed \/ \A t \in DOMAIN tables : tables[t] = mother[t]
       /\ \A t \in ToSet(Tables) : Ids(OnDisk.copy[t]) \subseteq Ids(mother[t])
  /\ \A r \in 1 .. run : \A t \in DOMAIN disk[r].tables : Ids(disk[r].copy[t]) \subseteq Ids(disk[r].tables[t])

\* While the archive is read, every file is in it or still to come, unless the
\* wiki has changed.
ReadArchive ==
  /\ at = "archive" =>
       \/ <<run, "archive">> \in changed
       \/ /\ DOMAIN files \union {"index"} \subseteq todo \union DOMAIN read
          /\ "index" \in DOMAIN read => read["index"] = index
  /\ at = "manifest" =>
       \/ <<run, "archive">> \in changed
       \/ OnDisk.archive["index"] \ Theses \subseteq DOMAIN OnDisk.archive

\* A run writes its tabs last, from what its manifest counts.
TabsLast ==
  /\ \A t \in ToSet(TabOrder) :
       tabs[t].run <= run /\ (at \notin {"idle", "wiki rows"} => tabs[t].run < run)
  /\ at \in {"list again", "wiki rows"} => OnDisk.manifest = Counts
  /\ at = "wiki rows" /\ tabs["SQLite Backup"].run = run => tabs["SQLite Backup"].content = tables

ExportInv ==
  /\ ExportTypes /\ Written /\ InOrder /\ ReadTables /\ ReadArchive /\ TabsLast
  /\ CopiesAreClosed /\ ManifestsHold /\ TabsAgree

IInv == WikiInv /\ ExportInv
-----------------------------------------------------------------------------
(* Sequences, and the last of several.                                     *)

LEMMA TailFacts ==
  ASSUME NEW S, NEW s \in Seq(S), s # <<>>
  PROVE  /\ Head(s) \in S /\ Tail(s) \in Seq(S)
         /\ ToSet(s) = {Head(s)} \union ToSet(Tail(s))
<1>1. Head(s) = s[1] /\ Len(s) \in Nat \ {0} /\ DOMAIN s = 1 .. Len(s)
  OBVIOUS
<1>2. Tail(s) \in Seq(S) /\ Len(Tail(s)) = Len(s) - 1
      /\ \A k \in 1 .. Len(s) - 1 : Tail(s)[k] = s[k + 1]
  OBVIOUS
<1>3. DOMAIN Tail(s) = 1 .. Len(s) - 1
  BY <1>2
<1>4. ASSUME NEW x \in ToSet(s) PROVE x \in {Head(s)} \union ToSet(Tail(s))
  <2>1. PICK k \in 1 .. Len(s) : x = s[k]
    BY <1>1 DEF ToSet
  <2>2. CASE k = 1
    BY <1>1, <2>1, <2>2
  <2>3. CASE k # 1
    <3>1. k - 1 \in 1 .. Len(s) - 1 /\ s[(k - 1) + 1] = x
      BY <1>1, <2>1, <2>3
    <3> QED
      BY <1>2, <1>3, <3>1 DEF ToSet
  <2> QED
    BY <2>2, <2>3
<1>5. ASSUME NEW x \in ToSet(Tail(s)) PROVE x \in ToSet(s)
  <2>1. PICK k \in 1 .. Len(s) - 1 : x = s[k + 1]
    BY <1>2, <1>3, <1>5 DEF ToSet
  <2>2. k + 1 \in 1 .. Len(s)
    BY <1>1, <2>1
  <2> QED
    BY <1>1, <2>1, <2>2 DEF ToSet
<1>6. Head(s) \in ToSet(s)
  BY <1>1 DEF ToSet
<1> QED
  BY <1>1, <1>2, <1>4, <1>5, <1>6

\* Of a few places of a sequence one is the last.
LEMMA LastOfPlaces ==
  ASSUME NEW n \in Nat, NEW S \in SUBSET (1 .. n), S # {}
  PROVE  \E m \in S : \A k \in S : k <= m
<1> DEFINE T == {n - k : k \in S}
           R == {ss \in Nat \X Nat : ss[1] < ss[2]}
<1>1. IsWellFoundedOn(R, Nat)
  BY NatLessThanWellFounded DEF OpToRel
<1>2. T \subseteq Nat /\ T # {}
  <2>1. \A k \in S : n - k \in Nat
    OBVIOUS
  <2> QED
    BY <2>1
<1>3. PICK x \in T : \A y \in T : ~ (<<y, x>> \in R)
  <2> HIDE DEF R, T
  <2> QED
    BY <1>1, <1>2, WFMin
<1>4. ASSUME NEW y \in T PROVE x <= y
  <2>1. x \in Nat /\ y \in Nat
    BY <1>2
  <2>2. <<y, x>>[1] = y /\ <<y, x>>[2] = x
    OBVIOUS
  <2>3. ~ (y < x)
    BY <1>3, <2>1, <2>2
  <2> QED
    BY <2>1, <2>3
<1>5. PICK m \in S : x = n - m
  BY <1>3
<1>6. \A k \in S : n - m <= n - k
  BY <1>4, <1>5
<1> QED
  BY <1>5, <1>6

\* Upsert loses no id and stores every new one.
LEMMA UpsertIds ==
  ASSUME NEW rows, NEW n \in Nat, NEW new, DOMAIN new = 1 .. n
  PROVE  Ids(Upsert(rows, new)) = Ids(rows) \union {new[k].id : k \in 1 .. n}
<1> DEFINE last == {k \in DOMAIN new : \A j \in DOMAIN new : j > k => new[j].id # new[k].id}
<1>1. Upsert(rows, new) = {r \in rows : \A k \in last : new[k].id # r.id} \union {new[k] : k \in last}
  BY DEF Upsert
<1>2. ASSUME NEW k \in 1 .. n PROVE \E m \in last : new[m].id = new[k].id
  <2> DEFINE S == {j \in 1 .. n : new[j].id = new[k].id}
  <2>1. S \in SUBSET (1 .. n) /\ S # {}
    OBVIOUS
  <2>2. PICK m \in S : \A j \in S : j <= m
    <3> HIDE DEF S
    <3> QED
      BY <2>1, LastOfPlaces
  <2> QED
    BY <2>2
<1>3. last \subseteq 1 .. n
  OBVIOUS
<1> HIDE DEF last
<1>4. ASSUME NEW i \in Ids(Upsert(rows, new)) PROVE i \in Ids(rows) \union {new[k].id : k \in 1 .. n}
  BY <1>1, <1>3, <1>4 DEF Ids
<1>5. ASSUME NEW k \in 1 .. n PROVE new[k].id \in Ids(Upsert(rows, new))
  BY <1>1, <1>2 DEF Ids
<1>6. ASSUME NEW r \in rows PROVE r.id \in Ids(Upsert(rows, new))
  <2>1. CASE \A k \in last : new[k].id # r.id
    BY <1>1, <2>1 DEF Ids
  <2>2. CASE \E k \in last : new[k].id = r.id
    BY <1>3, <1>5, <2>2
  <2> QED
    BY <2>1, <2>2
<1> QED
  BY <1>4, <1>5, <1>6 DEF Ids

\* A row after an upsert was there before or is new.
LEMMA UpsertRows ==
  ASSUME NEW rows, NEW new, NEW r \in Upsert(rows, new)
  PROVE  r \in rows \/ \E k \in DOMAIN new : r = new[k]
BY DEF Upsert
-----------------------------------------------------------------------------
(* Shapes of the wiki.                                                     *)

LEMMA ToSetIn == ASSUME NEW S, NEW s \in Seq(S) PROVE ToSet(s) \subseteq S
  BY DEF ToSet

LEMMA DocFacts ==
  ASSUME WikiTypes, Stations, NEW p \in Writers, w[p].at \in Paging
  PROVE  /\ w[p] \in Writer /\ w[p].docs \in Seq(Docs) /\ Doc(p) \in Docs
         /\ Doc(p).who \in Named /\ Doc(p).theses \in Seq(Theses) /\ ToSet(Doc(p).theses) \subseteq Theses
         /\ Doc(p).kind \in {"ac", "startup"} /\ (Doc(p).kind = "ac" => Doc(p).who \in ACs)
         /\ Tail(w[p].docs) \in Seq(Docs)
         /\ ToSet(w[p].docs) = {Doc(p)} \union ToSet(Tail(w[p].docs))
<1>1. w[p] \in Writer /\ w[p].docs \in Seq(Docs) /\ w[p].docs # <<>>
  BY DEF WikiTypes, Stations, Writer
<1>2. /\ Doc(p) \in Docs /\ Tail(w[p].docs) \in Seq(Docs)
      /\ ToSet(w[p].docs) = {Doc(p)} \union ToSet(Tail(w[p].docs))
  BY <1>1, TailFacts DEF Doc
<1>3. /\ \/ Doc(p).kind = "ac" /\ Doc(p).who \in ACs
         \/ Doc(p).kind = "startup" /\ Doc(p).who \in Startups
      /\ Doc(p).theses \in Seq(Theses)
  BY <1>2, WikiAssumption
<1> QED
  BY <1>1, <1>2, <1>3, ToSetIn DEF Named

\* A step of a process changes what that process holds, and its place says what
\* that is.
LEMMA Shapes ==
  ASSUME WikiTypes, Stations, NEW p \in Writers, Write(p)
  PROVE  /\ w'[p] \in Writer /\ w' = [w EXCEPT ![p] = w'[p]]
         /\ w'[p].at = "idle" => w'[p] = Idle
         /\ w'[p].at \in Paging => w'[p].docs # <<>>
         /\ w'[p].at \in {"theses", "select", "unlink"} => Head(w'[p].docs).kind = "ac"
<1>1. w[p] \in Writer /\ w \in [Writers -> Writer]
  BY DEF WikiTypes
<1>2. Idle \in Writer
  BY DEF Idle, Writer
<1>3. "idle" \notin Paging /\ "idle" \notin ToSet(Tables) /\ Paging \intersect ToSet(Tables) = {}
      /\ ToSet(Tables) = {"raw_sources", "mother_entities", "signals", "ac_profiles"}
  BY DEF Paging, Tables, ToSet
<1>a. CASE BeginJob(p)
  <2>1. PICK job \in Jobs : w' = [TakeUp(p, job) EXCEPT ![p].took = job]
    BY <1>a DEF BeginJob
  <2>2. job \in Seq(Docs) /\ job # <<>>
    BY WikiAssumption
  <2> QED
    BY <1>1, <1>3, <2>1, <2>2 DEF TakeUp, Writer, Paging, Working
<1>b. CASE WritePage(p)
  <2>1. w[p].at = "page" /\ w[p].docs # <<>> /\ Doc(p).theses \in Seq(Theses)
    <3>1. w[p].at = "page"
      BY <1>b DEF WritePage, At
    <3> QED
      BY <3>1, DocFacts DEF Stations, Paging
  <2>2. CASE Doc(p).kind = "ac"
    <3>1. w' = [w EXCEPT ![p].at = "theses", ![p].left = Doc(p).theses]
      BY <1>b, <2>2 DEF WritePage
    <3> QED
      BY <1>1, <1>3, <2>1, <2>2, <3>1 DEF Writer, Paging, Working, Doc
  <2>3. CASE Doc(p).kind # "ac"
    <3>1. w' = [w EXCEPT ![p].at = "commit"]
      BY <1>b, <2>3 DEF WritePage
    <3> QED
      BY <1>1, <1>3, <2>1, <3>1 DEF Writer, Paging, Working
  <2> QED
    BY <2>2, <2>3
<1>c. CASE WriteThesis(p)
  <2>1. w[p].docs # <<>> /\ Doc(p).kind = "ac"
    BY <1>c DEF WriteThesis, At, Stations, Paging
  <2>2. CASE w[p].left = <<>>
    <3>1. w' = [w EXCEPT ![p].at = "select"]
      BY <1>c, <2>2 DEF WriteThesis, Go
    <3> QED
      BY <1>1, <1>3, <2>1, <3>1 DEF Writer, Paging, Working, Doc
  <2>3. CASE w[p].left # <<>>
    <3>1. Tail(w[p].left) \in Seq(Theses)
      BY <1>1, <2>3, TailFacts DEF Writer
    <3>2. w[p].at = "theses" /\ w' = [w EXCEPT ![p].left = Tail(@)]
      BY <1>c, <2>3 DEF WriteThesis, At
    <3> QED
      BY <1>1, <1>3, <2>1, <3>1, <3>2 DEF Writer, Paging, Working, Doc
  <2> QED
    BY <2>2, <2>3
<1>d. CASE SelectStale(p)
  <2>1. {l[2] : l \in {m \in links : m[1] = Doc(p).who}} \ ToSet(Doc(p).theses) \in SUBSET Theses
    BY DEF WikiTypes
  <2>2. w[p].docs # <<>> /\ Doc(p).kind = "ac"
    BY <1>d DEF SelectStale, At, Stations, Paging
  <2> QED
    BY <1>1, <1>3, <1>d, <2>1, <2>2 DEF SelectStale, Writer, Paging, Working, At
<1>e. CASE CommitProfile(p)
  <2>1. \A rows, after : Orphaned(w[p].stale, rows, after) \in SUBSET Theses
    BY <1>1 DEF Writer, Orphaned
  <2>2. w[p].docs # <<>> /\ Doc(p).kind = "ac"
    BY <1>e DEF CommitProfile, At, Stations, Paging
  <2> QED
    BY <1>1, <1>3, <1>e, <2>1, <2>2 DEF CommitProfile, Writer, Paging, Working, At, Doc
<1>f. CASE CommitStartup(p)
  BY <1>1, <1>3, <1>f DEF CommitStartup, Writer, Paging, Working, At, Go, Stations
<1>g. CASE Unlink(p)
  <2>1. w[p].docs # <<>> /\ Doc(p).kind = "ac"
    BY <1>g DEF Unlink, At, Stations, Paging
  <2>2. CASE w[p].gone = {}
    <3>1. w' = [w EXCEPT ![p].at = "list"]
      BY <1>g, <2>2 DEF Unlink, Go
    <3> QED
      BY <1>1, <1>3, <2>1, <3>1 DEF Writer, Paging, Working
  <2>3. CASE w[p].gone # {}
    <3>1. PICK t \in w[p].gone : w' = [w EXCEPT ![p].gone = @ \ {t}]
      BY <1>g, <2>3 DEF Unlink
    <3>2. w[p].at = "unlink"
      BY <1>g DEF Unlink, At
    <3> QED
      BY <1>1, <1>3, <2>1, <3>1, <3>2 DEF Writer, Paging, Working, Doc
  <2> QED
    BY <2>2, <2>3
<1>h. CASE ReadPages(p)
  BY <1>1, <1>3, <1>h DEF ReadPages, Writer, Paging, Working, At, Stations, WikiTypes
<1>i. CASE WriteIndex(p)
  <2>1. Tail(w[p].docs) \in Seq(Docs)
    BY <1>i, DocFacts DEF WriteIndex, At, Paging
  <2>2. CASE Tail(w[p].docs) # <<>>
    <3>1. w' = [w EXCEPT ![p].at = "page", ![p].docs = Tail(w[p].docs)]
      BY <1>i, <2>2 DEF WriteIndex, TakeUp
    <3> QED
      BY <1>1, <1>3, <2>1, <2>2, <3>1 DEF Writer, Paging, Working
  <2>3. CASE Tail(w[p].docs) = <<>>
    <3>1. PICK step \in ToSet(Tables) : w' = [w EXCEPT ![p].at = step]
      BY <1>3, <1>i, <2>3 DEF WriteIndex, Go
    <3> QED
      BY <1>1, <1>3, <3>1 DEF Writer, Paging, Working
  <2> QED
    BY <2>2, <2>3
<1>j. CASE StoreRows(p)
  <2>1. w[p].at \in ToSet(Tables)
    BY <1>j DEF StoreRows
  <2>2. AfterTable(w[p].at) \in ToSet(Tables) \union {"idle"}
    BY <1>3, <2>1 DEF AfterTable
  <2>3. CASE AfterTable(w[p].at) = "idle"
    <3>1. w' = [w EXCEPT ![p] = Idle]
      BY <1>j, <2>3 DEF StoreRows
    <3> QED
      BY <1>1, <1>2, <1>3, <3>1 DEF Idle
  <2>4. CASE AfterTable(w[p].at) # "idle"
    <3>1. w' = [w EXCEPT ![p].at = AfterTable(w[p].at)]
      BY <1>j, <2>4 DEF StoreRows
    <3> QED
      BY <1>1, <1>3, <2>2, <2>4, <3>1 DEF Writer, Working
  <2> QED
    BY <2>3, <2>4
<1>k. CASE Die(p)
  BY <1>1, <1>2, <1>3, <1>k DEF Die, Idle
<1> QED
  BY <1>a, <1>b, <1>c, <1>d, <1>e, <1>f, <1>g, <1>h, <1>i, <1>j, <1>k DEF Write

LEMMA PageOverDomain ==
  ASSUME NEW page, NEW to
  PROVE  IsFun(PageOver(page, to)) /\ DOMAIN PageOver(page, to) = {page} \union DOMAIN files
BY DEF PageOver, With, IsFun

\* What a step does to the files: nothing, a page of the document at hand, or
\* the deletion of a thesis that its process found to be gone.
LEMMA FilesStep ==
  ASSUME WikiTypes, Stations, NEW p \in Writers, Write(p)
  PROVE  /\ IsFun(files') /\ DOMAIN files' \subseteq Pages
         /\ DOMAIN files \ Theses \subseteq DOMAIN files'
         /\ Unlink(p) \/ DOMAIN files \subseteq DOMAIN files'
         /\ WritePage(p) => DOMAIN files' = {Doc(p).who} \union DOMAIN files
<1>1. IsFun(files) /\ DOMAIN files \subseteq Pages
  BY DEF WikiTypes
<1>2. \A page \in Pages : \A to : files' = PageOver(page, to) =>
        /\ IsFun(files') /\ DOMAIN files' \subseteq Pages /\ DOMAIN files \subseteq DOMAIN files'
        /\ DOMAIN files' = {page} \union DOMAIN files
  BY <1>1, PageOverDomain
<1>3. CASE UNCHANGED files
  <2>1. ~ WritePage(p) \/ Doc(p).who \in DOMAIN files
    <3>1. ASSUME WritePage(p) PROVE Doc(p).who \in DOMAIN files
      BY <1>3, <3>1, PageOverDomain DEF WritePage
    <3> QED
      BY <3>1
  <2> QED
    BY <1>1, <1>3, <2>1
<1>4. CASE WritePage(p)
  <2>1. Doc(p).who \in Pages
    BY <1>4, DocFacts DEF WritePage, At, Paging, Pages
  <2>2. files' = PageOver(Doc(p).who, ToSet(Doc(p).theses))
    BY <1>4 DEF WritePage
  <2> QED
    BY <1>2, <2>1, <2>2
<1>5. CASE WriteThesis(p)
  <2>1. CASE w[p].left = <<>>
    BY <1>3, <1>5, <2>1 DEF WriteThesis
  <2>2. CASE w[p].left # <<>>
    <3>1. Head(w[p].left) \in Pages
      BY <2>2, TailFacts DEF WikiTypes, Writer, Pages
    <3>2. files' = PageOver(Head(w[p].left), {Doc(p).who}) /\ ~ WritePage(p)
      BY <1>5, <2>2 DEF WriteThesis, WritePage, At
    <3> QED
      BY <1>2, <3>1, <3>2
  <2> QED
    BY <2>1, <2>2
<1>6. CASE Unlink(p)
  <2>1. CASE w[p].gone = {}
    BY <1>3, <1>6, <2>1 DEF Unlink
  <2>2. CASE w[p].gone # {}
    <3>1. PICK t \in w[p].gone : files' = [f \in DOMAIN files \ {t} |-> files[f]]
      BY <1>6, <2>2 DEF Unlink
    <3>2. t \in Theses /\ ~ WritePage(p)
      BY <1>6 DEF WikiTypes, Writer, Unlink, WritePage, At
    <3> QED
      BY <1>1, <1>6, <3>1, <3>2 DEF IsFun
  <2> QED
    BY <2>1, <2>2
<1>7. UNCHANGED files \/ WritePage(p) \/ WriteThesis(p) \/ Unlink(p)
  BY DEF Write, BeginJob, SelectStale, CommitProfile, CommitStartup, ReadPages, WriteIndex, StoreRows, Die, wiki
<1> QED
  BY <1>3, <1>4, <1>5, <1>6, <1>7

\* Only the commits change rows and links, and only WriteIndex the index.
LEMMA RowsChange ==
  ASSUME NEW p \in Writers, Write(p)
  PROVE  /\ UNCHANGED <<pages, links>> \/ CommitProfile(p) \/ (CommitStartup(p) /\ UNCHANGED links)
         /\ UNCHANGED index \/ WriteIndex(p)
         /\ UNCHANGED mother \/ StoreRows(p)
         /\ UNCHANGED overlap \/ BeginJob(p)
<1>1. CASE BeginJob(p) \/ WritePage(p) \/ WriteThesis(p) \/ SelectStale(p)
  BY <1>1 DEF BeginJob, WritePage, WriteThesis, SelectStale, wiki
<1>2. CASE CommitProfile(p) \/ CommitStartup(p)
  BY <1>2 DEF CommitProfile, CommitStartup
<1>3. CASE Unlink(p) \/ ReadPages(p) \/ WriteIndex(p)
  BY <1>3 DEF Unlink, ReadPages, WriteIndex, wiki
<1>4. CASE StoreRows(p) \/ Die(p)
  BY <1>4 DEF StoreRows, Die, wiki
<1> QED
  BY <1>1, <1>2, <1>3, <1>4 DEF Write

LEMMA TypesStep ==
  ASSUME WikiTypes, Stations, NEW p \in Writers, Write(p)
  PROVE  WikiTypes' /\ Stations'
<1>1. w' \in [Writers -> Writer]
  BY Shapes DEF WikiTypes
<1>2. Stations'
  <2>1. \A q \in Writers \ {p} : w'[q] = w[q]
    BY Shapes DEF WikiTypes
  <2> SUFFICES ASSUME NEW q \in Writers
               PROVE  /\ w'[q].at = "idle" => w'[q] = Idle
                      /\ w'[q].at \in Paging => w'[q].docs # <<>>
                      /\ w'[q].at \in {"theses", "select", "unlink"} => Head(w'[q].docs).kind = "ac"
    BY DEF Stations, At, Doc
  <2>2. CASE q = p
    BY <2>2, Shapes
  <2>3. CASE q # p
    BY <2>1, <2>3 DEF Stations, At, Doc
  <2> QED
    BY <2>2, <2>3
<1>3. pages' \subseteq Pages /\ links' \subseteq ACs \X Theses
  <2>1. CASE CommitProfile(p)
    <3>1. Doc(p).who \in ACs /\ ToSet(Doc(p).theses) \subseteq Theses
      BY <2>1, DocFacts DEF CommitProfile, At, Paging
    <3>2. /\ links' = {l \in links : l[1] # Doc(p).who} \union {<<Doc(p).who, t>> : t \in ToSet(Doc(p).theses)}
          /\ pages' \subseteq pages \union {Doc(p).who} \union ToSet(Doc(p).theses)
      BY <2>1 DEF CommitProfile
    <3> QED
      BY <3>1, <3>2 DEF WikiTypes, Pages, Named
  <2>2. CASE CommitStartup(p) /\ UNCHANGED links
    BY <2>2, DocFacts DEF CommitStartup, StartupPages, At, Paging, WikiTypes, Pages
  <2> QED
    BY <2>1, <2>2, RowsChange DEF WikiTypes
<1>4. index' \subseteq Pages
  <2>1. CASE WriteIndex(p)
    BY <2>1 DEF WriteIndex, WikiTypes, Writer
  <2> QED
    BY <2>1, RowsChange DEF WikiTypes
<1>5. mother' = [t \in ToSet(Tables) |-> mother'[t]]
  <2>1. CASE StoreRows(p)
    BY <2>1 DEF StoreRows, WikiTypes
  <2> QED
    BY <2>1, RowsChange DEF WikiTypes
<1>6. overlap' \in {"no", "yes", "same"}
  <2>1. CASE BeginJob(p)
    BY <2>1 DEF BeginJob, WikiTypes
  <2> QED
    BY <2>1, RowsChange DEF WikiTypes
<1> QED
  BY <1>1, <1>2, <1>3, <1>4, <1>5, <1>6, FilesStep DEF WikiTypes

\* Where a step leads, and what a process keeps of what it holds.
LEMMA HoldsStep ==
  ASSUME WikiTypes, Stations, NEW p \in Writers, Write(p)
  PROVE  /\ ReadPages(p) \/ w'[p].listed = w[p].listed \/ w'[p].listed = {}
         /\ w'[p].at = "theses" => WritePage(p) \/ WriteThesis(p)
         /\ w'[p].at = "select" => WriteThesis(p)
         /\ w'[p].at = "commit" => WritePage(p) \/ SelectStale(p)
         /\ w'[p].at = "unlink" => CommitProfile(p) \/ Unlink(p)
         /\ w'[p].at \in {"mother_entities", "signals"} => StoreRows(p)
         /\ BeginJob(p) \/ w'[p].took = w[p].took \/ w'[p] = Idle
         /\ BeginJob(p) \/ WriteIndex(p) \/ w'[p].docs = w[p].docs \/ w'[p] = Idle
         /\ WriteIndex(p) => w'[p].docs = w[p].docs \/ w'[p].docs = Tail(w[p].docs)
<1>0. w \in [Writers -> Writer] /\ w[p] \in Writer
  BY DEF WikiTypes
<1>1. CASE BeginJob(p)
  <2>1. PICK job \in Jobs : w' = [TakeUp(p, job) EXCEPT ![p].took = job]
    BY <1>1 DEF BeginJob
  <2>2. w'[p].listed = w[p].listed /\ w'[p].at = "page" /\ ~ WriteIndex(p)
    BY <1>0, <1>1, <2>1 DEF TakeUp, Writer, BeginJob, WriteIndex, At
  <2> QED
    BY <1>1, <2>2
<1>2. CASE WritePage(p)
  <2>1. w'[p].listed = w[p].listed /\ w'[p].at \in {"theses", "commit"} /\ w'[p].took = w[p].took
        /\ w'[p].docs = w[p].docs
    BY <1>0, <1>2 DEF WritePage, Writer
  <2> QED
    BY <1>2, <2>1
<1>3. CASE WriteThesis(p)
  <2>1. w'[p].listed = w[p].listed /\ w'[p].at \in {"theses", "select"} /\ w'[p].took = w[p].took
        /\ w'[p].docs = w[p].docs
    BY <1>0, <1>3 DEF WriteThesis, Writer, At, Go
  <2> QED
    BY <1>3, <2>1
<1>4. CASE SelectStale(p)
  <2>1. w'[p].listed = w[p].listed /\ w'[p].at = "commit" /\ w'[p].took = w[p].took
        /\ w'[p].docs = w[p].docs
    BY <1>0, <1>4 DEF SelectStale, Writer
  <2> QED
    BY <1>4, <2>1
<1>5. CASE CommitProfile(p)
  <2>1. w'[p].listed = w[p].listed /\ w'[p].at = "unlink" /\ w'[p].took = w[p].took
        /\ w'[p].docs = w[p].docs
    BY <1>0, <1>5 DEF CommitProfile, Writer
  <2> QED
    BY <1>5, <2>1
<1>6. CASE CommitStartup(p)
  <2>1. w'[p].listed = w[p].listed /\ w'[p].at = "list" /\ w'[p].took = w[p].took
        /\ w'[p].docs = w[p].docs
    BY <1>0, <1>6 DEF CommitStartup, Writer, Go
  <2> QED
    BY <2>1
<1>7. CASE Unlink(p)
  <2>1. w'[p].listed = w[p].listed /\ w'[p].at \in {"unlink", "list"} /\ w'[p].took = w[p].took
        /\ w'[p].docs = w[p].docs
    <3>1. CASE w[p].gone = {}
      BY <1>0, <1>7, <3>1 DEF Unlink, Writer, Go
    <3>2. CASE w[p].gone # {}
      <4>1. PICK t \in w[p].gone : w' = [w EXCEPT ![p].gone = @ \ {t}]
        BY <1>7, <3>2 DEF Unlink
      <4> QED
        BY <1>0, <1>7, <4>1 DEF Unlink, Writer, At
    <3> QED
      BY <3>1, <3>2
  <2> QED
    BY <1>7, <2>1
<1>8. CASE ReadPages(p)
  <2>1. w'[p].at = "index" /\ w'[p].took = w[p].took /\ w'[p].docs = w[p].docs
    BY <1>0, <1>8 DEF ReadPages, Writer
  <2> QED
    BY <1>8, <2>1
<1>9. CASE WriteIndex(p)
  <2>1. CASE Tail(w[p].docs) # <<>>
    <3>1. w' = [w EXCEPT ![p].at = "page", ![p].docs = Tail(w[p].docs)]
      BY <1>9, <2>1 DEF WriteIndex, TakeUp
    <3> QED
      BY <1>0, <1>9, <3>1 DEF Writer
  <2>2. CASE Tail(w[p].docs) = <<>>
    <3>1. PICK step \in {"ac_profiles", "raw_sources"} : w' = [w EXCEPT ![p].at = step]
      BY <1>9, <2>2 DEF WriteIndex, Go
    <3> QED
      BY <1>0, <1>9, <3>1 DEF Writer
  <2> QED
    BY <2>1, <2>2
<1>10. CASE StoreRows(p)
  <2>1. ~ WriteIndex(p)
    BY <1>10 DEF StoreRows, WriteIndex, At, Tables, ToSet
  <2>2. CASE AfterTable(w[p].at) = "idle"
    BY <1>0, <1>10, <2>1, <2>2 DEF StoreRows, Writer, Idle
  <2>3. CASE AfterTable(w[p].at) # "idle"
    <3>1. w' = [w EXCEPT ![p].at = AfterTable(w[p].at)] /\ w[p].at \in ToSet(Tables)
      BY <1>10, <2>3 DEF StoreRows
    <3>2. AfterTable(w[p].at) \in {"mother_entities", "signals"}
      BY <2>3, <3>1 DEF AfterTable, Tables, ToSet
    <3>3. w'[p].at \in {"mother_entities", "signals"} /\ w'[p].took = w[p].took /\ w'[p].docs = w[p].docs
          /\ w'[p].listed = w[p].listed
      BY <1>0, <3>1, <3>2 DEF Writer
    <3> QED
      BY <1>10, <2>1, <3>3
  <2> QED
    BY <2>2, <2>3
<1>11. CASE Die(p)
  <2>1. w'[p] = Idle
    BY <1>0, <1>11 DEF Die
  <2>2. WriteIndex(p) => Idle.docs = w[p].docs \/ Idle.docs = Tail(w[p].docs)
    <3>1. ~ WriteIndex(p) \/ TRUE
      OBVIOUS
    <3>2. ASSUME WriteIndex(p) PROVE Idle.docs = w[p].docs \/ Idle.docs = Tail(w[p].docs)
      <4>1. w'[p].docs = w[p].docs \/ w'[p].docs = Tail(w[p].docs)
        BY <1>9, <3>2
      <4> QED
        BY <2>1, <4>1
    <3> QED
      BY <3>2
  <2> QED
    BY <2>1, <2>2 DEF Idle
<1> QED
  BY <1>1, <1>2, <1>3, <1>4, <1>5, <1>6, <1>7, <1>8, <1>9, <1>10, <1>11 DEF Write

\* The pages of ACs and startups.
LEMMA PagesFirstStep ==
  ASSUME WikiTypes, Stations, PagesFirst, NEW p \in Writers, Write(p)
  PROVE  PagesFirst'
<1>1. w' = [w EXCEPT ![p] = w'[p]] /\ w \in [Writers -> Writer]
  BY Shapes DEF WikiTypes
<1>2. DOMAIN files \ Theses \subseteq DOMAIN files'
  BY FilesStep
<1>3. pages' \ Theses \subseteq DOMAIN files'
  <2>1. CASE CommitProfile(p)
    <3>1. Doc(p).who \in DOMAIN files /\ ToSet(Doc(p).theses) \subseteq Theses
      BY <2>1, DocFacts DEF CommitProfile, PagesFirst, At, Paging
    <3>2. pages' \subseteq pages \union {Doc(p).who} \union ToSet(Doc(p).theses)
      BY <2>1 DEF CommitProfile
    <3>3. UNCHANGED files
      BY <2>1 DEF CommitProfile
    <3> QED
      BY <3>1, <3>2, <3>3 DEF PagesFirst
  <2>2. CASE CommitStartup(p)
    <3>1. Doc(p).who \in DOMAIN files /\ ToSet(Doc(p).theses) \subseteq Theses
      BY <2>2, DocFacts DEF CommitStartup, PagesFirst, At, Paging
    <3> QED
      BY <2>2, <3>1 DEF CommitStartup, StartupPages, PagesFirst
  <2>3. CASE UNCHANGED pages
    BY <1>2, <2>3 DEF PagesFirst
  <2> QED
    BY <2>1, <2>2, <2>3, RowsChange
<1>4. index' \ Theses \subseteq DOMAIN files'
  <2>1. CASE WriteIndex(p)
    BY <1>2, <2>1 DEF WriteIndex, PagesFirst
  <2> QED
    BY <1>2, <2>1, RowsChange DEF PagesFirst
<1>5. w'[p].listed \ Theses \subseteq DOMAIN files'
  <2>1. CASE ReadPages(p)
    BY <1>1, <2>1 DEF ReadPages, PagesFirst, wiki, Writer
  <2>2. CASE ~ReadPages(p)
    <3>1. w'[p].listed = w[p].listed \/ w'[p].listed = {}
      BY <2>2, HoldsStep
    <3> QED
      BY <1>2, <3>1 DEF PagesFirst
  <2> QED
    BY <2>1, <2>2
<1>6. ASSUME w'[p].at \in {"theses", "select", "commit"} PROVE Head(w'[p].docs).who \in DOMAIN files'
  <2>1. CASE WritePage(p)
    <3>1. w'[p].docs = w[p].docs
      BY <1>1, <2>1 DEF WritePage, Writer
    <3> QED
      BY <2>1, <3>1, FilesStep DEF Doc
  <2>2. CASE WriteThesis(p)
    <3>1. w'[p].docs = w[p].docs /\ w[p].at = "theses"
      BY <1>1, <2>2 DEF WriteThesis, Writer, At, Go
    <3>2. ~ Unlink(p)
      BY <2>2 DEF WriteThesis, Unlink, At
    <3> QED
      BY <3>1, <3>2, FilesStep DEF PagesFirst, Doc
  <2>3. CASE SelectStale(p)
    BY <1>1, <2>3 DEF SelectStale, Writer, At, PagesFirst, Doc, wiki
  <2>4. CASE ~(WritePage(p) \/ WriteThesis(p) \/ SelectStale(p))
    <3>1. w'[p].at \notin {"theses", "select", "commit"}
      BY <2>4, HoldsStep
    <3> QED
      BY <1>6, <3>1
  <2> QED
    BY <2>1, <2>2, <2>3, <2>4
<1>7. \A q \in Writers \ {p} : w'[q] = w[q]
  BY <1>1
<1>8. ASSUME NEW q \in Writers \ {p}, w[q].at \in {"theses", "select", "commit"} PROVE Doc(q).who \in DOMAIN files'
  <2>1. Doc(q).who \in Named /\ Doc(q).who \in DOMAIN files
    BY <1>8, DocFacts DEF PagesFirst, Paging
  <2> QED
    BY <1>2, <2>1, WikiAssumption DEF Named
<1> QED
  BY <1>2, <1>3, <1>4, <1>5, <1>6, <1>7, <1>8 DEF PagesFirst, Doc
-----------------------------------------------------------------------------
(* Rows, links and orphans.                                                *)

\* The profile at hand, and what its commit makes of rows and links.
LEMMA CommitFacts ==
  ASSUME WikiTypes, Stations, NEW p \in Writers, CommitProfile(p)
  PROVE  /\ Doc(p).who \in ACs /\ ToSet(Doc(p).theses) \subseteq Theses
         /\ links' = {l \in links : l[1] # Doc(p).who} \union {<<Doc(p).who, t>> : t \in ToSet(Doc(p).theses)}
         /\ LET rows == pages \union {Doc(p).who} \union ToSet(Doc(p).theses)
                orphans == Orphaned(w[p].stale, rows, links')
            IN  pages' = rows \ orphans /\ w' = [w EXCEPT ![p].at = "unlink", ![p].gone = orphans]
         /\ UNCHANGED <<files, index, mother, overlap>>
<1>1. Doc(p).who \in ACs /\ ToSet(Doc(p).theses) \subseteq Theses
  BY DocFacts DEF CommitProfile, At, Paging
<1> QED
  BY <1>1 DEF CommitProfile

LEMMA LinksHaveRowsStep ==
  ASSUME WikiTypes, Stations, LinksHaveRows, NEW p \in Writers, Write(p)
  PROVE  LinksHaveRows'
<1>1. CASE CommitProfile(p)
  <2> DEFINE ac == Doc(p).who
             rows == pages \union {ac} \union ToSet(Doc(p).theses)
             orphans == Orphaned(w[p].stale, rows, links')
  <2>1. orphans \subseteq Theses
    BY DEF WikiTypes, Writer, Orphaned
  <2>2. pages' = rows \ orphans
    BY <1>1, CommitFacts
  <2>3. ASSUME NEW l \in links' PROVE l[1] \in pages' /\ l[2] \in pages'
    <3>1. l[1] \in ACs /\ l[1] \in rows /\ l[2] \in rows
      <4>1. CASE l \in links /\ l[1] # ac
        <5>1. l \in ACs \X Theses /\ l[1] \in pages /\ l[2] \in pages
          BY <4>1 DEF LinksHaveRows, WikiTypes
        <5> QED
          BY <5>1
      <4>2. CASE \E t \in ToSet(Doc(p).theses) : l = <<ac, t>>
        <5>1. PICK t \in ToSet(Doc(p).theses) : l = <<ac, t>>
          BY <4>2
        <5>2. l[1] = ac /\ l[2] = t /\ ac \in ACs
          BY <1>1, <5>1, CommitFacts
        <5> QED
          BY <5>2
      <4>3. links' = {m \in links : m[1] # ac} \union {<<ac, t>> : t \in ToSet(Doc(p).theses)}
        BY <1>1, CommitFacts
      <4> HIDE DEF ac, rows
      <4> QED
        BY <4>1, <4>2, <4>3
    <3>2. l[1] \notin orphans
      BY <2>1, <3>1, WikiAssumption
    <3>3. l[2] \notin orphans
      BY <3>1 DEF Orphaned
    <3> QED
      BY <2>2, <3>1, <3>2, <3>3
  <2> QED
    BY <2>3 DEF LinksHaveRows
<1>2. CASE CommitStartup(p) /\ UNCHANGED links
  BY <1>2 DEF CommitStartup, LinksHaveRows
<1>3. CASE UNCHANGED <<pages, links>>
  BY <1>3 DEF LinksHaveRows
<1> QED
  BY <1>1, <1>2, <1>3, RowsChange

LEMMA TagsFacts ==
  ASSUME WikiTypes, Stations, NEW p \in Writers, CommitStartup(p)
  PROVE  /\ Doc(p).who \notin Theses /\ ToSet(Doc(p).theses) \intersect Theses \subseteq TagsOf
         /\ pages' = pages \union {Doc(p).who} \union ToSet(Doc(p).theses)
<1>1. Doc(p).kind = "startup" /\ w[p].at \in Paging
  BY DEF CommitStartup, At, Paging
<1>2. Doc(p) \in Docs
  BY <1>1, DocFacts
<1>3. PICK job \in Jobs : Doc(p) \in ToSet(job)
  BY <1>2 DEF Docs
<1>4. PICK k \in DOMAIN job : Doc(p) = job[k]
  BY <1>3 DEF ToSet
<1>5. Doc(p).who \notin Theses
  BY <1>1, <1>2, WikiAssumption
<1> QED
  BY <1>1, <1>4, <1>5 DEF TagsOf, CommitStartup, StartupPages

\* No two processes write one AC again once they did.
LEMMA SameStays ==
  ASSUME NEW p \in Writers, Write(p)
  PROVE  /\ overlap = "same" => overlap' = "same"
         /\ overlap' = "no" => overlap = "no"
<1>1. CASE BeginJob(p)
  BY <1>1 DEF BeginJob
<1> QED
  BY <1>1, RowsChange

LEMMA NoOrphansStep ==
  ASSUME WikiTypes, Stations, LinksHaveRows, NoOrphansStay, SelectionHolds, NEW p \in Writers, Write(p)
  PROVE  NoOrphansStay'
<1> SUFFICES ASSUME NEW t \in (pages' \intersect Theses) \ TagsOf, overlap' # "same"
             PROVE  \E a \in ACs : <<a, t>> \in links'
  BY DEF NoOrphansStay
<1>0. overlap # "same"
  BY SameStays
<1>1. t \in pages => \E a \in ACs : <<a, t>> \in links
  BY <1>0 DEF NoOrphansStay
<1>2. CASE CommitProfile(p)
  <2> DEFINE ac == Doc(p).who
             rows == pages \union {ac} \union ToSet(Doc(p).theses)
             orphans == Orphaned(w[p].stale, rows, links')
  <2>1. ac \in ACs /\ pages' = rows \ orphans
    BY <1>2, CommitFacts
  <2>2. CASE t \in ToSet(Doc(p).theses)
    <3>0. links' = {m \in links : m[1] # ac} \union {<<ac, s>> : s \in ToSet(Doc(p).theses)}
      BY <1>2, CommitFacts
    <3>1. <<ac, t>> \in links'
      BY <2>2, <3>0
    <3> QED
      BY <2>1, <3>1
  <2>3. CASE t \notin ToSet(Doc(p).theses)
    <3>1. t \in pages
      BY <2>1, <2>3, WikiAssumption
    <3>2. PICK a \in ACs : <<a, t>> \in links
      BY <1>1, <3>1
    <3>3. CASE a # ac
      <4>1. <<a, t>>[1] # ac
        BY <3>3
      <4> HIDE DEF ac
      <4>2. <<a, t>> \in links'
        BY <1>2, <3>2, <4>1, CommitFacts DEF ac
      <4> QED
        BY <4>2
    <3>4. CASE a = ac
      <4>1. w[p].stale = LinkedIn(links, ac) \ ToSet(Doc(p).theses)
        BY <1>0, <1>2 DEF SelectionHolds, CommitProfile
      <4>2. t \in LinkedIn(links, ac)
        <5>1. <<a, t>>[1] = ac /\ <<a, t>>[2] = t
          BY <3>4
        <5> QED
          BY <3>2, <5>1 DEF LinkedIn
      <4>3. t \in w[p].stale /\ t \notin orphans
        BY <2>1, <2>3, <4>1, <4>2
      <4>4. PICK l \in links' : l[2] = t
        BY <4>3 DEF Orphaned
      <4>5. links' \subseteq ACs \X Theses
        BY TypesStep DEF WikiTypes
      <4>6. l = <<l[1], t>> /\ l[1] \in ACs
        BY <4>4, <4>5
      <4> QED
        BY <4>4, <4>6
    <3> QED
      BY <3>3, <3>4
  <2> QED
    BY <2>2, <2>3
<1>3. CASE CommitStartup(p) /\ UNCHANGED links
  <2>1. t \in pages
    BY <1>3, TagsFacts
  <2> QED
    BY <1>1, <1>3, <2>1
<1>4. CASE UNCHANGED <<pages, links>>
  BY <1>1, <1>4
<1> QED
  BY <1>2, <1>3, <1>4, RowsChange

LEMMA WhoseFacts ==
  /\ Whose(<<>>) = {}
  /\ \A s \in Seq(Docs) : s # <<>> => Whose(s) = {Head(s).who} \union Whose(Tail(s))
<1>1. \A s \in Seq(Docs) : Whose(s) = {d.who : d \in ToSet(s)}
  BY DEF Whose, ToSet
<1>2. ASSUME NEW s \in Seq(Docs), s # <<>> PROVE Whose(s) = {Head(s).who} \union Whose(Tail(s))
  <2>1. Tail(s) \in Seq(Docs) /\ ToSet(s) = {Head(s)} \union ToSet(Tail(s))
    BY <1>2, TailFacts
  <2> QED
    BY <1>1, <2>1, ZenonT(60)
<1>3. Whose(<<>>) = {}
  BY DEF Whose
<1> QED
  BY <1>2, <1>3

LEMMA SelectionStep ==
  ASSUME WikiTypes, Stations, SelectionHolds, NEW p \in Writers, Write(p)
  PROVE  SelectionHolds'
<1> SUFFICES ASSUME overlap' # "same"
             PROVE  /\ \A a, b \in Writers : a # b => Whose(w'[a].docs) \intersect Whose(w'[b].docs) = {}
                    /\ \A q \in Writers : w'[q].at = "commit" /\ Head(w'[q].docs).kind = "ac" =>
                         w'[q].stale = LinkedIn(links', Head(w'[q].docs).who) \ ToSet(Head(w'[q].docs).theses)
  BY DEF SelectionHolds, At, Doc, LinkedIn
<1>0. overlap # "same"
  BY SameStays
<1>1. w' = [w EXCEPT ![p] = w'[p]] /\ w \in [Writers -> Writer] /\ \A q \in Writers \ {p} : w'[q] = w[q]
  BY Shapes DEF WikiTypes
<1>2. ASSUME NEW q \in Writers \ {p} PROVE Whose(w'[p].docs) \intersect Whose(w[q].docs) = {}
  <2>0. Whose(w[p].docs) \intersect Whose(w[q].docs) = {}
    BY <1>0 DEF SelectionHolds
  <2>1. CASE BeginJob(p)
    <3>1. CASE At(q, "idle")
      BY <3>1, WhoseFacts DEF Stations, Idle
    <3>2. CASE ~ At(q, "idle")
      BY <2>1, <3>2 DEF BeginJob, Others
    <3> QED
      BY <3>1, <3>2
  <2>2. CASE WriteIndex(p)
    <3>1. w[p].docs \in Seq(Docs) /\ w[p].docs # <<>>
      BY <1>1, <2>2 DEF Stations, WriteIndex, At, Paging, Writer
    <3> QED
      BY <2>0, <2>2, <3>1, HoldsStep, WhoseFacts
  <2>3. CASE w'[p].docs = w[p].docs \/ w'[p] = Idle
    BY <2>0, <2>3, WhoseFacts DEF Idle
  <2> QED
    BY <2>1, <2>2, <2>3, HoldsStep
<1>3. ASSUME NEW a \in Writers, NEW b \in Writers, a # b
      PROVE  Whose(w'[a].docs) \intersect Whose(w'[b].docs) = {}
  <2>1. CASE a = p
    BY <1>1, <1>2, <1>3, <2>1
  <2>2. CASE b = p
    BY <1>1, <1>2, <1>3, <2>2
  <2>3. CASE a # p /\ b # p
    BY <1>0, <1>1, <1>3, <2>3 DEF SelectionHolds
  <2> QED
    BY <2>1, <2>2, <2>3
<1>4. ASSUME NEW q \in Writers, w'[q].at = "commit", Head(w'[q].docs).kind = "ac"
      PROVE  w'[q].stale = LinkedIn(links', Head(w'[q].docs).who) \ ToSet(Head(w'[q].docs).theses)
  <2>1. CASE q = p
    <3>1. CASE SelectStale(p)
      BY <1>1, <2>1, <3>1 DEF SelectStale, LinkedIn, wiki, Writer, Doc
    <3>2. CASE WritePage(p)
      <4>1. Doc(p).kind # "ac"
        BY <1>1, <1>4, <2>1, <3>2 DEF WritePage, Writer
      <4>2. w'[p].docs = w[p].docs
        BY <1>1, <3>2 DEF WritePage, Writer
      <4> QED
        BY <1>4, <2>1, <4>1, <4>2 DEF Doc
    <3> QED
      BY <1>4, <2>1, <3>1, <3>2, HoldsStep
  <2>2. CASE q # p
    <3>1. w'[q] = w[q]
      BY <1>1, <2>2
    <3>2. w[q].stale = LinkedIn(links, Doc(q).who) \ ToSet(Doc(q).theses)
      BY <1>0, <1>4, <3>1 DEF SelectionHolds, At, Doc
    <3>4. CASE CommitProfile(p)
      <4>1. Doc(p).who \in Whose(w[p].docs) /\ Doc(q).who \in Whose(w[q].docs)
        <5>1. w[p].at \in Paging /\ w[q].at \in Paging
          BY <1>4, <3>1, <3>4 DEF CommitProfile, At, Paging
        <5>2. w[p].docs # <<>> /\ w[q].docs # <<>> /\ w[p].docs \in Seq(Docs) /\ w[q].docs \in Seq(Docs)
          BY <1>1, <5>1 DEF Stations, Writer
        <5> QED
          BY <5>2, WhoseFacts DEF Doc
      <4>2. Doc(p).who # Doc(q).who
        BY <1>0, <2>2, <4>1 DEF SelectionHolds
      <4>3. ASSUME NEW m, m[1] = Doc(q).who PROVE m \in links' <=> m \in links
        <5>1. ASSUME m \in links' PROVE m \in links
          <6>1. CASE m \in links
            BY <6>1
          <6>2. CASE \E t \in ToSet(Doc(p).theses) : m = <<Doc(p).who, t>>
            <7>1. m[1] = Doc(p).who
              BY <6>2
            <7> QED
              BY <4>2, <4>3, <7>1
          <6>3. links' = {l \in links : l[1] # Doc(p).who}
                           \union {<<Doc(p).who, t>> : t \in ToSet(Doc(p).theses)}
            BY <3>4, CommitFacts
          <6> QED
            BY <5>1, <6>1, <6>2, <6>3
        <5>2. ASSUME m \in links PROVE m \in links'
          BY <3>4, <4>2, <4>3, <5>2, CommitFacts
        <5> QED
          BY <5>1, <5>2
      <4>4. LinkedIn(links', Head(w[q].docs).who) = LinkedIn(links, Doc(q).who)
        BY <3>1, <4>3 DEF LinkedIn, Doc
      <4> QED
        BY <3>1, <3>2, <4>4 DEF Doc, LinkedIn
    <3>5. CASE UNCHANGED links
      BY <3>1, <3>2, <3>5 DEF LinkedIn, Doc
    <3> QED
      BY <3>4, <3>5, RowsChange
  <2> QED
    BY <2>1, <2>2
<1> QED
  BY <1>3, <1>4
-----------------------------------------------------------------------------
(* A process that works alone.                                             *)

LEMMA AloneNow ==
  ASSUME WikiTypes, AloneHolds, NEW p \in Writers, Write(p), overlap' = "no"
  PROVE  overlap = "no" /\ \A q \in Writers \ {p} : At(q, "idle")
<1>1. overlap = "no"
  BY SameStays
<1>2. CASE BeginJob(p)
  BY <1>2 DEF BeginJob, Others
<1>3. CASE ~ BeginJob(p)
  <2>1. ~ At(p, "idle")
    BY <1>3 DEF Write, WritePage, WriteThesis, SelectStale, CommitProfile, CommitStartup, Unlink, ReadPages,
                WriteIndex, StoreRows, Die, At, Tables, ToSet
  <2> QED
    BY <1>1, <2>1 DEF AloneHolds
<1> QED
  BY <1>1, <1>2, <1>3

LEMMA AloneStep ==
  ASSUME WikiTypes, Stations, LinksHaveRows, AloneHolds, NEW p \in Writers, Write(p)
  PROVE  AloneHolds'
<1> SUFFICES ASSUME overlap' = "no"
             PROVE  /\ \A a, b \in Writers : a # b => w'[a].at = "idle" \/ w'[b].at = "idle"
                    /\ \A l \in links' : l[2] \in DOMAIN files'
                    /\ \A q \in Writers :
                         LET doc == Head(w'[q].docs) IN
                         /\ w'[q].at = "theses" => ToSet(doc.theses) \subseteq DOMAIN files' \union ToSet(w'[q].left)
                         /\ w'[q].at \in {"select", "commit"} /\ doc.kind = "ac" =>
                              ToSet(doc.theses) \subseteq DOMAIN files'
                         /\ w'[q].at = "unlink" => \A l \in links' : l[2] \notin w'[q].gone
  BY DEF AloneHolds, At, Doc
<1>0. overlap = "no" /\ \A q \in Writers \ {p} : At(q, "idle")
  BY AloneNow
<1>1. w' = [w EXCEPT ![p] = w'[p]] /\ w \in [Writers -> Writer] /\ \A q \in Writers \ {p} : w'[q] = w[q]
  BY Shapes DEF WikiTypes
<1>2. \A q \in Writers \ {p} : w'[q].at = "idle"
  BY <1>0, <1>1 DEF At
<1>3. \A l \in links' : l[2] \in DOMAIN files'
  <2>1. CASE CommitProfile(p)
    <3>1. ToSet(Doc(p).theses) \subseteq DOMAIN files
      BY <1>0, <2>1 DEF AloneHolds, CommitProfile, At
    <3>2. links' = {l \in links : l[1] # Doc(p).who} \union {<<Doc(p).who, t>> : t \in ToSet(Doc(p).theses)}
          /\ UNCHANGED files
      BY <2>1, CommitFacts
    <3>3. \A l \in links : l[2] \in DOMAIN files
      BY <1>0 DEF AloneHolds
    <3> QED
      BY <3>1, <3>2, <3>3
  <2>2. CASE UNCHANGED links
    <3>1. \A l \in links : l[2] \in DOMAIN files
      BY <1>0 DEF AloneHolds
    <3>2. CASE Unlink(p) /\ w[p].gone # {}
      <4>1. PICK t \in w[p].gone : files' = [f \in DOMAIN files \ {t} |-> files[f]]
        BY <3>2 DEF Unlink
      <4>2. \A l \in links : l[2] \notin w[p].gone
        BY <1>0, <3>2 DEF AloneHolds, Unlink
      <4> QED
        BY <2>2, <3>1, <4>1, <4>2
    <3>3. CASE Unlink(p) /\ w[p].gone = {}
      BY <2>2, <3>1, <3>3 DEF Unlink
    <3>4. CASE ~ Unlink(p)
      BY <2>2, <3>1, <3>4, FilesStep
    <3> QED
      BY <3>2, <3>3, <3>4
  <2> QED
    BY <2>1, <2>2, RowsChange
<1>4. ASSUME w'[p].at = "theses"
      PROVE  ToSet(Head(w'[p].docs).theses) \subseteq DOMAIN files' \union ToSet(w'[p].left)
  <2>1. CASE WritePage(p)
    <3>1. Doc(p).kind = "ac"
      BY <1>1, <1>4, <2>1 DEF WritePage, Writer
    <3>2. w'[p].docs = w[p].docs /\ w'[p].left = Doc(p).theses
      BY <1>1, <2>1, <3>1 DEF WritePage, Writer
    <3> QED
      BY <3>2 DEF Doc
  <2>2. CASE WriteThesis(p)
    <3>1. w[p].left # <<>>
      BY <1>1, <1>4, <2>2 DEF WriteThesis, Go, Writer
    <3>2. w'[p].docs = w[p].docs /\ w'[p].left = Tail(w[p].left)
          /\ files' = PageOver(Head(w[p].left), {Doc(p).who})
      BY <1>1, <2>2, <3>1, ZenonT(60) DEF WriteThesis, Writer
    <3>3. DOMAIN files' = {Head(w[p].left)} \union DOMAIN files
      BY <3>2, PageOverDomain
    <3>4. ToSet(w[p].left) = {Head(w[p].left)} \union ToSet(Tail(w[p].left))
      BY <1>1, <3>1, TailFacts DEF Writer
    <3>5. ToSet(Doc(p).theses) \subseteq DOMAIN files \union ToSet(w[p].left)
      BY <1>0, <2>2 DEF WriteThesis, AloneHolds
    <3> QED
      BY <3>2, <3>3, <3>4, <3>5 DEF Doc
  <2> QED
    BY <1>4, <2>1, <2>2, HoldsStep
<1>5. ASSUME w'[p].at \in {"select", "commit"}, Head(w'[p].docs).kind = "ac"
      PROVE  ToSet(Head(w'[p].docs).theses) \subseteq DOMAIN files'
  <2>1. CASE WritePage(p)
    <3>1. w'[p].docs = w[p].docs
      BY <1>1, <2>1 DEF WritePage, Writer
    <3>2. Doc(p).kind # "ac"
      BY <1>1, <1>5, <2>1 DEF WritePage, Writer
    <3> QED
      BY <1>5, <3>1, <3>2 DEF Doc
  <2>2. CASE WriteThesis(p)
    <3>1. w[p].left = <<>>
      BY <1>1, <1>5, <2>2 DEF WriteThesis, Writer, At
    <3>2. w'[p].docs = w[p].docs /\ UNCHANGED files
      BY <1>1, <2>2, <3>1 DEF WriteThesis, Go, Writer
    <3>3. ToSet(Doc(p).theses) \subseteq DOMAIN files \union ToSet(w[p].left)
      BY <1>0, <2>2 DEF WriteThesis, AloneHolds
    <3>4. ToSet(w[p].left) = {}
      BY <3>1 DEF ToSet
    <3> QED
      BY <3>2, <3>3, <3>4 DEF Doc
  <2>3. CASE SelectStale(p)
    <3>1. w'[p].docs = w[p].docs /\ UNCHANGED files
      BY <1>1, <2>3 DEF SelectStale, Writer, wiki
    <3>2. Doc(p).kind = "ac" => ToSet(Doc(p).theses) \subseteq DOMAIN files
      BY <1>0, <2>3 DEF SelectStale, AloneHolds, At
    <3> QED
      BY <1>5, <3>1, <3>2 DEF Doc
  <2> QED
    BY <1>5, <2>1, <2>2, <2>3, HoldsStep
<1>6. ASSUME w'[p].at = "unlink" PROVE \A l \in links' : l[2] \notin w'[p].gone
  <2>1. CASE CommitProfile(p)
    <3> DEFINE rows == pages \union {Doc(p).who} \union ToSet(Doc(p).theses)
    <3>1. w'[p].gone = Orphaned(w[p].stale, rows, links')
      <4>1. w' = [w EXCEPT ![p].at = "unlink", ![p].gone = Orphaned(w[p].stale, rows, links')]
        BY <2>1, CommitFacts
      <4> HIDE DEF rows
      <4> QED
        BY <1>1, <4>1 DEF Writer
    <3>2. \A l \in links' : l[1] \in rows
      <4>1. \A l \in links : l[1] \in pages
        BY DEF LinksHaveRows
      <4>2. links' = {l \in links : l[1] # Doc(p).who} \union {<<Doc(p).who, t>> : t \in ToSet(Doc(p).theses)}
        BY <2>1, CommitFacts
      <4> QED
        BY <4>1, <4>2
    <3> QED
      BY <3>1, <3>2 DEF Orphaned
  <2>2. CASE Unlink(p)
    <3>1. \A l \in links : l[2] \notin w[p].gone
      BY <1>0, <2>2 DEF AloneHolds, Unlink
    <3>2. UNCHANGED links
      BY <2>2 DEF Unlink
    <3>3. w'[p].gone \subseteq w[p].gone
      <4>1. CASE w[p].gone = {}
        BY <1>1, <2>2, <4>1, ZenonT(60) DEF Unlink, Go, Writer
      <4>2. CASE w[p].gone # {}
        <5>1. PICK t \in w[p].gone : w' = [w EXCEPT ![p].gone = @ \ {t}]
          BY <2>2, <4>2 DEF Unlink
        <5> QED
          BY <1>1, <5>1 DEF Writer
      <4> QED
        BY <4>1, <4>2
    <3> QED
      BY <3>1, <3>2, <3>3
  <2> QED
    BY <1>6, <2>1, <2>2, HoldsStep
<1> QED
  BY <1>2, <1>3, <1>4, <1>5, <1>6
-----------------------------------------------------------------------------
(* The Mother DB.                                                          *)

\* What a step makes of the tables: they lose no id, and StoreRows adds the rows
\* of its documents to one of them.
LEMMA StoreFacts ==
  ASSUME WikiTypes, NEW p \in Writers, StoreRows(p)
  PROVE  LET t == w[p].at
             took == w[p].took
         IN  /\ t \in ToSet(Tables) /\ \A u \in ToSet(Tables) \ {t} : mother'[u] = mother[u]
             /\ Ids(mother'[t]) = Ids(mother[t]) \union {Row(t, took[k]).id : k \in DOMAIN took}
             /\ \A r \in mother'[t] : r \in mother[t] \/ \E k \in DOMAIN took : r = Row(t, took[k])
<1> DEFINE t == w[p].at
           took == w[p].took
           new == [k \in DOMAIN took |-> Row(t, took[k])]
<1>1. t \in ToSet(Tables) /\ mother' = [mother EXCEPT ![t] = Upsert(@, new)]
  BY DEF StoreRows
<1>2. took \in Seq(Docs)
  BY DEF WikiTypes, Writer
<1>3. Len(took) \in Nat /\ DOMAIN took = 1 .. Len(took)
  BY <1>2
<1>4. mother'[t] = Upsert(mother[t], new) /\ \A u \in ToSet(Tables) \ {t} : mother'[u] = mother[u]
  BY <1>1 DEF WikiTypes
<1>5. DOMAIN new = 1 .. Len(took) /\ \A k \in 1 .. Len(took) : new[k] = Row(t, took[k])
  BY <1>3
<1> HIDE DEF t, took, new
<1>6. Ids(mother'[t]) = Ids(mother[t]) \union {new[k].id : k \in 1 .. Len(took)}
  <2>1. \A n \in Nat : DOMAIN new = 1 .. n =>
          Ids(Upsert(mother[t], new)) = Ids(mother[t]) \union {new[k].id : k \in 1 .. n}
    BY UpsertIds
  <2> QED
    BY <1>3, <1>4, <1>5, <2>1
<1>7. {new[k].id : k \in 1 .. Len(took)} = {Row(t, took[k]).id : k \in DOMAIN took}
  BY <1>3, <1>5
<1>8. \A r \in mother'[t] : r \in mother[t] \/ \E k \in DOMAIN took : r = Row(t, took[k])
  BY <1>3, <1>4, <1>5, UpsertRows
<1> QED
  BY <1>1, <1>4, <1>6, <1>7, <1>8 DEF t, took

LEMMA IdsGrow ==
  ASSUME WikiTypes, NEW p \in Writers, Write(p)
  PROVE  \A t \in ToSet(Tables) : Ids(mother[t]) \subseteq Ids(mother'[t])
<1>1. CASE StoreRows(p)
  BY <1>1, StoreFacts
<1> QED
  BY <1>1, RowsChange

LEMMA ClosedById ==
  ASSUME NEW t
  PROVE  Closed(t) <=> \A s \in t["signals"] :
                         s.id \in Ids(t["raw_sources"]) /\ s.of \in Ids(t["mother_entities"])
BY DEF Closed, Ids

LEMMA SignalsLastStep ==
  ASSUME WikiTypes, Stations, SignalsLast, NEW p \in Writers, Write(p)
  PROVE  SignalsLast'
<1>0. ToSet(Tables) = {"raw_sources", "mother_entities", "signals", "ac_profiles"}
  BY DEF Tables, ToSet
<1>1. w' = [w EXCEPT ![p] = w'[p]] /\ w \in [Writers -> Writer] /\ \A q \in Writers \ {p} : w'[q] = w[q]
  BY Shapes DEF WikiTypes
<1>2. \A t \in ToSet(Tables) : Ids(mother[t]) \subseteq Ids(mother'[t])
  BY IdsGrow
<1>3. ASSUME StoreRows(p), NEW t, t = w[p].at
      PROVE  /\ t \in ToSet(Tables) /\ \A u \in ToSet(Tables) \ {t} : mother'[u] = mother[u]
             /\ \A k \in DOMAIN w[p].took : Row(t, w[p].took[k]).id \in Ids(mother'[t])
             /\ \A r \in mother'[t] : r \in mother[t] \/ \E k \in DOMAIN w[p].took : r = Row(t, w[p].took[k])
  BY <1>3, StoreFacts
<1>4. Closed(mother')
  <2>1. \A s \in mother["signals"] :
          s.id \in Ids(mother["raw_sources"]) /\ s.of \in Ids(mother["mother_entities"])
    BY ClosedById DEF SignalsLast
  <2>2. ASSUME NEW s \in mother'["signals"]
        PROVE  s.id \in Ids(mother'["raw_sources"]) /\ s.of \in Ids(mother'["mother_entities"])
    <3>1. CASE s \in mother["signals"]
      BY <1>0, <1>2, <2>1, <3>1
    <3>2. CASE s \notin mother["signals"]
      <4>1. StoreRows(p) /\ w[p].at = "signals"
        BY <1>0, <1>3, <2>2, <3>2, RowsChange
      <4>2. PICK k \in DOMAIN w[p].took : s = Row("signals", w[p].took[k])
        BY <1>3, <2>2, <3>2, <4>1
      <4>3. s.id = w[p].took[k].source /\ s.of = w[p].took[k].who
        BY <4>2 DEF Row
      <4>4. /\ w[p].took[k].source \in Ids(mother["raw_sources"])
            /\ w[p].took[k].who \in Ids(mother["mother_entities"])
        BY <4>1 DEF SignalsLast, At
      <4> QED
        BY <1>0, <1>2, <4>3, <4>4
    <3> QED
      BY <3>1, <3>2
  <2> QED
    BY <2>2, ClosedById
<1>5. ASSUME NEW q \in Writers, NEW k \in DOMAIN w'[q].took, w'[q].at \in {"mother_entities", "signals"}
      PROVE  /\ w'[q].took[k].source \in Ids(mother'["raw_sources"])
             /\ w'[q].at = "signals" => w'[q].took[k].who \in Ids(mother'["mother_entities"])
  <2>1. CASE q # p
    <3>1. w'[q] = w[q]
      BY <1>1, <2>1
    <3> QED
      BY <1>0, <1>2, <1>5, <3>1 DEF SignalsLast, At
  <2>2. CASE q = p
    <3>1. StoreRows(p) /\ w[p].at \in ToSet(Tables)
      BY <1>5, <2>2, HoldsStep DEF StoreRows
    <3>2. w'[p] # Idle
      BY <1>5, <2>2 DEF Idle
    <3>3. w'[p].took = w[p].took /\ w'[p].at = AfterTable(w[p].at)
      <4>1. AfterTable(w[p].at) # "idle"
        BY <1>1, <3>1, <3>2 DEF StoreRows
      <4> HIDE DEF AfterTable
      <4> QED
        BY <1>1, <3>1, <4>1 DEF StoreRows, Writer
    <3>4. CASE w[p].at = "raw_sources"
      <4>1. Row("raw_sources", w[p].took[k]).id = w[p].took[k].source
        BY DEF Row
      <4>2. w'[p].at = "mother_entities"
        BY <3>3, <3>4 DEF AfterTable
      <4> QED
        BY <1>3, <1>5, <2>2, <3>1, <3>3, <3>4, <4>1, <4>2
    <3>5. CASE w[p].at = "mother_entities"
      <4>1. Row("mother_entities", w[p].took[k]).id = w[p].took[k].who
        BY DEF Row
      <4>2. w[p].took[k].source \in Ids(mother["raw_sources"])
        BY <1>5, <2>2, <3>3, <3>5 DEF SignalsLast
      <4> QED
        BY <1>0, <1>2, <1>3, <1>5, <2>2, <3>1, <3>3, <3>5, <4>1, <4>2
    <3>6. CASE w[p].at \in {"signals", "ac_profiles"}
      BY <1>5, <2>2, <3>3, <3>6 DEF AfterTable
    <3> QED
      BY <1>0, <3>1, <3>4, <3>5, <3>6
  <2> QED
    BY <2>1, <2>2
<1> QED
  BY <1>4, <1>5 DEF SignalsLast, At, Closed
-----------------------------------------------------------------------------
(* The wiki as a whole.                                                    *)

LEMMA WikiInvInit == WikiInit => WikiInv
<1> SUFFICES ASSUME WikiInit PROVE WikiInv
  OBVIOUS
<1>1. WikiTypes
  BY DEF WikiInit, WikiTypes, IsFun, NoRows, Idle, Writer
<1>2. Stations /\ PagesFirst
  <2>1. "idle" \notin Paging
    BY DEF Paging
  <2> QED
    BY <2>1 DEF WikiInit, Stations, PagesFirst, At, Idle
<1>3. LinksHaveRows /\ NoOrphansStay /\ SelectionHolds /\ AloneHolds
  BY WhoseFacts DEF WikiInit, LinksHaveRows, NoOrphansStay, SelectionHolds, AloneHolds, At, Idle
<1>4. SignalsLast
  BY DEF WikiInit, SignalsLast, Closed, NoRows, Idle, At, Tables, ToSet
<1> QED
  BY <1>1, <1>2, <1>3, <1>4 DEF WikiInv

LEMMA WikiInvStep ==
  ASSUME WikiInv, NEW p \in Writers, Write(p)
  PROVE  WikiInv'
BY TypesStep, PagesFirstStep, LinksHaveRowsStep, NoOrphansStep, SelectionStep, AloneStep, SignalsLastStep
   DEF WikiInv

LEMMA WikiInvSame ==
  ASSUME WikiInv, UNCHANGED <<wiki, mother, w, overlap>>
  PROVE  WikiInv'
BY ZenonT(60) DEF WikiInv, wiki, WikiTypes, Stations, PagesFirst, LinksHaveRows, NoOrphansStay, SelectionHolds, AloneHolds,
       SignalsLast, Closed, At, Doc, LinkedIn

\* The three parts of what a run of the wiki promises.
LEMMA WikiInvAgrees == WikiInv => PagesAgree
BY DEF WikiInv, PagesAgree, PagesOfTheses, AloneHolds
-----------------------------------------------------------------------------
(* Steps of the export.                                                    *)

Fields == {"copy", "tables", "archive", "manifest"}

\* A run saves one part of its own directory.
LEMMA SaveFacts ==
  ASSUME ExportTypes, run \in 1 .. MaxExports, NEW field \in Fields, NEW value, Save(field, value)
  PROVE  /\ disk'[run][field] = value /\ \A g \in Fields \ {field} : disk'[run][g] = disk[run][g]
         /\ \A r \in 1 .. MaxExports \ {run} : disk'[r] = disk[r]
         /\ disk' = [r \in 1 .. MaxExports |-> [copy |-> disk'[r].copy, tables |-> disk'[r].tables,
                                                archive |-> disk'[r].archive, manifest |-> disk'[r].manifest]]
<1> DEFINE rec == [copy |-> disk[run].copy, tables |-> disk[run].tables,
                   archive |-> disk[run].archive, manifest |-> disk[run].manifest]
<1>1. disk[run] = rec
  BY DEF ExportTypes
<1>2. disk' = [disk EXCEPT ![run] = [rec EXCEPT ![field] = value]]
  BY <1>1 DEF Save
<1>3. /\ disk'[run] = [rec EXCEPT ![field] = value]
      /\ \A r \in 1 .. MaxExports \ {run} : disk'[r] = disk[r]
      /\ disk' = [r \in 1 .. MaxExports |-> disk'[r]]
  BY <1>2 DEF ExportTypes
<1>4. rec = [g \in Fields |-> rec[g]]
  BY DEF Fields
<1>5. disk'[run] = [g \in Fields |-> IF g = field THEN value ELSE rec[g]]
  BY <1>3, <1>4
<1>6. disk'[run][field] = value /\ \A g \in Fields \ {field} : disk'[run][g] = disk[run][g]
  BY <1>1, <1>5
<1>7. disk'[run] = [copy |-> disk'[run].copy, tables |-> disk'[run].tables,
                    archive |-> disk'[run].archive, manifest |-> disk'[run].manifest]
  BY <1>5 DEF Fields
<1> QED
  BY <1>3, <1>6, <1>7 DEF ExportTypes

LEMMA Running == ASSUME ExportTypes, at # "idle" PROVE run \in 1 .. MaxExports
  BY ExportAssumption DEF ExportTypes

LEMMA TabNames == ToSet(TabOrder) = {"SQLite Backup", "Wiki Backup", "Backup Manifest"}
<1>1. DOMAIN TabOrder = 1 .. 3 /\ TabOrder[1] = "SQLite Backup" /\ TabOrder[2] = "Wiki Backup"
      /\ TabOrder[3] = "Backup Manifest"
  BY DEF TabOrder
<1>2. 1 .. 3 = {1, 2, 3}
  OBVIOUS
<1> QED
  BY <1>1, <1>2 DEF ToSet

LEMMA ExportTypesStep ==
  ASSUME WikiTypes, ExportTypes, ExportStep
  PROVE  ExportTypes'
<1>0. at # "idle" => run \in 1 .. MaxExports
  BY Running
<1> DEFINE DiskOk(d) == d = [r \in 1 .. MaxExports |-> [copy |-> d[r].copy, tables |-> d[r].tables,
                                                        archive |-> d[r].archive, manifest |-> d[r].manifest]]
<1>1. \A field \in Fields : \A value : at # "idle" /\ Save(field, value) => DiskOk(disk')
  BY <1>0, SaveFacts
<1>2. DiskOk(disk)
  BY DEF ExportTypes
<1>3. ASSUME NEW f, NEW x, NEW y, IsFun(f) PROVE IsFun(With(f, x, y))
  BY DEF IsFun, With
<1>4. IsFun(NoTables) /\ IsFun(NoFiles)
  BY DEF IsFun, NoTables, NoFiles
<1>5. "copy" \in Fields /\ "tables" \in Fields /\ "archive" \in Fields /\ "manifest" \in Fields
  BY DEF Fields
<1> HIDE DEF DiskOk
<1>a. CASE BeginExport
  BY <1>2, <1>a, ExportAssumption DEF BeginExport, ExportTypes, Steps, DiskOk
<1>b. CASE CopyDb
  <2>1. DiskOk(disk')
    BY <1>1, <1>5, <1>b DEF CopyDb
  <2> QED
    BY <1>4, <1>b, <2>1 DEF CopyDb, ExportTypes, Steps, DiskOk
<1>c. CASE ExportTable
  <2>1. DiskOk(disk')
    BY <1>1, <1>5, <1>c DEF ExportTable
  <2>2. PICK t : tables' = With(tables, t, mother[t])
    BY <1>c DEF ExportTable
  <2>3. IsFun(tables')
    BY <1>3, <2>2 DEF ExportTypes
  <2>4. at' \in {"list", "tables"} /\ at # "idle"
    BY <1>c DEF ExportTable
  <2> QED
    BY <1>c, <2>1, <2>3, <2>4 DEF ExportTable, ExportTypes, Steps, DiskOk
<1>d. CASE ListWiki
  <2>1. todo' \subseteq Files
    BY <1>d, ExportAssumption DEF ListWiki, Files, Pages, Named
  <2>2. at' \in Steps /\ at # "idle" /\ IsFun(read')
    BY <1>4, <1>d DEF ListWiki, Steps
  <2> QED
    BY <1>2, <1>d, <2>1, <2>2 DEF ListWiki, ExportTypes, DiskOk
<1>e. CASE ReadFile
  <2>1. PICK k \in DOMAIN PathOrder :
          LET f == PathOrder[k]
          IN  /\ read' = IF f = "index" \/ f \in DOMAIN files THEN With(read, f, Content(f)) ELSE read
              /\ todo' = todo \ {f}
    BY <1>e DEF ReadFile
  <2>2. IsFun(read') /\ todo' \subseteq Files
    BY <1>3, <2>1 DEF ExportTypes
  <2> QED
    BY <1>2, <1>e, <2>2 DEF ReadFile, ExportTypes, DiskOk
<1>f. CASE FinishArchive
  <2>1. DiskOk(disk')
    BY <1>1, <1>5, <1>f DEF FinishArchive
  <2> QED
    BY <1>f, <2>1 DEF FinishArchive, ExportTypes, Steps, DiskOk
<1>g. CASE WriteManifest
  <2>1. DiskOk(disk')
    BY <1>1, <1>5, <1>g DEF WriteManifest
  <2> QED
    BY <1>g, <2>1 DEF WriteManifest, ExportTypes, Steps, DiskOk
<1>h. CASE ReplaceTab
  <2>1. PICK k \in DOMAIN TabOrder :
          tabs' = [tabs EXCEPT ![TabOrder[k]] = [run |-> run, content |-> TabContent(TabOrder[k])]]
    BY <1>h DEF ReplaceTab
  <2>2. \A t \in ToSet(TabOrder) : tabs'[t] = tabs[t] \/ tabs'[t].run = run
    BY <2>1 DEF ExportTypes
  <2>3. tabs' = [t \in ToSet(TabOrder) |-> tabs'[t]]
    BY <2>1 DEF ExportTypes
  <2>4. \A t \in ToSet(TabOrder) : tabs'[t].run \in Nat
    BY <2>2 DEF ExportTypes
  <2>5. at' \in Steps /\ at # "idle"
    BY <1>h DEF ReplaceTab, Steps
  <2> QED
    BY <1>2, <1>h, <2>3, <2>4, <2>5 DEF ReplaceTab, ExportTypes, DiskOk
<1> QED
  BY <1>a, <1>b, <1>c, <1>d, <1>e, <1>f, <1>g, <1>h DEF ExportStep

\* What a step of the export does to the directories: one part of its own, or none.
LEMMA DiskStep ==
  ASSUME ExportTypes, ExportStep
  PROVE  /\ \A r \in 1 .. MaxExports : r # run => disk'[r] = disk[r]
         /\ CopyDb \/ ExportTable \/ FinishArchive \/ WriteManifest \/ UNCHANGED disk
         /\ CopyDb => /\ run \in 1 .. MaxExports /\ disk'[run].copy = mother /\ disk'[run].tables = disk[run].tables
                      /\ disk'[run].manifest = disk[run].manifest /\ disk'[run].archive = disk[run].archive
         /\ ExportTable => /\ run \in 1 .. MaxExports /\ disk'[run].tables = tables'
                           /\ disk'[run].copy = disk[run].copy
                           /\ disk'[run].manifest = disk[run].manifest /\ disk'[run].archive = disk[run].archive
         /\ FinishArchive => /\ run \in 1 .. MaxExports /\ disk'[run].archive = read
                             /\ disk'[run].copy = disk[run].copy /\ disk'[run].tables = disk[run].tables
                             /\ disk'[run].manifest = disk[run].manifest
         /\ WriteManifest => /\ run \in 1 .. MaxExports /\ disk'[run].manifest = Counts
                             /\ disk'[run].copy = disk[run].copy /\ disk'[run].tables = disk[run].tables
                             /\ disk'[run].archive = disk[run].archive
<1>0. at # "idle" => run \in 1 .. MaxExports
  BY Running
<1>1. CASE CopyDb
  <2>1. run \in 1 .. MaxExports /\ Save("copy", mother) /\ at = "copy" /\ "copy" \in Fields
    BY <1>0, <1>1 DEF CopyDb, Fields
  <2> QED
    BY <1>1, <2>1, SaveFacts DEF Fields, ExportTable, FinishArchive, WriteManifest
<1>2. CASE ExportTable
  <2>1. run \in 1 .. MaxExports /\ Save("tables", tables') /\ at = "tables" /\ "tables" \in Fields
    BY <1>0, <1>2 DEF ExportTable, Fields
  <2> QED
    BY <1>2, <2>1, SaveFacts DEF Fields, CopyDb, FinishArchive, WriteManifest
<1>3. CASE FinishArchive
  <2>1. run \in 1 .. MaxExports /\ Save("archive", read) /\ at = "archive" /\ "archive" \in Fields
    BY <1>0, <1>3 DEF FinishArchive, Fields
  <2> QED
    BY <1>3, <2>1, SaveFacts DEF Fields, CopyDb, ExportTable, WriteManifest
<1>4. CASE WriteManifest
  <2>1. run \in 1 .. MaxExports /\ Save("manifest", Counts) /\ at = "manifest" /\ "manifest" \in Fields
    BY <1>0, <1>4 DEF WriteManifest, Fields
  <2> QED
    BY <1>4, <2>1, SaveFacts DEF Fields, CopyDb, ExportTable, FinishArchive
<1>5. CASE BeginExport \/ ListWiki \/ ReadFile \/ ReplaceTab
  <2>1. UNCHANGED disk /\ ~ (CopyDb \/ ExportTable \/ FinishArchive \/ WriteManifest)
    BY <1>5 DEF BeginExport, ListWiki, ReadFile, ReplaceTab, CopyDb, ExportTable, FinishArchive, WriteManifest
  <2> QED
    BY <2>1
<1> QED
  BY <1>1, <1>2, <1>3, <1>4, <1>5 DEF ExportStep

\* From where each step of the export goes where.
LEMMA Moves ==
  ASSUME ExportTypes, ExportStep
  PROVE  /\ \/ BeginExport /\ at = "idle" /\ at' = "copy" /\ run' = run + 1 /\ UNCHANGED <<tables, disk, tabs>>
            \/ CopyDb /\ at = "copy" /\ at' = "tables" /\ tables' = NoTables /\ UNCHANGED <<run, tabs>>
            \/ ExportTable /\ at = "tables" /\ at' \in {"tables", "list"} /\ UNCHANGED <<run, tabs>>
            \/ ListWiki /\ at = "list" /\ at' = "archive" /\ UNCHANGED <<run, tables, disk, tabs>>
            \/ ListWiki /\ at = "list again" /\ at' = "wiki rows" /\ UNCHANGED <<run, tables, disk, tabs>>
            \/ ReadFile /\ at \in {"archive", "wiki rows"} /\ UNCHANGED <<at, run, tables, disk, tabs>>
            \/ FinishArchive /\ at = "archive" /\ at' = "manifest" /\ UNCHANGED <<run, tables, tabs>>
            \/ WriteManifest /\ at = "manifest" /\ at' = "list again" /\ UNCHANGED <<run, tables, tabs>>
            \/ ReplaceTab /\ at = "wiki rows" /\ at' \in {"wiki rows", "idle"} /\ UNCHANGED <<run, tables, disk>>
         /\ run' \in Nat /\ run \in Nat
         /\ at # "idle" => run \in 1 .. MaxExports
<1>0. run \in Nat /\ run + 1 \in Nat /\ (at # "idle" => run \in 1 .. MaxExports)
  BY Running, ExportAssumption DEF ExportTypes
<1>1. CASE BeginExport
  BY <1>0, <1>1 DEF BeginExport
<1>2. CASE CopyDb
  BY <1>0, <1>2 DEF CopyDb
<1>3. CASE ExportTable
  BY <1>0, <1>3 DEF ExportTable
<1>4. CASE ListWiki
  BY <1>0, <1>4 DEF ListWiki
<1>5. CASE ReadFile
  BY <1>0, <1>5 DEF ReadFile
<1>6. CASE FinishArchive
  BY <1>0, <1>6 DEF FinishArchive
<1>7. CASE WriteManifest
  BY <1>0, <1>7 DEF WriteManifest
<1>8. CASE ReplaceTab
  BY <1>0, <1>8 DEF ReplaceTab
<1> QED
  BY <1>1, <1>2, <1>3, <1>4, <1>5, <1>6, <1>7, <1>8 DEF ExportStep

LEMMA WrittenStep ==
  ASSUME WikiTypes, ExportTypes, Written, ExportStep
  PROVE  Written'
<1>0. mother # NoTables
  <2>1. DOMAIN mother = ToSet(Tables)
    BY DEF WikiTypes
  <2>2. "signals" \in ToSet(Tables) /\ DOMAIN NoTables = {}
    BY DEF Tables, ToSet, NoTables
  <2> QED
    BY <2>1, <2>2
<1>1. ASSUME NEW r \in 1 .. MaxExports, r > run' \/ (r = run' /\ at' = "copy") PROVE disk'[r] = Unwritten
  <2>0. run' = run + 1 \/ (run' = run /\ at' # "copy")
    BY Moves
  <2>1. r \in Nat /\ run \in Nat /\ (run' = run + 1 \/ (run' = run /\ at' # "copy"))
    BY <2>0, ExportAssumption DEF ExportTypes
  <2>2. r > run
    BY <1>1, <2>1
  <2>3. disk[r] = Unwritten
    BY <2>2 DEF Written
  <2>4. r # run
    BY <2>1, <2>2
  <2> QED
    BY <2>3, <2>4, DiskStep
<1>2. ASSUME at' \notin Early PROVE disk'[run'].tables = tables' /\ disk'[run'].copy # NoTables
  <2>1. CASE CopyDb
    <3>1. run \in 1 .. MaxExports /\ disk'[run].copy = mother /\ disk'[run].tables = disk[run].tables
      BY <2>1, DiskStep
    <3>2. at = "copy" /\ tables' = NoTables /\ run' = run
      BY <2>1 DEF CopyDb
    <3>3. disk[run] = Unwritten
      BY <3>1, <3>2 DEF Written
    <3> HIDE DEF NoTables
    <3> QED
      BY <1>0, <3>1, <3>2, <3>3 DEF Unwritten
  <2>2. CASE ExportTable
    <3>1. disk'[run].tables = tables' /\ disk'[run].copy = disk[run].copy
      BY <2>2, DiskStep
    <3>2. at = "tables" /\ run' = run
      BY <2>2 DEF ExportTable
    <3> QED
      BY <3>1, <3>2 DEF Written, Early, OnDisk
  <2>3. CASE ~ CopyDb /\ ~ ExportTable
    <3>1. at \notin Early /\ UNCHANGED <<run, tables>>
      BY <1>2, <2>3, Moves DEF Early
    <3>2. disk[run].tables = tables /\ disk[run].copy # NoTables
      BY <3>1 DEF Written, OnDisk
    <3>3. disk'[run].tables = disk[run].tables /\ disk'[run].copy = disk[run].copy
      BY <2>3, DiskStep
    <3> QED
      BY <3>1, <3>2, <3>3
  <2> QED
    BY <2>1, <2>2, <2>3
<1>3. ASSUME at' \in {"tables", "list", "archive", "manifest"} PROVE disk'[run'].manifest = NoTables
  <2>1. CASE CopyDb
    <3>1. run \in 1 .. MaxExports /\ at = "copy" /\ run' = run /\ disk'[run].manifest = disk[run].manifest
      BY <2>1, DiskStep DEF CopyDb
    <3>2. disk[run] = Unwritten
      BY <3>1 DEF Written
    <3> QED
      BY <3>1, <3>2 DEF Unwritten
  <2>2. CASE ~ CopyDb
    <3>1. at \in {"tables", "list", "archive", "manifest"} /\ run' = run /\ ~ WriteManifest
      BY <1>3, <2>2, Moves DEF WriteManifest
    <3>2. disk'[run].manifest = disk[run].manifest
      BY <2>2, <3>1, DiskStep
    <3> QED
      BY <3>1, <3>2 DEF Written, OnDisk
  <2> QED
    BY <2>1, <2>2
<1> QED
  BY <1>1, <1>2, <1>3 DEF Written, OnDisk

LEMMA OrderFacts ==
  /\ Len(TableOrder) \in Nat \ {0} /\ DOMAIN TableOrder = 1 .. Len(TableOrder)
  /\ ToSet(TableOrder) = {TableOrder[i] : i \in 1 .. Len(TableOrder)}
<1>1. TableOrder \in Seq(ToSet(Tables)) /\ ToSet(TableOrder) = ToSet(Tables)
  BY ExportAssumption
<1>2. Len(TableOrder) \in Nat /\ DOMAIN TableOrder = 1 .. Len(TableOrder)
  BY <1>1
<1>3. ToSet(TableOrder) = {TableOrder[i] : i \in 1 .. Len(TableOrder)}
  BY <1>2 DEF ToSet
<1>4. "signals" \in ToSet(Tables)
  BY DEF Tables, ToSet
<1>5. Len(TableOrder) # 0
  BY <1>1, <1>2, <1>3, <1>4
<1> QED
  BY <1>2, <1>3, <1>5

\* The table that ExportTable reads is the next, and none that was read.
LEMMA NextTable ==
  ASSUME ExportTypes, InOrder, ExportTable
  PROVE  LET n == Cardinality(DOMAIN tables)
             t == TableOrder[n + 1]
         IN  /\ n \in Nat /\ n < Len(TableOrder) /\ t \in ToSet(Tables) /\ t \notin DOMAIN tables
             /\ tables' = With(tables, t, mother[t])
             /\ DOMAIN tables' = DOMAIN tables \union {t}
             /\ DOMAIN tables' = {TableOrder[i] : i \in 1 .. n + 1}
             /\ IsFiniteSet(DOMAIN tables') /\ Cardinality(DOMAIN tables') = n + 1
             /\ at' = IF n + 1 = Len(TableOrder) THEN "list" ELSE "tables"
<1> DEFINE n == Cardinality(DOMAIN tables)
           t == TableOrder[n + 1]
<1>1. IsFiniteSet(DOMAIN tables) /\ n < Len(TableOrder) /\ DOMAIN tables = {TableOrder[i] : i \in 1 .. n}
  BY DEF InOrder, ExportTable
<1>2. n \in Nat
  BY <1>1, FS_CardinalityType
<1> HIDE DEF n
<1>3. n + 1 \in 1 .. Len(TableOrder)
  BY <1>1, <1>2, OrderFacts
<1>4. t \in ToSet(Tables)
  BY <1>3, OrderFacts, ExportAssumption
<1>5. t \notin DOMAIN tables
  <2>1. \A i \in 1 .. n : i \in DOMAIN TableOrder /\ i # n + 1
    BY <1>2, <1>3, OrderFacts
  <2> QED
    BY <1>1, <1>3, <2>1, OrderFacts, ExportAssumption
<1>6. tables' = With(tables, t, mother[t]) /\ at' = IF n + 1 = Len(TableOrder) THEN "list" ELSE "tables"
  BY DEF ExportTable, n
<1>7. DOMAIN tables' = DOMAIN tables \union {t}
  BY <1>6 DEF With
<1>8. {TableOrder[i] : i \in 1 .. n + 1} = {TableOrder[i] : i \in 1 .. n} \union {t}
  <2>1. 1 .. n + 1 = (1 .. n) \union {n + 1}
    BY <1>2
  <2> QED
    BY <2>1
<1>9. IsFiniteSet(DOMAIN tables') /\ Cardinality(DOMAIN tables') = n + 1
  BY <1>1, <1>5, <1>7, FS_AddElement DEF n
<1> QED
  BY <1>1, <1>2, <1>4, <1>5, <1>6, <1>7, <1>8, <1>9 DEF n

LEMMA InOrderStep ==
  ASSUME ExportTypes, InOrder, ExportStep
  PROVE  InOrder'
<1>1. CASE CopyDb
  <2>1. at' = "tables" /\ DOMAIN tables' = {}
    BY <1>1 DEF CopyDb, NoTables
  <2>2. IsFiniteSet({}) /\ Cardinality({}) = 0
    BY FS_EmptySet
  <2>3. {TableOrder[i] : i \in 1 .. 0} = {}
    OBVIOUS
  <2> QED
    BY <2>1, <2>2, <2>3, OrderFacts DEF InOrder, Early
<1>2. CASE ExportTable
  <2> DEFINE n == Cardinality(DOMAIN tables)
  <2>1. /\ n \in Nat /\ n < Len(TableOrder) /\ DOMAIN tables' = {TableOrder[i] : i \in 1 .. n + 1}
        /\ IsFiniteSet(DOMAIN tables') /\ Cardinality(DOMAIN tables') = n + 1
        /\ at' = IF n + 1 = Len(TableOrder) THEN "list" ELSE "tables"
    BY <1>2, NextTable
  <2> HIDE DEF n
  <2>0. Len(TableOrder) \in Nat
    BY OrderFacts
  <2>2. n + 1 <= Len(TableOrder)
    BY <2>0, <2>1
  <2>3. CASE n + 1 = Len(TableOrder)
    BY <2>1, <2>3, OrderFacts DEF InOrder
  <2>4. CASE n + 1 # Len(TableOrder)
    <3>1. n + 1 < Len(TableOrder)
      BY <2>0, <2>1, <2>2, <2>4
    <3> QED
      BY <2>1, <2>4, <3>1 DEF InOrder
  <2> QED
    BY <2>3, <2>4
<1>3. CASE ~ CopyDb /\ ~ ExportTable
  <2>1. UNCHANGED tables /\ at' # "tables" /\ (at' \notin Early \union {"tables"} => at \notin Early \union {"tables"})
    BY <1>3, Moves DEF Early
  <2> QED
    BY <2>1 DEF InOrder
<1> QED
  BY <1>1, <1>2, <1>3
-----------------------------------------------------------------------------
(* The tables of a backup.                                                 *)

\* The parts of a run's directory that are no later than its tables.
LEMMA CopyAndTables ==
  ASSUME ExportTypes, Written, ExportStep, NEW r \in 1 .. run'
  PROVE  /\ r \in 1 .. MaxExports
         /\ \/ disk'[r].copy = disk[r].copy /\ disk'[r].tables = disk[r].tables /\ r \in 1 .. run
            \/ disk'[r] = Unwritten
            \/ CopyDb /\ r = run /\ disk'[r].copy = mother /\ disk'[r].tables = NoTables
            \/ ExportTable /\ r = run /\ disk'[r].copy = disk[r].copy /\ disk'[r].tables = tables'
<1>0. MaxExports \in Nat /\ run \in Nat /\ run <= MaxExports /\ r \in Nat /\ r > 0
  <2>1. MaxExports \in Nat /\ run \in Nat /\ run <= MaxExports
    BY ExportAssumption DEF ExportTypes
  <2>2. run' \in Nat
    BY Moves
  <2> QED
    BY <2>1, <2>2
<1>1. CASE BeginExport
  <2>1. run' = run + 1 /\ run < MaxExports /\ UNCHANGED disk
    BY <1>1 DEF BeginExport
  <2>2. CASE r = run + 1
    <3>1. r \in 1 .. MaxExports /\ r > run
      BY <1>0, <2>1, <2>2
    <3> QED
      BY <2>1, <3>1 DEF Written
  <2>3. CASE r # run + 1
    <3>1. r \in 1 .. run /\ r \in 1 .. MaxExports
      BY <1>0, <2>1, <2>3
    <3> QED
      BY <2>1, <3>1
  <2> QED
    BY <2>2, <2>3
<1>2. CASE ~ BeginExport
  <2>1. run' = run
    BY <1>2, Moves
  <2>2. r \in 1 .. run /\ r \in 1 .. MaxExports
    BY <1>0, <2>1
  <2>3. CASE r # run
    BY <2>2, <2>3, DiskStep
  <2>4. CASE r = run /\ CopyDb
    <3>1. disk[run] = Unwritten
      BY <2>2, <2>4 DEF Written, CopyDb
    <3>2. disk[run].tables = NoTables
      BY <3>1 DEF Unwritten
    <3> QED
      BY <2>2, <2>4, <3>2, DiskStep
  <2>5. CASE r = run /\ ExportTable
    BY <2>2, <2>5, DiskStep
  <2>6. CASE r = run /\ ~ CopyDb /\ ~ ExportTable
    BY <2>2, <2>6, DiskStep
  <2> QED
    BY <2>3, <2>4, <2>5, <2>6
<1> QED
  BY <1>1, <1>2

LEMMA ReadTablesStep ==
  ASSUME WikiTypes, ExportTypes, Written, InOrder, ReadTables, ExportStep, UNCHANGED <<mother, changed>>
  PROVE  ReadTables'
<1>1. ASSUME ExportTable
      PROVE  LET t == TableOrder[Cardinality(DOMAIN tables) + 1]
             IN  /\ t \in ToSet(Tables) /\ DOMAIN tables' = DOMAIN tables \union {t}
                 /\ tables'[t] = mother[t] /\ \A u \in DOMAIN tables : tables'[u] = tables[u]
  <2> DEFINE t == TableOrder[Cardinality(DOMAIN tables) + 1]
  <2>1. t \in ToSet(Tables) /\ t \notin DOMAIN tables /\ tables' = With(tables, t, mother[t])
    BY <1>1, NextTable
  <2> HIDE DEF t
  <2>2. /\ DOMAIN tables' = DOMAIN tables \union {t} /\ tables'[t] = mother[t]
        /\ \A u \in DOMAIN tables : tables'[u] = tables[u]
    BY <2>1 DEF With
  <2> QED
    BY <2>1, <2>2 DEF t
<1>2. ASSUME at' = "tables"
      PROVE  /\ <<run', "tables">> \in changed' \/ \A t \in DOMAIN tables' : tables'[t] = mother'[t]
             /\ \A t \in ToSet(Tables) : Ids(disk'[run'].copy[t]) \subseteq Ids(mother'[t])
  <2>1. CASE CopyDb
    <3>1. DOMAIN tables' = {} /\ run' = run
      BY <2>1 DEF CopyDb, NoTables
    <3>2. disk'[run'].copy = mother
      BY <2>1, <3>1, DiskStep
    <3> QED
      BY <3>1, <3>2
  <2>2. CASE ExportTable
    <3>1. run' = run /\ at = "tables"
      BY <2>2 DEF ExportTable
    <3>2. disk'[run'].copy = disk[run].copy
      BY <2>2, <3>1, DiskStep
    <3>3. /\ <<run, "tables">> \in changed \/ \A t \in DOMAIN tables : tables[t] = mother[t]
          /\ \A t \in ToSet(Tables) : Ids(disk[run].copy[t]) \subseteq Ids(mother[t])
      BY <3>1 DEF ReadTables, OnDisk
    <3> QED
      BY <1>1, <2>2, <3>1, <3>2, <3>3
  <2> QED
    BY <1>2, <2>1, <2>2, Moves
<1>3. ASSUME NEW r \in 1 .. run', NEW t \in DOMAIN disk'[r].tables
      PROVE  Ids(disk'[r].copy[t]) \subseteq Ids(disk'[r].tables[t])
  <2>1. CASE disk'[r].copy = disk[r].copy /\ disk'[r].tables = disk[r].tables /\ r \in 1 .. run
    BY <1>3, <2>1 DEF ReadTables
  <2>2. CASE disk'[r] = Unwritten \/ disk'[r].tables = NoTables
    <3>1. disk'[r].tables = NoTables
      BY <2>2 DEF Unwritten
    <3> QED
      BY <1>3, <3>1 DEF NoTables
  <2>3. CASE ExportTable /\ r = run /\ disk'[r].copy = disk[r].copy /\ disk'[r].tables = tables'
    <3>1. at = "tables" /\ disk[run].tables = tables
      BY <2>3 DEF ExportTable, Written, Early, OnDisk
    <3>2. CASE t \in DOMAIN tables
      <4>1. r \in 1 .. run
        BY <2>3, Moves, <3>1
      <4>2. Ids(disk[r].copy[t]) \subseteq Ids(disk[r].tables[t])
        BY <2>3, <3>1, <3>2, <4>1 DEF ReadTables
      <4> QED
        BY <1>1, <2>3, <3>1, <3>2, <4>2
    <3>3. CASE t \notin DOMAIN tables
      <4>1. t \in ToSet(Tables) /\ tables'[t] = mother[t]
        BY <1>1, <1>3, <2>3, <3>3
      <4> QED
        BY <2>3, <3>1, <4>1 DEF ReadTables, OnDisk
    <3> QED
      BY <3>2, <3>3
  <2> QED
    BY <2>1, <2>2, <2>3, CopyAndTables
<1> QED
  BY <1>2, <1>3 DEF ReadTables, OnDisk

\* The tables as they were read are closed when each is as it is in the database.
LEMMA ClosedTables ==
  ASSUME WikiTypes, SignalsLast, NEW t, \A u \in ToSet(Tables) : t[u] = mother[u]
  PROVE  Closed(t)
<1>1. t["signals"] = mother["signals"] /\ t["raw_sources"] = mother["raw_sources"]
      /\ t["mother_entities"] = mother["mother_entities"]
  BY DEF Tables, ToSet
<1> QED
  BY <1>1 DEF Closed, SignalsLast

LEMMA CopiesStep ==
  ASSUME WikiTypes, SignalsLast, ExportTypes, Written, InOrder, ReadTables, CopiesAreClosed, ExportStep,
         UNCHANGED <<mother, changed>>
  PROVE  CopiesAreClosed'
<1>0. "signals" \in ToSet(Tables)
  BY DEF Tables, ToSet
<1>1. ReadTables'
  BY ReadTablesStep
<1>2. ASSUME NEW r \in 1 .. run'
      PROVE  /\ disk'[r].copy # NoTables => Closed(disk'[r].copy)
             /\ DOMAIN disk'[r].tables = ToSet(TableOrder) =>
                  Closed(disk'[r].tables) \/ <<r, "tables">> \in changed'
  <2>1. CASE disk'[r].copy = disk[r].copy /\ disk'[r].tables = disk[r].tables /\ r \in 1 .. run
    BY <2>1 DEF CopiesAreClosed
  <2>2. CASE disk'[r] = Unwritten
    BY <1>0, <2>2, ExportAssumption DEF Unwritten, NoTables
  <2>3. CASE CopyDb /\ r = run /\ disk'[r].copy = mother /\ disk'[r].tables = NoTables
    BY <1>0, <2>3, ExportAssumption DEF NoTables, SignalsLast
  <2>4. CASE ExportTable /\ r = run /\ disk'[r].copy = disk[r].copy /\ disk'[r].tables = tables'
    <3>1. at = "tables" /\ run \in 1 .. run
      BY <2>4, Moves DEF ExportTable
    <3>2. disk[r].copy # NoTables => Closed(disk[r].copy)
      BY <2>4, <3>1 DEF CopiesAreClosed
    <3>3. ASSUME DOMAIN tables' = ToSet(TableOrder), <<r, "tables">> \notin changed PROVE Closed(tables')
      <4>1. \A t \in DOMAIN tables : tables[t] = mother[t]
        BY <2>4, <3>1, <3>3 DEF ReadTables
      <4> DEFINE t == TableOrder[Cardinality(DOMAIN tables) + 1]
      <4>2. tables' = With(tables, t, mother[t])
        BY <2>4, NextTable
      <4> HIDE DEF t
      <4>3. \A u \in DOMAIN tables' : tables'[u] = mother[u]
        BY <4>1, <4>2 DEF With
      <4> QED
        BY <3>3, <4>3, ExportAssumption, ClosedTables
    <3> QED
      BY <2>4, <3>2, <3>3
  <2> QED
    BY <2>1, <2>2, <2>3, <2>4, CopyAndTables
<1>3. ASSUME NEW r \in 1 .. run', DOMAIN disk'[r].tables = ToSet(TableOrder), NEW t \in ToSet(TableOrder),
             NEW row \in disk'[r].copy[t]
      PROVE  \E kept \in disk'[r].tables[t] : kept.id = row.id
  BY <1>1, <1>3 DEF ReadTables, Ids
<1> QED
  BY <1>2, <1>3 DEF CopiesAreClosed, Closed
-----------------------------------------------------------------------------
(* The archive, the manifest and the tabs.                                 *)

LEMMA ReadArchiveStep ==
  ASSUME WikiTypes, PagesFirst, ExportTypes, ReadArchive, ExportStep, UNCHANGED <<wiki, changed>>
  PROVE  ReadArchive'
<1>1. ASSUME at' = "archive", <<run', "archive">> \notin changed'
      PROVE  /\ DOMAIN files' \union {"index"} \subseteq todo' \union DOMAIN read'
             /\ "index" \in DOMAIN read' => read'["index"] = index'
  <2>0. UNCHANGED <<files, index, changed>>
    BY DEF wiki
  <2>1. CASE ListWiki
    <3>1. todo' = {f \in ToSet(PathOrder) : f = "index" \/ f \in DOMAIN files} /\ read' = NoFiles
      BY <2>1 DEF ListWiki
    <3>2. DOMAIN files \union {"index"} \subseteq ToSet(PathOrder)
      BY ExportAssumption DEF WikiTypes, Pages, Named
    <3> QED
      BY <2>0, <3>1, <3>2 DEF NoFiles
  <2>2. CASE ReadFile
    <3>0. at = "archive" /\ run' = run
      BY <1>1, <2>2 DEF ReadFile
    <3>1. PICK k \in DOMAIN PathOrder :
            LET f == PathOrder[k]
            IN  /\ read' = IF f = "index" \/ f \in DOMAIN files THEN With(read, f, Content(f)) ELSE read
                /\ todo' = todo \ {f}
      BY <2>2 DEF ReadFile
    <3> DEFINE f == PathOrder[k]
    <3>2. todo' = todo \ {f} /\ (f = "index" \/ f \in DOMAIN files => read' = With(read, f, Content(f)))
          /\ (~(f = "index" \/ f \in DOMAIN files) => read' = read)
      BY <3>1
    <3> HIDE DEF f
    <3>3. /\ DOMAIN files \union {"index"} \subseteq todo \union DOMAIN read
          /\ "index" \in DOMAIN read => read["index"] = index
      BY <1>1, <2>0, <3>0 DEF ReadArchive
    <3>4. CASE f = "index" \/ f \in DOMAIN files
      <4>1. read' = With(read, f, Content(f))
        BY <3>2, <3>4
      <4>2. DOMAIN read' = {f} \union DOMAIN read /\ \A g \in DOMAIN read' : read'[g] = IF g = f THEN Content(f) ELSE read[g]
        BY <4>1 DEF With
      <4>3. f = "index" => Content(f) = index
        BY DEF Content
      <4> QED
        BY <2>0, <3>2, <3>3, <4>2, <4>3
    <3>5. CASE ~(f = "index" \/ f \in DOMAIN files)
      BY <2>0, <3>2, <3>3, <3>5
    <3> QED
      BY <3>4, <3>5
  <2> QED
    BY <1>1, <2>1, <2>2, Moves
<1>2. ASSUME at' = "manifest", <<run', "archive">> \notin changed'
      PROVE  disk'[run'].archive["index"] \ Theses \subseteq DOMAIN disk'[run'].archive
  <2>1. FinishArchive /\ at = "archive" /\ run' = run /\ todo = {}
    BY <1>2, Moves DEF FinishArchive
  <2>2. disk'[run'].archive = read
    BY <2>1, DiskStep
  <2>3. DOMAIN files \union {"index"} \subseteq DOMAIN read /\ read["index"] = index
    BY <1>2, <2>1 DEF ReadArchive
  <2> QED
    BY <2>2, <2>3 DEF PagesFirst
<1> QED
  BY <1>1, <1>2 DEF ReadArchive, OnDisk

\* The counts of the tables once all are read.
LEMMA AllCounted ==
  ASSUME InOrder, at \notin Early \union {"tables"}
  PROVE  \A t \in ToSet(TableOrder) : Counts[t] = Cardinality(tables[t])
BY DEF InOrder, Counts

LEMMA ManifestsStep ==
  ASSUME ExportTypes, Written, InOrder, ReadArchive, ManifestsHold, ExportStep, UNCHANGED changed
  PROVE  ManifestsHold'
<1> SUFFICES ASSUME NEW r \in 1 .. run', disk'[r].manifest # NoTables
             PROVE  /\ disk'[r].copy # NoTables
                    /\ \A t \in ToSet(TableOrder) : disk'[r].manifest[t] = Cardinality(disk'[r].tables[t])
                    /\ \/ disk'[r].archive["index"] \ Theses \subseteq DOMAIN disk'[r].archive
                       \/ <<r, "archive">> \in changed
  BY DEF ManifestsHold
<1>1. CASE disk'[r] = disk[r] /\ r \in 1 .. run
  BY <1>1 DEF ManifestsHold
<1>2. CASE disk'[r] = Unwritten
  BY <1>2 DEF Unwritten
<1>3. CASE r = run /\ WriteManifest
  <2>1. disk'[r].manifest = Counts /\ disk'[r].tables = disk[r].tables /\ disk'[r].copy = disk[r].copy
        /\ disk'[r].archive = disk[r].archive
    BY <1>3, DiskStep
  <2>2. at = "manifest"
    BY <1>3 DEF WriteManifest
  <2>3. disk[r].tables = tables /\ disk[r].copy # NoTables
    BY <1>3, <2>2 DEF Written, Early, OnDisk
  <2>4. \A t \in ToSet(TableOrder) : Counts[t] = Cardinality(tables[t])
    BY <2>2, AllCounted DEF Early
  <2> QED
    BY <1>3, <2>1, <2>2, <2>3, <2>4 DEF ReadArchive, OnDisk
<1>4. CASE r = run /\ (CopyDb \/ ExportTable \/ FinishArchive)
  <2>1. disk'[r].manifest = disk[r].manifest /\ r \in 1 .. MaxExports
    BY <1>4, DiskStep
  <2>2. CASE CopyDb
    BY <1>4, <2>1, <2>2 DEF CopyDb, Written, Unwritten
  <2>3. CASE ExportTable \/ FinishArchive
    BY <1>4, <2>1, <2>3 DEF ExportTable, FinishArchive, Written, OnDisk
  <2> QED
    BY <1>4, <2>2, <2>3
<1> QED
  <2>1. r \in 1 .. MaxExports /\ (r \in 1 .. run \/ disk'[r] = Unwritten)
    <3>1. run \in Nat /\ ((run' = run + 1 /\ BeginExport) \/ run' = run)
      BY Moves
    <3>2. CASE r \in 1 .. run
      BY <3>2, CopyAndTables
    <3>3. CASE r \notin 1 .. run
      <4>1. BeginExport /\ r = run + 1
        BY <3>1, <3>3
      <4>2. UNCHANGED disk /\ r > run /\ r \in 1 .. MaxExports
        BY <3>1, <4>1, CopyAndTables DEF BeginExport
      <4> QED
        BY <4>2 DEF Written
    <3> QED
      BY <3>2, <3>3
  <2>2. r # run => disk'[r] = disk[r]
    BY <2>1, DiskStep
  <2> QED
    BY <1>1, <1>2, <1>3, <1>4, <2>1, <2>2, DiskStep

LEMMA TabOf ==
  ASSUME NEW tab, NEW n, NEW rows, tab = [run |-> n, content |-> rows]
  PROVE  tab.run = n /\ tab.content = rows
OBVIOUS

\* A tab is replaced after those before it, from what the run has read.
LEMMA ReplaceFacts ==
  ASSUME ExportTypes, ReplaceTab
  PROVE  LET s == "SQLite Backup"
             k == "Wiki Backup"
             m == "Backup Manifest"
         IN  \/ /\ tabs'[s].run = run /\ tabs'[s].content = tables /\ tabs[m].run # run
                /\ tabs'[k] = tabs[k] /\ tabs'[m] = tabs[m]
             \/ /\ tabs[s].run = run /\ tabs[m].run # run /\ tabs'[k].run = run
                /\ tabs'[s] = tabs[s] /\ tabs'[m] = tabs[m]
             \/ /\ tabs[s].run = run /\ tabs[k].run = run
                /\ tabs'[m].run = run /\ tabs'[m].content = OnDisk.manifest
                /\ tabs'[s] = tabs[s] /\ tabs'[k] = tabs[k]
<1>1. PICK i \in DOMAIN TabOrder :
         /\ \A j \in DOMAIN TabOrder : (j < i) <=> (tabs[TabOrder[j]].run = run)
         /\ tabs' = [tabs EXCEPT ![TabOrder[i]] = [run |-> run, content |-> TabContent(TabOrder[i])]]
  BY DEF ReplaceTab
<1>2. DOMAIN TabOrder = 1 .. 3 /\ TabOrder[1] = "SQLite Backup" /\ TabOrder[2] = "Wiki Backup"
      /\ TabOrder[3] = "Backup Manifest"
  BY DEF TabOrder
<1>3. 1 \in 1 .. 3 /\ 2 \in 1 .. 3 /\ 3 \in 1 .. 3 /\ 1 .. 3 = {1, 2, 3}
  OBVIOUS
<1>4. /\ i \in {2, 3} <=> tabs["SQLite Backup"].run = run
      /\ i = 3 <=> tabs["Wiki Backup"].run = run
      /\ tabs["Backup Manifest"].run # run
  <2> DEFINE Was(j) == tabs[TabOrder[j]].run = run
  <2>1. (1 < i <=> Was(1)) /\ (2 < i <=> Was(2)) /\ (3 < i <=> Was(3))
    BY <1>1, <1>2, <1>3
  <2>2. i \in 1 .. 3
    BY <1>2
  <2>3. (1 < i <=> i \in {2, 3}) /\ (2 < i <=> i = 3) /\ ~ (3 < i)
    BY <2>2
  <2>4. /\ Was(1) <=> tabs["SQLite Backup"].run = run
        /\ Was(2) <=> tabs["Wiki Backup"].run = run
        /\ Was(3) <=> tabs["Backup Manifest"].run = run
    BY <1>2
  <2> HIDE DEF Was
  <2> QED
    BY <2>1, <2>3, <2>4
<1>5. tabs = [t \in {"SQLite Backup", "Wiki Backup", "Backup Manifest"} |-> tabs[t]]
  BY TabNames DEF ExportTypes
<1>6. CASE i = 1
  <2>1. tabs' = [tabs EXCEPT !["SQLite Backup"] = [run |-> run, content |-> tables]]
    BY <1>1, <1>2, <1>6 DEF TabContent
  <2>2. /\ tabs'["SQLite Backup"] = [run |-> run, content |-> tables]
        /\ tabs'["Wiki Backup"] = tabs["Wiki Backup"] /\ tabs'["Backup Manifest"] = tabs["Backup Manifest"]
    BY <1>5, <2>1
  <2>3. tabs["Backup Manifest"].run # run
    BY <1>4, <1>6
  <2>4. tabs'["SQLite Backup"].run = run /\ tabs'["SQLite Backup"].content = tables
    BY <2>2, TabOf
  <2> QED
    BY <2>2, <2>3, <2>4
<1>7. CASE i = 2
  <2>1. tabs' = [tabs EXCEPT !["Wiki Backup"] = [run |-> run, content |-> read]]
    BY <1>1, <1>2, <1>7 DEF TabContent
  <2>2. /\ tabs'["Wiki Backup"] = [run |-> run, content |-> read]
        /\ tabs'["SQLite Backup"] = tabs["SQLite Backup"] /\ tabs'["Backup Manifest"] = tabs["Backup Manifest"]
    BY <1>5, <2>1
  <2>3. tabs["SQLite Backup"].run = run /\ tabs["Backup Manifest"].run # run
    BY <1>4, <1>7
  <2>4. tabs'["Wiki Backup"].run = run
    BY <2>2, TabOf
  <2> QED
    BY <2>2, <2>3, <2>4
<1>8. CASE i = 3
  <2>1. tabs' = [tabs EXCEPT !["Backup Manifest"] = [run |-> run, content |-> OnDisk.manifest]]
    BY <1>1, <1>2, <1>8 DEF TabContent
  <2>2. /\ tabs'["Backup Manifest"] = [run |-> run, content |-> OnDisk.manifest]
        /\ tabs'["SQLite Backup"] = tabs["SQLite Backup"] /\ tabs'["Wiki Backup"] = tabs["Wiki Backup"]
    BY <1>5, <2>1
  <2>3. tabs["SQLite Backup"].run = run /\ tabs["Wiki Backup"].run = run
    BY <1>4, <1>8
  <2>4. tabs'["Backup Manifest"].run = run /\ tabs'["Backup Manifest"].content = OnDisk.manifest
    BY <2>2, TabOf
  <2> QED
    BY <2>2, <2>3, <2>4
<1> QED
  BY <1>2, <1>3, <1>6, <1>7, <1>8

LEMMA TabsLastStep ==
  ASSUME ExportTypes, TabsLast, ExportStep
  PROVE  TabsLast'
<1>0. run \in Nat
  BY Moves
<1>1. ASSUME NEW t \in ToSet(TabOrder)
      PROVE  tabs'[t].run <= run' /\ (at' \notin {"idle", "wiki rows"} => tabs'[t].run < run')
  <2>0. tabs[t].run \in Nat /\ tabs[t].run <= run
    BY DEF ExportTypes, TabsLast
  <2>1. CASE ReplaceTab
    <3>1. run' = run /\ at' \in {"idle", "wiki rows"}
      BY <2>1 DEF ReplaceTab
    <3>2. tabs'[t].run = run \/ tabs'[t] = tabs[t]
      <4>1. t \in {"SQLite Backup", "Wiki Backup", "Backup Manifest"}
        BY TabNames
      <4> QED
        BY <2>1, <4>1, ReplaceFacts
    <3>3. tabs'[t].run <= run
      BY <1>0, <2>0, <3>2
    <3> QED
      BY <3>1, <3>3
  <2>2. CASE BeginExport
    <3>1. run' = run + 1 /\ tabs' = tabs
      BY <2>2 DEF BeginExport
    <3>2. tabs[t].run < run + 1 /\ tabs[t].run <= run + 1
      BY <1>0, <2>0
    <3> QED
      BY <3>1, <3>2
  <2>3. CASE ~ ReplaceTab /\ ~ BeginExport
    <3>1. tabs' = tabs /\ run' = run
      BY <2>3, Moves
    <3>2. at' \notin {"idle", "wiki rows"} => at \notin {"idle", "wiki rows"}
      BY <2>3, Moves
    <3> QED
      BY <2>0, <3>1, <3>2 DEF TabsLast
  <2> QED
    BY <2>1, <2>2, <2>3
<1>2. ASSUME at' \in {"list again", "wiki rows"} PROVE disk'[run'].manifest = Counts'
  <2>1. CASE WriteManifest
    <3>1. run' = run /\ tables' = tables
      BY <2>1 DEF WriteManifest
    <3> QED
      BY <2>1, <3>1, DiskStep DEF Counts
  <2>2. CASE ~ WriteManifest
    <3>1. at \in {"list again", "wiki rows"} /\ UNCHANGED <<run, tables, disk>>
      BY <1>2, <2>2, Moves
    <3> QED
      BY <3>1 DEF TabsLast, OnDisk, Counts
  <2> QED
    BY <2>1, <2>2
<1>3. ASSUME at' = "wiki rows", tabs'["SQLite Backup"].run = run' PROVE tabs'["SQLite Backup"].content = tables'
  <2>1. CASE ReplaceTab
    <3>1. run' = run /\ tables' = tables /\ at = "wiki rows"
      BY <2>1 DEF ReplaceTab
    <3>2. CASE tabs'["SQLite Backup"] = tabs["SQLite Backup"]
      BY <1>3, <3>1, <3>2 DEF TabsLast
    <3>3. CASE tabs'["SQLite Backup"].content = tables
      BY <3>1, <3>3
    <3> QED
      BY <2>1, <3>2, <3>3, ReplaceFacts
  <2>2. CASE ReadFile
    <3>1. UNCHANGED <<at, run, tables, tabs>>
      BY <2>2 DEF ReadFile
    <3> QED
      BY <1>3, <3>1 DEF TabsLast
  <2>3. CASE ListWiki
    <3>1. at = "list again" /\ UNCHANGED <<run, tabs>>
      BY <1>3, <2>3, Moves DEF ListWiki
    <3>2. tabs["SQLite Backup"].run < run /\ tabs["SQLite Backup"].run \in Nat
      BY <3>1, TabNames DEF TabsLast, ExportTypes
    <3>3. \A i, j \in Nat : i < j => i # j
      OBVIOUS
    <3>4. tabs["SQLite Backup"].run # run
      BY <1>0, <3>2, <3>3, Zenon
    <3> QED
      BY <1>3, <3>1, <3>4
  <2> QED
    BY <1>3, <2>1, <2>2, <2>3, Moves
<1> QED
  BY <1>1, <1>2, <1>3 DEF TabsLast, OnDisk

LEMMA TabsAgreeStep ==
  ASSUME ExportTypes, InOrder, TabsLast, TabsAgree, ExportStep
  PROVE  TabsAgree'
<1> DEFINE s == "SQLite Backup"
           k == "Wiki Backup"
           m == "Backup Manifest"
<1>0. /\ run \in Nat
      /\ tabs[s].run \in Nat /\ tabs[k].run \in Nat /\ tabs[m].run \in Nat
      /\ tabs[s].run <= run /\ tabs[k].run <= run /\ tabs[m].run <= run
  BY TabNames, Moves DEF ExportTypes, TabsLast
<1> DEFINE x == tabs[m].run
<1>x. x \in Nat /\ x <= run /\ run \in Nat
  BY <1>0
<1>1. /\ tabs[s].run >= tabs[k].run /\ tabs[k].run >= tabs[m].run
      /\ tabs[m].run > 0 =>
           /\ tabs[m].content = disk[tabs[m].run].manifest
           /\ tabs[s].run = tabs[m].run =>
                \A t \in ToSet(TableOrder) : tabs[m].content[t] = Cardinality(tabs[s].content[t])
  BY DEF TabsAgree
<1>2. CASE ReplaceTab
  <2>0. UNCHANGED disk
    BY <1>2 DEF ReplaceTab
  <2>1. CASE /\ tabs'[s].run = run /\ tabs'[s].content = tables /\ tabs[m].run # run
             /\ tabs'[k] = tabs[k] /\ tabs'[m] = tabs[m]
    <3> HIDE DEF s, k, m
    <3>2. tabs'[s].run >= tabs'[k].run /\ tabs'[k].run >= tabs'[m].run /\ tabs'[s].run # tabs'[m].run
      BY <1>0, <1>1, <2>1
    <3> QED
      BY <1>1, <2>0, <2>1, <3>2 DEF TabsAgree, s, k, m
  <2>2. CASE /\ tabs[s].run = run /\ tabs[m].run # run /\ tabs'[k].run = run
             /\ tabs'[s] = tabs[s] /\ tabs'[m] = tabs[m]
    <3> HIDE DEF s, k, m
    <3>2. tabs'[s].run >= tabs'[k].run /\ tabs'[k].run >= tabs'[m].run /\ tabs'[s].run # tabs'[m].run
      BY <1>0, <1>1, <2>2
    <3> QED
      BY <1>1, <2>0, <2>2, <3>2 DEF TabsAgree, s, k, m
  <2>3. CASE /\ tabs[s].run = run /\ tabs[k].run = run
             /\ tabs'[m].run = run /\ tabs'[m].content = OnDisk.manifest
             /\ tabs'[s] = tabs[s] /\ tabs'[k] = tabs[k]
    <3>1. tabs'[m].run = run /\ tabs'[m].content = disk[run].manifest
      BY <2>3 DEF OnDisk
    <3>2. tabs[s].content = tables /\ disk[run].manifest = Counts /\ at = "wiki rows"
      BY <1>2, <2>3 DEF ReplaceTab, TabsLast, OnDisk
    <3>3. \A t \in ToSet(TableOrder) : Counts[t] = Cardinality(tables[t])
      BY <3>2, AllCounted DEF Early
    <3> HIDE DEF s, k, m
    <3>4. tabs'[s].run >= tabs'[k].run /\ tabs'[k].run >= tabs'[m].run
      BY <1>0, <2>3, <3>1
    <3> QED
      BY <2>0, <2>3, <3>1, <3>2, <3>3, <3>4 DEF TabsAgree, s, k, m
  <2> QED
    BY <1>2, <2>1, <2>2, <2>3, ReplaceFacts
<1>3. CASE ~ ReplaceTab
  <2>1. tabs' = tabs
    BY <1>3, Moves
  <2>2. tabs[m].run > 0 => disk'[tabs[m].run].manifest = disk[tabs[m].run].manifest
    <3>0. MaxExports \in Nat /\ run <= MaxExports
      BY ExportAssumption DEF ExportTypes
    <3>1. CASE WriteManifest
      <4>1. x < run
        BY <3>1, TabNames DEF WriteManifest, TabsLast
      <4> HIDE DEF x
      <4>2. x > 0 => x \in 1 .. MaxExports /\ x # run
        BY <1>x, <3>0, <4>1
      <4>3. x > 0 => disk'[x] = disk[x]
        BY <4>2, DiskStep
      <4> QED
        BY <4>3 DEF x
    <3>2. CASE ~ WriteManifest
      <4>1. tabs[m].run > 0 => tabs[m].run \in 1 .. MaxExports
        <5> HIDE DEF x
        <5>1. x > 0 => x \in 1 .. MaxExports
          BY <1>x, <3>0
        <5> QED
          BY <5>1 DEF x
      <4>2. \A r \in 1 .. MaxExports : disk'[r].manifest = disk[r].manifest
        BY <3>2, DiskStep
      <4> QED
        BY <4>1, <4>2
    <3> QED
      BY <3>1, <3>2
  <2> QED
    BY <1>1, <2>1, <2>2 DEF TabsAgree
<1> QED
  BY <1>2, <1>3
-----------------------------------------------------------------------------
(* All steps.                                                              *)

LEMMA ExportInvInit == WikiInv /\ Init => ExportInv
<1> SUFFICES ASSUME WikiInv, Init PROVE ExportInv
  OBVIOUS
<1>0. MaxExports \in Nat
  BY ExportAssumption
<1>1. ExportTypes
  <2>1. disk = [r \in 1 .. MaxExports |-> Unwritten]
    BY DEF Init
  <2>2. disk = [r \in 1 .. MaxExports |-> [copy |-> disk[r].copy, tables |-> disk[r].tables,
                                           archive |-> disk[r].archive, manifest |-> disk[r].manifest]]
    BY <2>1 DEF Unwritten
  <2>3. tabs = [t \in ToSet(TabOrder) |-> tabs[t]] /\ \A t \in ToSet(TabOrder) : tabs[t] = [run |-> 0, content |-> NoTables]
    BY DEF Init
  <2>4. \A t \in ToSet(TabOrder) : tabs[t].run \in Nat
    BY <2>3, TabOf
  <2>5. IsFun(tables) /\ IsFun(read)
    BY DEF Init, IsFun, NoTables, NoFiles
  <2> QED
    BY <1>0, <2>2, <2>3, <2>4, <2>5 DEF Init, ExportTypes, Steps
<1>2. Written /\ ReadTables /\ ReadArchive /\ CopiesAreClosed /\ ManifestsHold
  BY <1>0 DEF Init, Written, Early, ReadTables, ReadArchive, CopiesAreClosed, ManifestsHold
<1>3. InOrder
  <2>1. IsFiniteSet({}) /\ DOMAIN tables = {}
    BY FS_EmptySet DEF Init, NoTables
  <2> QED
    BY <2>1 DEF InOrder, Init, Early
<1>4. \A t \in ToSet(TabOrder) : tabs[t].run = 0
  <2>1. \A t \in ToSet(TabOrder) : tabs[t] = [run |-> 0, content |-> NoTables]
    BY DEF Init
  <2> QED
    BY <2>1, TabOf
<1>5. TabsLast
  BY <1>4 DEF TabsLast, Init
<1>6. TabsAgree
  <2>1. /\ tabs["SQLite Backup"].run = 0 /\ tabs["Wiki Backup"].run = 0 /\ tabs["Backup Manifest"].run = 0
    BY <1>4, TabNames
  <2>2. 0 >= 0 /\ ~ (0 > 0)
    OBVIOUS
  <2> QED
    BY <2>1, <2>2, Zenon DEF TabsAgree
<1> QED
  BY <1>1, <1>2, <1>3, <1>5, <1>6 DEF ExportInv

\* A step of a process leaves the export where it was; what it changes of the
\* tables or the wiki while they are read is recorded.
LEMMA ExportInvAside ==
  ASSUME WikiInv, ExportInv, NEW p \in Writers, Write(p), UNCHANGED export,
         changed' = IF \/ at = "tables" /\ mother' # mother
                       \/ at = "archive" /\ wiki' # wiki
                    THEN changed \union {<<run, at>>} ELSE changed
  PROVE  ExportInv'
<1>1. UNCHANGED <<at, run, tables, todo, read, disk, tabs>>
  BY DEF export
<1>2. changed \subseteq changed'
  OBVIOUS
<1>3. ExportTypes' /\ Written' /\ InOrder' /\ TabsLast' /\ TabsAgree'
  BY <1>1 DEF ExportInv, ExportTypes, Written, OnDisk, InOrder, TabsLast, Counts, TabsAgree
<1>4. CopiesAreClosed' /\ ManifestsHold'
  BY <1>1, <1>2 DEF ExportInv, CopiesAreClosed, Closed, ManifestsHold
<1>5. ReadTables'
  <2>1. WikiTypes
    BY DEF WikiInv
  <2>2. ASSUME at = "tables"
        PROVE  /\ <<run, "tables">> \in changed' \/ \A t \in DOMAIN tables : tables[t] = mother'[t]
               /\ \A t \in ToSet(Tables) : Ids(OnDisk.copy[t]) \subseteq Ids(mother'[t])
    <3>1. /\ <<run, "tables">> \in changed \/ \A t \in DOMAIN tables : tables[t] = mother[t]
          /\ \A t \in ToSet(Tables) : Ids(OnDisk.copy[t]) \subseteq Ids(mother[t])
      BY <2>2 DEF ExportInv, ReadTables
    <3>2. \A t \in ToSet(Tables) : Ids(mother[t]) \subseteq Ids(mother'[t])
      BY <2>1, IdsGrow
    <3>3. mother' = mother \/ <<run, "tables">> \in changed'
      BY <2>2
    <3> QED
      BY <1>2, <3>1, <3>2, <3>3
  <2> QED
    BY <1>1, <2>2 DEF ExportInv, ReadTables, OnDisk
<1>6. ReadArchive'
  <2>1. ASSUME at = "archive", <<run, "archive">> \notin changed'
        PROVE  UNCHANGED <<files, index>> /\ <<run, "archive">> \notin changed
    <3>1. wiki' = wiki
      BY <2>1
    <3> QED
      BY <1>2, <2>1, <3>1 DEF wiki
  <2>2. at = "archive" =>
          \/ <<run, "archive">> \in changed
          \/ /\ DOMAIN files \union {"index"} \subseteq todo \union DOMAIN read
             /\ "index" \in DOMAIN read => read["index"] = index
    BY DEF ExportInv, ReadArchive
  <2>3. at = "manifest" =>
          \/ <<run, "archive">> \in changed
          \/ OnDisk.archive["index"] \ Theses \subseteq DOMAIN OnDisk.archive
    BY DEF ExportInv, ReadArchive
  <2>4. at = "archive" =>
          \/ <<run, "archive">> \in changed'
          \/ /\ DOMAIN files' \union {"index"} \subseteq todo \union DOMAIN read
             /\ "index" \in DOMAIN read => read["index"] = index'
    BY <2>1, <2>2
  <2>5. at = "manifest" =>
          \/ <<run, "archive">> \in changed'
          \/ OnDisk.archive["index"] \ Theses \subseteq DOMAIN OnDisk.archive
    BY <1>2, <2>3
  <2> QED
    BY <1>1, <2>4, <2>5 DEF ReadArchive, OnDisk
<1> QED
  BY <1>3, <1>4, <1>5, <1>6 DEF ExportInv

LEMMA ExportInvDies ==
  ASSUME ExportInv, DieExport, UNCHANGED <<wiki, mother, changed>>
  PROVE  ExportInv'
<1>1. at' = "idle" /\ UNCHANGED <<run, tables, todo, read, disk, tabs>>
  BY DEF DieExport
<1>2. ExportTypes' /\ Written' /\ InOrder'
  BY <1>1 DEF ExportInv, ExportTypes, Steps, Written, Early, OnDisk, InOrder
<1>3. ReadTables' /\ ReadArchive' /\ TabsLast'
  BY <1>1 DEF ExportInv, ReadTables, ReadArchive, TabsLast
<1>4. CopiesAreClosed' /\ ManifestsHold'
  BY <1>1 DEF ExportInv, CopiesAreClosed, Closed, ManifestsHold
<1>5. TabsAgree'
  BY <1>1 DEF ExportInv, TabsAgree
<1> QED
  BY <1>2, <1>3, <1>4, <1>5 DEF ExportInv

LEMMA ExportInvStep ==
  ASSUME WikiInv, ExportInv, ExportStep, UNCHANGED <<wiki, mother, changed>>
  PROVE  ExportInv'
<1>1. WikiTypes /\ PagesFirst /\ SignalsLast
  BY DEF WikiInv
<1> QED
  BY <1>1, ExportTypesStep, WrittenStep, InOrderStep, ReadTablesStep, ReadArchiveStep, TabsLastStep, CopiesStep,
     ManifestsStep, TabsAgreeStep DEF ExportInv

\* A step of the export, a death of it, a step of a process, and none.
LEMMA IInvStep == IInv /\ [Next]_vars => IInv'
<1> SUFFICES ASSUME IInv, [Next]_vars PROVE IInv'
  OBVIOUS
<1>1. CASE ExportStep /\ UNCHANGED <<wiki, mother, w, jobs, deaths, overlap, changed>>
  <2>1. UNCHANGED <<wiki, mother, w, overlap>> /\ UNCHANGED <<wiki, mother, changed>>
    BY <1>1
  <2> QED
    BY <1>1, <2>1, WikiInvSame, ExportInvStep DEF IInv
<1>2. CASE DieExport /\ UNCHANGED <<wiki, mother, w, jobs, overlap, changed>>
  <2>1. UNCHANGED <<wiki, mother, w, overlap>> /\ UNCHANGED <<wiki, mother, changed>>
    BY <1>2
  <2> QED
    BY <1>2, <2>1, WikiInvSame, ExportInvDies DEF IInv
<1>3. ASSUME NEW p \in Writers, Write(p), UNCHANGED export,
             changed' = IF \/ at = "tables" /\ mother' # mother
                           \/ at = "archive" /\ wiki' # wiki
                        THEN changed \union {<<run, at>>} ELSE changed
      PROVE  IInv'
  BY <1>3, WikiInvStep, ExportInvAside DEF IInv
<1>4. CASE UNCHANGED vars
  <2>1. WikiInv'
    BY <1>4, WikiInvSame DEF vars, IInv
  <2>2. UNCHANGED <<at, run, tables, todo, read, disk, tabs, mother, changed, files, index>>
    BY <1>4 DEF vars, export, wiki
  <2>3. (ExportTypes /\ Written /\ InOrder)'
    BY <2>2 DEF IInv, ExportInv, ExportTypes, Written, OnDisk, InOrder
  <2>4. (ReadTables /\ ReadArchive /\ TabsLast)'
    BY <2>2 DEF IInv, ExportInv, OnDisk, ReadTables, ReadArchive, TabsLast, Counts
  <2>5. (CopiesAreClosed /\ ManifestsHold)'
    BY <2>2 DEF IInv, ExportInv, CopiesAreClosed, Closed, ManifestsHold
  <2>6. TabsAgree'
    BY <2>2 DEF IInv, ExportInv, TabsAgree
  <2> QED
    BY <2>1, <2>3, <2>4, <2>5, <2>6 DEF IInv, ExportInv
<1> QED
  BY <1>1, <1>2, <1>3, <1>4 DEF Next

LEMMA InvariantHolds == Spec => []IInv
<1>1. Init => IInv
  BY WikiInvInit, ExportInvInit DEF Init, IInv
<1> QED
  BY <1>1, IInvStep, PTL DEF Spec

\* However many processes ingest profiles and sources at a time, and wherever one
\* of them dies: both ends of a link have a row, a thesis that nobody has is not
\* left among the rows unless two processes wrote one AC at a time, and a thesis
\* that an AC has keeps its page unless jobs overlapped.
THEOREM WikiAgrees == Spec => []PagesAgree
<1>1. IInv => PagesAgree
  BY WikiInvAgrees DEF IInv
<1> QED
  BY <1>1, InvariantHolds, PTL

\* What the export has written belongs together, whatever jobs went on beside it
\* and wherever it died: the copy is closed, the tables are unless they changed
\* while they were read, the manifest counts them and the archive has the pages of
\* its index unless the wiki changed, and no tab is ahead of one before it.
THEOREM BackupsAgree == Spec => []BackupsHold
<1>1. IInv => BackupsHold
  BY DEF IInv, ExportInv, BackupsHold
<1> QED
  BY <1>1, InvariantHolds, PTL
=============================================================================
