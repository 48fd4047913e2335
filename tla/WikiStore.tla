------------------------------- MODULE WikiStore -------------------------------
(***************************************************************************)
(* The wiki of SQLiteWikiStore - Markdown pages in files, the tables pages *)
(* and links of wiki.db, index.md - and the two jobs that write it and the *)
(* Mother DB: ingest-ac-profiles and ingest-sources (which crawl-sources   *)
(* calls as well).  Several processes may run them at a time: the agent    *)
(* loop, a job started by hand, the MCP server.  Each file, transaction    *)
(* and query is a step, and a process may die between two.                 *)
(*                                                                         *)
(* A page is the set of pages it links to.  Channels, problems and         *)
(* beneficiaries only ever get rows and are left out, and so are sources   *)
(* and log entries, which are only added.                                  *)
(***************************************************************************)
EXTENDS Integers, SequencesExt, TLC

CONSTANTS
  Writers,   \* processes
  ACs, Theses, Startups,
  Jobs,      \* sequences of documents: kind, who, theses (in order), source
  MaxJobs, MaxDeaths

Docs == UNION {ToSet(job) : job \in Jobs}

\* Pages of different kinds have different paths.
ASSUME WikiAssumption ==
  /\ {MaxJobs, MaxDeaths} \subseteq Nat
  /\ ACs \intersect Theses = {} /\ Startups \intersect Theses = {}
  /\ \A job \in Jobs : job \in Seq(Docs) /\ job # <<>>
  /\ \A doc \in Docs :
       /\ \/ doc.kind = "ac" /\ doc.who \in ACs
          \/ doc.kind = "startup" /\ doc.who \in Startups
       /\ doc.theses \in Seq(Theses)

VARIABLES
  files,   \* Markdown pages: what each links to
  pages,   \* rows of the table pages
  links,   \* rows of the table links, of kind MATCHES_THESIS
  index,   \* what index.md lists
  mother,  \* the tables of the Mother DB that ingestion writes
  w,       \* the writers
  jobs, deaths,
  overlap  \* history: whether two jobs overlapped: "no", "yes" or, over one AC, "same"

wiki == <<files, pages, links, index>>

Idle == [at |-> "idle", docs |-> <<>>, took |-> <<>>, left |-> <<>>, stale |-> {},
         gone |-> {}, listed |-> {}]

At(p, step) == w[p].at = step
Doc(p) == Head(w[p].docs)
Go(p, step) == w' = [w EXCEPT ![p].at = step]
Whose(docs) == {docs[k].who : k \in DOMAIN docs}
Others(p) == {q \in Writers \ {p} : ~At(q, "idle")}

Tables == <<"raw_sources", "mother_entities", "signals", "ac_profiles">>
NoRows == [t \in ToSet(Tables) |-> {}]
-----------------------------------------------------------------------------
\* A process takes up a document.
TakeUp(p, docs) == [w EXCEPT ![p].at = "page", ![p].docs = docs]

BeginJob(p) ==
  /\ At(p, "idle") /\ jobs < MaxJobs /\ jobs' = jobs + 1
  /\ \E job \in Jobs : w' = [TakeUp(p, job) EXCEPT ![p].took = job]
  /\ overlap' =
        IF \/ overlap = "same"
           \/ \E q \in Others(p) : Whose(w'[p].docs) \intersect Whose(w[q].docs) # {} THEN "same"
       ELSE IF Others(p) # {} THEN "yes" ELSE overlap
  /\ UNCHANGED <<wiki, mother, deaths>>

\* A page is written over the one there was.
With(f, x, y) == [z \in {x} \union DOMAIN f |-> IF z = x THEN y ELSE f[z]]
PageOver(page, to) == With(files, page, to)

\* The page of the AC or the startup.
WritePage(p) ==
  /\ At(p, "page")
  /\ files' = PageOver(Doc(p).who, ToSet(Doc(p).theses))
  /\ w' = IF Doc(p).kind = "ac" THEN [w EXCEPT ![p].at = "theses", ![p].left = Doc(p).theses]
          ELSE [w EXCEPT ![p].at = "commit"]
  /\ UNCHANGED <<pages, links, index, mother, jobs, deaths, overlap>>

\* The page of a thesis names the AC it is written for, and no other.
WriteThesis(p) ==
  /\ At(p, "theses")
  /\ IF w[p].left = <<>> THEN Go(p, "select") /\ UNCHANGED files
     ELSE /\ files' = PageOver(Head(w[p].left), {Doc(p).who})
          /\ w' = [w EXCEPT ![p].left = Tail(@)]
  /\ UNCHANGED <<pages, links, index, mother, jobs, deaths, overlap>>

\* The select runs before the transaction: Python opens that with the first
\* statement that writes.
SelectStale(p) ==
  /\ At(p, "select")
  /\ w' = [w EXCEPT ![p].at = "commit",
                    ![p].stale = {l[2] : l \in {m \in links : m[1] = Doc(p).who}} \ ToSet(Doc(p).theses)]
  /\ UNCHANGED <<wiki, mother, jobs, deaths, overlap>>

\* Mutations of Orphaned: with the links as they were before; every stale thesis.
OrphanedBefore(stale, rows, after) ==
  {t \in stale : ~\E l \in links : l[2] = t /\ l[1] \in rows}
\* _orphaned_impact_thesis_paths: no page of an AC or a startup links there.  No
\* link of a startup to a thesis is ever stored: it starts at the signal, which
\* has no page.
Orphaned(stale, rows, after) ==
  {t \in stale : ~\E l \in after : l[2] = t /\ l[1] \in rows}

CommitProfile(p) ==
  /\ At(p, "commit") /\ Doc(p).kind = "ac"
  /\ LET ac == Doc(p).who
         theses == ToSet(Doc(p).theses)
         after == {l \in links : l[1] # ac} \union {<<ac, t>> : t \in theses}
         rows == pages \union {ac} \union theses
         orphans == Orphaned(w[p].stale, rows, after)
     IN  /\ links' = after /\ pages' = rows \ orphans
         /\ w' = [w EXCEPT ![p].at = "unlink", ![p].gone = orphans]
  /\ UNCHANGED <<files, index, mother, jobs, deaths, overlap>>

\* build_startup_graph: the startup, and what its signals are tagged with.
StartupPages(doc) == {doc.who} \union ToSet(doc.theses)

CommitStartup(p) ==
  /\ At(p, "commit") /\ Doc(p).kind = "startup"
  /\ pages' = pages \union StartupPages(Doc(p))
  /\ Go(p, "list")
  /\ UNCHANGED <<files, links, index, mother, jobs, deaths, overlap>>

Unlink(p) ==
  /\ At(p, "unlink")
  /\ IF w[p].gone = {} THEN Go(p, "list") /\ UNCHANGED files
     ELSE \E t \in w[p].gone :
            /\ files' = [f \in DOMAIN files \ {t} |-> files[f]]
            /\ w' = [w EXCEPT ![p].gone = @ \ {t}]
  /\ UNCHANGED <<pages, links, index, mother, jobs, deaths, overlap>>

\* _rewrite_index: the rows are read, then the file is written.
ReadPages(p) ==
  /\ At(p, "list")
  /\ w' = [w EXCEPT ![p].at = "index", ![p].listed = pages]
  /\ UNCHANGED <<wiki, mother, jobs, deaths, overlap>>
WriteIndex(p) ==
  /\ At(p, "index")
  /\ index' = w[p].listed
  /\ LET rest == Tail(w[p].docs)
     IN  IF rest # <<>> THEN w' = TakeUp(p, rest)
         ELSE Go(p, IF Doc(p).kind = "ac" THEN "ac_profiles" ELSE "raw_sources")
  /\ UNCHANGED <<files, pages, links, mother, jobs, deaths, overlap>>

\* The row of a document in a table, and the upsert of rows by their ids: the
\* last of several with one id stays.
Row(table, doc) ==
  CASE table \in {"raw_sources", "signals"} -> [id |-> doc.source, of |-> doc.who]
    [] table = "mother_entities" -> [id |-> doc.who, of |-> doc.who]
    [] table = "ac_profiles"     -> [id |-> doc.who, of |-> doc.theses]
Upsert(rows, new) ==
  LET last == {k \in DOMAIN new : \A j \in DOMAIN new : j > k => new[j].id # new[k].id}
  IN  {r \in rows : \A k \in last : new[k].id # r.id} \union {new[k] : k \in last}

\* Mutation of AfterTable: signals are stored before their entities.
AfterTableSwapped(table) ==
  CASE table = "raw_sources" -> "signals" [] table = "signals" -> "mother_entities"
    [] table \in {"mother_entities", "ac_profiles"} -> "idle"

\* The order of the upserts after all pages are written.
AfterTable(table) ==
  CASE table = "raw_sources" -> "mother_entities" [] table = "mother_entities" -> "signals"
    [] table \in {"signals", "ac_profiles"} -> "idle"

StoreRows(p) ==
  /\ w[p].at \in ToSet(Tables)
  /\ LET took == w[p].took
     IN  mother' = [mother EXCEPT ![w[p].at] =
                      Upsert(@, [k \in DOMAIN took |-> Row(w[p].at, took[k])])]
  /\ w' = IF AfterTable(w[p].at) = "idle" THEN [w EXCEPT ![p] = Idle]
          ELSE [w EXCEPT ![p].at = AfterTable(@)]
  /\ UNCHANGED <<wiki, jobs, deaths, overlap>>

\* A call raises or the process dies.
Die(p) ==
  /\ ~At(p, "idle") /\ deaths < MaxDeaths /\ deaths' = deaths + 1
  /\ w' = [w EXCEPT ![p] = Idle]
  /\ UNCHANGED <<wiki, mother, jobs, overlap>>

Write(p) ==
  \/ BeginJob(p) \/ WritePage(p) \/ WriteThesis(p) \/ SelectStale(p) \/ CommitProfile(p)
  \/ CommitStartup(p) \/ Unlink(p) \/ ReadPages(p) \/ WriteIndex(p) \/ StoreRows(p) \/ Die(p)

WikiInit ==
  /\ files = [f \in {} |-> {}] /\ pages = {} /\ links = {} /\ index = {}
  /\ mother = NoRows /\ w = [p \in Writers |-> Idle]
  /\ jobs = 0 /\ deaths = 0 /\ overlap = "no"
-----------------------------------------------------------------------------
\* In wiki.db both ends of a link have a row, however jobs overlap and die: a
\* thesis is only deleted when nobody is linked to it any more.
LinksHaveRows == \A l \in links : {l[1], l[2]} \subseteq pages

\* A thesis that no AC has and no startup was tagged with is not left among the
\* pages, but for two processes that wrote one AC at a time: each may have
\* selected what was stale before the other's commit.
TagsOf == {t \in Theses : \E job \in Jobs : \E k \in DOMAIN job :
             job[k].kind = "startup" /\ t \in ToSet(job[k].theses)}
NoOrphansStay ==
  \A t \in (pages \intersect Theses) \ TagsOf : (\E a \in ACs : <<a, t>> \in links) \/ overlap = "same"

\* A thesis that an AC has keeps its page, wherever a job dies, unless jobs
\* overlapped: a page is written before its rows, so that the orphan check of
\* another job can miss it and delete the page afterwards.
PagesOfTheses == overlap = "no" => \A l \in links : l[2] \in DOMAIN files

\* Rows, links and pages belong together, however profiles and startups of two
\* processes overlap and wherever they die, but for what the parts name.
PagesAgree == LinksHaveRows /\ NoOrphansStay /\ PagesOfTheses
=============================================================================
