------------------------------ MODULE BackupExport ------------------------------
(***************************************************************************)
(* The job backup-export beside the writers of WikiStore: a copy of the    *)
(* Mother DB, every table as CSV and JSONL, the wiki as an archive,        *)
(* manifest.json, and then the tabs SQLite Backup, Wiki Backup and Backup  *)
(* Manifest, each replaced as a whole (its calls are in SheetTab).  The    *)
(* export takes no lock: jobs go on between any two of its steps.          *)
(***************************************************************************)
EXTENDS WikiStore

CONSTANTS
  TableOrder,  \* the tables as BIGQUERY_TABLES lists them
  PathOrder,   \* the pages in the order of their paths, with index.md as "index"
  MaxExports,
  MaxBusy      \* processes at work at a time, the export included

ASSUME ExportAssumption ==
  /\ {MaxExports, MaxBusy} \subseteq Nat
  /\ TableOrder \in Seq(ToSet(Tables)) /\ ToSet(TableOrder) = ToSet(Tables)
  /\ \A j, k \in DOMAIN TableOrder : TableOrder[j] = TableOrder[k] => j = k
  /\ "index" \notin ACs \union Theses \union Startups
  /\ PathOrder \in Seq(ACs \union Theses \union Startups \union {"index"})
  /\ ToSet(PathOrder) = ACs \union Theses \union Startups \union {"index"}

VARIABLES
  at,      \* the next step of the export
  run,     \* its number
  tables,  \* the rows of the tables it has read
  todo,    \* files it has listed and not yet read
  read,    \* files it has read, with what they said
  disk,    \* per run: copy, tables, archive, manifest, each once it is written
  tabs,    \* per tab: run and content
  changed  \* history: runs that read the tables or the wiki while those changed

export == <<at, run, tables, todo, read, disk, tabs>>
vars == <<wiki, mother, w, jobs, deaths, overlap, export, changed>>

NoTables == [t \in {} |-> {}]
NoFiles == [f \in {} |-> {}]
OnDisk == disk[run]
Save(field, value) == disk' = [disk EXCEPT ![run][field] = value]
Unwritten == [copy |-> NoTables, tables |-> NoTables, archive |-> NoFiles, manifest |-> NoTables]

BeginExport ==
  /\ at = "idle" /\ run < MaxExports
  /\ run' = run + 1 /\ at' = "copy"
  /\ UNCHANGED <<tables, todo, read, disk, tabs>>

\* _backup_sqlite: one snapshot.
CopyDb ==
  /\ at = "copy" /\ Save("copy", mother)
  /\ at' = "tables" /\ tables' = NoTables
  /\ UNCHANGED <<run, todo, read, tabs>>

\* A query per table, and its two files.
ExportTable ==
  /\ at = "tables"
  /\ LET k == Cardinality(DOMAIN tables) + 1
         t == TableOrder[k]
     IN  /\ tables' = With(tables, t, mother[t])
         /\ Save("tables", tables')
         /\ at' = IF k = Len(TableOrder) THEN "list" ELSE at
  /\ UNCHANGED <<run, todo, read, tabs>>

\* The files of the wiki are listed, then read one by one in order.
Content(f) == IF f = "index" THEN index ELSE files[f]
ListWiki ==
  /\ at \in {"list", "list again"}
  /\ todo' = {f \in ToSet(PathOrder) : f = "index" \/ f \in DOMAIN files}
  /\ read' = NoFiles
  /\ at' = IF at = "list" THEN "archive" ELSE "wiki rows"
  /\ UNCHANGED <<run, tables, disk, tabs>>

\* A file that is gone by now is passed over.
ReadFile ==
  /\ at \in {"archive", "wiki rows"}
  /\ \E k \in DOMAIN PathOrder :
       LET f == PathOrder[k]
       IN  /\ f \in todo /\ \A j \in 1 .. k - 1 : PathOrder[j] \notin todo
           /\ read' = IF f = "index" \/ f \in DOMAIN files THEN With(read, f, Content(f)) ELSE read
           /\ todo' = todo \ {f}
  /\ UNCHANGED <<at, run, tables, disk, tabs>>
FinishArchive ==
  /\ at = "archive" /\ todo = {}
  /\ Save("archive", read) /\ at' = "manifest"
  /\ UNCHANGED <<run, tables, todo, read, tabs>>

Counts == [t \in DOMAIN tables |-> Cardinality(tables[t])]

WriteManifest ==
  /\ at = "manifest" /\ Save("manifest", Counts)
  /\ at' = "list again"
  /\ UNCHANGED <<run, tables, todo, read, tabs>>

TabOrder == <<"SQLite Backup", "Wiki Backup", "Backup Manifest">>
TabContent(tab) ==
  CASE tab = "SQLite Backup"   -> tables
    [] tab = "Wiki Backup"     -> read
    [] tab = "Backup Manifest" -> OnDisk.manifest

\* replace_rows of the next tab; the rows of all three were made before the first.
ReplaceTab ==
  /\ at = "wiki rows" /\ todo = {}
  /\ \E k \in DOMAIN TabOrder :
       /\ \A j \in DOMAIN TabOrder : (j < k) <=> (tabs[TabOrder[j]].run = run)
       /\ tabs' = [tabs EXCEPT ![TabOrder[k]] = [run |-> run, content |-> TabContent(TabOrder[k])]]
       /\ at' = IF k = Len(TabOrder) THEN "idle" ELSE at
  /\ UNCHANGED <<run, tables, todo, read, disk>>

DieExport ==
  /\ at # "idle" /\ deaths < MaxDeaths /\ deaths' = deaths + 1
  /\ at' = "idle"
  /\ UNCHANGED <<run, tables, todo, read, disk, tabs>>

ExportStep ==
  \/ BeginExport \/ CopyDb \/ ExportTable \/ ListWiki \/ ReadFile \/ FinishArchive
  \/ WriteManifest \/ ReplaceTab
-----------------------------------------------------------------------------
Init ==
  /\ WikiInit
  /\ at = "idle" /\ run = 0 /\ tables = NoTables /\ todo = {} /\ read = NoFiles
  /\ disk = [r \in 1 .. MaxExports |-> Unwritten]
  /\ tabs = [t \in ToSet(TabOrder) |-> [run |-> 0, content |-> NoTables]]
  /\ changed = {}

Busy == Cardinality({p \in Writers : ~At(p, "idle")}) + (IF at = "idle" THEN 0 ELSE 1)

Next ==
  \/ ExportStep /\ UNCHANGED <<wiki, mother, w, jobs, deaths, overlap, changed>> /\ Busy' <= MaxBusy
  \/ DieExport /\ UNCHANGED <<wiki, mother, w, jobs, overlap, changed>>
  \/ \E p \in Writers :
       /\ Write(p) /\ UNCHANGED export /\ Busy' <= MaxBusy
       /\ changed' = IF \/ at = "tables" /\ mother' # mother
                        \/ at = "archive" /\ wiki' # wiki
                     THEN changed \union {<<run, at>>} ELSE changed

Spec == Init /\ [][Next]_vars
-----------------------------------------------------------------------------
\* Every signal's source and entity are among the rows.
Closed(t) ==
  \A s \in t["signals"] : /\ \E r \in t["raw_sources"] : r.id = s.id
                          /\ \E e \in t["mother_entities"] : e.id = s.of

\* The copy of the database is closed wherever in a job it was taken.  The
\* exported tables are when no job stored rows while they were read: the job
\* may store all three between the export's reading the first and the last.
\* And nothing of the copy is missing from them.
CopiesAreClosed ==
  \A r \in 1 .. run :
    /\ disk[r].copy # NoTables => Closed(disk[r].copy)
    /\ DOMAIN disk[r].tables = ToSet(TableOrder) =>
         /\ Closed(disk[r].tables) \/ <<r, "tables">> \in changed
         /\ \A t \in ToSet(TableOrder) : \A row \in disk[r].copy[t] :
              \E kept \in disk[r].tables[t] : kept.id = row.id

\* A manifest says how many rows the exported tables have, and stands beside a
\* copy and an archive.  The archive has the page of every AC and startup its
\* index lists, whatever overlapped or died - pages are written before rows, and
\* rows before the index - but if the wiki changed while it was read: the index
\* comes last.
ManifestsHold ==
  \A r \in 1 .. run : disk[r].manifest # NoTables =>
    /\ disk[r].copy # NoTables
    /\ \A t \in ToSet(TableOrder) : disk[r].manifest[t] = Cardinality(disk[r].tables[t])
    /\ \/ disk[r].archive["index"] \ Theses \subseteq DOMAIN disk[r].archive
       \/ <<r, "archive">> \in changed

\* The tabs are of one run, or of two or more when runs died between them: no
\* tab is of a newer run than one that is written before it.  What the tab of
\* the manifest says is on disk, and agrees with the rows if they are of its run.
TabsAgree ==
  LET m == tabs["Backup Manifest"]
      s == tabs["SQLite Backup"]
  IN  /\ s.run >= tabs["Wiki Backup"].run /\ tabs["Wiki Backup"].run >= m.run
      /\ m.run > 0 =>
           /\ m.content = disk[m.run].manifest
           /\ s.run = m.run => \A t \in ToSet(TableOrder) : m.content[t] = Cardinality(s.content[t])

\* What a backup holds belongs together, however it overlapped with the jobs
\* and wherever it died, but for what changed while it was being read.
BackupsHold == CopiesAreClosed /\ ManifestsHold /\ TabsAgree
=============================================================================
