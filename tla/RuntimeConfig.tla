---------------------------- MODULE RuntimeConfig ----------------------------
(***************************************************************************)
(* What the configuration of a Hermes process lets it do: the checks that   *)
(* main makes before it runs a job or the loop (validate_for_job,           *)
(* validate_for_loop), what build_runtime puts together from the same       *)
(* environment, and what run_job and the pipelines then find missing.       *)
(*                                                                          *)
(* A configuration is a record: env, the names of the variables that are    *)
(* set; store, objects and write, the chosen back ends; unbounded and       *)
(* cycles, which bound the loop; jobs, what the loop runs in turn.          *)
(***************************************************************************)
EXTENDS Naturals, Sequences

Backends   == {"sqlite", "bigquery"}
WriteModes == {"merge", "append"}

Sheet == "REVIEW_SHEET_ID"

\* Variables whose value is never empty: their fields are paths with a
\* default, and the path of an empty string is ".".
AlwaysSet == {"MOTHER_DB_PATH", "BACKUP_ROOT", "RAW_ROOT"}

\* The jobs the command line offers; validate_for_job knows the same ones.
JobNames == {"ingest-sources", "crawl-sources", "ingest-ac-profiles", "resolve-entities",
             "score-candidates", "sync-review-sheet", "calibrate-scores", "weekly-summary",
             "backup-export", "agent-work-queue", "enrich-sminfo", "draft-outreach-emails",
             "sync-kvic-funds", "research-investors"}

StoreNeeds(c) ==
    CASE c.store = "bigquery" -> {"GCP_PROJECT_ID", "BIGQUERY_DATASET"}
      [] c.store = "sqlite"   -> {"MOTHER_DB_PATH"}
      [] OTHER                -> {}

ObjectsNeed(c) == IF c.objects = "local" THEN {"RAW_ROOT"} ELSE {"GCP_PROJECT_ID", "RAW_BUCKET"}

\* A webhook taken without its secret.
GatewayNeedsOneHalf(c) ==
    IF "APPS_SCRIPT_DRAFT_SECRET" \in c.env THEN {"APPS_SCRIPT_DRAFT_WEBHOOK_URL"} ELSE {}

\* The two halves of the Apps Script gateway ask for each other.
GatewayNeeds(c) ==
    (IF "APPS_SCRIPT_DRAFT_WEBHOOK_URL" \in c.env THEN {"APPS_SCRIPT_DRAFT_SECRET"} ELSE {})
    \cup (IF "APPS_SCRIPT_DRAFT_SECRET" \in c.env THEN {"APPS_SCRIPT_DRAFT_WEBHOOK_URL"} ELSE {})

\* What validate_for_job asks of the environment; --ac-id is no substitute for
\* AC_ID, and neither agent-work-queue nor resolve-entities asks for anything.
JobNeeds(c, job, inline) ==
    CASE job = "ingest-sources" ->
             ObjectsNeed(c) \cup (IF inline THEN {} ELSE {"GMAIL_LABEL_ID"})
      [] job = "crawl-sources" ->
             ObjectsNeed(c) \cup (IF inline \/ "CRAWL_TARGETS_JSON" \in c.env THEN {} ELSE {Sheet})
      [] job \in {"score-candidates", "sync-review-sheet"} -> {Sheet, "AC_ID"}
      [] job = "calibrate-scores"      -> {"AC_ID"}
      [] job = "weekly-summary"        -> {"SLACK_CHANNEL"}
      [] job = "backup-export"         -> {"MOTHER_DB_PATH", "BACKUP_ROOT"}
      [] job = "enrich-sminfo"         -> {Sheet, "SMINFO_USER_ID", "SMINFO_PASSWORD"}
      [] job = "draft-outreach-emails" -> {Sheet} \cup GatewayNeeds(c)
      [] job = "sync-kvic-funds"       -> {"KVIC_API_KEY"}
      [] job = "research-investors"    -> {"ANTHROPIC_API_KEY"}
      [] OTHER                         -> {}

BackendsKnown(c) == c.store \in Backends /\ c.write \in WriteModes

ValidForJob(c, job, inline) ==
    /\ BackendsKnown(c)
    /\ job \in JobNames
    /\ StoreNeeds(c) \cup JobNeeds(c, job, inline) \subseteq c.env \cup AlwaysSet

\* An appending BigQuery store may run one cycle only, and a loop without end
\* must be asked for.
ValidForLoop(c) ==
    /\ BackendsKnown(c)
    /\ ~(c.store = "bigquery" /\ c.write = "append" /\ c.cycles # 1)
    /\ c.cycles > 0 \/ c.unbounded

\* build_runtime raises on an unknown object store and on a channel without a
\* token; what else is missing leaves a client out.
Builds(c) ==
    /\ c.objects \in {"local", "gcs"}
    /\ c.store \in Backends
    /\ "SLACK_CHANNEL" \in c.env => "SLACK_BOT_TOKEN" \in c.env

\* The clients build_runtime makes.  The review queue is always an object: without
\* a sheet, one that raises on every call (UnavailableReviewQueue).
HasQueue(c)    == Sheet \in c.env
HasNotifier(c) == "SLACK_BOT_TOKEN" \in c.env
HasGmail(c)    == "GMAIL_LABEL_ID" \in c.env
HasSminfo(c)   == {"SMINFO_USER_ID", "SMINFO_PASSWORD"} \subseteq c.env
HasDrafts(c)   ==
    \/ {"APPS_SCRIPT_DRAFT_WEBHOOK_URL", "APPS_SCRIPT_DRAFT_SECRET"} \subseteq c.env
    \/ HasGmail(c)
    \/ Sheet \in c.env /\ "APPS_SCRIPT_DRAFT_WEBHOOK_URL" \notin c.env

\* run_job, or the first call of the pipeline on the review queue, raises because
\* of what the environment left out.  The pipelines that get no queue without a
\* sheet (crawl, backup, funds, investors) do without; resolve-entities does not.
\* A backup copies the file of the store, and BigQuery has none.
LacksSomething(c, job, inline) ==
    \/ job = "ingest-sources"     /\ ~inline /\ ~HasGmail(c)
    \/ job = "crawl-sources"      /\ ~inline /\ ~HasQueue(c) /\ "CRAWL_TARGETS_JSON" \notin c.env
    \/ job = "ingest-ac-profiles" /\ ~inline
    \/ job \in {"score-candidates", "sync-review-sheet", "calibrate-scores"} /\ "AC_ID" \notin c.env
    \/ job \in {"score-candidates", "sync-review-sheet", "resolve-entities",
                "enrich-sminfo", "draft-outreach-emails"} /\ ~HasQueue(c)
    \/ job = "weekly-summary"        /\ ~(HasNotifier(c) /\ "SLACK_CHANNEL" \in c.env)
    \/ job = "enrich-sminfo"         /\ ~HasSminfo(c)
    \/ job = "draft-outreach-emails" /\ ~HasDrafts(c)
    \/ job = "sync-kvic-funds"       /\ "KVIC_API_KEY" \notin c.env
    \/ job = "research-investors"    /\ "ANTHROPIC_API_KEY" \notin c.env
    \/ job = "backup-export"         /\ c.store = "bigquery"

\* What main checks before the loop, and before one job.
LoopAllowed(c) ==
    /\ ValidForLoop(c)
    /\ \A i \in DOMAIN c.jobs : ValidForJob(c, c.jobs[i], FALSE)
    /\ Builds(c)

JobAllowed(c, job, inline) == ValidForJob(c, job, inline) /\ Builds(c)
=============================================================================
