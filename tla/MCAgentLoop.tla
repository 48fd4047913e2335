---------------------------- MODULE MCAgentLoop ----------------------------
(* An instance of AgentLoop: one full configuration with a loop of two jobs *)
(* and a crawl by hand, and, for every job and choice of back ends, all the *)
(* configurations in which at most two variables are missing.               *)
EXTENDS AgentLoop

Names == {"GCP_PROJECT_ID", "BIGQUERY_DATASET", "RAW_BUCKET", "GMAIL_LABEL_ID", Sheet,
          "CRAWL_TARGETS_JSON", "AC_ID", "SLACK_CHANNEL", "SLACK_BOT_TOKEN", "SMINFO_USER_ID",
          "SMINFO_PASSWORD", "APPS_SCRIPT_DRAFT_WEBHOOK_URL", "APPS_SCRIPT_DRAFT_SECRET",
          "KVIC_API_KEY", "ANTHROPIC_API_KEY"}

Full == [env |-> Names, store |-> "sqlite", objects |-> "local", write |-> "merge",
         unbounded |-> FALSE, cycles |-> 1, otherTab |-> FALSE,
         jobs |-> <<"crawl-sources", "weekly-summary">>, cli |-> "none", inline |-> FALSE,
         edits |-> 0, deaths |-> 0]

\* Two crawls and an edit; a list by hand; another tab; two cycles; a death; the
\* failures and summaries of two processes.
Busy == LET crawls == [Full EXCEPT !.jobs = <<"crawl-sources">>, !.cli = "crawl-sources"] IN
        {[crawls EXCEPT !.edits = 1], [crawls EXCEPT !.inline = TRUE], [crawls EXCEPT !.otherTab = TRUE],
         [crawls EXCEPT !.cli = "none", !.edits = 2, !.deaths = 1],
         [Full EXCEPT !.cycles = 2, !.env = @ \ {"CRAWL_TARGETS_JSON"}],
         [Full EXCEPT !.jobs = <<"enrich-sminfo", "weekly-summary">>, !.cycles = 2],
         [Full EXCEPT !.jobs = <<"enrich-sminfo", "weekly-summary">>, !.cli = "weekly-summary",
                      !.deaths = 1]}

Lean == {[Full EXCEPT !.env = Names \ {a, b}, !.jobs = <<j>>, !.store = s, !.objects = o] :
             a, b \in Names, j \in JobNames, s \in Backends, o \in {"gcs", "local"}}

Odd == {[Full EXCEPT !.store = "postgres"], [Full EXCEPT !.objects = "s3"],
        [Full EXCEPT !.write = "replace"], [Full EXCEPT !.cycles = 0],
        [Full EXCEPT !.store = "bigquery", !.write = "append", !.cycles = 2]}

MCConfigs == Busy \cup Lean \cup Odd

MCSlots == 1..2
A == [url |-> "u1", opts |-> 1, status |-> "", rest |-> 1]
A2 == [A EXCEPT !.rest = 2]
B == [url |-> "u1", opts |-> 2, status |-> "", rest |-> 1]
C == [url |-> "u2", opts |-> 1, status |-> "done", rest |-> 1]
MCTargets  == {A, A2, B, C}
MCStartTab == <<A, B>>
MCInline   == <<A, C>>
MCOther    == <<A>>
\* The chain of configs/agent_work_queue.discovery.json.
MCStages   == {"crawl-sources", "enrich-sminfo", "resolve-entities", "score-candidates",
               "sync-review-sheet", "backup-export"}
=============================================================================
