----------------------------- MODULE MCBackupExport -----------------------------
(* An instance of BackupExport for TLC. *)
EXTENDS BackupExport

CONSTANTS a, b, acme, eco, edu

Profile(ac, theses) == [kind |-> "ac", who |-> ac, theses |-> theses, source |-> "report"]
Source(id, theses) == [kind |-> "startup", who |-> acme, theses |-> theses, source |-> id]
SomeJobs == {<<Profile(a, <<edu>>)>>, <<Profile(a, <<eco>>), Profile(b, <<eco>>)>>, <<Source("s1", <<edu>>)>>}
AsInSchema == Tables
Sorted == <<a, b, eco, edu, acme, "index">>
=============================================================================
