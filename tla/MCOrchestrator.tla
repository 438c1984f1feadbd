--------------------------- MODULE MCOrchestrator ---------------------------
(***************************************************************************)
(* Small instances of Orchestrator for TLC.                                *)
(***************************************************************************)
EXTENDS Orchestrator

CONSTANTS a, b,     \* names of sources
          u, v      \* URLs

Timestamps(url) ==
    [url |-> url, mode |-> "incremental_upsert", watermark |-> TRUE]
Snapshots(url) ==
    [url |-> url, mode |-> "full_snapshot", watermark |-> TRUE]

OneName == {a}
TwoNames == {a, b}
OneUrl == {u}
TwoUrls == {u, v}
TwoFeeds == {Timestamps(u), Timestamps(v)}
TwoFeedsOrSnapshot == TwoFeeds \cup {Snapshots(u)}
OneFeed == {Timestamps(u)}

(* The row init_db inserts has the default settings.                       *)
Demo == [name |-> a, contract |-> Snapshots(u), checkpoint |-> None]
=============================================================================
