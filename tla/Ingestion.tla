----------------------------- MODULE Ingestion -----------------------------
(***************************************************************************)
(* From the pages of an API to one batch in staging: the page loop of the  *)
(* Extractor over the pagination conventions it knows, the landing         *)
(* directory (extractor/app/main.py), the Loader's checks, flattening and  *)
(* transaction (loader/app/main.py, db.py, flatten.py), and what the       *)
(* Orchestrator asks of both (orchestrator/app/pipeline.py).               *)
(*                                                                         *)
(* The API does not change here; module IncrementalFeed is about that.     *)
(* Record i of the API is the number i; 0 is the row that an envelope      *)
(* becomes when it is not unwrapped.  A run's files carry its number.      *)
(***************************************************************************)
EXTENDS Naturals, Sequences, SequencesExt, FiniteSets, FiniteSetsExt

CONSTANTS
    None,
    Apis,         \* the kinds of API that are considered
    Limit,        \* records on a page
    MaxPages,     \* MAX_PAGINATION_PAGES
    BatchSize,    \* FLATTEN_BATCH_SIZE
    MaxStamp,     \* bound: watermarks
    MaxRuns,      \* bound: runs of the source
    MaxLoads,     \* bound: requests to the Loader
    MaxFailures   \* bound: failures and crashes of any part

(* array: the body is a list.  common: an object that has a list under one *)
(* of the names the Extractor and the Loader both know; unique: under      *)
(* another name, but the only list; plural: several lists, none of a known *)
(* name.                                                                   *)
Shapes == {"array", "common", "unique", "plural"}

(* How the next page is announced: JSON next, links.next, the Link header, *)
(* total/skip/limit, has_more with a page number, or a cursor in the body; *)
(* whole: there is only one page.                                          *)
Known == {"whole", "next", "links", "header", "offset", "has_more", "cursor"}

(* total: the body says how many records there are, but not the limit of a *)
(* page.  It stands for what the Extractor does not know: nothing that it  *)
(* looks at says that there is more.                                       *)
Pagings == Known \cup {"total"}

(* watermarks[i] is the watermark of record i, 0 if it has none.  lastNull *)
(* says whether a last page has the key of the next one, with null.        *)
Api == [shape : Shapes, paging : Pagings, lastNull : BOOLEAN,
        watermarks : Seq(0..MaxStamp)]

ASSUME ConstantsAssumption ==
    /\ Apis \subseteq Api
    /\ \A a \in Apis : a.shape = "array" => a.paging \in {"whole", "header"}
    /\ {Limit, MaxPages, BatchSize} \subseteq Nat \ {0}
    /\ {MaxStamp, MaxRuns, MaxLoads, MaxFailures} \subseteq Nat

(* plain: no watermark is used.  first: a full snapshot of a source that   *)
(* uses one.  next: an incremental extraction after a checkpoint.          *)
Requests == [kind : {"plain", "first"}, before : {0}]
            \cup [kind : {"next"}, before : 1..MaxStamp]

RunIds == 1..MaxRuns
LoadIds == 1..MaxLoads

(* A row of raw_batches with its rows in the source's tables; no row, None. *)
Batch == [file : RunIds, rows : Seq(Nat), after : 0..MaxStamp]

ASSUME NoneAssumption == None \notin Batch

VARIABLES
    api,        \* the source's API, which never changes
    request,    \* what the runs ask the Extractor for
    run,        \* where the Orchestrator is with each run
    extraction, \* the Extractor's work for each run
    payload,    \* landing directory: payload of each run
    manifest,   \* landing directory: manifest of each run
    load,       \* requests to the Loader
    batches,    \* committed: number of the load -> batch
    failures    \* history: failures so far

vars == <<api, request, run, extraction, payload, manifest, load, batches,
          failures>>
extractor == <<extraction, payload, manifest>>
loader == <<load, batches>>

Count == Len(api.watermarks)
Records == 1..Count
Rows == Seq(Records \cup {0})

MetadataKeys == {"next", "links", "total", "has_more", "next_cursor"}

Content == [root : {"array", "object"}, shape : Shapes,
            keys : SUBSET MetadataKeys, items : Rows]

NoExtraction == [phase |-> "none", at |-> 0, seen |-> {}, pages |-> 0,
                 items |-> <<>>, keys |-> {}, complete |-> TRUE, after |-> 0]

NoLoad == [phase |-> "none", file |-> 0, by |-> "run", rows |-> <<>>,
           answer |-> 0]

TypeOK ==
    /\ api \in Apis
    /\ request \in Requests
    /\ run \in [RunIds ->
                   [phase : {"none", "extract", "load", "loaded", "failed"},
                    batch : LoadIds \cup {0}]]
    /\ \A r \in RunIds :
         /\ extraction[r].phase \in {"none", "fetch", "check", "payload",
                                     "manifest", "done", "refused"}
         /\ extraction[r].items \in Rows
         /\ extraction[r].pages \in 0..MaxPages
         /\ Cardinality(extraction[r].seen) = extraction[r].pages
         /\ payload[r] \in Content \cup {None}
         /\ manifest[r] \in [complete : BOOLEAN, after : 0..MaxStamp]
                            \cup {None}
    /\ \A l \in LoadIds :
         /\ load[l].phase \in {"none", "verify", "insert", "ensure", "rows",
                               "answered", "refused"}
         /\ load[l].rows \in Rows
         /\ load[l].answer \in LoadIds \cup {0}
         /\ batches[l] \in [file : RunIds, rows : Rows, after : 0..MaxStamp]
                           \cup {None}
    /\ failures \in 0..MaxFailures

Init ==
    /\ api \in Apis
    /\ request \in Requests
    /\ run = [r \in RunIds |-> [phase |-> "none", batch |-> 0]]
    /\ extraction = [r \in RunIds |-> NoExtraction]
    /\ payload = [r \in RunIds |-> None]
    /\ manifest = [r \in RunIds |-> None]
    /\ load = [l \in LoadIds |-> NoLoad]
    /\ batches = [l \in LoadIds |-> None]
    /\ failures = 0

Fault ==
    /\ failures < MaxFailures
    /\ failures' = failures + 1

-----------------------------------------------------------------------------
(* The API.  A page is the one that starts after record p.                 *)

PageSize == IF api.paging = "whole" THEN Count ELSE Limit

Items(p) == [i \in 1..Min({PageSize, Count - p}) |-> p + i]

More(p) == p + PageSize < Count

(* The keys beside the list of a page.  next and next_cursor may be null.  *)
Keys(p) ==
    CASE api.paging = "next" /\ (More(p) \/ api.lastNull) -> {"next"}
      [] api.paging = "links" -> {"links"}
      [] api.paging \in {"offset", "total"} -> {"total"}
      [] api.paging = "has_more" -> {"has_more"}
      [] api.paging = "cursor" /\ (More(p) \/ api.lastNull) -> {"next_cursor"}
      [] OTHER -> {}

(* _page_collection finds a list in every shape but one.                   *)
Collection == api.shape # "plural"

(* _next_page_url: is the page after this one found?  Its offset is the    *)
(* number of records so far, its page number the next.                     *)
NextFound(p) ==
    /\ More(p)
    /\ \/ api.paging \in {"next", "links", "header"}
       \/ api.paging \in {"offset", "has_more"} /\ Collection

(* has_more, but no list: "pagination made no progress".                   *)
NoProgress(p) == More(p) /\ api.paging = "has_more" /\ ~Collection

(* Faulty: what the Extractor does not follow does not exist.              *)
AlwaysComplete(p) == TRUE

(* _pagination_complete, of the body alone: nothing says there is more.    *)
(* total, skip and limit are compared in any shape, total alone is not.    *)
Complete(p) == ~More(p) \/ api.paging \in {"whole", "header", "total"}

-----------------------------------------------------------------------------
(* The Orchestrator and the Extractor.                                     *)

(* run_pipeline_steps asks for an extraction.  A source has one run at a   *)
(* time, but a run that gave up leaves its requests behind.                *)
StartRun(r) ==
    /\ run[r].phase = "none"
    /\ \A q \in 1..(r - 1) : run[q].phase \in {"loaded", "failed"}
    /\ run' = [run EXCEPT ![r].phase = "extract"]
    /\ extraction' = [extraction EXCEPT ![r].phase = "fetch"]
    /\ UNCHANGED <<api, request, payload, manifest, loader, failures>>

(* A 4xx or 5xx; the temporary file is removed.                            *)
Refused(r) ==
    extraction' = [extraction EXCEPT
                     ![r] = [NoExtraction EXCEPT !.phase = "refused"]]

(* _checkpoint_after of a page, kept if it is the largest so far.          *)
Stamps(items) == {api.watermarks[i] : i \in ToSet(items)} \ {0}

(* Faulty: the last page with a watermark decides.                         *)
LastCheckpoint(x, items) ==
    IF Stamps(items) = {} THEN x.after
    ELSE Max(Stamps(items) \cup {request.before})

Checkpoint(x, items) ==
    IF request.kind = "plain" \/ Stamps(items) = {} THEN x.after
    ELSE Max(Stamps(items) \cup {request.before, x.after})

(* Faulty: one page more than the limit.                                   *)
OneTooMany(x) == x.pages + 1 > MaxPages

TooMany(x) == x.pages + 1 >= MaxPages

(* A page arrives: its records are appended to the temporary file, or the  *)
(* body is kept as it is when no list is found in it.  The keys and the    *)
(* verdict on completeness are those of the last page.                     *)
FetchPage(r) ==
    LET x == extraction[r]
        items == Items(x.at)
        found == NextFound(x.at)
    IN /\ x.phase = "fetch"
       /\ x.at \notin x.seen
       /\ ~NoProgress(x.at)
       /\ found => Collection /\ ~TooMany(x)
       /\ extraction' =
            [extraction EXCEPT ![r] =
               [phase |-> IF found THEN "fetch" ELSE "check",
                at |-> x.at + Len(items),
                seen |-> x.seen \cup {x.at},
                pages |-> x.pages + 1,
                items |-> IF Collection THEN x.items \o items ELSE <<0>>,
                keys |-> Keys(x.at),
                complete |-> Complete(x.at),
                after |-> Checkpoint(x, items)]]
       /\ UNCHANGED <<api, request, run, payload, manifest, loader, failures>>

(* No progress, a next page of a body without a list, or one too many.     *)
PageRefused(r) ==
    LET x == extraction[r]
    IN /\ x.phase = "fetch"
       /\ \/ NoProgress(x.at)
          \/ NextFound(x.at) /\ (~Collection \/ TooMany(x))
       /\ Refused(r)
       /\ UNCHANGED <<api, request, run, payload, manifest, loader, failures>>

(* The upstream request fails or is redirected out of the allowlist, the   *)
(* body is not JSON or of another shape than the first, or the next URL is *)
(* one that has been read.                                                 *)
PageFails(r) ==
    /\ extraction[r].phase = "fetch"
    /\ Fault
    /\ Refused(r)
    /\ UNCHANGED <<api, request, run, payload, manifest, loader>>

(* After the loop: an empty incremental answer keeps the checkpoint; a     *)
(* watermark that is used must have been found.                            *)
CheckWatermark(r) ==
    LET x == extraction[r]
        after == IF x.after = 0 /\ request.kind = "next" /\ Count = 0
                   THEN request.before ELSE x.after
    IN /\ x.phase = "check"
       /\ IF request.kind # "plain" /\ after = 0
            THEN Refused(r)
            ELSE extraction' = [extraction EXCEPT ![r].phase = "payload",
                                                  ![r].after = after]
       /\ UNCHANGED <<api, request, run, payload, manifest, loader, failures>>

(* os.replace makes the payload visible at once, ...                       *)
PublishPayload(r) ==
    LET x == extraction[r]
    IN /\ x.phase = "payload"
       /\ payload' = [payload EXCEPT ![r] =
                        [root |-> IF api.shape = "array"
                                    THEN "array" ELSE "object",
                         shape |-> api.shape,
                         keys |-> x.keys,
                         items |-> x.items]]
       /\ extraction' = [extraction EXCEPT ![r].phase = "manifest"]
       /\ UNCHANGED <<api, request, run, manifest, loader, failures>>

(* ... then the manifest that describes it.                                *)
PublishManifest(r) ==
    LET x == extraction[r]
    IN /\ x.phase = "manifest"
       /\ manifest' = [manifest EXCEPT ![r] =
                         [complete |-> x.complete, after |-> x.after]]
       /\ extraction' = [extraction EXCEPT ![r].phase = "done"]
       /\ UNCHANGED <<api, request, run, payload, loader, failures>>

(* The Extractor stops anywhere in its work.                               *)
ExtractorCrashes ==
    /\ Fault
    /\ \E r \in RunIds :
         extraction[r].phase \in {"fetch", "check", "payload", "manifest"}
    /\ extraction' =
         [r \in RunIds |->
            IF extraction[r].phase \in {"none", "done", "refused"}
              THEN extraction[r]
              ELSE [NoExtraction EXCEPT !.phase = "refused"]]
    /\ UNCHANGED <<api, request, run, payload, manifest, loader>>

-----------------------------------------------------------------------------
(* The Orchestrator and the Loader.                                        *)

NewLoad(f, by) ==
    \E l \in LoadIds :
        /\ load[l].phase = "none"
        /\ \A k \in 1..(l - 1) : load[k].phase # "none"
        /\ load' = [load EXCEPT ![l] = [NoLoad EXCEPT !.phase = "verify",
                                                     !.file = f, !.by = by]]

(* The answer of the Extractor: an incomplete payload ends the run, any    *)
(* other one is to be loaded.                                              *)
AskForLoad(r) ==
    /\ run[r].phase = "extract"
    /\ extraction[r].phase = "done"
    /\ IF extraction[r].complete
         THEN run' = [run EXCEPT ![r].phase = "load"] /\ NewLoad(r, "run")
         ELSE run' = [run EXCEPT ![r].phase = "failed"] /\ UNCHANGED load
    /\ UNCHANGED <<api, request, extractor, batches, failures>>

ExtractionRefused(r) ==
    /\ run[r].phase = "extract"
    /\ extraction[r].phase = "refused"
    /\ run' = [run EXCEPT ![r].phase = "failed"]
    /\ UNCHANGED <<api, request, extractor, loader, failures>>

(* The request times out: the run fails, the service goes on.              *)
GiveUp(r) ==
    /\ run[r].phase \in {"extract", "load"}
    /\ Fault
    /\ run' = [run EXCEPT ![r].phase = "failed"]
    /\ UNCHANGED <<api, request, extractor, loader>>

(* Somebody sends the request of a run once more, or for the first time,   *)
(* once its payload is there to be seen.                                   *)
AskByHand(r) ==
    /\ payload[r] # None
    /\ NewLoad(r, "hand")
    /\ UNCHANGED <<api, request, run, extractor, batches, failures>>

TakeAnswer(r, l) ==
    /\ run[r].phase = "load"
    /\ load[l].file = r
    /\ load[l].by = "run"
    /\ \/ /\ load[l].phase = "answered"
          /\ run' = [run EXCEPT ![r] = [phase |-> "loaded",
                                        batch |-> load[l].answer]]
       \/ /\ load[l].phase = "refused"
          /\ run' = [run EXCEPT ![r].phase = "failed"]
    /\ UNCHANGED <<api, request, extractor, loader, failures>>

-----------------------------------------------------------------------------
(* The Loader.                                                             *)

(* inspect_payload: the list under a common name is the rows when a        *)
(* pagination key stands beside it; any other object is one row.           *)
Unwrapped(p) ==
    \/ p.root = "array"
    \/ p.shape = "common" /\ p.keys \ {"links"} # {}

RowsOf(p) == IF Unwrapped(p) THEN p.items ELSE <<0>>

(* 404 without a payload, 409 without a manifest or if pagination_complete *)
(* is not what the request says, which is always yes.                      *)
Loadable(f) ==
    /\ payload[f] # None
    /\ manifest[f] # None
    /\ manifest[f].complete

Verify(l) ==
    /\ load[l].phase = "verify"
    /\ load' = [load EXCEPT ![l].phase =
                   IF Loadable(load[l].file) THEN "insert" ELSE "refused"]
    /\ UNCHANGED <<api, request, run, extractor, batches, failures>>

(* Sessions that have inserted their row of raw_batches.                   *)
Open == {l \in LoadIds : load[l].phase \in {"ensure", "rows"}}

Committed(f) == {l \in LoadIds : batches[l] # None /\ batches[l].file = f}

(* Faulty: a duplicate is answered with the number it would have had.      *)
OwnNumber(l, f) == l

(* insert_raw_batch: the id of the batch that has the file name.           *)
BatchOf(l, f) == CHOOSE k \in Committed(f) : TRUE

(* Faulty: the file name is looked up, and only what is committed is seen. *)
Unsynchronised(f) == {}

(* The unique index makes an insert wait for a session with the same name. *)
Rivals(f) == {k \in Open : load[k].file = f}

InsertBatch(l) ==
    LET f == load[l].file
    IN /\ load[l].phase = "insert"
       /\ Rivals(f) = {}
       /\ load' = IF Committed(f) = {}
                    THEN [load EXCEPT ![l].phase = "ensure"]
                    ELSE [load EXCEPT ![l].phase = "answered",
                                      ![l].answer = BatchOf(l, f)]
       /\ UNCHANGED <<api, request, run, extractor, batches, failures>>

(* iter_flattened_batches: the size of the next group of rows.             *)
Group(l) ==
    LET left == Len(RowsOf(payload[load[l].file])) - Len(load[l].rows)
    IN Min({left, BatchSize})

Written(l) ==
    LET done == Len(load[l].rows)
    IN load[l].rows \o SubSeq(RowsOf(payload[load[l].file]),
                              done + 1, done + Group(l))

(* Faulty: sessions share a lock on the table before they alter it.        *)
Sharers(l) == Open \ {l}

(* Sessions that have altered the table of the source.                     *)
Writers(l) == {k \in Open \ {l} : load[k].phase = "rows"}

(* ensure_table alters the table of the source, which waits for any other  *)
(* session that did so; then ensure_columns and the first group of rows.   *)
WriteFirstRows(l) ==
    /\ load[l].phase = "ensure"
    /\ Writers(l) = {}
    /\ load' = [load EXCEPT ![l].phase = "rows", ![l].rows = Written(l)]
    /\ UNCHANGED <<api, request, run, extractor, batches, failures>>

WriteRows(l) ==
    /\ load[l].phase = "rows"
    /\ Group(l) > 0
    /\ load' = [load EXCEPT ![l].rows = Written(l)]
    /\ UNCHANGED <<api, request, run, extractor, batches, failures>>

(* table_names is stored, and everything becomes visible at once.          *)
Commit(l) ==
    /\ load[l].phase = "rows"
    /\ Group(l) = 0
    /\ batches' = [batches EXCEPT ![l] =
                      [file |-> load[l].file, rows |-> load[l].rows,
                       after |-> manifest[load[l].file].after]]
    /\ load' = [load EXCEPT ![l].phase = "answered", ![l].answer = l]
    /\ UNCHANGED <<api, request, run, extractor, failures>>

(* The transaction is rolled back and the connection closed.               *)
RolledBack(l) == [load[l] EXCEPT !.phase = "refused", !.rows = <<>>]

(* A statement of the session fails, or the Loader or Staging stops: then  *)
(* every session ends.                                                     *)
LoadFails(S) ==
    /\ Fault
    /\ S # {}
    /\ load' = [l \in LoadIds |-> IF l \in S THEN RolledBack(l) ELSE load[l]]
    /\ UNCHANGED <<api, request, run, extractor, batches>>

Busy ==
    {l \in LoadIds :
       load[l].phase \in {"verify", "insert", "ensure", "rows"}}

LoaderFails ==
    \E S \in {Busy} \cup {{l} : l \in Busy} : LoadFails(S)

-----------------------------------------------------------------------------
ExtractorStep(r) ==
    \/ FetchPage(r)
    \/ PageRefused(r)
    \/ CheckWatermark(r)
    \/ PublishPayload(r)
    \/ PublishManifest(r)

LoaderStep(l) ==
    \/ Verify(l)
    \/ InsertBatch(l)
    \/ WriteFirstRows(l)
    \/ WriteRows(l)
    \/ Commit(l)

RunStep(r) ==
    \/ AskForLoad(r)
    \/ ExtractionRefused(r)
    \/ \E l \in LoadIds : TakeAnswer(r, l)

Next ==
    \/ \E r \in RunIds :
         \/ StartRun(r)
         \/ ExtractorStep(r)
         \/ RunStep(r)
         \/ PageFails(r)
         \/ GiveUp(r)
         \/ AskByHand(r)
    \/ ExtractorCrashes
    \/ \E l \in LoadIds : LoaderStep(l)
    \/ LoaderFails

Spec == Init /\ [][Next]_vars

(* Each service works on a request until it can answer it; the failures    *)
(* are bounded and nothing obliges them to happen.                         *)
FairSpec ==
    /\ Spec
    /\ \A r \in RunIds : WF_vars(ExtractorStep(r)) /\ WF_vars(RunStep(r))
    /\ \A l \in LoadIds : WF_vars(LoaderStep(l))

-----------------------------------------------------------------------------
(* The API pages in a way that the Extractor knows.                        *)
Followed == api.paging \in Known

(* All the records of the API, or the one envelope that has them all.      *)
Whole(f) ==
    LET p == payload[f]
    IN IF Collection
         THEN p.items = [i \in Records |-> i] ELSE PageSize >= Count

(* copilot-instructions.md:171-176, README.md:58-63: pages are merged, and *)
(* "unknown or incomplete pagination fails closed".  Whoever asks for a    *)
(* load, and whenever, no batch is committed of a payload that lacks a     *)
(* record of the API - if the Extractor knows how it pages: total without  *)
(* a limit is cut after its first page, and nothing fails.                 *)
OnlyWholePayloads ==
    \A l \in LoadIds :
        batches[l] # None /\ Followed => Whole(batches[l].file)

(* load_payload, "one atomic staging batch"; copilot-instructions.md:184:  *)
(* duplicate payload filenames are idempotently skipped.  However requests *)
(* for a file overlap, fail or are repeated, it has at most one batch, and *)
(* that batch has each of its rows once.                                   *)
OneBatchPerFile ==
    \A l \in LoadIds :
        batches[l] # None =>
            /\ batches[l].rows = RowsOf(payload[batches[l].file])
            /\ Committed(batches[l].file) = {l}

(* The batch that a run goes on to publish is committed when the Loader    *)
(* answers, it is of the run's own file, and the checkpoint that the run   *)
(* will save is the one stored with it.                                    *)
AnswerIsCommitted ==
    \A r \in RunIds :
        run[r].phase = "loaded" =>
            \E l \in LoadIds :
                /\ run[r].batch = l
                /\ batches[l] # None
                /\ batches[l].file = r
                /\ batches[l].after = extraction[r].after

(* extractor test_incremental_checkpoint_does_not_move_backwards, and more *)
(* than one page of it: where a watermark is used, the checkpoint of a     *)
(* batch is neither behind the one before nor behind any of its records,   *)
(* nor ahead of both.  This, too, of an API that is followed to its end.   *)
CheckpointIsNewest ==
    \A l \in LoadIds :
        batches[l] # None /\ Followed /\ request.kind # "plain" =>
            batches[l].after = Max(ToSet(api.watermarks) \cup {request.before})

(* A request to the Loader is answered or refused, whatever the others     *)
(* wait for and however they end.                                          *)
Asked(l) == load[l].phase = "verify"
Answered(l) == load[l].phase \in {"answered", "refused"}
LoadsAnswered == \A l \in LoadIds : Asked(l) ~> Answered(l)
=============================================================================
