-------------------------- MODULE IncrementalFeed --------------------------
(***************************************************************************)
(* One source against a paginated API that changes while it is read: the   *)
(* page loop of the Extractor (extractor/app/main.py), the API of the mock *)
(* source (mock_source/app), and what a run publishes in the end.          *)
(*                                                                         *)
(* A record of the API is its id and its updated_at; the content is told   *)
(* apart by updated_at, 0 stands for "no such record".  core maps an id to *)
(* the updated_at of its current version.  The steps of a run in between,  *)
(* and several runs at a time, are the subject of module Orchestrator.     *)
(***************************************************************************)
EXTENDS Naturals, Sequences, FiniteSets, FiniteSetsExt

CONSTANTS
    MaxId,        \* bound: ids of the API's table
    MaxPages,     \* MAX_PAGINATION_PAGES
    MaxTime,      \* bound: stamps of updated_at
    MaxFailures,  \* bound: failures from outside
    Feeds         \* the kinds of source that are considered

(* timestamped: incremental_upsert with a watermark field; blank:          *)
(* incremental_upsert without one; snapshot: full_snapshot.                *)
Contracts == {"timestamped", "blank", "snapshot"}

(* How the source is configured, the limit of a page in its URL, whether   *)
(* the API's table may change during an extraction, and whether records    *)
(* may be deleted from it.                                                 *)
Feed == [contract : Contracts, limit : Nat \ {0},
         overlap : BOOLEAN, deletes : BOOLEAN]

ASSUME ConstantsAssumption ==
    /\ {MaxId, MaxPages} \subseteq Nat \ {0}
    /\ MaxTime \in Nat \ {0, 1}   \* Init has given two stamps
    /\ MaxFailures \in Nat
    /\ Feeds \subseteq Feed

Ids == 1..MaxId
Stamps == 1..MaxTime
Table == [Ids -> Stamps \cup {0}]
Item == [id : Ids, at : Stamps]

VARIABLES
    feed,        \* the kind of the source, which never changes
    rows,        \* the API's table, as committed
    clock,       \* the last stamp given
    extraction,  \* the run in progress
    core,        \* current versions
    checkpoint,  \* sources.checkpoint, 0 for NULL
    failures,    \* failures so far
    started      \* history: the table when the extraction started

vars == <<feed, rows, clock, extraction, core, checkpoint, failures, started>>

NoExtraction ==
    [phase |-> "idle", full |-> FALSE, since |-> 0, offset |-> 0, total |-> 0,
     payload |-> <<>>, pages |-> 0]

Phases == {"idle", "count", "select", "sync", "commit"}

(* While a page is awaited the offset is below some count of the records;  *)
(* the pages collected so far stay under the cap.                          *)
TypeOK ==
    /\ feed \in Feeds
    /\ {rows, core, started} \subseteq Table
    /\ clock \in Stamps \cup {0}
    /\ checkpoint \in Stamps \cup {0}
    /\ failures \in 0..MaxFailures
    /\ extraction.phase \in Phases
    /\ extraction.full \in BOOLEAN
    /\ extraction.since \in Stamps \cup {0}
    /\ extraction.total \in 0..MaxId
    /\ extraction.payload \in Seq(Item)
    /\ extraction.pages \in 0..MaxPages
    /\ extraction.phase \in {"count", "select"} =>
         /\ extraction.offset \in 0..(MaxId - 1)
         /\ extraction.offset = Len(extraction.payload)
         /\ extraction.pages < MaxPages

(* The table the mock source was initialized with.                         *)
Init ==
    /\ feed \in Feeds
    /\ \E n \in 0..MaxId :
         rows \in {t \in [Ids -> 0..2] : \A i \in Ids : t[i] = 0 <=> i > n}
    /\ clock = 2
    /\ extraction = NoExtraction
    /\ core = [i \in Ids |-> 0]
    /\ checkpoint = 0
    /\ failures = 0
    /\ started = rows

-----------------------------------------------------------------------------
(* The API.                                                                *)

Present(t) == {i \in Ids : t[i] # 0}

MayChange == feed.overlap \/ extraction.phase = "idle"

(* mutate: the first k records ORDER BY id are updated and n records added *)
(* above the largest id, all with one updated_at, in one transaction.  The *)
(* stamp is drawn before the transaction.  As long as one mutate ends      *)
(* before the next begins, no other stamp is given and no row changes in   *)
(* between, so that drawing it at the commit shows readers the same: that  *)
(* there is one mutate at a time is a bound of this model.                 *)
Mutate(k, n) ==
    LET top == IF Present(rows) = {} THEN 0 ELSE Max(Present(rows))
        firsts == {i \in Present(rows) :
                     Cardinality({j \in Present(rows) : j <= i}) <= k}
    IN /\ MayChange
       /\ clock < MaxTime
       /\ k + n > 0
       /\ Cardinality(Present(rows)) >= k
       /\ top + n <= MaxId
       /\ clock' = clock + 1
       /\ rows' = [i \in Ids |->
                     IF i \in firsts \cup (top + 1)..(top + n)
                       THEN clock' ELSE rows[i]]
       /\ UNCHANGED <<feed, extraction, core, checkpoint, failures, started>>

(* The owner of the table deletes a record.                                *)
Delete(i) ==
    /\ feed.deletes
    /\ MayChange
    /\ clock < MaxTime
    /\ rows[i] # 0
    /\ clock' = clock + 1
    /\ rows' = [rows EXCEPT ![i] = 0]
    /\ UNCHANGED <<feed, extraction, core, checkpoint, failures, started>>

(* WHERE updated_at > updated_since, if the parameter is given.            *)
Matching(t, since) ==
    {i \in Present(t) : since = 0 \/ t[i] > since}

(* ... ORDER BY id ...                                                     *)
OrderById(ids) ==
    CHOOSE s \in [1..Cardinality(ids) -> ids] :
        \A m, n \in DOMAIN s : m < n => s[m] < s[n]

(* ... LIMIT limit OFFSET offset.                                          *)
Page(t, since, offset) ==
    LET ids == OrderById(Matching(t, since))
    IN [n \in 1..Min({feed.limit, Max({0, Len(ids) - offset})}) |->
          [id |-> ids[offset + n], at |-> t[ids[offset + n]]]]

-----------------------------------------------------------------------------
(* A run.                                                                  *)

(* A run starts, scheduled or forced to reload everything.  A timestamped  *)
(* source without a checkpoint starts with a full snapshot; only a         *)
(* timestamped one passes its checkpoint to the API.                       *)
StartExtraction(force) ==
    LET before == IF force \/ feed.contract # "timestamped"
                    THEN 0 ELSE checkpoint
    IN /\ extraction.phase = "idle"
       /\ extraction' =
            [NoExtraction EXCEPT
               !.phase = "count",
               !.full = \/ force \/ feed.contract = "snapshot"
                        \/ feed.contract = "timestamped" /\ before = 0,
               !.since = before]
       /\ started' = rows
       /\ UNCHANGED <<feed, rows, clock, core, checkpoint, failures>>

Abandon ==
    /\ extraction' = NoExtraction
    /\ started' = rows
    /\ UNCHANGED <<feed, rows, clock, core, checkpoint>>

(* list_page, first statement: SELECT count( * ).                          *)
CountRows ==
    /\ extraction.phase = "count"
    /\ extraction' =
         [extraction EXCEPT
            !.phase = "select",
            !.total = Cardinality(Matching(rows, extraction.since))]
    /\ UNCHANGED <<feed, rows, clock, core, checkpoint, failures, started>>

(* Faulty: the first page is taken for the whole.                          *)
FirstPageOnly(x, items) == FALSE

(* _next_page_url for an answer with total, skip and limit.                *)
HasMore(x, items) == x.total > x.offset + Len(items)

(* Faulty: a page is taken to be full.                                     *)
OffsetByLimit(x, items) == x.offset + feed.limit

NextOffset(x, items) == x.offset + Len(items)

(* Faulty: pages are put in front.                                         *)
Prepended(x, items) == items \o x.payload

(* Faulty: only the last page is kept.                                     *)
LastPageOnly(x, items) == items

Collected(x, items) == x.payload \o items

(* list_page, second statement, and what the page loop does of the answer: *)
(* collect the items, then go on after them or finish.                     *)
SelectRows ==
    LET x == extraction
        items == Page(rows, x.since, x.offset)
    IN /\ x.phase = "select"
       /\ HasMore(x, items) => items # <<>> /\ x.pages + 1 < MaxPages
       /\ extraction' =
            [x EXCEPT !.payload = Collected(x, items),
                      !.offset = NextOffset(x, items),
                      !.pages = x.pages + 1,
                      !.phase = IF HasMore(x, items) THEN "count" ELSE "sync"]
       /\ UNCHANGED <<feed, rows, clock, core, checkpoint, failures, started>>

(* "pagination made no progress", or the page limit is reached: 502.       *)
PageRefused ==
    LET x == extraction
        items == Page(rows, x.since, x.offset)
    IN /\ x.phase = "select"
       /\ HasMore(x, items)
       /\ items = <<>> \/ x.pages + 1 >= MaxPages
       /\ Abandon
       /\ UNCHANGED failures

(* The largest watermark of all pages and of the previous checkpoint; an   *)
(* empty incremental answer keeps the checkpoint.  0 if there is none.     *)
After(x) == Max({x.since} \cup {x.payload[n].at : n \in DOMAIN x.payload})

(* A watermark is required and there is none: 502.                         *)
Rejected ==
    /\ extraction.phase = "sync"
    /\ feed.contract = "timestamped" /\ After(extraction) = 0
    /\ Abandon
    /\ UNCHANGED failures

(* Core takes the last record of each key.                                 *)
LastOf(payload, i) == Max({n \in DOMAIN payload : payload[n].id = i})

Delivered(payload) == {payload[n].id : n \in DOMAIN payload}

(* Core closes what a full snapshot lacks and upserts what is delivered;   *)
(* Loader, Core and Mart commit.                                           *)
Synchronize ==
    LET x == extraction
    IN /\ x.phase = "sync"
       /\ ~(feed.contract = "timestamped" /\ After(x) = 0)
       /\ core' = [i \in Ids |->
                     CASE i \in Delivered(x.payload) ->
                            x.payload[LastOf(x.payload, i)].at
                       [] x.full /\ i \notin Delivered(x.payload) -> 0
                       [] OTHER -> core[i]]
       /\ extraction' = [x EXCEPT !.phase = "commit"]
       /\ UNCHANGED <<feed, rows, clock, checkpoint, failures, started>>

(* The checkpoint is committed last; the run is done.                      *)
Commit ==
    /\ extraction.phase = "commit"
    /\ checkpoint' = IF feed.contract = "timestamped" THEN After(extraction)
                     ELSE checkpoint
    /\ extraction' = NoExtraction
    /\ started' = rows
    /\ UNCHANGED <<feed, rows, clock, core, failures>>

(* A request, a service or a database fails; the run keeps nothing but     *)
(* what core committed.                                                    *)
Fail ==
    /\ extraction.phase # "idle"
    /\ failures < MaxFailures
    /\ failures' = failures + 1
    /\ Abandon

RunStep == CountRows \/ SelectRows \/ PageRefused \/ Rejected
           \/ Synchronize \/ Commit

Next ==
    \/ \E k, n \in 0..MaxId : Mutate(k, n)
    \/ \E i \in Ids : Delete(i)
    \/ \E force \in BOOLEAN : StartExtraction(force)
    \/ RunStep
    \/ Fail

Spec == Init /\ [][Next]_vars

(* The scheduler starts a run again and again, a run that no failure ends  *)
(* goes on, and nothing obliges the table's owner or a failure to act.     *)
FairSpec == Spec /\ WF_vars(StartExtraction(FALSE)) /\ WF_vars(RunStep)

-----------------------------------------------------------------------------
(* Properties.                                                             *)

(* The table rests while it is read, or its owner's changes do not matter  *)
(* to the next request because that asks for everything.                   *)
Steady == feed.contract = "timestamped" => ~feed.overlap

(* mock_source/README.md:90 "changes can therefore be selected by the next *)
(* incremental request": a record whose updated_at the checkpoint covers   *)
(* is in Core with this content.  The next request asks only for a greater *)
(* updated_at, so that a record this fails of is lost until it changes     *)
(* again or somebody reloads everything.                                   *)
NothingMissed ==
    \A i \in Present(rows) : rows[i] <= checkpoint => core[i] = rows[i]

NothingMissedIfSteady == Steady => NothingMissed

(* Offset pagination over a table that is updated and extended, never cut, *)
(* while it is read: a full snapshot delivers every record the table had   *)
(* when it started, in the content it had then or a newer one.  Without    *)
(* the filter no update moves a record to another page.                    *)
StartedRowsDelivered ==
    extraction.phase = "sync" /\ extraction.full /\ ~feed.deletes =>
        \A i \in Present(started) :
            \E n \in DOMAIN extraction.payload :
                /\ extraction.payload[n].id = i
                /\ extraction.payload[n].at >= started[i]

(* An update that shifts records to a later page makes the API deliver     *)
(* some of them twice.  Core takes the last record of a key; it is never   *)
(* older than another one of the same payload.                             *)
LastIsNewest ==
    \A m, n \in DOMAIN extraction.payload :
        /\ m < n
        /\ extraction.payload[m].id = extraction.payload[n].id
        => extraction.payload[m].at <= extraction.payload[n].at

Fits == MaxId <= MaxPages * feed.limit

Current == Steady /\ Fits => core = rows

(* Once the table rests, the runs bring Core to exactly its content and    *)
(* keep it there, if it fits in the pages the Extractor is ready to read.  *)
EventuallyCurrent == <>[]Current
=============================================================================
