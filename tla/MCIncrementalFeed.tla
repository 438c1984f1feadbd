------------------------- MODULE MCIncrementalFeed -------------------------
(***************************************************************************)
(* Small instances of IncrementalFeed for TLC.                             *)
(***************************************************************************)
EXTENDS IncrementalFeed

Kind(contract, limit, overlap, deletes) ==
    [contract |-> contract, limit |-> limit,
     overlap |-> overlap, deletes |-> deletes]

(* Timestamps while the table rests during extractions, and what needs no  *)
(* timestamps while it does not; then what the overlap of an extraction    *)
(* and a change can do, with pages so small that the cap is reached.       *)
AllFeeds ==
    {Kind("timestamped", 2, FALSE, FALSE), Kind("blank", 2, TRUE, FALSE),
     Kind("snapshot", 2, TRUE, TRUE), Kind("timestamped", 1, TRUE, FALSE),
     Kind("snapshot", 1, TRUE, FALSE)}

OverlappedTimestamps == {Kind("timestamped", 1, TRUE, FALSE)}
=============================================================================
