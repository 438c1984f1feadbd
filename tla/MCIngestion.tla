---------------------------- MODULE MCIngestion ----------------------------
(***************************************************************************)
(* A small instance of Ingestion for TLC: every shape with every paging    *)
(* over as many records as fit on the pages, and one that does not; then   *)
(* the orders in which watermarks can come.                                *)
(***************************************************************************)
EXTENDS Ingestion

Kind(shape, paging, lastNull, watermarks) ==
    [shape |-> shape, paging |-> paging, lastNull |-> lastNull,
     watermarks |-> watermarks]

Structures ==
    {Kind(s, p, FALSE, <<1, 1, 2>>) : s \in Shapes \ {"array"}, p \in Pagings}
    \cup {Kind("array", p, FALSE, <<1, 1, 2>>) : p \in {"whole", "header"}}
    \cup {Kind("common", p, TRUE, <<1, 2>>) : p \in {"next", "cursor"}}
    \cup {Kind("common", "cursor", TRUE, <<1>>),
          Kind("unique", "next", FALSE, <<1, 1, 1, 1>>)}

Orders ==
    {Kind("common", "offset", FALSE, w) :
        w \in {<<>>, <<0>>, <<2, 1>>, <<0, 2, 0>>, <<1, 0, 0>>}}

SmallApis == Structures \cup Orders
=============================================================================
