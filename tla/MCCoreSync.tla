----------------------------- MODULE MCCoreSync -----------------------------
(***************************************************************************)
(* Small instances of CoreSync for TLC.                                    *)
(***************************************************************************)
EXTENDS CoreSync

CONSTANTS i1, i2,   \* ids
          k1, k2,   \* values of the field key
          x, y      \* contents

Record(i, k, v, tags) == [id |-> i, key |-> k, val |-> v, tags |-> tags]

(* Every record has an id: two ids, changing content, with no array, an    *)
(* empty one, and arrays of one and two elements.                          *)
Identified ==
    {Record(i1, Null, x, Null), Record(i1, Null, y, <<>>),
     Record(i1, Null, x, <<x, y>>), Record(i2, Null, x, Null),
     Record(i2, Null, y, <<y>>)}

(* Records that are told apart by a configured key field; two of them also *)
(* carry an id, which adds a column to the table when they first come.     *)
KeyedRecords ==
    {Record(Null, k1, x, Null), Record(Null, k1, y, Null),
     Record(Null, k2, x, Null), Record(i1, k2, x, <<x>>),
     Record(i1, k1, x, <<>>)}

(* Records of which some lack what the key is made of, and one of these an *)
(* id as well; the array of one hangs under an id.                         *)
Irregular ==
    {Record(i1, k1, x, <<x>>), Record(i1, Null, y, Null),
     Record(Null, k1, x, Null), Record(Null, Null, y, Null)}

IdSource == [records |-> Identified, keyFields |-> {}]
KeySource == [records |-> KeyedRecords, keyFields |-> {"key"}]

IrregularSource(k) == [records |-> Irregular, keyFields |-> k]

OneSource == {IdSource}
AllSources ==
    {IdSource, KeySource, IrregularSource({}), IrregularSource({"key"})}
=============================================================================
