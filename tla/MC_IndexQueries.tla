-------------------------- MODULE MC_IndexQueries --------------------------
(* IndexQueries on a small instance: values of four bits, tokens of two, three *)
(* objects; times in half seconds.  An object may have two rows, as            *)
(* ObjectIndexes shows.                                                        *)
EXTENDS IndexQueries

SmallEnc == [n \in 0 .. 3 |-> 2 * n]

SmallStored ==
  {{}, {<<0, 1>>, <<4, 1>>},
   {<<0, 3>>, <<4, 2>>, <<4, 1>>}, {<<2, 1>>, <<4, 1>>, <<6, 3>>}}

\* With a limit of one or two, none, and in both directions.
Walks ==
  [op : {"gt"}, type : {"int64"}, ranged : {TRUE}, value : {-4}, between : {None},
   limit : {0, 1, 2}, forward : BOOLEAN]
  \cup [op : {"between"}, type : {"int64"}, ranged : {TRUE}, value : {None},
        between : {<<-3, 7>>}, limit : {1, 2}, forward : BOOLEAN]

WholeHash ==
  [op : {"eq"}, type : {"int64"}, ranged : BOOLEAN, value : {None}, between : {None},
   limit : {2}, forward : {TRUE}]

Scans ==
  [op : {"scan"}, type : {"int64"}, ranged : {FALSE}, value : {None}, between : {None},
   limit : {0, 1, 2}, forward : {TRUE}]

\* Every operator and type.
Typed ==
  [op : {"lt", "lte", "gt", "gte", "eq"}, type : {"int64"}, ranged : {TRUE}, value : {-4, 1},
   between : {None}, limit : {0}, forward : {TRUE}]
  \cup [op : {"lt", "lte", "gt", "gte"}, type : {"int32"}, ranged : {TRUE}, value : {-2, 1},
   between : {None}, limit : {0}, forward : {TRUE}]
  \cup [op : {"lt", "lte", "gt", "gte", "eq"}, type : {"float64"}, ranged : {TRUE},
        value : {0, 11, 5}, between : {None}, limit : {0}, forward : {TRUE}]
  \cup [op : {"between"}, type : {"float64"}, ranged : {TRUE},
        value : {None}, between : {<<14, 9>>, <<10, 2>>}, limit : {0}, forward : {TRUE}]
  \cup [op : {"lte", "gt"}, type : {"float32", "uint32"}, ranged : {TRUE},
        value : {0, 1}, between : {None}, limit : {0}, forward : {TRUE}]
  \cup [op : {"lt", "lte", "gt", "gte", "eq"}, type : {"time"}, ranged : {TRUE},
        value : {2, 5}, between : {None}, limit : {0}, forward : {TRUE}]

\* Requests that are refused.
Malformed ==
  [op : {"between", "gt"}, type : {"int64"}, ranged : BOOLEAN, value : {None},
   between : {None, <<3, -8>>}, limit : {0}, forward : {TRUE}]

SmallStarts ==
  ((Walks \cup WholeHash \cup Scans) \X SmallStored)
  \cup ((Typed \cup Malformed) \X {{<<0, 1>>, <<2, 2>>}})
==============================================================================
