------------------------------ MODULE MCSearch ------------------------------
(* Instances of Search for TLC. *)
EXTENDS Search

CONSTANTS tag, size,  \* paths
          red         \* a string

Red == <<"str", red>>

One == <<"int", 1>>

TwoPointZero == <<"float", 2>>

True == <<"bool", 1>>

OnePointZero == <<"float", 1>>

MCScalars == {Red, One, OnePointZero, TwoPointZero, True}

MCPoints ==
  {[vec |-> 1, payload |-> {<<tag, Red>>, <<size, One>>}],
   [vec |-> 2, payload |-> {<<size, TwoPointZero>>}]}

MCFields == UNION {point.payload : point \in MCPoints}

IsRed == Match(tag, Red)

Small == Match(size, OnePointZero)

Large == RangeOf(size, [b \in {"gte"} |-> 2])

IsTrue == Match(size, True)

NotSmall == Filter({}, {}, {Small})

Truly == Filter({IsTrue}, {}, {})

Either == Filter({}, {IsRed, Small}, {})

Nested == Filter({NotSmall}, {Large, HasId({1})}, {IsRed})

MCFilters == {NoFilter, NotSmall, Truly, Either, Nested}

MCConditions == MCFilters \cup {IsRed, Small, Large, IsTrue, HasId({1})}

MCRequests ==
  [filter : MCFilters, limit : {1}, exact : {FALSE}, threshold : {0}]
    \cup {[filter |-> Nested, limit |-> 1, exact |-> TRUE, threshold |-> 0],
          [filter |-> NoFilter, limit |-> 2, exact |-> FALSE, threshold |-> 0],
          [filter |-> NoFilter, limit |-> 1, exact |-> TRUE, threshold |-> 2]}

MCDeclarable == {<<size, "float">>}

\* Of the points, only one has a value that an index of integers knows.
IntegersOnly == {<<size, "integer">>}
=============================================================================
