------------------------------- MODULE Filters -------------------------------
(***************************************************************************)
(* Filters, their evaluation on a payload, and the payload indexes that    *)
(* answer them for many points at once (filters/ast.py, evaluate.py,       *)
(* index.py, cardinality.py).                                              *)
(*                                                                         *)
(* A payload is a set of fields, each a path and one of the scalars found  *)
(* there: what resolve_path yields, so an array is several fields.  A      *)
(* scalar is its Python type and its value; True is the number 1.          *)
(***************************************************************************)
EXTENDS Segments, Integers, FiniteSets

CONSTANTS Paths,
          Scalars,      \* pairs of a type and a value
          Conditions    \* filters, and all they are made of

Types == {"str", "bool", "int", "float", "null"}

IsNumber(scalar) == scalar[1] \in {"bool", "int", "float"}

\* Python compares numbers across their types, in == and as keys of a dict.
Key(scalar) == IF IsNumber(scalar) THEN <<"number", scalar[2]>> ELSE scalar

Equal(v, w) == Key(v) = Key(w)

\* ast.py.  A range is its bounds: at most one of "gt", "gte" and at most one of
\* "lt", "lte", in order.
Match(path, value) == [kind |-> "match", path |-> path, value |-> value]

RangeOf(path, bounds) == [kind |-> "range", path |-> path, bounds |-> bounds]

HasId(ids) == [kind |-> "has_id", ids |-> ids]

Filter(must, should, mustNot) ==
  [kind |-> "filter", must |-> must, should |-> should, mustNot |-> mustNot]

\* The filter None.
NoFilter == Filter({}, {}, {})

Kinds == {"has_id", "match", "range", "filter"}

Parts(condition) ==
  IF condition.kind = "filter"
  THEN condition.must \cup condition.should \cup condition.mustNot
  ELSE {}

\* A filter is made of conditions that were there before it.
ASSUME FilterAssumption ==
  /\ Fields \subseteq Paths \X Scalars
  /\ \A v \in Scalars : v[1] \in Types /\ (IsNumber(v) => v[2] \in Int)
  /\ NoFilter \in Conditions
  /\ \A c \in Conditions :
       /\ c.kind \in Kinds /\ Parts(c) \subseteq Conditions
       /\ c.kind = "match" => c.value \in Scalars
  /\ \A S \in (SUBSET Conditions) \ {{}} : \E c \in S : Parts(c) \cap S = {}

-----------------------------------------------------------------------------
(***************************************************************************)
(* evaluate.py: whether a point passes, from its payload.                  *)
(***************************************************************************)
ValuesAt(payload, path) == {field[2] : field \in {f \in payload : f[1] = path}}

Meets(bound, value, limit) ==
  CASE bound = "gt"  -> value > limit
    [] bound = "gte" -> value >= limit
    [] bound = "lt"  -> value < limit
    [] bound = "lte" -> value <= limit

\* A bool is not in any range.
Within(scalar, bounds) ==
  /\ scalar[1] \in {"int", "float"}
  /\ \A b \in DOMAIN bounds : Meets(b, scalar[2], bounds[b])

\* matches_filter, and _matches_condition for the conditions of the filter.
MatchesFilter(id, payload, filter) ==
  LET matches[c \in Conditions] ==
        CASE c.kind = "filter" -> /\ \A p \in c.must : matches[p]
                                  /\ \A p \in c.mustNot : ~matches[p]
                                  /\ c.should = {} \/ \E p \in c.should : matches[p]
          [] c.kind = "has_id" -> id \in c.ids
          [] c.kind = "match"  -> \E v \in ValuesAt(payload, c.path) : Equal(v, c.value)
          [] c.kind = "range"  -> \E v \in ValuesAt(payload, c.path) : Within(v, c.bounds)
  IN matches[filter]

-----------------------------------------------------------------------------
(***************************************************************************)
(* PayloadFieldIndex: the values of each indexed point that the schema     *)
(* accepts, and the points that have an accepted value equal to a key.     *)
(***************************************************************************)
Schemas == {"keyword", "integer", "float", "bool"}

AcceptedTypes ==
  [keyword |-> {"str"}, integer |-> {"int"}, float |-> {"int", "float"}, bool |-> {"bool"}]

Accepts(schema, scalar) == scalar[1] \in AcceptedTypes[schema]

Keys == {Key(v) : v \in Scalars}

KeysOf(scalars) == {Key(v) : v \in scalars}

IndexDelete(index, id) ==
  [index EXCEPT
     !.values[id] = {},
     !.equals = [k \in Keys |-> IF k \in KeysOf(index.values[id]) THEN @[k] \ {id} ELSE @[k]]]

\* upsert() first deletes what the index holds of the point.
IndexUpsert(index, id, values) ==
  LET cleared  == IndexDelete(index, id)
      accepted == {v \in values : Accepts(index.schema, v)}
  IN  [cleared EXCEPT
         !.values[id] = accepted,
         !.equals = [k \in Keys |-> IF k \in KeysOf(accepted) THEN @[k] \cup {id} ELSE @[k]]]

\* No point has a value that the schema does not accept.
IndexMatch(index, scalar) ==
  IF Accepts(index.schema, scalar) THEN index.equals[Key(scalar)] ELSE {}

\* Only an index of numbers answers a range.
AnswersRanges(schema) == schema \in {"integer", "float"}

IndexRange(index, bounds) ==
  {id \in Ids : \E v \in index.values[id] : Within(v, bounds)}

-----------------------------------------------------------------------------
(***************************************************************************)
(* PayloadIndexSet, which is the indexes of some of the paths.  A          *)
(* condition resolves to points among those that are live, and to whether  *)
(* they are exactly those that meet it.                                    *)
(***************************************************************************)
LivePointsOf(seg) == {id \in Ids : seg[id].val # Gone}

\* create(): the index of a path, built from the live points of a segment.
BuiltIndex(seg, path, schema) ==
  LET of == LivePointsOf(seg)
      accepted == [id \in Ids |-> IF id \in of
                                  THEN {v \in ValuesAt(seg[id].val.payload, path) :
                                          Accepts(schema, v)}
                                  ELSE {}]
  IN  [schema |-> schema, values |-> accepted,
       equals |-> [k \in Keys |-> {id \in Ids : k \in KeysOf(accepted[id])}]]

BuiltIndexes(seg, schemas) ==
  [p \in DOMAIN schemas |-> BuiltIndex(seg, p, schemas[p])]

Unresolved(live) == [ids |-> live, exact |-> FALSE]

\* Mutant: what an unindexed must_not condition might exclude is excluded.
ExcludedEarly(resolved) == UNION {r.ids : r \in resolved}

\* Only conditions that are answered exactly may exclude a point.
Excluded(resolved) == UNION {r.ids : r \in {s \in resolved : s.exact}}

\* _resolve_filter, once its conditions are resolved.
Combined(live, must, should, mustNot) ==
  LET shouldExact == \A r \in should : r.exact
      allowed == IF should # {} /\ shouldExact THEN UNION {r.ids : r \in should} ELSE live
  IN  [ids |-> {id \in live \cap allowed : \A r \in must : id \in r.ids} \ Excluded(mustNot),
       exact |-> shouldExact /\ \A r \in must \cup mustNot : r.exact]

\* _resolve.
Resolve(live, indexes, condition) ==
  LET resolved[c \in Conditions] ==
        CASE c.kind = "filter" ->
               Combined(live, {resolved[p] : p \in c.must}, {resolved[p] : p \in c.should},
                        {resolved[p] : p \in c.mustNot})
          [] c.kind = "has_id" -> [ids |-> live \cap c.ids, exact |-> TRUE]
          [] c.kind = "match" ->
               IF c.path \in DOMAIN indexes
               THEN [ids |-> live \cap IndexMatch(indexes[c.path], c.value), exact |-> TRUE]
               ELSE Unresolved(live)
          [] c.kind = "range" ->
               IF c.path \in DOMAIN indexes /\ AnswersRanges(indexes[c.path].schema)
               THEN [ids |-> live \cap IndexRange(indexes[c.path], c.bounds), exact |-> TRUE]
               ELSE Unresolved(live)
  IN resolved[condition]

\* candidates(): the residual is the filter again, unless the answer is exact.
Candidates(live, indexes, filter) ==
  LET resolved == Resolve(live, indexes, filter)
  IN  [ids      |-> resolved.ids,
       maximum  |-> Cardinality(resolved.ids),
       residual |-> IF resolved.exact THEN NoFilter ELSE filter]
=============================================================================
