------------------------------ MODULE Postgres ------------------------------
(***************************************************************************)
(* What PostgreSQL makes of the conditions the query package writes: OR    *)
(* binds less than AND, AND less than =; nulls make a condition unknown;   *)
(* comparing values of different types, or casting text that is not a      *)
(* number or a truth value, is an error.  A row has cols, json (for each   *)
(* jsonb column, the leaves by path), its sort key pos and its timespan.   *)
(* A value is a type and the text of the value.  External code.            *)
(***************************************************************************)
EXTENDS Integers, Sequences, SequencesExt, FiniteSets

Val(t, v) == [t |-> t, v |-> v]
NullText == <<"NULL">>
Null(t) == Val(t, NullText)
IsNull(x) == x.v = NullText
SqlError == Val("error", <<>>)
Truth(b) == Val("boolean", IF b THEN <<"true">> ELSE <<"false">>)
Holds(x) == x = Truth(TRUE)

IsNumber(v) == v # <<>> /\ \A i \in DOMAIN v : v[i] \in {"0", "1", "2", "3", "4", "5", "6", "7", "8", "9"}
Cast(x, t) ==
  CASE x.t \in {t, "error"} -> x
    [] IsNull(x) -> Null(t)
    [] t = "text" -> Val(t, x.v)
    [] t = "bigint" /\ IsNumber(x.v) -> Val(t, x.v)
    [] t = "boolean" /\ x.v \in {<<"true">>, <<"yes">>} -> Truth(TRUE)
    [] t = "boolean" /\ x.v \in {<<"false">>, <<"no">>} -> Truth(FALSE)
    [] OTHER -> SqlError

\* A literal or parameter of unknown type takes the type of the other side.
Settled(x, other) ==
  IF x.t = "unknown" THEN Cast(x, IF other.t = "unknown" THEN "text" ELSE other.t) ELSE x
Same(a, b) ==
  CASE a.t = "error" \/ b.t = "error" \/ a.t # b.t -> SqlError
    [] IsNull(a) \/ IsNull(b) -> Null("boolean")
    [] OTHER -> Truth(a.v = b.v)
Equal(l, r) == Same(Settled(l, r), Settled(r, l))
Either(a, b, wins) ==
  CASE a = Truth(wins) \/ b = Truth(wins) -> Truth(wins)
    [] IsNull(a) \/ IsNull(b) -> Null("boolean")
    [] OTHER -> Truth(~wins)
Logical(op, l, r) ==
  IF {l.t, r.t} \subseteq {"boolean", "unknown"}
    THEN Either(Cast(l, "boolean"), Cast(r, "boolean"), op = "OR")
    ELSE SqlError

\* p is smaller than q in lexicographic order.
Below(p, q) ==
  \E i \in 1 .. Len(q) : p[i] < q[i] /\ \A j \in 1 .. (i - 1) : p[j] = q[j]
InRange(row, test, arg) ==
  CASE test = "all" -> TRUE
    [] test = "below" -> Below(row.pos, arg)
    [] test = "above" -> Below(arg, row.pos)
    [] test = "notAbove" -> row.pos[1] <= arg
    [] test = "notBelow" -> row.pos[1] >= arg
    [] test = "timespan" -> row.timespan[1] <= arg /\ arg < row.timespan[2]

\* A leaf as text, or the text of an object that is there.
Leaf(json, path) ==
  CASE path \in DOMAIN json -> Val("text", json[path].v)
    [] \E p \in DOMAIN json : Len(p) > Len(path) /\ SubSeq(p, 1, Len(path)) = path -> Val("text", <<"{">>)
    [] OTHER -> Null("text")

\* The atom ts[1] in the rows in scope.
Atom(t, scope, vals) ==
  CASE t.k = "column" ->
         IF t.name \notin DOMAIN scope[t.alias].cols THEN SqlError
         ELSE Cast(scope[t.alias].cols[t.name], IF t.as = "hex" THEN "text" ELSE t.as)
    [] t.k = "json" ->
         IF t.name \notin DOMAIN scope[t.alias].json THEN SqlError
         ELSE Cast(Leaf(scope[t.alias].json[t.name], t.path), t.as)
    [] t.k = "literal" -> IF t.typ = "string" THEN Val("unknown", SubSeq(t.value, 2, Len(t.value) - 1)) ELSE Val("bigint", t.value)
    [] t.k = "param" -> Val("unknown", vals[t.num])
    [] t.k = "range" -> Truth(InRange(scope["base"], t.test, t.arg))

\* The last occurrence of k in ts outside brackets, or 0.
Depth(ts, i) ==
  Cardinality({j \in 1 .. (i - 1) : ts[j].k \in {"(", "exists"}}) - Cardinality({j \in 1 .. (i - 1) : ts[j].k = ")"})
LastTop(ts, k) == SelectLastInSeq([i \in DOMAIN ts |-> ts[i].k = k /\ Depth(ts, i) = 0], LAMBDA top : top)

\* The operator that binds least, and where it stands last.
Operator(ts) ==
  CASE LastTop(ts, "OR") > 0 -> [op |-> "OR", at |-> LastTop(ts, "OR")]
    [] LastTop(ts, "AND") > 0 -> [op |-> "AND", at |-> LastTop(ts, "AND")]
    [] LastTop(ts, "=") > 0 -> [op |-> "=", at |-> LastTop(ts, "=")]
    [] OTHER -> [op |-> ts[1].k, at |-> 1]
With(scope, alias, row) == [a \in DOMAIN scope \cup {alias} |-> IF a = alias THEN row ELSE scope[a]]
Joining(t, scope, db) == {row \in db[t.table] : row.cols[t.foreign] = scope[t.outer].cols[t.local]}
Exists(results) == IF SqlError \in results THEN SqlError ELSE Truth(Truth(TRUE) \in results)

\* What o makes of ts, given the value Of a part of ts in a scope.
Apply(o, ts, scope, db, vals, Of(_, _, _)) ==
  CASE o.op \in {"OR", "AND"} -> Logical(o.op, Of(1, o.at - 1, scope), Of(o.at + 1, Len(ts), scope))
    [] o.op = "=" -> Equal(Of(1, o.at - 1, scope), Of(o.at + 1, Len(ts), scope))
    [] o.op = "(" -> Of(2, Len(ts) - 1, scope)
    [] o.op = "exists" ->
         Exists({Of(2, Len(ts) - 1, With(scope, ts[1].alias, row)) : row \in Joining(ts[1], scope, db)})
    [] OTHER -> Atom(ts[1], scope, vals)
RECURSIVE Value(_, _, _, _)
Value(ts, scope, db, vals) ==
  Apply(Operator(ts), ts, scope, db, vals,
        LAMBDA from, to, inner : Value(SubSeq(ts, from, to), inner, db, vals))

\* The rows of table (read under alias) that satisfy the condition, or the error.
Selected(values) ==
  IF \E row \in DOMAIN values : values[row] = SqlError THEN [ok |-> FALSE, rows |-> {}]
  ELSE [ok |-> TRUE, rows |-> {row \in DOMAIN values : Holds(values[row])}]
Where(ts, table, alias, db, vals) ==
  Selected([row \in db[table] |-> Value(ts, [a \in {alias, "base"} |-> row], db, vals)])
=============================================================================
