------------------------------ MODULE FilterSQL ------------------------------
(***************************************************************************)
(* core/query/filter: type checking and translation to SQL, and the WHERE  *)
(* clauses that package query builds around a translated filter.  The      *)
(* values bound to the placeholders are given by their Go types.           *)
(***************************************************************************)
EXTENDS Filter

isType(got, want) == got = want \/ got = "any"
knownType(t) == t \in {"bool", "string", "integer", "object"}

\* Go types of the values; what is not listed (json.Number, float64) is refused.
valueTypes(vals) ==
  [i \in DOMAIN vals |->
     CASE vals[i] \in {"int", "uint", "int32", "uint32", "int64", "uint64"} -> "integer"
       [] vals[i] \in {"string", "bool"} -> vals[i]
       [] OTHER -> "unsupported"]

\* A check ends with a type and the types given to json paths so far, with an
\* error, or in a panic that typeCheck does not recover from.
Typed(typ, sel) == [v |-> "ok", typ |-> typ, sel |-> sel]
TypeError == [v |-> "error", typ |-> "any", sel |-> <<>>]
TypePanic == [v |-> "panic", typ |-> "any", sel |-> <<>>]
WhenOk(r, Next(_)) == IF r.v = "ok" THEN Next(r) ELSE r

\* The identifiers of a path; <<>> where jsonbPath panics.
RECURSIVE jsonbPath(_)
jsonbPath(f) ==
  CASE f.t = "attr" -> <<f.attr>>
    [] f.t = "selector" ->
         LET base == jsonbPath(f.objExpr) IN IF base = <<>> THEN <<>> ELSE Append(base, f.ident)
    [] OTHER -> <<>>

\* Mutant: a path keeps the first type it is given, whatever it is used as later.
RECURSIVE setTypeFirst(_, _, _)
setTypeFirst(e, typ, sel) ==
  CASE e.t = "paren" -> setTypeFirst(e.inner, typ, sel)
    [] e.t = "placeholder" -> Typed(typ, sel)
    [] e.t = "selector" /\ jsonbPath(e) # <<>> -> Typed(typ, sel @@ (jsonbPath(e) :> typ))
    [] OTHER -> TypePanic

setPath(path, typ, sel) ==
  CASE path = <<>> -> TypePanic
    [] path \in DOMAIN sel /\ sel[path] # typ -> TypeError
    [] OTHER -> Typed(typ, (path :> typ) @@ sel)
RECURSIVE setType(_, _, _)
setType(e, typ, sel) ==
  CASE e.t = "paren" -> setType(e.inner, typ, sel)
    [] e.t = "placeholder" -> Typed(typ, sel)
    [] e.t = "selector" -> setPath(jsonbPath(e), typ, sel)
    [] OTHER -> TypePanic

assertType(e, got, want, sel) ==
  CASE ~isType(got, want) -> TypeError
    [] got # "any" -> Typed(got, sel)
    [] OTHER -> setType(e, want, sel)

\* Both operands of AND and OR are made bool; those of = are made alike.
checkLogical(e, l, r) ==
  WhenOk(assertType(e.l, l.typ, "bool", r.sel), LAMBDA left :
    WhenOk(assertType(e.r, r.typ, "bool", left.sel), LAMBDA right : Typed("bool", right.sel)))
makeAlike(e, l, r) ==
  CASE ~knownType(l.typ) /\ knownType(r.typ) -> setType(e.l, r.typ, r.sel)
    [] ~knownType(r.typ) /\ knownType(l.typ) -> setType(e.r, l.typ, r.sel)
    [] OTHER -> Typed("bool", r.sel)
comparable(left, right) ==
  /\ isType(left, "string") \/ isType(left, "integer")
  /\ isType(right, "string") \/ isType(right, "integer")
  /\ left = right
checkEqual(e, l, r) ==
  WhenOk(makeAlike(e, l, r), LAMBDA set :
    IF comparable(IF knownType(l.typ) THEN l.typ ELSE r.typ, IF knownType(r.typ) THEN r.typ ELSE l.typ)
      THEN Typed("bool", set.sel) ELSE TypeError)

AttrType(tbl, attr, sel) ==
  IF attr \in DOMAIN tbl.columns THEN Typed(tbl.columns[attr].type, sel) ELSE TypeError

\* Without values a filter is only validated.
PlaceholderType(num, valTypes, sel) ==
  CASE valTypes = <<>> -> Typed("any", sel)
    [] num > Len(valTypes) -> TypeError
    [] OTHER -> Typed(valTypes[num], sel)

RECURSIVE typeCheckExpr(_, _, _, _)
typeCheckExpr(e, tbl, valTypes, sel) ==
  CASE e.t = "none" -> Typed("bool", sel)
    [] e.t = "paren" -> typeCheckExpr(e.inner, tbl, valTypes, sel)
    [] e.t = "binary" ->
         WhenOk(typeCheckExpr(e.l, tbl, valTypes, sel), LAMBDA l :
           WhenOk(typeCheckExpr(e.r, tbl, valTypes, l.sel), LAMBDA r :
             IF e.op = EQ THEN checkEqual(e, l, r) ELSE checkLogical(e, l, r)))
    [] e.t = "placeholder" -> PlaceholderType(e.num, valTypes, sel)
    [] e.t = "attr" -> AttrType(tbl, e.attr, sel)
    [] e.t = "value" -> Typed(e.typ, sel)
    [] e.t = "selector" ->
         WhenOk(typeCheckExpr(e.objExpr, tbl, valTypes, sel), LAMBDA obj :
           WhenOk(assertType(e.objExpr, obj.typ, "object", obj.sel), LAMBDA set : Typed("any", set.sel)))
    [] e.t = "env" ->
         IF e.ident \notin DOMAIN tbl.foreignKeys THEN TypeError
         ELSE WhenOk(typeCheckExpr(e.expr, tbl.foreignKeys[e.ident].table, valTypes, sel), LAMBDA body :
                WhenOk(assertType(e.expr, body.typ, "bool", body.sel), LAMBDA set : Typed("bool", set.sel)))

typeCheck(e, tbl, vals) ==
  IF \E i \in DOMAIN vals : valueTypes(vals)[i] = "unsupported" THEN TypeError
  ELSE WhenOk(typeCheckExpr(e, tbl, valueTypes(vals), <<>>), LAMBDA r : assertType(e, r.typ, "bool", r.sel))

\* A predicate, "error" for ErrBadFilter, or "panic".
Predicate(expr, t) == [v |-> t.v, expr |-> expr, sel |-> t.sel, params |-> Parameters(expr)]
checkParsed(p, tbl, vals) ==
  Predicate(p.expr, IF p.ok THEN typeCheck(p.expr, tbl, vals) ELSE TypeError)
Parse(src, tbl, vals) == checkParsed(parse(src), tbl, vals)
-----------------------------------------------------------------------------
(***************************************************************************)
(* SQL.                                                                    *)
(***************************************************************************)
Word(k) == <<[k |-> k]>>
SQL(ts) == [ok |-> TRUE, sql |-> ts]
SQLError == [ok |-> FALSE, sql |-> <<>>]
Wrapped(r, Around(_)) == IF r.ok THEN SQL(Around(r.sql)) ELSE r

\* A column as text, bigint or boolean.
ColumnSQL(tbl, col) ==
  [k |-> "column", alias |-> tbl.alias, name |-> col.name,
   as |-> CASE col.sqlType = "bytea" -> "hex"
            [] col.sqlType \in {"jsonb", "timestamp"} -> "text"
            [] col.sqlType \in {"integer", "bigint"} -> "bigint"
            [] OTHER -> col.sqlType]

\* The path is unwound; the column is written under the name of the attribute.
JsonSQL(tbl, path, as) == SQL(<<[k |-> "json", alias |-> tbl.alias, name |-> path[1], path |-> Tail(path), as |-> as]>>)
JsonType(path, sel) ==
  IF path \notin DOMAIN sel THEN "text"
  ELSE CASE sel[path] = "integer" -> "bigint"
         [] sel[path] = "bool" -> "boolean"
         [] sel[path] = "object" -> "jsonb"
         [] OTHER -> "text"
PathSQL(path, tbl, sel) ==
  CASE path = <<>> -> SQLError
    [] path[1] \notin DOMAIN tbl.columns -> SQLError
    [] tbl.columns[path[1]].sqlType # "jsonb" -> SQLError
    [] OTHER -> JsonSQL(tbl, path, JsonType(path, sel))
SelectorSQL(e, tbl, sel) == PathSQL(jsonbPath(e), tbl, sel)

\* EXISTS(SELECT 1 FROM table AS alias WHERE the keys match AND ( body ))
EnvSQL(tbl, fk, body) ==
  <<[k |-> "exists", table |-> fk.table.name, alias |-> fk.table.alias, foreign |-> fk.foreignColumn,
     outer |-> tbl.alias, local |-> fk.localColumn]>> \o body \o Word(")")

Joined(l, op, r) == IF l.ok /\ r.ok THEN SQL(l.sql \o Word(op) \o r.sql) ELSE SQLError

RECURSIVE asSQL(_, _, _, _)
asSQL(e, tbl, sel, nvals) ==
  CASE e.t = "none" -> SQL(<<>>)
    [] e.t = "paren" ->
         Wrapped(asSQL(e.inner, tbl, sel, nvals), LAMBDA sql : Word("(") \o sql \o Word(")"))
    [] e.t = "value" -> SQL(<<[k |-> "literal", typ |-> e.typ, value |-> e.value]>>)
    [] e.t = "attr" -> IF e.attr \in DOMAIN tbl.columns THEN SQL(<<ColumnSQL(tbl, tbl.columns[e.attr])>>) ELSE SQLError
    [] e.t = "selector" -> SelectorSQL(e, tbl, sel)
    [] e.t = "binary" ->
         Joined(asSQL(e.l, tbl, sel, nvals), e.op[1], asSQL(e.r, tbl, sel, nvals))
    [] e.t = "placeholder" -> IF e.num > nvals THEN SQLError ELSE SQL(<<[k |-> "param", num |-> e.num]>>)
    [] e.t = "env" ->
         IF e.ident \notin DOMAIN tbl.foreignKeys THEN SQLError
         ELSE Wrapped(asSQL(e.expr, tbl.foreignKeys[e.ident].table, sel, nvals),
                      LAMBDA sql : EnvSQL(tbl, tbl.foreignKeys[e.ident], sql))

AsSQL(p, tbl, nvals) == asSQL(p.expr, tbl, p.sel, nvals)

\* The column and path of a field; the column has the attribute's own name.  A path
\* through parentheses panics.
FieldSQL(tbl, path) ==
  CASE path = <<>> -> [ok |-> FALSE, sql |-> Word("panic")]
    [] path[1] \notin DOMAIN tbl.columns -> SQLError
    [] tbl.columns[path[1]].sqlType # "jsonb" /\ Len(path) > 1 -> SQLError
    [] Len(path) = 1 ->
         SQL(<<[k |-> "column", alias |-> tbl.alias, name |-> path[1],
                as |-> IF tbl.columns[path[1]].sqlType = "bytea" THEN "hex" ELSE "text"]>>)
    [] OTHER -> JsonSQL(tbl, path, "text")
FieldAsSQL(tbl, f) == FieldSQL(tbl, jsonbPath(f))
-----------------------------------------------------------------------------
(***************************************************************************)
(* The WHERE clauses.  A range is a token of its own: the rows before a    *)
(* cursor, after it, or live at a time.                                    *)
(***************************************************************************)
Range_(test, arg) == <<[k |-> "range", test |-> test, arg |-> arg]>>

\* Mutant: the filter is not bracketed.
InParensBare(sql) == IF sql = <<>> THEN <<>> ELSE sql \o Word("AND")

InParens(sql) == IF sql = <<>> THEN <<>> ELSE Word("(") \o sql \o Word(")") \o Word("AND")

\* No parentheses here.
constructTransactionsQuery(sql, after, asc) ==
  (IF sql = <<>> THEN <<>> ELSE sql \o Word("AND"))
    \o Range_(IF asc THEN "above" ELSE "below", after.from) \o Word("AND")
    \o Range_(IF asc THEN "notAbove" ELSE "notBelow", after.stop)

constructOutputsQuery(sql, timestamp, after) ==
  InParens(sql) \o Range_("timespan", timestamp)
    \o (IF after = <<>> THEN <<>> ELSE Word("AND") \o Range_("below", after))

constructBalancesQuery(sql, timestamp) == InParens(sql) \o Range_("timespan", timestamp)

constructAccountsQuery(sql, after) ==
  InParens(sql) \o (IF after = <<>> THEN Range_("all", <<>>) ELSE Range_("below", after))

\* The same over sort_id.
constructAssetsQuery(sql, after) ==
  InParens(sql) \o (IF after = <<>> THEN Range_("all", <<>>) ELSE Range_("below", after))
=============================================================================
