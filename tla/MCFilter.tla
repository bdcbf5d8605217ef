------------------------------ MODULE MCFilter ------------------------------
(***************************************************************************)
(* The filter language and the list handlers checked input by input: texts *)
(* of up to MaxWords words for the parser, filters put together from atoms *)
(* for the type checker and the translation, and requests with such        *)
(* filters, run against a small database.                                  *)
(***************************************************************************)
EXTENDS Queries

CONSTANTS MaxWords,  \* of a text
          Nil

VARIABLE case

Words == {<<"a">>, <<".">>, <<"(">>, <<")">>, <<"=">>, <<"AND">>, <<"OR">>, <<"1">>}
Spaced(words) == FoldLeft(LAMBDA text, w : text \o w \o <<" ">>, <<>>, words)
-----------------------------------------------------------------------------
(***************************************************************************)
(* Atoms and the filters they make up.                                     *)
(***************************************************************************)
Quoted(s) == <<"'", s, "'">>
Is(field, value) == field \o <<" ", "=", " ">> \o value
Ref(a) == <<"reference_data", ".", a>>
Env(table, body) == <<table, "(">> \o body \o <<")">>
Both(l, op, r) == l \o <<" ", op, " ">> \o r

Atoms == {Is(Ref("a"), <<"1">>), Is(Ref("a"), Quoted("x")), Ref("b"), Is(<<"id">>, <<"$", "1">>),
          Is(<<"position">>, <<"0", "x", "1">>), Is(<<"is_local">>, Quoted("yes")),
          Env("inputs", Both(Is(<<"type">>, Quoted("x")), "OR", Is(<<"amount">>, <<"1">>))),
          Env("outputs", Both(Is(Ref("a"), Quoted("x")), "AND", Is(<<"amount">>, <<"1">>)))}
Oddities == {Is(<<"nosuch">>, <<"1">>), Is(Ref("a") \o <<".", "b">>, <<"1">>), Is(<<"id">>, <<"1">>),
             Env("outputs", Env("inputs", Ref("b"))), Is(<<"1">>, Ref("a")), Is(Ref("a"), Ref("c")),
             Is(<<"(", "reference_data", ")", ".", "a">>, <<"1">>), Is(Ref("a"), <<"$", "2">>),
             Is(<<"id">>, <<"(", "$", "1", ")">>), <<"id">>, Ref("a"), <<>>}
Parens(f) == <<"(">> \o f \o <<")">>
Pairs == {Both(l, op, r) : l \in Atoms \cup Oddities, op \in {"AND", "OR", "="}, r \in Atoms \cup Oddities}
Triples(S) ==
  UNION {{Both(Both(x, o, y), p, z), Both(Parens(Both(x, o, y)), p, z), Both(x, o, Parens(Both(y, p, z)))} :
           x \in S, y \in S, z \in S, o \in {"AND", "OR"}, p \in {"AND", "OR"}}
Filters == Atoms \cup Oddities \cup Pairs \cup Triples(Atoms)
-----------------------------------------------------------------------------
(***************************************************************************)
(* The database, and the rows the inferred types do not fail on.           *)
(***************************************************************************)
Forever == 99
Text(v) == Val("text", <<v>>)
Num(v) == Val("bigint", <<v>>)
Leaves(a, b) == (<<<<"a">>>> :> Text(a)) @@ (<<<<"b">>>> :> Text(b))
Transaction(id, h, p, local, json) ==
  [cols |-> (<<"tx_hash">> :> Text(id)) @@ (<<"tx_pos">> :> Num(p)) @@ (<<"local">> :> Truth(local)),
   json |-> <<"reference_data">> :> json, pos |-> <<h, ParseInt(<<p>>)>>, timespan |-> <<0, 9>>]
Part(tx, type, amount, json, pos, span) ==
  [cols |-> (<<"tx_hash">> :> Text(tx)) @@ (<<"type">> :> Text(type)) @@ (<<"amount">> :> Num(amount))
              @@ (<<"asset_id">> :> Text(tx)) @@ (<<"asset_alias">> :> Text("h1")) @@ (<<"local">> :> Truth(TRUE)),
   json |-> <<"reference_data">> :> json, pos |-> pos, timespan |-> span]
Account(id, alias, quorum, pos) ==
  [cols |-> (<<"id">> :> Text(id)) @@ (<<"alias">> :> alias) @@ (<<"quorum">> :> Num(quorum)),
   json |-> <<"tags">> :> <<>>, pos |-> <<pos>>, timespan |-> <<0, 9>>]
Asset(alias, local, pos) ==
  [cols |-> (<<"alias">> :> Text(alias)) @@ (<<"local">> :> Truth(local)), json |-> <<>>, pos |-> <<pos>>, timespan |-> <<0, 9>>]

DB ==
  [annotated_txs |-> {Transaction("h1", 2, "0", TRUE, Leaves("1", "true")), Transaction("h2", 2, "1", FALSE, Leaves("x", "false")),
                      Transaction("h3", 3, "1", TRUE, <<>>)},
   annotated_inputs |-> {Part("h1", "x", "2", <<>>, <<1>>, <<0, 9>>), Part("h2", "y", "1", <<>>, <<2>>, <<0, 9>>),
                         Part("h3", "y", "2", <<>>, <<3>>, <<0, 9>>)},
   annotated_outputs |-> {Part("h1", "x", "1", Leaves("x", "no"), <<1, 0, 0>>, <<1, 3>>),
                          Part("h2", "y", "1", Leaves("1", "no"), <<1, 0, 1>>, <<2, Forever>>),
                          Part("h2", "x", "2", Leaves("x", "yes"), <<1, 1, 0>>, <<3, Forever>>)},
   annotated_accounts |-> {Account("acc1", Text("x"), "1", 1), Account("acc2", Text("y"), "2", 2),
                           Account("acc3", Null("text"), "1", 3)},
   annotated_assets |-> {Asset("h1", FALSE, 1), Asset("x", TRUE, 2), Asset("y", FALSE, 3), Asset("z", TRUE, 4)}]
Vals == <<<<"h1">>>>

\* The rows whose leaves can be cast to the types the filter gives their paths.
Fit(row, sel) ==
  \A path \in DOMAIN sel :
    \A col \in DOMAIN row.json :
      LET leaf == Leaf(row.json[col], Tail(path))
      IN (path[1] = col /\ ~IsNull(leaf)) =>
           CASE sel[path] = "integer" -> IsNumber(leaf.v)
             [] sel[path] = "bool" -> Cast(leaf, "boolean").t # "error"
             [] OTHER -> TRUE
FitDB(sel) == [t \in DOMAIN DB |-> {row \in DB[t] : Fit(row, sel)}]
-----------------------------------------------------------------------------
OutputFilters == {Is(<<"type">>, Quoted("x")), Both(Is(<<"type">>, Quoted("y")), "OR", Is(<<"amount">>, <<"1">>)), <<>>,
            Is(<<"asset_alias">>, <<"$", "1">>), Is(<<"amount">>, Quoted("x"))}
AccountFilters == {Both(Is(<<"alias">>, Quoted("x")), "OR", Is(<<"quorum">>, <<"1">>)), Is(<<"id">>, Quoted("acc3")), <<>>}
AssetFilters == {Both(Is(<<"alias">>, <<"$", "1">>), "OR", Is(<<"is_local">>, Quoted("yes"))), <<>>}
Params == {<<>>, <<[go |-> "string", v |-> <<"h1">>]>>}
SumBy == {<<>>, <<<<"type">>>>, <<<<"asset_id">>, Ref("a")>>, <<<<"is_local">>>>, <<<<"1">>>>, <<Ref("c"), <<"type">>>>}
Request(f, params, after, size, ts) ==
  [filter |-> f, params |-> params, after |-> after, pageSize |-> size, timestamp |-> ts, sumBy |-> <<>>, stop |-> 0]

Chosen(kind, value) == case' = [kind |-> kind, value |-> value]
ChooseText == \E n \in 0 .. MaxWords : \E words \in [1 .. n -> Words] : Chosen("text", Spaced(words))
ChooseFilter == \E f \in Filters : Chosen("filter", f)
ChooseOutputs ==
  \E f \in OutputFilters, ts \in 0 .. (MaxTime + 1), size \in 0 .. 2, after \in {<<>>, <<1, 1, 0>>, Bad} :
    \E params \in Params : Chosen("outputs", Request(f, params, after, size, ts))
ChooseBalances ==
  \E f \in OutputFilters, ts \in 0 .. (MaxTime + 1), sumBy \in SumBy :
    \E params \in Params : Chosen("balances", [Request(f, params, <<>>, 0, ts) EXCEPT !.sumBy = sumBy])
ChooseAccounts ==
  \E f \in AccountFilters, size \in 0 .. 2, after \in {<<>>} \cup {<<n>> : n \in 1 .. 4} :
    Chosen("accounts", Request(f, <<>>, after, size, 0))
ChooseAssets ==
  \E f \in AssetFilters, size \in 0 .. 2, after \in {<<>>} \cup {<<n>> : n \in 1 .. 4} :
    \E params \in Params : Chosen("assets", Request(f, params, after, size, 0))
ChooseTransactions ==
  \E f \in Atoms \cup Pairs, after \in {<<2, 1>>, <<3, 0>>, <<4, 0>>, Bad}, stop \in {2, 3} :
    \E params \in Params : Chosen("transactions", [Request(f, params, after, 1, 0) EXCEPT !.stop = stop])

Init == case = Nil
Next ==
  /\ case = Nil
  /\ \/ ChooseText \/ ChooseFilter \/ ChooseOutputs \/ ChooseBalances \/ ChooseAccounts \/ ChooseAssets
     \/ ChooseTransactions
Spec == Init /\ [][Next]_case

Kind(kinds) == case # Nil /\ case.kind \in kinds
-----------------------------------------------------------------------------
(***************************************************************************)
(* The grammar of doc.go, read the other way round: an expression is split *)
(* at the last operator outside parentheses that binds least.              *)
(***************************************************************************)
Nesting(ts, i) ==
  Cardinality({j \in 1 .. (i - 1) : ts[j] = <<"(">>}) - Cardinality({j \in 1 .. (i - 1) : ts[j] = <<")">>})
LastOf(ts, op) == SelectLastInSeq([i \in DOMAIN ts |-> ts[i] = op /\ Nesting(ts, i) = 0], LAMBDA b : b)
Balanced(ts) ==
  /\ \A i \in DOMAIN ts : Nesting(ts, i) >= 0
  /\ Nesting(ts, Len(ts) + 1) = 0
Failed == [t |-> "failed"]
RECURSIVE Grammar(_)
Grammar(ts) ==
  LET n == Len(ts)
      At_(op) == LastOf(ts, op)
      Bin(op) ==
        LET l == Grammar(SubSeq(ts, 1, At_(op) - 1))
            r == Grammar(SubSeq(ts, At_(op) + 1, n))
        IN IF Failed \in {l, r} THEN Failed ELSE binaryExpr(l, op, r)
      Make(inner, Node(_)) == IF inner = Failed THEN Failed ELSE Node(inner)
  IN CASE ts = <<>> -> Failed
       [] ~Balanced(ts) -> Failed
       [] At_(OR) > 0 -> Bin(OR)
       [] At_(AND) > 0 -> Bin(AND)
       [] At_(EQ) > 0 -> Bin(EQ)
       [] n = 1 -> CASE ts[1] = <<"a">> -> attrExpr(ts[1])
                     [] ts[1] = <<"1">> -> valueExpr("integer", ts[1])
                     [] OTHER -> Failed
       [] ts[n] = <<"a">> /\ ts[n - 1] = <<".">> ->
            Make(Grammar(SubSeq(ts, 1, n - 2)), LAMBDA e : selectorExpr(e, ts[n]))
       [] ts[1] = <<"(">> /\ ts[n] = <<")">> /\ \A i \in 2 .. n : Nesting(ts, i) > 0 ->
            Make(Grammar(SubSeq(ts, 2, n - 1)), parenExpr)
       [] ts[1] = <<"a">> /\ ts[2] = <<"(">> /\ ts[n] = <<")">> /\ \A i \in 3 .. n : Nesting(ts, i) > 0 ->
            Make(Grammar(SubSeq(ts, 3, n - 1)), LAMBDA e : envExpr(ts[1], e))
       [] OTHER -> Failed

WordsOf(text) == SelectSeq([i \in DOMAIN text |-> <<text[i]>>], LAMBDA w : w # <<" ">>)
Expected(words) == IF words = <<>> THEN noExpr ELSE Grammar(words)
Agree(p, g) == p.ok = (g # Failed) /\ (p.ok => p.expr = g)

\* Precedence climbing accepts the texts of the grammar and no others, and builds the
\* tree it gives them: = binds more than AND, AND more than OR, each to the left
\* (parser.go, parseExprCont).
ParseIsGrammar == Kind({"text"}) => Agree(parse(case.value), Expected(WordsOf(case.value)))

ParsedAs(p, expr) == p.ok /\ p.expr = expr
Reparsed(p) == p.ok => ParsedAs(parse(String(p.expr)), p.expr)

\* What String writes is parsed as the same expression (expr.go, String).
ParseInvertsString == Kind({"text", "filter"}) => Reparsed(parse(case.value))

ParsedFilter == Parse(case.value, transactionsTable, <<"string">>)
Translated(p) == p.v = "ok" => AsSQL(p, transactionsTable, 1).ok

\* A filter that passes the type checker is translated, for the values it was checked
\* with (typecheck.go, sql.go).
TypedIsTranslated == Kind({"filter"}) => Translated(ParsedFilter)
-----------------------------------------------------------------------------
(***************************************************************************)
(* What a filter means (doc.go), without types and nulls.                  *)
(***************************************************************************)
Unquoted(v) == IF v[1] = "'" THEN SubSeq(v, 2, Len(v) - 1) ELSE v
YesNo(x) == IF x.t # "boolean" THEN x.v ELSE IF x = Truth(TRUE) THEN <<"yes">> ELSE <<"no">>
RECURSIVE Denotes(_, _, _)
Denotes(e, row, tbl) ==
  CASE e.t = "attr" -> YesNo(row.cols[tbl.columns[e.attr].name])
    [] e.t = "value" -> Unquoted(e.value)
    [] e.t = "placeholder" -> Vals[e.num]
    [] e.t = "paren" -> Denotes(e.inner, row, tbl)
    [] e.t = "selector" -> LET path == jsonbPath(e) IN Leaf(row.json[path[1]], Tail(path)).v
RECURSIVE Satisfies(_, _, _, _)
Satisfies(row, e, tbl, db) ==
  CASE e.t = "none" -> TRUE
    [] e.t = "paren" -> Satisfies(row, e.inner, tbl, db)
    [] e.t = "selector" -> Denotes(e, row, tbl) \in {<<"true">>, <<"yes">>}
    [] e.t = "binary" /\ e.op = AND -> Satisfies(row, e.l, tbl, db) /\ Satisfies(row, e.r, tbl, db)
    [] e.t = "binary" /\ e.op = OR -> Satisfies(row, e.l, tbl, db) \/ Satisfies(row, e.r, tbl, db)
    [] e.t = "binary" ->
         LET l == Denotes(e.l, row, tbl) IN l # NullText /\ l = Denotes(e.r, row, tbl)
    [] e.t = "env" ->
         LET fk == tbl.foreignKeys[e.ident]
         IN \E part \in db[fk.table.name] :
              part.cols[fk.foreignColumn] = row.cols[fk.localColumn] /\ Satisfies(part, e.expr, fk.table, db)

\* A path that is compared with another path is left out: the type it has at the end
\* may not be the one it was compared under (typecheck.go).
RECURSIVE Tight(_)
Tight(e) ==
  CASE e.t = "paren" -> Tight(e.inner)
    [] e.t = "env" -> Tight(e.expr)
    [] e.t = "binary" -> Tight(e.l) /\ Tight(e.r) /\ ~(e.op = EQ /\ e.l.t = "selector" /\ e.r.t = "selector")
    [] OTHER -> TRUE

Selects(got, p, db) ==
  got.ok /\ got.rows = {row \in db.annotated_txs : Satisfies(row, p.expr, transactionsTable, db)}
RunOn(p, db) == Selects(Where(AsSQL(p, transactionsTable, 1).sql, "annotated_txs", "txs", db, Vals), p, db)
Faithful(p) == p.v = "ok" /\ p.expr # noExpr /\ Tight(p.expr) => RunOn(p, FitDB(p.sel))

\* The SQL of a filter has no type errors on rows that fit the types inferred for json
\* paths, and selects the rows that satisfy the filter: flat SQL binds as the tree
\* does, casts agree with the inferred types, sub-queries see their own table
\* (sql.go, asSQL).
SqlMeansFilter == Kind({"filter"}) => Faithful(ParsedFilter)

\* The rows a request is about, one by one.
Table == CASE case.kind \in {"outputs", "balances"} -> outputsTable
           [] case.kind = "accounts" -> accountsTable
           [] case.kind = "assets" -> assetsTable
           [] OTHER -> transactionsTable
In == case.value
Expr == parse(In.filter).expr
Within(row) ==
  /\ Table = outputsTable => LET t == TimestampMS(In) IN row.timespan[1] <= t /\ t < row.timespan[2]
  /\ case.kind = "transactions" => row.pos[1] >= In.stop
  /\ In.after # <<>> => Below(row.pos, In.after)
Wanted(expr) == {row \in DB[Table.name] : Satisfies(row, expr, Table, DB) /\ Within(row)}

List(in) == CASE case.kind = "outputs" -> listUnspentOutputs(in, DB)
              [] case.kind = "accounts" -> listAccounts(in, DB)
              [] case.kind = "assets" -> listAssets(in, DB)
              [] OTHER -> listTransactions(in, DB)
RECURSIVE AllPages(_, _, _)
AllPages(in, page, fuel) ==
  IF page.last \/ fuel = 0 THEN page.items
  ELSE page.items \o AllPages(in, List([in EXCEPT !.after = page.after]), fuel - 1)

\* list has the rows of the set, newest first.
Lists(list, rows) ==
  /\ Len(list) = Cardinality(rows) /\ {list[i] : i \in DOMAIN list} = rows
  /\ \A i, j \in DOMAIN list : i < j => Below(list[j].pos, list[i].pos)
TopOr(e) == e.t = "binary" /\ e.op = OR
PagesFrom(page, expr) ==
  \/ page.err # "none"
  \/ case.kind = "transactions" /\ (TopOr(expr) \/ ~Tight(expr))
  \/ Lists(AllPages(In, page, 4), Wanted(expr))

\* Page after page a client gets exactly the rows that meet the filter and lie past the
\* cursor or live at the time, newest first and none twice, whatever the page size.
\* A list of transactions does so for a filter without an OR outside parentheses
\* (query.go, outputs.go, accounts.go, assets.go, transactions.go).
PagesAreList == Kind({"outputs", "accounts", "assets", "transactions"}) => PagesFrom(List(In), Expr)

GroupsBy(By(_), rows) == {[by |-> g, amount |-> Sum({row \in rows : By(row) = g})] : g \in {By(row) : row \in rows}}
FieldsOf(row, names) == [i \in DOMAIN names |-> Denotes(parse(names[i]).expr, row, outputsTable)]
AddsUp(result, expr) ==
  result.err = "none" => result.items = GroupsBy(LAMBDA row : FieldsOf(row, SumFields(In)), Wanted(expr))

\* The balances of a request add up to the amounts of the outputs it is about, each
\* output is counted in the group of its own fields, and groups are not divided
\* (balances.go).
BalancesAddUp == Kind({"balances"}) => AddsUp(listBalances(In, DB), Expr)
=============================================================================
