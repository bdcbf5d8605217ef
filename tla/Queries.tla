------------------------------ MODULE Queries ------------------------------
(***************************************************************************)
(* The list handlers of core/query.go and the Indexer methods they call: a *)
(* filter is compiled, its WHERE clause is run against the tables, and a   *)
(* page of rows goes back with the cursor to ask for the next one.  A      *)
(* request has filter, params, after, pageSize, timestamp and sumBy; <<>>  *)
(* and 0 stand for what is left out, Bad for an after that is none.        *)
(***************************************************************************)
EXTENDS FilterSQL, Postgres

CONSTANTS defGenericPageSize, MaxTime, Bad

(***************************************************************************)
(* core/query/sql.go: the tables a filter can name, what an attribute is   *)
(* called in the table, and its type in the filter and in the database.    *)
(***************************************************************************)
Named(attr, name, type, sqlType) == <<attr>> :> [name |-> <<name>>, type |-> type, sqlType |-> sqlType]
Attrs(attrs, type, sqlType) == [a \in {<<x>> : x \in attrs} |-> [name |-> a, type |-> type, sqlType |-> sqlType]]

assetsTable ==
  [name |-> "annotated_assets", alias |-> "ast", foreignKeys |-> <<>>,
   columns |-> Attrs({"id", "issuance_program"}, "string", "bytea") @@ Attrs({"alias"}, "string", "text")
                 @@ Attrs({"quorum"}, "integer", "integer") @@ Attrs({"tags", "definition"}, "object", "jsonb")
                 @@ Named("is_local", "local", "string", "boolean")]
accountsTable ==
  [name |-> "annotated_accounts", alias |-> "acc", foreignKeys |-> <<>>,
   columns |-> Attrs({"id", "alias"}, "string", "text") @@ Attrs({"quorum"}, "integer", "integer")
                 @@ Attrs({"tags"}, "object", "jsonb")]
outputsTable ==
  [name |-> "annotated_outputs", alias |-> "out", foreignKeys |-> <<>>,
   columns |-> Named("id", "output_id", "string", "bytea") @@ Named("transaction_id", "tx_hash", "string", "bytea")
                 @@ Attrs({"asset_id", "control_program"}, "string", "bytea")
                 @@ Attrs({"type", "purpose", "asset_alias", "account_id", "account_alias"}, "string", "text")
                 @@ Named("position", "output_index", "integer", "integer") @@ Attrs({"amount"}, "integer", "bigint")
                 @@ Attrs({"asset_definition", "asset_tags", "account_tags", "reference_data"}, "object", "jsonb")
                 @@ Named("asset_is_local", "asset_local", "string", "boolean")
                 @@ Named("is_local", "local", "string", "boolean")]
inputsTable ==
  [name |-> "annotated_inputs", alias |-> "inp", foreignKeys |-> <<>>,
   columns |-> Attrs({"asset_id", "issuance_program", "spent_output_id"}, "string", "bytea")
                 @@ Attrs({"type", "asset_alias", "account_id", "account_alias"}, "string", "text")
                 @@ Attrs({"amount"}, "integer", "bigint")
                 @@ Attrs({"asset_definition", "asset_tags", "account_tags", "reference_data", "spent_output"},
                          "object", "jsonb")
                 @@ Named("asset_is_local", "asset_local", "string", "boolean")
                 @@ Named("is_local", "local", "string", "boolean")]
transactionsTable ==
  [name |-> "annotated_txs", alias |-> "txs",
   foreignKeys |-> (<<"inputs">> :> [table |-> inputsTable, localColumn |-> <<"tx_hash">>, foreignColumn |-> <<"tx_hash">>])
                     @@ (<<"outputs">> :> [table |-> outputsTable, localColumn |-> <<"tx_hash">>, foreignColumn |-> <<"tx_hash">>]),
   columns |-> Named("id", "tx_hash", "string", "bytea") @@ Attrs({"block_id"}, "string", "bytea")
                 @@ Attrs({"timestamp"}, "string", "timestamp") @@ Attrs({"block_height"}, "integer", "bigint")
                 @@ Named("position", "tx_pos", "integer", "integer")
                 @@ Named("block_transactions_count", "block_tx_count", "integer", "integer")
                 @@ Attrs({"reference_data"}, "object", "jsonb") @@ Named("is_local", "local", "string", "boolean")]
-----------------------------------------------------------------------------
Failure(err) == [err |-> err, items |-> <<>>, after |-> <<>>, last |-> FALSE]

\* A value bound to a placeholder: its Go type and its text.
Types(params) == [i \in DOMAIN params |-> params[i].go]
Texts(params) == [i \in DOMAIN params |-> params[i].v]

\* Parse, the count of the parameters, AsSQL.
Compiled(err, sql) == [err |-> err, sql |-> sql]
CompiledSQL(s) == IF s.ok THEN Compiled("none", s.sql) ELSE Compiled("ErrBadFilter", <<>>)
CompileParsed(p, tbl, n) ==
  CASE p.v = "panic" -> Compiled("panic", <<>>)
    [] p.v = "error" -> Compiled("ErrBadFilter", <<>>)
    [] n # p.params -> Compiled("ErrParameterCountMismatch", <<>>)
    [] OTHER -> CompiledSQL(AsSQL(p, tbl, n))
Compile(src, tbl, params) == CompileParsed(Parse(src, tbl, Types(params)), tbl, Len(params))

\* The first rows of the result in descending order, and the cursor of the last one.
Newest(rows) == SetToSortSeq(rows, LAMBDA x, y : Below(y.pos, x.pos))
Page(items, after, limit) ==
  [err |-> "none", items |-> items, after |-> IF items = <<>> THEN after ELSE items[Len(items)].pos,
   last |-> Len(items) < limit]
FirstOf(all, limit) == SubSeq(all, 1, IF Len(all) < limit THEN Len(all) ELSE limit)
RowsOf(got, after, limit) ==
  IF got.ok THEN Page(FirstOf(Newest(got.rows), limit), after, limit) ELSE Failure("sql")
Rows(where, tbl, params, after, limit, db) ==
  RowsOf(Where(where, tbl.name, tbl.alias, db, Texts(params)), after, limit)

Limit(in) == IF in.pageSize = 0 THEN defGenericPageSize ELSE in.pageSize
TimestampMS(in) == IF in.timestamp = 0 THEN MaxTime ELSE in.timestamp

WhenCompiled(c, Run(_)) == IF c.err = "none" THEN Run(c.sql) ELSE Failure(c.err)
Query(filt, vals, tbl, Construct(_), after, limit, db) ==
  WhenCompiled(Compile(filt, tbl, vals), LAMBDA sql : Rows(Construct(sql), tbl, vals, after, limit, db))

Accounts(filt, vals, after, limit, db) ==
  Query(filt, vals, accountsTable, LAMBDA sql : constructAccountsQuery(sql, after), after, limit, db)
listAccounts(in, db) == Accounts(in.filter, in.params, in.after, Limit(in), db)

Assets(filt, vals, after, limit, db) ==
  Query(filt, vals, assetsTable, LAMBDA sql : constructAssetsQuery(sql, after), after, limit, db)
listAssets(in, db) == Assets(in.filter, in.params, in.after, Limit(in), db)

\* Downwards and from a cursor; QueryIndex has the rest.
Transactions(filt, vals, after, limit, db) ==
  Query(filt, vals, transactionsTable, LAMBDA sql : constructTransactionsQuery(sql, after, FALSE), after.from, limit, db)
listTransactions(in, db) ==
  IF in.after = Bad THEN Failure("ErrBadAfter")
  ELSE Transactions(in.filter, in.params, [from |-> in.after, stop |-> in.stop], Limit(in), db)

defaultOutputsAfter == <<MaxTime, MaxTime, MaxTime>>
Outputs(filt, vals, timestamp, after, limit, db) ==
  Query(filt, vals, outputsTable, LAMBDA sql : constructOutputsQuery(sql, timestamp, after),
        IF after = <<>> THEN defaultOutputsAfter ELSE after, limit, db)
listUnspentOutputs(in, db) ==
  CASE in.after = Bad -> Failure("ErrBadAfter")
    [] in.timestamp > MaxTime -> Failure("ErrBadRequest")
    [] OTHER -> Outputs(in.filter, in.params, TimestampMS(in), in.after, Limit(in), db)
-----------------------------------------------------------------------------
\* GROUP BY: the texts of the fields in a row.
GroupOf(row, fields) == [i \in DOMAIN fields |-> Atom(fields[i][1], [a \in {"out"} |-> row], <<>>).v]
Sum(rows) == FoldSet(LAMBDA row, n : n + ParseInt(row.cols[<<"amount">>].v), 0, rows)

GroupRows(rows, cols) ==
  {[by |-> g, amount |-> Sum({row \in rows : GroupOf(row, cols) = g})] : g \in {GroupOf(row, cols) : row \in rows}}
Grouped(got, cols) ==
  IF ~got.ok \/ \E row \in got.rows, i \in DOMAIN cols : Atom(cols[i][1], [a \in {"out"} |-> row], <<>>) = SqlError
    THEN Failure("sql")
    ELSE [err |-> "none", items |-> GroupRows(got.rows, cols), after |-> <<>>, last |-> TRUE]
BalancesOf(in, where, fields, db) ==
  CASE \E i \in DOMAIN fields : fields[i].sql = Word("panic") -> Failure("panic")
    [] \E i \in DOMAIN fields : ~fields[i].ok -> Failure("ErrBadFilter")
    [] OTHER -> Grouped(Where(where, "annotated_outputs", "out", db, Texts(in.params)),
                        [i \in DOMAIN fields |-> fields[i].sql])
Balances(in, fields, db) ==
  WhenCompiled(Compile(in.filter, outputsTable, in.params), LAMBDA sql :
    BalancesOf(in, constructBalancesQuery(sql, TimestampMS(in)),
               [i \in DOMAIN fields |-> FieldAsSQL(outputsTable, fields[i])], db))

SumFields(in) == IF in.sumBy = <<>> THEN <<<<"asset_alias">>, <<"asset_id">>>> ELSE in.sumBy
SumBalances(in, parsed, db) ==
  CASE \E i \in DOMAIN parsed : ~parsed[i].ok -> Failure("ErrBadFilter")
    [] in.timestamp > MaxTime -> Failure("ErrBadRequest")
    [] OTHER -> Balances(in, [i \in DOMAIN parsed |-> parsed[i].expr], db)
listBalances(in, db) == SumBalances(in, [i \in DOMAIN SumFields(in) |-> ParseField(SumFields(in)[i])], db)
=============================================================================
