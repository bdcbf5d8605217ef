------------------------------- MODULE Filter -------------------------------
(***************************************************************************)
(* core/query/filter: the filter language of the query API.  A source text *)
(* is scanned, parsed by precedence climbing, type-checked against a table *)
(* and translated to SQL.  A text is a sequence of characters; a letter of *)
(* the model stands for a run of letters, so <<"ref", ".", "a">> has three *)
(* tokens and <<"AND">> is a keyword.  SQL is a sequence of tokens, flat   *)
(* as the code writes it.  A table is a record of alias, columns and       *)
(* foreignKeys.                                                            *)
(***************************************************************************)
EXTENDS Integers, Sequences, SequencesExt, TLC

CONSTANTS Letter,      \* runs of letters, keywords included
          OtherDigit,  \* digits that are not ASCII: only identifiers have them
          Prohibited,  \* NUL, the byte order mark, bytes that are no UTF-8
          MaxInt64

Eof == ""
At(src, i) == IF i <= Len(src) THEN src[i] ELSE Eof

Decimals == <<"0", "1", "2", "3", "4", "5", "6", "7", "8", "9">>
HexDigits == Decimals \o <<"a", "b", "c", "d", "e", "f">>
digitVal(ch) ==
  LET upper == SelectInSeq(<<"A", "B", "C", "D", "E", "F">>, LAMBDA c : c = ch)
      lower == SelectInSeq(HexDigits, LAMBDA c : c = ch)
  IN IF lower > 0 THEN lower - 1 ELSE IF upper > 0 THEN 9 + upper ELSE 16

isLetter(ch) == ch \in Letter
isDigit(ch) == digitVal(ch) < 10 \/ ch \in OtherDigit

\* The first offset from i on whose character In does not hold for.
Skip(src, i, In(_)) ==
  CHOOSE j \in i .. (Len(src) + 1) : ~In(At(src, j)) /\ \A k \in i .. (j - 1) : In(At(src, k))

skipWhitespace(src, i) == Skip(src, i, LAMBDA ch : ch \in {" ", "\t"})
scanIdentifier(src, i) == Skip(src, i, LAMBDA ch : isLetter(ch) \/ isDigit(ch))
scanMantissa(src, i, base) == Skip(src, i, LAMBDA ch : digitVal(ch) < base)

\* Where a number or a string that starts at i ends; 0 if it is not one.
scanNumber(src, i) ==
  CASE src[i] # "0" -> scanMantissa(src, i, 10)
    [] At(src, i + 1) \in {"x", "X"} ->
         LET end == scanMantissa(src, i + 2, 16) IN IF end - i <= 2 THEN 0 ELSE end
    [] digitVal(At(src, i + 1)) < 10 -> 0
    [] OTHER -> i + 1
scanString(src, i) ==
  LET end == Skip(src, i + 1, LAMBDA ch : ch \notin {"'", "\\", Eof})
  IN IF At(src, end) = "'" THEN end + 1 ELSE 0

AND == <<"AND">>
OR == <<"OR">>
EQ == <<"=">>

\* The token at or after offset i, and the offset behind it.
Scan(src, i) ==
  LET pos == skipWhitespace(src, i)
      ch == At(src, pos)
      Tok(tok, end) == [tok |-> IF end = 0 THEN "invalid" ELSE tok, lit |-> SubSeq(src, pos, end - 1), next |-> end]
  IN CASE isLetter(ch) ->
            LET end == scanIdentifier(src, pos)
            IN Tok(IF SubSeq(src, pos, end - 1) \in {AND, OR} THEN "keyword" ELSE "ident", end)
       [] digitVal(ch) < 10 -> Tok("integer", scanNumber(src, pos))
       [] ch = Eof -> Tok("EOF", pos)
       [] ch = "'" -> Tok("string", scanString(src, pos))
       [] ch \in {".", "(", ")", "="} -> Tok("punct", pos + 1)
       [] ch = "$" -> LET end == scanMantissa(src, pos + 1, 10)
                      IN Tok("placeholder", IF end - pos <= 1 THEN 0 ELSE end)
       [] OTHER -> Tok("invalid", 0)

\* Every token of src; the last one is EOF or, where scanning panics, invalid.
RECURSIVE TokensFrom(_, _)
TokensFrom(src, i) ==
  LET t == Scan(src, i)
  IN IF t.tok \in {"EOF", "invalid"} THEN <<t>> ELSE <<t>> \o TokensFrom(src, t.next)
Tokens(src) ==
  IF \E i \in DOMAIN src : src[i] \in Prohibited THEN <<[tok |-> "invalid", lit |-> <<>>, next |-> 0]>>
  ELSE TokensFrom(src, 1)
-----------------------------------------------------------------------------
(***************************************************************************)
(* Expressions.                                                            *)
(***************************************************************************)
binaryExpr(l, op, r) == [t |-> "binary", l |-> l, op |-> op, r |-> r]
attrExpr(attr) == [t |-> "attr", attr |-> attr]
selectorExpr(obj, ident) == [t |-> "selector", objExpr |-> obj, ident |-> ident]
parenExpr(inner) == [t |-> "paren", inner |-> inner]
valueExpr(typ, value) == [t |-> "value", typ |-> typ, value |-> value]
envExpr(ident, expr) == [t |-> "env", ident |-> ident, expr |-> expr]
placeholderExpr(num) == [t |-> "placeholder", num |-> num]
noExpr == [t |-> "none"]

\* strconv: the number a literal stands for, and a number in decimal.
ParseInt(lit) ==
  LET hex == Len(lit) > 2 /\ lit[2] \in {"x", "X"}
      digits == IF hex THEN SubSeq(lit, 3, Len(lit)) ELSE lit
      base == IF hex THEN 16 ELSE 10
  IN FoldLeft(LAMBDA n, d : n * base + digitVal(d), 0, digits)
RECURSIVE Itoa(_)
Itoa(n) == IF n < 10 THEN <<Decimals[n + 1]>> ELSE Itoa(n \div 10) \o <<Decimals[(n % 10) + 1]>>

RECURSIVE String(_)
String(e) ==
  CASE e.t = "none" -> <<>>
    [] e.t = "binary" -> String(e.l) \o <<" ">> \o e.op \o <<" ">> \o String(e.r)
    [] e.t = "attr" -> e.attr
    [] e.t = "selector" -> String(e.objExpr) \o <<".">> \o e.ident
    [] e.t = "paren" -> <<"(">> \o String(e.inner) \o <<")">>
    [] e.t = "value" -> e.value
    [] e.t = "env" -> e.ident \o <<"(">> \o String(e.expr) \o <<")">>
    [] e.t = "placeholder" -> <<"$">> \o Itoa(e.num)

RECURSIVE Parameters(_)
Parameters(e) ==
  CASE e.t = "binary" -> LET l == Parameters(e.l) r == Parameters(e.r) IN IF l > r THEN l ELSE r
    [] e.t = "selector" -> Parameters(e.objExpr)
    [] e.t = "paren" -> Parameters(e.inner)
    [] e.t = "env" -> Parameters(e.expr)
    [] e.t = "placeholder" -> e.num
    [] OTHER -> 0
-----------------------------------------------------------------------------
(***************************************************************************)
(* The parser.  A parsing function returns the expression and the index of *)
(* the token behind it; a parseError ends everything.                      *)
(***************************************************************************)
Parsed(expr, at) == [ok |-> TRUE, expr |-> expr, at |-> at]
parseError == [ok |-> FALSE, expr |-> noExpr, at |-> 0]

precedence(lit) == CASE lit = OR -> 1 [] lit = AND -> 2 [] lit = EQ -> 3 [] OTHER -> 0

determineBinaryOp(ts, i, min) == precedence(ts[i].lit) > 0 /\ precedence(ts[i].lit) >= min

\* What r parsed, made into Node, if the literal at its end is lit.
Closed(ts, r, lit, Node(_)) ==
  IF r.ok /\ ts[r.at].lit = lit THEN Parsed(Node(r.expr), r.at + 1) ELSE parseError

RECURSIVE parseExprCont(_, _, _), Climb(_, _, _), parsePrimaryExpr(_, _), parseSelectors(_, _)
parseExpr(ts, i) == parseExprCont(ts, parsePrimaryExpr(ts, i), 0)

parseExprCont(ts, lhs, min) ==
  IF ~lhs.ok \/ ~determineBinaryOp(ts, lhs.at, min) THEN lhs
  ELSE LET op == ts[lhs.at].lit
           rhs == Climb(ts, parsePrimaryExpr(ts, lhs.at + 1), op)
       IN IF rhs.ok THEN parseExprCont(ts, Parsed(binaryExpr(lhs.expr, op, rhs.expr), rhs.at), min)
          ELSE parseError
Climb(ts, rhs, op) ==
  IF ~rhs.ok \/ ~determineBinaryOp(ts, rhs.at, precedence(op) + 1) THEN rhs
  ELSE Climb(ts, parseExprCont(ts, rhs, precedence(ts[rhs.at].lit)), op)

parseEnvironmentExpr(ts, i) ==
  CASE ts[i].tok # "ident" -> parseError
    [] ts[i + 1].lit # <<"(">> -> Parsed(attrExpr(ts[i].lit), i + 1)
    [] OTHER -> Closed(ts, parseExpr(ts, i + 2), <<")">>, LAMBDA e : envExpr(ts[i].lit, e))

parseOperand(ts, i) ==
  CASE ts[i].lit = <<"(">> -> Closed(ts, parseExpr(ts, i + 1), <<")">>, parenExpr)
    [] ts[i].tok = "string" -> Parsed(valueExpr("string", ts[i].lit), i + 1)
    [] ts[i].tok = "integer" ->
         LET n == ParseInt(ts[i].lit)
         IN IF n > MaxInt64 THEN parseError ELSE Parsed(valueExpr("integer", Itoa(n)), i + 1)
    [] ts[i].tok = "placeholder" ->
         LET n == ParseInt(Tail(ts[i].lit))
         IN IF n > MaxInt64 \/ n = 0 THEN parseError ELSE Parsed(placeholderExpr(n), i + 1)
    [] OTHER -> parseEnvironmentExpr(ts, i)

\* parseSelectorExpr, for every '.' that follows.
parseSelectors(ts, x) ==
  CASE ~x.ok -> x
    [] ts[x.at].lit # <<".">> -> x
    [] ts[x.at + 1].tok # "ident" -> parseError
    [] OTHER -> parseSelectors(ts, Parsed(selectorExpr(x.expr, ts[x.at + 1].lit), x.at + 2))
parsePrimaryExpr(ts, i) == parseSelectors(ts, parseOperand(ts, i))

\* The end of a text: r has taken every token.
Whole(ts, r) == IF r.ok /\ ts[r.at].tok = "EOF" THEN r ELSE parseError
parseTokens(ts) ==
  CASE ts[Len(ts)].tok = "invalid" -> parseError
    [] ts[1].tok = "EOF" -> Parsed(noExpr, 1)
    [] OTHER -> Whole(ts, parseExpr(ts, 1))
parse(src) == parseTokens(Tokens(src))

FieldOf(r) == IF r.ok /\ r.expr.t \in {"attr", "selector"} THEN r ELSE parseError
ParseField(src) == FieldOf(parse(src))
=============================================================================
