---------------------------- MODULE Validation ----------------------------
(***************************************************************************)
(* protocol/validation/validation.go: the rules a transaction and a block  *)
(* must satisfy.  A check gives "ok", "bad" (an error) or "panic" (a nil   *)
(* pointer is dereferenced), and checks are made in the code's order.  The *)
(* memo table of checkValid only saves work: an entry's verdict does not   *)
(* depend on how it was reached.                                           *)
(***************************************************************************)
EXTENDS Entries, Checked

CONSTANT AmountBits  \* width of an amount (64)
Amounts == IntType(AmountBits)
Signed(amount) == Wrap(Amounts, amount)  \* int64(amount)

Check(b) == IF b THEN "ok" ELSE "bad"
Then(a, b) == IF a = "ok" THEN b ELSE a

\* The verdict of the first check that fails.
InOrder(S(_), n) ==
  LET failed == {i \in 1 .. n : S(i) # "ok"}
  IN IF failed = {} THEN "ok" ELSE S(Min(failed))

NoExt(tx, e) == Check(tx.header.body.version = 1 => e.body.ext = Nil)

\* The verdict of a program in the context of an entry.  The program of a nonce
\* compares the asset it names with that of the issuance it anchors.
Verify(tx, e) ==
  IF e.typ # "nonce1" THEN (IF e.typ # "mux1" /\ e.dest = Nil THEN "panic" ELSE Check(e.ok))
  ELSE IF e.anchored = Nil THEN "panic"
  ELSE Check(/\ e.anchored \in DOMAIN tx.entries
             /\ tx.entries[e.anchored].typ = "issuance1"
             /\ tx.entries[e.anchored].body.value.asset = e.body.asset)
-----------------------------------------------------------------------------
\* A destination and its entry agree: entry id sends, at position pos.
checkValidDest(tx, id, pos, vd) ==
  IF vd = Nil \/ vd.ref = Nil \/ vd.value = Nil \/ vd.ref \notin DOMAIN tx.entries THEN "bad"
  ELSE LET e == tx.entries[vd.ref]
           srcs == CASE e.typ \in {"output1", "retirement1"} -> <<e.body.source>>
                     [] e.typ = "mux1" -> e.body.sources
                     [] OTHER -> <<>>
       IN IF vd.position >= Len(srcs) THEN "bad"
          ELSE LET src == srcs[vd.position + 1]
               IN Check(src.ref = id /\ src.position = pos /\ src.value # Nil /\ src.value = vd.value)

\* Sums per asset in the order of the code: sources, then destinations.  The
\* result is Nil when a sum overflows or an asset has no source.
Parity(sources, dests) ==
  LET Add(p, src) ==
        IF p = Nil THEN Nil
        ELSE LET a == src.value.asset
                 r == AddInt(Amounts, IF a \in DOMAIN p THEN p[a] ELSE 0, Signed(src.value.amount))
             IN IF r.ok THEN (a :> r.val) @@ p ELSE Nil
      Subtract(p, dst) ==
        IF p = Nil \/ dst.value.asset \notin DOMAIN p THEN Nil
        ELSE LET r == SubInt(Amounts, p[dst.value.asset], Signed(dst.value.amount))
             IN IF r.ok THEN (dst.value.asset :> r.val) @@ p ELSE Nil
  IN FoldLeft(Subtract, FoldLeft(Add, <<>>, sources), dests)
Balanced(p) == p # Nil /\ \A a \in DOMAIN p : p[a] = 0

RECURSIVE checkValid(_, _)

\* A source and its entry agree: entry id receives, at position pos.
checkValidSrc(tx, id, pos, vs) ==
  IF vs = Nil \/ vs.ref = Nil \/ vs.value = Nil \/ vs.ref \notin DOMAIN tx.entries THEN "bad"
  ELSE LET e == tx.entries[vs.ref]
           dests == CASE e.typ \in {"issuance1", "spend1"} -> <<e.dest>>
                      [] e.typ = "mux1" -> e.dests
                      [] OTHER -> <<>>
       IN Then(checkValid(tx, vs.ref),
               IF vs.position >= Len(dests) THEN "bad"
               ELSE LET dest == dests[vs.position + 1]
                    IN IF dest = Nil THEN "panic"
                       ELSE Check(dest.ref = id /\ dest.position = pos /\ dest.value # Nil /\ dest.value = vs.value))

checkTxHeader(tx, e) ==
  Then(Check(e.body.max > 0 => e.body.max >= e.body.min),
  Then(LET R(i) == IF e.body.results[i] \in DOMAIN tx.entries THEN checkValid(tx, e.body.results[i]) ELSE "bad"
       IN InOrder(R, Len(e.body.results)),
       Check(e.body.version = 1 => e.body.results # <<>> /\ e.body.ext = Nil)))

\* Mutant: sums are not compared.
checkMuxUnbalanced(tx, id, e) ==
  LET Src(i) == checkValidSrc(tx, id, i - 1, e.body.sources[i])
      Dst(i) == checkValidDest(tx, id, i - 1, e.dests[i])
  IN Then(Verify(tx, e),
     Then(InOrder(Src, Len(e.body.sources)),
     Then(InOrder(Dst, Len(e.dests)), NoExt(tx, e))))
checkMux(tx, id, e) ==
  LET Src(i) == checkValidSrc(tx, id, i - 1, e.body.sources[i])
      Dst(i) == checkValidDest(tx, id, i - 1, e.dests[i])
  IN Then(Verify(tx, e),
     Then(InOrder(Src, Len(e.body.sources)),
     Then(InOrder(Dst, Len(e.dests)),
     Then(Check(Balanced(Parity(e.body.sources, e.dests))), NoExt(tx, e)))))

\* Mutant: a nonce may have an open time range.
checkNonceOpen(tx, e) ==
  Then(Verify(tx, e),
  Then(Check(e.body.timeRange \in DOMAIN tx.entries /\ tx.entries[e.body.timeRange].typ = "timerange1"),
  Then(checkValid(tx, e.body.timeRange), NoExt(tx, e))))
checkNonce(tx, e) ==
  Then(Verify(tx, e),
  Then(Check(e.body.timeRange \in DOMAIN tx.entries /\ tx.entries[e.body.timeRange].typ = "timerange1"),
  Then(checkValid(tx, e.body.timeRange),
  Then(LET tr == tx.entries[e.body.timeRange] IN Check(tr.body.min # 0 /\ tr.body.max # 0),
       NoExt(tx, e)))))

checkTimeRange(tx, e) ==
  Then(Check(/\ e.body.min <= tx.header.body.min
             /\ e.body.max > 0 => e.body.max >= tx.header.body.max), NoExt(tx, e))

\* Mutant: an anchor may be for another issuance.
checkIssuanceUnanchored(tx, chain, id, e) ==
  Then(Check(e.def.block = chain /\ e.def = e.body.value.asset /\ e.body.anchor \in DOMAIN tx.entries),
  Then(Verify(tx, e),
  Then(Check(tx.entries[e.body.anchor].typ \in {"nonce1", "spend1", "issuance1"}),
  Then(checkValid(tx, e.body.anchor),
  Then(checkValidDest(tx, id, 0, e.dest), NoExt(tx, e))))))
checkIssuance(tx, chain, id, e) ==
  Then(Check(e.def.block = chain /\ e.def = e.body.value.asset /\ e.body.anchor \in DOMAIN tx.entries),
  Then(Verify(tx, e),
  LET anchor == tx.entries[e.body.anchor]
  IN IF anchor.typ \notin {"nonce1", "spend1", "issuance1"} THEN "bad"
     ELSE IF anchor.anchored = Nil THEN "panic"
     ELSE Then(Check(anchor.anchored = id),
          Then(checkValid(tx, e.body.anchor),
          Then(checkValidDest(tx, id, 0, e.dest), NoExt(tx, e))))))

checkSpend(tx, id, e) ==
  Then(Check(/\ e.body.spent # Nil
             /\ e.body.spent \in DOMAIN tx.entries /\ tx.entries[e.body.spent].typ = "output1"),
  Then(Verify(tx, e),
  Then(Check(tx.entries[e.body.spent].body.source.value = e.dest.value),
  Then(checkValidDest(tx, id, 0, e.dest), NoExt(tx, e)))))

checkResult(tx, id, e) == Then(checkValidSrc(tx, id, 0, e.body.source), NoExt(tx, e))

checkValid(tx, id) ==
  LET e == tx.entries[id]
  IN CASE e.typ = "txheader" -> checkTxHeader(tx, e)
       [] e.typ = "mux1" -> checkMux(tx, id, e)
       [] e.typ = "nonce1" -> checkNonce(tx, e)
       [] e.typ \in {"output1", "retirement1"} -> checkResult(tx, id, e)
       [] e.typ = "timerange1" -> checkTimeRange(tx, e)
       [] e.typ = "issuance1" -> checkIssuance(tx, tx.chain, id, e)
       [] OTHER -> checkSpend(tx, id, e)

ValidateTx(tx, chain) == checkValid([chain |-> chain] @@ tx, tx.id)

\* Chain.ValidateTx on a transaction that is not in its cache of results: before
\* anything else, the window in which an issuance may appear is limited (0: is not).
checkIssuanceWindow(tx, window) ==
  Check(window # 0 =>
    \A i \in DOMAIN tx.inputIDs :
      /\ tx.inputIDs[i] \in DOMAIN tx.entries /\ tx.entries[tx.inputIDs[i]].typ = "issuance1"
      => ~(tx.header.body.min + window < tx.header.body.max))
ChainValidateTx(tx, chain, window) == Then(checkIssuanceWindow(tx, window), ValidateTx(tx, chain))
-----------------------------------------------------------------------------
(* Blocks.                                                                 *)

validateBlockAgainstPrev(b, prev) ==
  Check(/\ b.version >= prev.version
        /\ b.height = prev.height + 1
        /\ b.prev = prev.id
        /\ b.time > prev.time)
checkValidBlockHeader(b) == Check(b.version = 1 => b.ext = Nil)
\* Mutant: a transaction is late at its last millisecond.
TimelyEarly(b, h) ==
  /\ h.max > 0 => b.time < h.max
  /\ h.min > 0 /\ b.time > 0 => b.time >= h.min
InTime(b, h) ==
  /\ h.max > 0 => b.time <= h.max
  /\ h.min > 0 /\ b.time > 0 => b.time >= h.min
ValidateBlock(b, prev, chain, window) ==
  LET T(i) == Then(Check(/\ b.version = 1 => b.txs[i].header.body.version = 1
                         /\ InTime(b, b.txs[i].header.body)),
                   ChainValidateTx(b.txs[i], chain, window))
  IN Then(IF b.height > 1 THEN (IF prev = Nil THEN "bad" ELSE validateBlockAgainstPrev(b, prev)) ELSE "ok",
     Then(checkValidBlockHeader(b),
     Then(InOrder(T, Len(b.txs)),
          Check(MerkleRoot([i \in DOMAIN b.txs |-> b.txs[i].id]) = b.root))))

\* protocol.GenerateBlock: the transactions that are valid and timely, before the
\* snapshot and the limit on their number have their say.
GeneratedBlock(prev, now, txs, chain, window) ==
  LET Wanted(tx) ==
        /\ ChainValidateTx(tx, chain, window) = "ok"
        /\ tx.header.body.min > 0 => tx.header.body.min <= now
        /\ tx.header.body.max > 0 => tx.header.body.max >= now
      chosen == SelectSeq(txs, Wanted)
  IN [version |-> 1, height |-> prev.height + 1, prev |-> prev.id, time |-> now, ext |-> Nil, txs |-> chosen,
      root |-> MerkleRoot([i \in DOMAIN chosen |-> chosen[i].id])]
=============================================================================
