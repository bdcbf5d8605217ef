-------------------------------- MODULE MCTx --------------------------------
(***************************************************************************)
(* Transactions, blocks, the state tree, the ledger and the filters of     *)
(* queries on small instances.  A behaviour works on a patricia tree, or   *)
(* builds a ledger, or chooses one transaction, graph of entries, block,   *)
(* pair of ID lists, filter or query as its case.                          *)
(***************************************************************************)
EXTENDS Validation, FiniteSets, Ledger, TLC

CONSTANTS Panic, BadCursor, Letter, OtherDigit, Prohibited, n1, n2, o1, o2, o3, o4

VARIABLES root, items, panicked, case

Tree == INSTANCE Patricia WITH
  Items <- {<<0>>, <<1>>, <<3>>} \cup {<<a, b>> : a \in {0, 2}, b \in 0 .. 3}, ByteBits <- 2

Query == INSTANCE MCFilter WITH MaxWords <- 5, MaxInt64 <- 255, MaxTime <- 4, defGenericPageSize <- 2, Bad <- BadCursor
-----------------------------------------------------------------------------
(* The ledger: two issuances with different expiry times, a payment, a     *)
(* merge that competes with it for o1, and a conflicting twin of the       *)
(* payment that creates the same output.                                   *)

MCNonce == {n1, n2}
MCOutput == {o1, o2, o3, o4}
MCExpiry == (n1 :> 2) @@ (n2 :> 3)

Issue1 == [valid |-> TRUE, nonces |-> {n1}, spent |-> {}, results |-> {o1},
           minTime |-> 1, maxTime |-> 2]
Issue2 == [valid |-> TRUE, nonces |-> {n2}, spent |-> {}, results |-> {o2},
           minTime |-> 2, maxTime |-> 3]
Pay    == [valid |-> TRUE, nonces |-> {}, spent |-> {o1}, results |-> {o3},
           minTime |-> 0, maxTime |-> 0]
PayTwin == [Pay EXCEPT !.maxTime = 3]
Merge  == [valid |-> TRUE, nonces |-> {}, spent |-> {o1, o2}, results |-> {o4},
           minTime |-> 0, maxTime |-> 0]
Unsigned == [valid |-> FALSE, nonces |-> {n1}, spent |-> {o2}, results |-> {o2},
             minTime |-> 0, maxTime |-> 0]

LedgerTxs == {Issue1, Issue2, Pay, PayTwin, Merge, Unsigned}
-----------------------------------------------------------------------------
(* Legacy transactions.                                                    *)

Here == "here"
Amount == 0 .. 3  \* what ReadVarint63 accepts when an amount has AmountBits = 3 bits
Def(block) == [block |-> block, program |-> "p"]
Gold == Def(Here)
Iron == Def("elsewhere")

Spend(n, amount, args) == SpendInput(<<"src", n>>, 0, Value(Iron, amount), "p", "d", "d", args)
Issue(nonce, def, amount, args) == IssuanceInput(nonce, def, amount, "d", args)
Inputs ==
  {Spend(1, a, TRUE) : a \in {1, 3}} \cup {Spend(1, 1, FALSE), Spend(2, 1, TRUE)}
  \cup {Issue(n, Gold, a, TRUE) : n \in {0, 1}, a \in {1, 2}}
  \cup {Issue(2, Gold, 1, TRUE), Issue(1, Gold, 1, FALSE), Issue(1, Iron, 1, TRUE)}
OutputTo(asset, amount, program) == [value |-> Value(asset, amount), program |-> program, data |-> "d"]
OutputLists ==
  {<<>>, <<OutputTo(Gold, 2, "q"), OutputTo(Gold, 2, "q")>>, <<OutputTo(Iron, 3, "q"), OutputTo(Iron, 1, "q")>>}
  \cup {<<OutputTo(Iron, a, "q")>> : a \in 1 .. 3}
  \cup {<<OutputTo(Gold, a, "unspendable")>> : a \in 0 .. 3}
  \cup {<<OutputTo(Iron, 1, "q"), OutputTo(Gold, a, "q")>> : a \in 1 .. 3}
Ranges == {<<0, 0>>, <<1, 0>>, <<1, 2>>, <<1, 3>>, <<2, 1>>}
MaxIssuanceWindow == 1

Legacy(version, inputs, outputs, range) ==
  [version |-> version, inputs |-> inputs, outputs |-> outputs, data |-> "d", min |-> range[1], max |-> range[2]]
Transactions ==
  {Legacy(1, inputs, outputs, range) :
     inputs \in TupleOf(Inputs, 1) \cup TupleOf(Inputs, 2), outputs \in OutputLists, range \in Ranges}
  \cup {Legacy(1, inputs, <<OutputTo(Iron, 1, "q"), OutputTo(Gold, 2, "q")>>, <<1, 2>>) :
          inputs \in TupleOf(Inputs, 3)}
  \cup {Legacy(2, inputs, outputs, <<1, max>>) :
          inputs \in TupleOf(Inputs, 1), outputs \in OutputLists, max \in {2, 3}}

\* Transactions that may share outputs.
Sharers ==
  {Legacy(1, inputs, outputs, range) :
     inputs \in {<<Spend(1, 1, TRUE), Spend(2, 1, TRUE)>>, <<Spend(2, 1, TRUE), Spend(1, 1, TRUE)>>,
                 <<Spend(1, 1, TRUE), Spend(3, 1, TRUE)>>, <<Issue(1, Gold, 2, TRUE)>>, <<Issue(2, Gold, 2, TRUE)>>,
                 <<Spend(1, 2, TRUE), Issue(0, Gold, 2, TRUE)>>, <<Spend(2, 2, TRUE), Issue(0, Gold, 2, TRUE)>>},
     outputs \in UNION {{<<OutputTo(a, 1, "q"), OutputTo(a, 1, p)>>, <<OutputTo(Iron, 2, p), OutputTo(Gold, 2, "q")>>} :
                          a \in {Gold, Iron}, p \in {"q", "unspendable"}},
     range \in {<<1, 2>>, <<2, 2>>}}

\* The rules of a transaction in terms of the legacy form: MapTx followed by
\* Chain.ValidateTx must accept exactly these.
Total(list, asset) == FoldSeq(LAMBDA x, n : n + (IF x.value.asset = asset THEN x.value.amount ELSE 0), 0, list)
Assets(list) == {list[i].value.asset : i \in DOMAIN list}
Nonceless(tx) == {i \in Issuances(tx) : tx.inputs[i].nonce = 0}
Acceptable(tx) ==
  /\ tx.version = 1 => tx.outputs # <<>>
  /\ tx.max > 0 => tx.min <= tx.max
  /\ Issuances(tx) \ Nonceless(tx) # {} \/ (Nonceless(tx) # {} /\ Spends(tx) # {}) =>
       tx.max <= tx.min + MaxIssuanceWindow
  /\ tx.outputs # <<>> =>
       /\ \A i \in DOMAIN tx.inputs : tx.inputs[i].args
       /\ \A i, j \in DOMAIN tx.inputs : i # j => tx.inputs[i] # tx.inputs[j]
       /\ \A i \in Issuances(tx) : tx.inputs[i].def.block = Here
       /\ \A i \in Issuances(tx) \ Nonceless(tx) : tx.min > 0 /\ tx.max > 0
       /\ \A i, j \in Issuances(tx) \ Nonceless(tx) :
            i # j => <<tx.inputs[i].nonce, tx.inputs[i].def>> # <<tx.inputs[j].nonce, tx.inputs[j].def>>
       /\ Nonceless(tx) # {} => Cardinality(Nonceless(tx)) = 1 /\ Spends(tx) # {}
       /\ Assets(tx.outputs) \subseteq Assets(tx.inputs)
       /\ \A a \in Assets(tx.inputs) : Total(tx.inputs, a) = Total(tx.outputs, a) /\ Total(tx.inputs, a) \in Amount
-----------------------------------------------------------------------------
(* Graphs of entries: the witnesses of a mapped transaction are changed,   *)
(* which leaves the IDs alone, or value passes through two muxes.          *)

Bases ==
  {Legacy(1, <<Spend(1, 1, TRUE), Spend(2, 1, TRUE)>>, <<OutputTo(Iron, 2, "q")>>, <<0, 0>>),
   Legacy(1, <<Spend(1, 1, TRUE), Issue(0, Gold, 2, TRUE)>>,
          <<OutputTo(Gold, 1, "q"), OutputTo(Gold, 1, "unspendable"), OutputTo(Iron, 1, "q")>>, <<0, 0>>),
   Legacy(1, <<Issue(1, Gold, 2, TRUE), Issue(2, Gold, 1, TRUE)>>, <<OutputTo(Gold, 3, "q")>>, <<1, 2>>)}

DestinationsLike(d, ids) ==
  {Nil} \cup {[d EXCEPT !.ref = r] : r \in ids \cup {Nil}}
        \cup {[d EXCEPT !.position = n] : n \in 0 .. 2}
        \cup {[d EXCEPT !.value = v] : v \in {Nil, Value(Gold, 1), Value(Iron, 1), Value(Iron, 2)}}
Variants(e, ids) ==
  CASE e.typ \in {"spend1", "issuance1"} ->
         {[e EXCEPT !.dest = d] : d \in DestinationsLike(e.dest, ids)}
         \cup {[e EXCEPT !.anchored = a] : a \in ids \cup {Nil}} \cup {[e EXCEPT !.ok = FALSE]}
    [] e.typ = "mux1" ->
         UNION {{[e EXCEPT !.dests[i] = d] : d \in DestinationsLike(e.dests[i], ids)}
                \cup {[e EXCEPT !.dests = RemoveAt(@, i)], [e EXCEPT !.dests = Append(@, @[i])]} : i \in DOMAIN e.dests}
    [] e.typ = "nonce1" -> {[e EXCEPT !.anchored = a] : a \in ids \cup {Nil}}
    [] OTHER -> {}
WithoutEntry(g, id) == [g EXCEPT !.entries = [x \in DOMAIN @ \ {id} |-> @[x]]]
Rewitnessed(g) ==
  UNION {{[g EXCEPT !.entries[id] = e] : e \in Variants(g.entries[id], DOMAIN g.entries)} : id \in DOMAIN g.entries}
  \cup {WithoutEntry(g, id) : id \in DOMAIN g.entries \ {g.id}}

\* One spend of a units goes to a mux that sends b to a result and c to a second
\* mux, which sends d to another result.
TwoMuxes(a, b, c, d) ==
  LET prev == NewOutput(ValueSource(<<"src", 1>>, Value(Iron, a), 0), "p", "d", 0)
      spend(dest) == NewSpend(EntryID(prev), "d", 0, TRUE, dest, Nil)
      first(dests) == NewMux(<<ValueSource(EntryID(spend(Nil)), Value(Iron, a), 0)>>, dests)
      second(dests) == NewMux(<<ValueSource(EntryID(first(<<>>)), Value(Iron, c), 1)>>, dests)
      left == NewOutput(ValueSource(EntryID(first(<<>>)), Value(Iron, b), 0), "q", "d", 0)
      right == NewRetirement(ValueSource(EntryID(second(<<>>)), Value(Iron, d), 0), "d", 1)
      header == NewTxHeader(1, <<EntryID(left), EntryID(right)>>, "d", 0, 0)
  IN [id |-> EntryID(header), header |-> header,
      entries |-> EntryMap(<<prev, left, right, header,
        spend(ValueDestination(EntryID(first(<<>>)), Value(Iron, a), 0)),
        first(<<ValueDestination(EntryID(left), Value(Iron, b), 0),
                ValueDestination(EntryID(second(<<>>)), Value(Iron, c), 0)>>),
        second(<<ValueDestination(EntryID(right), Value(Iron, d), 0)>>)>>)]
-----------------------------------------------------------------------------
(* Blocks, and the block a generator builds from pending transactions.     *)

Spending(version, n, range, args) == Legacy(version, <<Spend(n, 1, args)>>, <<OutputTo(Iron, 1, "q")>>, range)
Pending ==
  {Spending(1, 1, range, TRUE) : range \in {<<0, 0>>, <<0, 1>>, <<1, 2>>, <<2, 3>>, <<3, 3>>}}
  \cup {Spending(1, 2, <<0, 2>>, FALSE), Spending(2, 2, <<1, 0>>, TRUE)}
Previous(version, ts) == [version |-> version, height |-> 3, id |-> <<"prev">>, time |-> ts]
-----------------------------------------------------------------------------
(* The wire format: structures of every shape, and encodings with one byte *)
(* missing or changed.  A one-byte sum stands for the hash that makes an   *)
(* asset ID.                                                               *)

ToyAssetID(w) == <<(w.InitialBlock[1] + 2 * Len(w.AssetDefinition) + 5 * Len(w.IssuanceProgram)) % 256>>
Wire == INSTANCE Codec WITH HashLen <- 1, MaxInt32 <- 140, MaxInt64 <- 200, AssetIDHash <- ToyAssetID

ArgumentLists == {<<>>, <<<<1, 2>>>>, <<<<>>, <<3>>>>}
WireInput(version, typed, suffix, data, witnessSuffix) ==
  [AssetVersion |-> version, TypedInput |-> typed, CommitmentSuffix |-> suffix, ReferenceData |-> data,
   WitnessSuffix |-> witnessSuffix]
WireSpend(amount, position, program, args) ==
  [type |-> 1, SourceID |-> <<200>>, AssetId |-> <<3>>, Amount |-> amount, SourcePosition |-> position,
   VMVersion |-> 1, ControlProgram |-> program, RefDataHash |-> <<4>>, SpendCommitmentSuffix |-> <<>>,
   Arguments |-> args]
WireIssuance(nonce, amount, def, args) ==
  [type |-> 0, Nonce |-> nonce, Amount |-> amount, InitialBlock |-> <<7>>, AssetDefinition |-> def, VMVersion |-> 2,
   IssuanceProgram |-> <<81>>, Arguments |-> args,
   AssetId |-> ToyAssetID([InitialBlock |-> <<7>>, AssetDefinition |-> def, IssuanceProgram |-> <<81>>])]
WireInputs ==
  {WireInput(1, WireSpend(a, n, p, args), <<>>, <<>>, w) :
     a \in {1, 130}, n \in {0, 129}, p \in {<<>>, <<81, 1>>}, args \in ArgumentLists, w \in {<<>>, <<9, 9>>}}
  \cup {WireInput(1, WireIssuance(n, a, d, args), s, <<6>>, <<>>) :
          n \in {<<>>, <<1>>}, a \in {0, 200}, d \in {<<>>, <<2>>}, args \in ArgumentLists, s \in {<<>>, <<8>>}}
  \cup {WireInput(2, Nil, s, <<6>>, w) : s, w \in {<<>>, <<1, 1>>}}
WireOutput(version, amount, program, suffix) ==
  [AssetVersion |-> version, CommitmentSuffix |-> suffix, ReferenceData |-> <<5>>,
   OutputCommitment |-> IF version = 1 THEN [AssetId |-> <<3>>, Amount |-> amount, VMVersion |-> 1, ControlProgram |-> program]
                        ELSE Nil]
WireTx(version, ins, outs, min, suffix) ==
  [Version |-> version, MinTime |-> min, MaxTime |-> 150, CommonFieldsSuffix |-> suffix, CommonWitnessSuffix |-> suffix,
   Inputs |-> ins, Outputs |-> outs, ReferenceData |-> <<>>]
AnInput == WireInput(1, WireSpend(130, 1, <<81>>, <<<<1>>>>), <<>>, <<6>>, <<>>)
AnIssuance == WireInput(1, WireIssuance(<<1>>, 2, <<2>>, <<<<1>>>>), <<8>>, <<>>, <<>>)
AnOutput == WireOutput(1, 129, <<82>>, <<>>)
WireTxs ==
  {WireTx(1, <<i>>, <<AnOutput>>, 0, <<>>) : i \in WireInputs}
  \cup {WireTx(v, ins, outs, m, s) : v \in {1, 2}, m \in {0, 130}, s \in {<<>>, <<7>>},
          ins \in {<<>>, <<AnIssuance, AnInput>>}, outs \in {<<>>, <<WireOutput(2, 0, <<>>, <<>>), AnOutput>>}}
WireHeader(version, program, witness, suffix) ==
  [Version |-> version, Height |-> 129, PreviousBlockHash |-> <<1>>, TimestampMS |-> 2, TransactionsMerkleRoot |-> <<3>>,
   AssetsMerkleRoot |-> <<4>>, ConsensusProgram |-> program, CommitmentSuffix |-> suffix, Witness |-> witness,
   WitnessSuffix |-> suffix]
WireBlocks ==
  {[header |-> WireHeader(v, p, w, s), txs |-> txs] :
     v \in {1, 150}, p \in {<<>>, <<81>>}, w \in ArgumentLists, s \in {<<>>, <<9>>},
     txs \in {<<>>, <<WireTx(1, <<AnInput>>, <<AnOutput>>, 1, <<>>), WireTx(2, <<>>, <<>>, 0, <<>>)>>}}

\* Encodings of transactions that are cut or have one byte changed.
Damaged(s) ==
  {SubSeq(s, 1, n) : n \in 0 .. Len(s) - 1} \cup {s \o <<b>> : b \in {0, 1}}
  \cup {[s EXCEPT ![n] = b] : n \in DOMAIN s, b \in {0, 1, 2, 128, 255}}
DamagedTxs ==
  UNION {Damaged(Wire!WriteTxData(tx)) :
           tx \in {WireTx(1, <<AnIssuance, AnInput>>, <<AnOutput>>, 130, <<>>), WireTx(2, <<>>, <<AnOutput>>, 0, <<7>>)}}

\* Bodies of entries of the same type.
Digests == {<<1>>, <<129>>, Nil}
HashSource(ref, amount, position) ==
  [ref |-> ref, value |-> [asset |-> <<1>>, amount |-> amount], position |-> position]
BodyPairs(typ, bodies) == {[typ |-> typ, bodies |-> pair] : pair \in bodies \X bodies}
SourceLists == UNION {[1 .. n -> {HashSource(<<1>>, a, p) : a \in {1, 129}, p \in {0, 1}}] : n \in 0 .. 2}
HashedPairs ==
  BodyPairs("txheader", {[version |-> 1, results |-> r, data |-> d, min |-> m, max |-> 1, ext |-> Nil] :
                           r \in UNION {[1 .. n -> Digests \ {Nil}] : n \in 0 .. 2}, d \in Digests, m \in {1, 129}})
  \cup BodyPairs("mux1", {[sources |-> l, program |-> [version |-> 1, code |-> c], ext |-> Nil] :
                            l \in SourceLists, c \in {<<>>, <<81>>}})
  \cup BodyPairs("output1", {[source |-> HashSource(r, a, 0), program |-> [version |-> v, code |-> c], data |-> <<1>>, ext |-> e] :
                               r \in Digests, a \in {1, 129}, v \in {1, 129}, c \in {<<>>, <<1>>, <<1, 1>>}, e \in Digests})
-----------------------------------------------------------------------------
IdLists == UNION {[1 .. n -> {<<"a">>, <<"b">>}] : n \in 0 .. 5}

Chosen(kind, value) == case' = [kind |-> kind, value |-> value]
ChooseWire ==
  \/ \E tx \in WireTxs : Chosen("txdata", tx)
  \/ \E b \in WireBlocks : Chosen("block", b)
  \/ \E w \in DamagedTxs : Chosen("wire", w)
  \/ \E h \in HashedPairs : Chosen("hashed", h)
TxInit == Tree!PatriciaInit /\ Init /\ case = Nil
treevars == <<root, items, panicked>>
Started == items # {} \/ root # Nil
ChooseTx == \E tx \in Transactions : Chosen("tx", tx)
ChoosePair == \E t, u \in Sharers : Chosen("pair", <<t, u>>)
ChooseWitnesses ==
  \E tx \in Bases : \E x \in Rewitnessed(MapTx(tx)) : Chosen("witnesses", [tx |-> tx, graph |-> x])
ChooseGraph == \E a, b, c, d \in Amount : Chosen("graph", TwoMuxes(a, b, c, d))
ChoosePool ==
  \E txs \in {<<>>} \cup TupleOf(Pending, 1) \cup TupleOf(Pending, 2), prev \in 0 .. 2, now \in 0 .. 3 :
     Chosen("pool", [txs |-> txs, prev |-> Previous(1, prev), now |-> now])
ChooseIds == \E l, m \in IdLists : Chosen("ids", <<l, m>>)
Choose == ChooseGraph \/ ChooseWitnesses \/ ChoosePool \/ ChooseIds \/ ChooseWire \/ ChoosePair \/ ChooseTx
          \/ Query!Next
TxNext ==
  /\ case = Nil
  /\ \/ ~Started /\ height = 0 /\ draft = None /\ Choose /\ UNCHANGED <<treevars, vars>>
     \/ height = 0 /\ draft = None /\ Tree!PatriciaNext /\ UNCHANGED <<vars, case>>
     \/ ~Started /\ Next /\ UNCHANGED <<treevars, case>>
TxSpec == TxInit /\ [][TxNext]_<<treevars, vars, case>>
-----------------------------------------------------------------------------
Is(kind) == case # Nil /\ case.kind = kind

\* The root hash of the state tree depends only on the outputs in it, not on the order
\* of insertions and deletions nor on the hashes memoised on the way (patricia.go).
HashIsOfSet == Tree!HashIsOfSet

\* The state tree answers lookups and walks as a prefix-free set does (patricia.go).
TreeIsSet == Tree!TreeIsSet

\* A tree stands for a set of items, and for that set only: its lookups, its walk and
\* its root hash depend on the set and not on how it was built (patricia.go).
TreeStandsForSet == HashIsOfSet /\ TreeIsSet

\* MapTx followed by Chain.ValidateTx accepts exactly the legacy transactions that are
\* balanced, authorised, of this blockchain, anchored and in the issuance window
\* (map.go, validation.go, tx.go).
AcceptsWhatItShould ==
  Is("tx") => (ChainValidateTx(MapTx(case.value), Here, MaxIssuanceWindow) = "ok") = Acceptable(case.value)

RECURSIVE Behind(_, _)
Behind(entries, ids) ==
  LET Sources(e) == IF e.typ = "mux1" THEN {e.body.sources[i].ref : i \in DOMAIN e.body.sources}
                    ELSE IF e.typ \in {"output1", "retirement1"} THEN {e.body.source.ref} ELSE {}
      more == UNION {Sources(entries[id]) : id \in ids} \cup ids
  IN IF more = ids THEN ids ELSE Behind(entries, more)
HeldBy(entries, ids) ==
  MapThenSumSet(LAMBDA id : LET e == entries[id]
                            IN CASE e.typ \in {"output1", "retirement1"} -> e.body.source.value.amount
                                 [] e.typ = "issuance1" -> e.body.value.amount
                                 [] e.typ = "spend1" -> entries[e.body.spent].body.source.value.amount
                                 [] OTHER -> 0, ids)
AssetOf(entries, id) ==
  LET e == entries[id]
  IN CASE e.typ \in {"output1", "retirement1"} -> e.body.source.value.asset
       [] e.typ = "issuance1" -> e.body.value.asset
       [] OTHER -> entries[e.body.spent].body.source.value.asset
NoValueCreated(g) ==
  LET results == ToSet(g.header.body.results)
      origins == {id \in Behind(g.entries, results) : g.entries[id].typ \in {"spend1", "issuance1"}}
  IN \A a \in {Gold, Iron} :
       HeldBy(g.entries, {id \in results : AssetOf(g.entries, id) = a})
         <= HeldBy(g.entries, {id \in origins : AssetOf(g.entries, id) = a})
Conserved(g) == ValidateTx(g, Here) = "ok" => NoValueCreated(g)

\* A graph of entries that ValidateTx accepts creates no value: per asset, its
\* results hold no more than the spends and issuances behind them, however value
\* flows through muxes and in spite of fixed-width sums (checkValid, case Mux).
ValueConserved == Is("graph") \/ Is("tx") => Conserved(IF Is("tx") THEN MapTx(case.value) ELSE case.value)

OutputsOf(m) == {id \in ToSet(m.header.body.results) : m.entries[id].typ = "output1"}
AsInLedger(t, u) ==
  ValidateTx(t, Here) = "ok" /\ ValidateTx(u, Here) = "ok" =>
    /\ \A n \in t.nonceIDs :
         LET tr == t.entries[t.entries[n].body.timeRange] IN tr.body.max = t.header.body.max /\ tr.body.max > 0
    /\ OutputsOf(t) # {} => t.nonceIDs \cup t.spentOutputIDs # {}
    /\ OutputsOf(t) \cap t.spentOutputIDs = {}
    /\ OutputsOf(t) \cap OutputsOf(u) # {} =>
         t.nonceIDs = u.nonceIDs /\ t.spentOutputIDs = u.spentOutputIDs

\* What the ledger assumes of transactions that validate: an issuance's nonce ends
\* with the transaction, outputs come from something consumed and are never spent by
\* the transaction itself, and two transactions that create the same output consume
\* the same prevouts and nonces (the hashed fields of map.go, validation.go).
MeetsLedger == Is("pair") => AsInLedger(MapTx(case.value[1]), MapTx(case.value[2]))

SameWitnesses(mapped, given) ==
  \A id \in DOMAIN mapped :
    /\ id \in DOMAIN given
    /\ mapped[id].typ \in {"spend1", "issuance1"} => given[id].dest = mapped[id].dest /\ given[id].ok
    /\ mapped[id].typ = "mux1" => given[id].dests = mapped[id].dests
    /\ mapped[id].typ = "nonce1" => given[id].anchored = mapped[id].anchored

\* The witnesses that say where value goes and what an anchor is for are not hashed,
\* but ValidateTx accepts only the ones MapTx computes (checkValidDest, checkValidSrc).
WitnessesDetermined ==
  Is("witnesses") /\ ValidateTx(case.value.graph, Here) = "ok" =>
    SameWitnesses(MapTx(case.value.tx).entries, case.value.graph.entries)

\* An ID settles what a valid transaction consumes and where its value goes, the hashed
\* fields through the hash and the others through checkValid (map.go, validation.go).
IDsDetermine == MeetsLedger /\ WitnessesDetermined

AcceptedIfLater(b, prev, now) ==
  (ValidateBlock(b, prev, Here, MaxIssuanceWindow) = "ok") =
    (now > prev.time /\ \A i \in DOMAIN b.txs : b.txs[i].header.body.version = 1)

\* The block a generator builds passes ValidateBlock exactly if its timestamp is past
\* the previous block's and its transactions have version 1: GenerateBlock itself
\* accepts an equal timestamp and every version (block.go, validation.go).
GeneratedIsAccepted ==
  Is("pool") /\ case.value.now >= case.value.prev.time =>
    AcceptedIfLater(GeneratedBlock(case.value.prev, case.value.now, [i \in DOMAIN case.value.txs |-> MapTx(case.value.txs[i])],
                                   Here, MaxIssuanceWindow),
                    case.value.prev, case.value.now)

\* Two lists of transactions have the same Merkle root only if they are equal, so a
\* block header commits to its transactions and their order (merkle.go).
MerkleRootInjective ==
  Is("ids") => (MerkleRoot(case.value[1]) = MerkleRoot(case.value[2])) = (case.value[1] = case.value[2])

NoCommitmentSuffix(tx) ==
  /\ \A i \in DOMAIN tx.Outputs : tx.Outputs[i].CommitmentSuffix = <<>>
  /\ \A i \in DOMAIN tx.Inputs :
       LET typed == tx.Inputs[i].TypedInput
       IN typed # Nil /\ typed.type = 1 => typed.SpendCommitmentSuffix = <<>>
ReadsBack(x, s, Unmarshal(_)) == \A n \in 0 .. Len(s) : Unmarshal(SubSeq(s, 1, n)) = IF n = Len(s) THEN x ELSE Nil
Stable(tx) == tx # Nil /\ NoCommitmentSuffix(tx) => ReadsBack(tx, Wire!WriteTxData(tx), Wire!UnmarshalTx)

\* What is written is read back: transactions, block headers and blocks survive the
\* wire with the suffixes of later protocol versions, nothing shorter or longer is
\* taken for them, and bytes that decode decode to the same thing after being written
\* again.  The suffix of an output or spend commitment is left out: it is written
\* twice (transaction.go, txinput.go, txoutput.go, block.go, block_header.go).
WireRoundTrip ==
  /\ Is("txdata") => ReadsBack(case.value, Wire!WriteTxData(case.value), Wire!UnmarshalTx)
  /\ Is("block") =>
       /\ ReadsBack(case.value, Wire!WriteBlock(case.value), Wire!UnmarshalBlock)
       /\ Wire!UnmarshalHeader(Wire!WriteBlockHeader(case.value.header, 1)) = case.value.header
  /\ Is("wire") => Stable(Wire!UnmarshalTx(case.value))

\* Two bodies of entries of one type are hashed from the same bytes only if they are
\* equal, up to a nil hash being the zero hash (entry.go).
HashInputInjective ==
  Is("hashed") =>
    LET b == case.value.bodies
        Input(i) == Wire!HashInput(case.value.typ, b[i])
    IN (Input(1) = Input(2)) = (b[1] = b[2])

\* No two transactions, blocks, lists of IDs or bodies of entries are written or hashed
\* alike (encoding/blockchain, legacy, entry.go, merkle.go).
EncodingsFaithful == WireRoundTrip /\ HashInputInjective /\ MerkleRootInjective
-----------------------------------------------------------------------------
\* Precedence climbing accepts the texts of the grammar in doc.go and no others, and
\* builds the tree it gives them (parser.go, parseExprCont).
ParseIsGrammar == Query!ParseIsGrammar

\* What String writes of a filter is parsed as the same expression (expr.go, String).
ParseInvertsString == Query!ParseInvertsString

\* A filter that passes the type checker is translated, for the values it was checked
\* with (typecheck.go, sql.go).
TypedIsTranslated == Query!TypedIsTranslated

\* The SQL of a filter selects the rows that satisfy the filter (sql.go, asSQL).
SqlMeansFilter == Query!SqlMeansFilter

\* From text to rows a filter keeps its meaning: the parser, the printer, the type
\* checker and the SQL agree on it (core/query/filter).
FilterKeepsMeaning == ParseIsGrammar /\ ParseInvertsString /\ TypedIsTranslated /\ SqlMeansFilter

\* Page after page a client gets exactly the rows a query is about, newest first and
\* none twice (query.go, outputs.go, accounts.go, assets.go, transactions.go).
PagesAreList == Query!PagesAreList

\* The balances of a query add up to the outputs it is about, each counted in the group
\* of its own fields (balances.go).
BalancesAddUp == Query!BalancesAddUp

\* A query is answered in full: no row is lost or counted twice between pages or
\* between groups (core/query).
AnswersComplete == PagesAreList /\ BalancesAddUp
=============================================================================
