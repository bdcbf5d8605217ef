------------------------------ MODULE Entries ------------------------------
(***************************************************************************)
(* protocol/bc and protocol/bc/legacy/map.go: the entries of a transaction *)
(* and the conversion of a legacy transaction into them.                   *)
(*                                                                         *)
(* The ID of an entry is the hash of its type and body; a hash is modelled *)
(* by what is hashed.  Witnesses (destination, anchored entry, arguments)  *)
(* and the ordinal are not part of the body, so two entries can have the   *)
(* same ID and differ in them.  A program is run by the virtual machine    *)
(* elsewhere: ok is its verdict on the arguments of the entry.             *)
(***************************************************************************)
EXTENDS Integers, Sequences, SequencesExt, FiniteSetsExt

CONSTANT Nil  \* a missing field

ZeroHash == <<"zero">>

Value(asset, amount) == [asset |-> asset, amount |-> amount]
ValueSource(ref, value, position) == [ref |-> ref, value |-> value, position |-> position]
ValueDestination(ref, value, position) == [ref |-> ref, value |-> value, position |-> position]

\* An entry: its type, the fields that are hashed, and the others.
NewEntry(typ, body, rest) == [typ |-> typ, body |-> body] @@ rest
EntryID(e) == <<e.typ, e.body>>

NewOutput(source, program, data, ordinal) ==
  NewEntry("output1", [source |-> source, program |-> program, data |-> data, ext |-> Nil], [ordinal |-> ordinal])
NewRetirement(source, data, ordinal) ==
  NewEntry("retirement1", [source |-> source, data |-> data, ext |-> Nil], [ordinal |-> ordinal])
NewSpend(spent, data, ordinal, args, dest, anchored) ==
  NewEntry("spend1", [spent |-> spent, data |-> data, ext |-> Nil],
        [ordinal |-> ordinal, ok |-> args, dest |-> dest, anchored |-> anchored])
NewIssuance(anchor, value, data, ordinal, args, dest, def) ==
  NewEntry("issuance1", [anchor |-> anchor, value |-> value, data |-> data, ext |-> Nil],
        [ordinal |-> ordinal, ok |-> args, dest |-> dest, def |-> def, anchored |-> Nil])
NewNonce(nonce, asset, timeRange, anchored) ==
  NewEntry("nonce1", [nonce |-> nonce, asset |-> asset, timeRange |-> timeRange, ext |-> Nil], [anchored |-> anchored])
NewTimeRange(min, max) == NewEntry("timerange1", [min |-> min, max |-> max, ext |-> Nil], [ok |-> TRUE])
NewMux(sources, dests) == NewEntry("mux1", [sources |-> sources, ext |-> Nil], [dests |-> dests, ok |-> TRUE])
NewTxHeader(version, results, data, min, max) ==
  NewEntry("txheader", [version |-> version, results |-> results, data |-> data, min |-> min, max |-> max, ext |-> Nil],
        [ok |-> TRUE])
-----------------------------------------------------------------------------
(* A legacy transaction: inputs that spend or issue, outputs.  The ID of   *)
(* an asset is the hash of its definition.                                 *)

SpendInput(ref, position, value, program, outData, data, args) ==
  [type |-> "spend", ref |-> ref, position |-> position, value |-> value, program |-> program,
   outData |-> outData, data |-> data, args |-> args]
IssuanceInput(nonce, def, amount, data, args) ==
  [type |-> "issue", nonce |-> nonce, def |-> def, value |-> Value(def, amount), data |-> data, args |-> args]

IsSpend(tx, i) == tx.inputs[i].type = "spend"
Spends(tx) == {i \in DOMAIN tx.inputs : IsSpend(tx, i)}
Issuances(tx) == DOMAIN tx.inputs \ Spends(tx)

\* The output an input spends, and the entry IDs of inputs.
Prevout(inp) == NewOutput(ValueSource(inp.ref, inp.value, inp.position), inp.program, inp.outData, 0)
SpendID(inp) == EntryID(NewSpend(EntryID(Prevout(inp)), inp.data, 0, TRUE, Nil, Nil))
TimeRangeOf(tx) == NewTimeRange(tx.min, tx.max)
NonceOf(tx, i, anchored) ==
  NewNonce(tx.inputs[i].nonce, tx.inputs[i].def, EntryID(TimeRangeOf(tx)), anchored)

\* An issuance without a nonce is anchored by the first spend, if any.
AnchorID(tx, i) ==
  IF tx.inputs[i].nonce > 0 THEN EntryID(NonceOf(tx, i, Nil))
  ELSE IF Spends(tx) # {} THEN SpendID(tx.inputs[Min(Spends(tx))])
  ELSE ZeroHash
IssuanceID(tx, i) ==
  EntryID(NewIssuance(AnchorID(tx, i), tx.inputs[i].value, tx.inputs[i].data, 0, TRUE, Nil, Nil))
InputID(tx, i) == IF IsSpend(tx, i) THEN SpendID(tx.inputs[i]) ELSE IssuanceID(tx, i)

\* The object of the first spend remembers the last issuance it anchors.
AnchoredBy(tx, i) ==
  LET those == {j \in Issuances(tx) : tx.inputs[j].nonce = 0}
  IN IF i = Min(Spends(tx)) /\ those # {} THEN IssuanceID(tx, Max(those)) ELSE Nil

MuxID(tx) ==
  EntryID(NewMux([i \in DOMAIN tx.inputs |-> ValueSource(InputID(tx, i), tx.inputs[i].value, 0)], Nil))
ToMux(tx, i) == ValueDestination(MuxID(tx), tx.inputs[i].value, i - 1)
Result(tx, i) ==
  LET out == tx.outputs[i]
      src == ValueSource(MuxID(tx), out.value, i - 1)
  IN IF out.program = "unspendable" THEN NewRetirement(src, out.data, i - 1)
     ELSE NewOutput(src, out.program, out.data, i - 1)
MuxOf(tx) ==
  NewMux([i \in DOMAIN tx.inputs |-> ValueSource(InputID(tx, i), tx.inputs[i].value, 0)],
         [i \in DOMAIN tx.outputs |-> ValueDestination(EntryID(Result(tx, i)), tx.outputs[i].value, 0)])
HeaderOf(tx) ==
  NewTxHeader(tx.version, [i \in DOMAIN tx.outputs |-> EntryID(Result(tx, i))], tx.data, tx.min, tx.max)

\* The objects mapTx adds to the map of entries, in order: a later one with
\* the same ID takes the place of an earlier one.
ObjectsOf(tx, i) ==
  LET inp == tx.inputs[i]
  IN IF IsSpend(tx, i)
     THEN <<Prevout(inp),
            NewSpend(EntryID(Prevout(inp)), inp.data, i - 1, inp.args, ToMux(tx, i), AnchoredBy(tx, i))>>
     ELSE (IF inp.nonce > 0 THEN <<TimeRangeOf(tx), NonceOf(tx, i, IssuanceID(tx, i))>> ELSE <<>>)
          \o <<NewIssuance(AnchorID(tx, i), inp.value, inp.data, i - 1, inp.args, ToMux(tx, i), inp.def)>>
Objects(tx) ==
  FlattenSeq([i \in DOMAIN tx.inputs |-> ObjectsOf(tx, i)])
  \o <<MuxOf(tx)>> \o [i \in DOMAIN tx.outputs |-> Result(tx, i)] \o <<HeaderOf(tx)>>

EntryMap(objs) ==
  [id \in {EntryID(objs[k]) : k \in DOMAIN objs} |->
     objs[Max({k \in DOMAIN objs : EntryID(objs[k]) = id})]]

\* The nonces and prevouts a transaction uses, as sets.
NonceIDs(entries) ==
  {entries[id].body.anchor : id \in {x \in DOMAIN entries : entries[x].typ = "issuance1"}}
  \cap {id \in DOMAIN entries : entries[id].typ = "nonce1"}
SpentOutputIDs(entries) ==
  {entries[id].body.spent : id \in {x \in DOMAIN entries : entries[x].typ = "spend1"}}

MapTx(tx) ==
  LET entries == EntryMap(Objects(tx))
  IN [id |-> EntryID(HeaderOf(tx)), header |-> HeaderOf(tx), entries |-> entries,
      inputIDs |-> [i \in DOMAIN tx.inputs |->
                      IF /\ entries[InputID(tx, i)].ordinal = i - 1
                         /\ IsSpend(tx, i) \/ AnchorID(tx, i) \in DOMAIN entries
                      THEN InputID(tx, i) ELSE ZeroHash],
      nonceIDs |-> NonceIDs(entries), spentOutputIDs |-> SpentOutputIDs(entries)]
-----------------------------------------------------------------------------
(* bc.MerkleRoot: a hash is modelled by what is hashed.                    *)

prevPowerOfTwo(n) ==
  LET powers == {2^e : e \in 0 .. n}
  IN IF n \in powers THEN n \div 2 ELSE Max({k \in powers : k < n})
RECURSIVE MerkleRoot(_)
MerkleRoot(ids) ==
  IF Len(ids) = 0 THEN <<"">>
  ELSE IF Len(ids) = 1 THEN <<0, Head(ids)>>
  ELSE LET k == prevPowerOfTwo(Len(ids))
       IN <<1, MerkleRoot(SubSeq(ids, 1, k)), MerkleRoot(SubSeq(ids, k + 1, Len(ids)))>>
=============================================================================
