------------------------------- MODULE Codec -------------------------------
(***************************************************************************)
(* encoding/blockchain and protocol/bc/legacy: the wire format of          *)
(* transactions, block headers and blocks, and what is hashed of an entry. *)
(* Bytes are numbers below 256; a hash has HashLen of them.  A structure   *)
(* is read field by field in one function and written in another: each has *)
(* its own layout here, a list of fields and kinds of field.  What a       *)
(* reader does not understand it keeps as the suffix of an extensible      *)
(* string.                                                                 *)
(***************************************************************************)
EXTENDS Integers, Sequences, SequencesExt, TLC

CONSTANTS HashLen,         \* 32
          MaxInt32,        \* bounds of the varints
          MaxInt64,
          AssetIDHash(_),  \* AssetID of an issuance input
          Nil

\* A reader returns what it read and the bytes it left.
Read(val, rest) == [ok |-> TRUE, val |-> val, rest |-> rest]
Fail == [ok |-> FALSE, val |-> Nil, rest |-> <<>>]
\* The reader goes on with what was read, unless that failed.
Then(r, Next(_, _)) == IF r.ok THEN Next(r.val, r.rest) ELSE Fail

RECURSIVE ReadUvarint(_)
ReadUvarint(s) ==
  IF s = <<>> THEN Fail
  ELSE IF Head(s) < 128 THEN Read(Head(s), Tail(s))
  ELSE Then(ReadUvarint(Tail(s)), LAMBDA n, rest : Read(Head(s) - 128 + 128 * n, rest))
RECURSIVE PutUvarint(_)
PutUvarint(n) == IF n < 128 THEN <<n>> ELSE <<128 + (n % 128)>> \o PutUvarint(n \div 128)

Within(r, max) == IF r.ok /\ r.val > max THEN Fail ELSE r
ReadVarint31(s) == Within(ReadUvarint(s), MaxInt32)
ReadVarint63(s) == Within(ReadUvarint(s), MaxInt64)
ReadByte(s) == IF s = <<>> THEN Fail ELSE Read(Head(s), Tail(s))
ReadBytes(n, s) == IF n > Len(s) THEN Fail ELSE Read(SubSeq(s, 1, n), SubSeq(s, n + 1, Len(s)))
ReadVarstr31(s) == Then(ReadVarint31(s), ReadBytes)

\* n times what F reads.
ReadTimes(F(_), n, s) ==
  LET RECURSIVE More(_, _)
      More(list, b) ==
        IF Len(list) = n THEN Read(list, b) ELSE Then(F(b), LAMBDA v, rest : More(Append(list, v), rest))
  IN More(<<>>, s)
ReadList(F(_), s) == Then(ReadVarint31(s), LAMBDA n, b : ReadTimes(F, n, b))
ReadVarstrList(s) == ReadList(ReadVarstr31, s)
ReadExtensibleString(F(_), s) ==
  Then(ReadVarstr31(s), LAMBDA str, rest :
  Then(F(str), LAMBDA v, suffix : Read([contents |-> v, suffix |-> suffix], rest)))

WriteVarstr31(str) == PutUvarint(Len(str)) \o str
WriteVarstrList(list) == PutUvarint(Len(list)) \o FlattenSeq([i \in DOMAIN list |-> WriteVarstr31(list[i])])
WriteExtensibleString(contents, suffix) == WriteVarstr31(contents \o suffix)
-----------------------------------------------------------------------------
ReadField(kind, s) ==
  CASE kind = "int" -> ReadVarint63(s)
    [] kind = "byte" -> ReadByte(s)
    [] kind = "str" -> ReadVarstr31(s)
    [] kind = "list" -> ReadVarstrList(s)
    [] OTHER -> ReadBytes(HashLen, s)
WriteField(kind, v) ==
  CASE kind = "int" -> PutUvarint(v)
    [] kind = "byte" -> <<v>>
    [] kind = "str" -> WriteVarstr31(v)
    [] kind = "list" -> WriteVarstrList(v)
    [] OTHER -> v
ReadFields(layout, s) ==
  LET RECURSIVE More(_, _, _)
      More(i, x, b) ==
        IF i > Len(layout) THEN Read(x, b)
        ELSE Then(ReadField(layout[i][2], b), LAMBDA v, rest : More(i + 1, (layout[i][1] :> v) @@ x, rest))
  IN More(1, <<>>, s)
WriteFields(layout, x) == FlattenSeq([i \in DOMAIN layout |-> WriteField(layout[i][2], x[layout[i][1]])])
-----------------------------------------------------------------------------
(* Commitments.  Both writeContents append the suffix, and so does         *)
(* WriteExtensibleString.                                                  *)

AssetAmountReads == << <<"AssetId", "hash">>, <<"Amount", "int">> >>
AssetAmountWrites == << <<"AssetId", "hash">>, <<"Amount", "int">> >>
OutputCommitmentReads == AssetAmountReads \o << <<"VMVersion", "int">>, <<"ControlProgram", "str">> >>
OutputCommitmentWrites == AssetAmountWrites \o << <<"VMVersion", "int">>, <<"ControlProgram", "str">> >>
SpendCommitmentReads ==
  << <<"SourceID", "hash">> >> \o AssetAmountReads
  \o << <<"SourcePosition", "int">>, <<"VMVersion", "int">>, <<"ControlProgram", "str">>, <<"RefDataHash", "hash">> >>

\* Mutant: the position comes before the asset and amount.
SpendCommitmentWritesPositionFirst ==
  << <<"SourceID", "hash">>, <<"SourcePosition", "int">> >> \o AssetAmountWrites
  \o << <<"VMVersion", "int">>, <<"ControlProgram", "str">>, <<"RefDataHash", "hash">> >>
SpendCommitmentWrites ==
  << <<"SourceID", "hash">> >> \o AssetAmountWrites
  \o << <<"SourcePosition", "int">>, <<"VMVersion", "int">>, <<"ControlProgram", "str">>, <<"RefDataHash", "hash">> >>

ReadCommitment(layout, assetVersion, s) ==
  ReadExtensibleString(LAMBDA b :
    IF assetVersion # 1 THEN Read(Nil, b)
    ELSE Then(ReadFields(layout, b), LAMBDA x, rest : IF x.VMVersion = 1 THEN Read(x, rest) ELSE Fail), s)
WriteContents(layout, x, suffix, assetVersion) ==
  (IF assetVersion = 1 THEN WriteFields(layout, x) ELSE <<>>) \o suffix
WriteCommitment(layout, x, suffix, assetVersion) ==
  WriteExtensibleString(WriteContents(layout, x, suffix, assetVersion), suffix)
-----------------------------------------------------------------------------
(* Inputs.  One with an unknown asset version has no typed part.           *)

IssuanceReads == << <<"Nonce", "str">>, <<"AssetId", "hash">>, <<"Amount", "int">> >>
IssuanceWrites == << <<"Nonce", "str">>, <<"AssetId", "hash">>, <<"Amount", "int">> >>
IssuanceWitnessReads ==
  << <<"InitialBlock", "hash">>, <<"AssetDefinition", "str">>, <<"VMVersion", "int">>, <<"IssuanceProgram", "str">> >>
IssuanceWitnessWrites ==
  << <<"InitialBlock", "hash">>, <<"AssetDefinition", "str">>, <<"VMVersion", "int">>, <<"IssuanceProgram", "str">>,
     <<"Arguments", "list">> >>

ReadInputCommitment(s) ==
  Then(ReadByte(s), LAMBDA type, b :
    CASE type = 0 -> Then(ReadFields(IssuanceReads, b), LAMBDA x, rest : Read([type |-> 0] @@ x, rest))
      [] type = 1 -> Then(ReadCommitment(SpendCommitmentReads, 1, b), LAMBDA c, rest :
                       Read([type |-> 1, SpendCommitmentSuffix |-> c.suffix] @@ c.contents, rest))
      [] OTHER -> Fail)
ReadInputWitness(typed, s) ==
  Then(IF typed.type = 0 THEN ReadFields(IssuanceWitnessReads, s) ELSE Read(<<>>, s), LAMBDA w, b :
    IF typed.type = 0 /\ AssetIDHash(w) # typed.AssetId THEN Fail
    ELSE Then(ReadVarstrList(b), LAMBDA args, rest : Read([Arguments |-> args] @@ w @@ typed, rest)))
ReadTxInput(s) ==
  Then(ReadVarint63(s), LAMBDA v, s1 :
  Then(ReadExtensibleString(LAMBDA b : IF v # 1 THEN Read(Nil, b) ELSE ReadInputCommitment(b), s1), LAMBDA c, s2 :
  Then(ReadVarstr31(s2), LAMBDA data, s3 :
  Then(ReadExtensibleString(LAMBDA b : IF v # 1 THEN Read(Nil, b) ELSE ReadInputWitness(c.contents, b), s3), LAMBDA w, s4 :
    Read([AssetVersion |-> v, CommitmentSuffix |-> c.suffix, ReferenceData |-> data,
          WitnessSuffix |-> w.suffix, TypedInput |-> w.contents], s4)))))

WriteInputCommitment(t) ==
  IF t.AssetVersion # 1 THEN <<>>
  ELSE IF t.TypedInput.type = 0 THEN <<0>> \o WriteFields(IssuanceWrites, t.TypedInput)
  ELSE <<1>> \o WriteCommitment(SpendCommitmentWrites, t.TypedInput, t.TypedInput.SpendCommitmentSuffix, 1)
WriteInputWitness(t) ==
  IF t.AssetVersion # 1 THEN <<>>
  ELSE IF t.TypedInput.type = 0 THEN WriteFields(IssuanceWitnessWrites, t.TypedInput)
  ELSE WriteVarstrList(t.TypedInput.Arguments)
WriteTxInput(t) ==
  PutUvarint(t.AssetVersion)
  \o WriteExtensibleString(WriteInputCommitment(t), t.CommitmentSuffix)
  \o WriteVarstr31(t.ReferenceData)
  \o WriteExtensibleString(WriteInputWitness(t), t.WitnessSuffix)
-----------------------------------------------------------------------------
(* Outputs, transactions, block headers and blocks.                        *)

ReadTxOutput(s) ==
  Then(ReadVarint63(s), LAMBDA v, s1 :
  Then(ReadCommitment(OutputCommitmentReads, v, s1), LAMBDA c, s2 :
  Then(ReadVarstr31(s2), LAMBDA data, s3 :
  Then(ReadVarstr31(s3), LAMBDA witness, s4 :
    Read([AssetVersion |-> v, CommitmentSuffix |-> c.suffix, ReferenceData |-> data, OutputCommitment |-> c.contents], s4)))))
WriteTxOutput(to) ==
  PutUvarint(to.AssetVersion)
  \o WriteCommitment(OutputCommitmentWrites, to.OutputCommitment, to.CommitmentSuffix, to.AssetVersion)
  \o WriteVarstr31(to.ReferenceData)
  \o WriteVarstr31(<<>>)

serRequired == 7
CommonFieldsReads == << <<"MinTime", "int">>, <<"MaxTime", "int">> >>
CommonFieldsWrites == << <<"MinTime", "int">>, <<"MaxTime", "int">> >>
ReadTxData(s) ==
  Then(ReadByte(s), LAMBDA flags, s1 :
  IF flags # serRequired THEN Fail ELSE
  Then(ReadVarint63(s1), LAMBDA v, s2 :
  Then(ReadExtensibleString(LAMBDA b : ReadFields(CommonFieldsReads, b), s2), LAMBDA common, s3 :
  Then(ReadExtensibleString(LAMBDA b : Read(Nil, b), s3), LAMBDA witness, s4 :
  Then(ReadList(ReadTxInput, s4), LAMBDA ins, s5 :
  Then(ReadList(ReadTxOutput, s5), LAMBDA outs, s6 :
  Then(ReadVarstr31(s6), LAMBDA data, s7 :
    Read([Version |-> v, CommonFieldsSuffix |-> common.suffix, CommonWitnessSuffix |-> witness.suffix,
          Inputs |-> ins, Outputs |-> outs, ReferenceData |-> data] @@ common.contents, s7))))))))
WriteTxData(tx) ==
  <<serRequired>> \o PutUvarint(tx.Version)
  \o WriteExtensibleString(WriteFields(CommonFieldsWrites, tx), tx.CommonFieldsSuffix)
  \o WriteExtensibleString(<<>>, tx.CommonWitnessSuffix)
  \o PutUvarint(Len(tx.Inputs)) \o FlattenSeq([i \in DOMAIN tx.Inputs |-> WriteTxInput(tx.Inputs[i])])
  \o PutUvarint(Len(tx.Outputs)) \o FlattenSeq([i \in DOMAIN tx.Outputs |-> WriteTxOutput(tx.Outputs[i])])
  \o WriteVarstr31(tx.ReferenceData)

\* UnmarshalText and Scan of transactions and blocks refuse bytes that are left over.
Whole(r) == IF r.ok /\ r.rest = <<>> THEN r.val ELSE Nil
UnmarshalTx(s) == Whole(ReadTxData(s))

SerBlockHeader == 1
SerBlockFull == 3
HeaderReads == << <<"Version", "int">>, <<"Height", "int">>, <<"PreviousBlockHash", "hash">>, <<"TimestampMS", "int">> >>
HeaderWrites == << <<"Version", "int">>, <<"Height", "int">>, <<"PreviousBlockHash", "hash">>, <<"TimestampMS", "int">> >>
BlockCommitmentReads ==
  << <<"TransactionsMerkleRoot", "hash">>, <<"AssetsMerkleRoot", "hash">>, <<"ConsensusProgram", "str">> >>
BlockCommitmentWrites ==
  << <<"TransactionsMerkleRoot", "hash">>, <<"AssetsMerkleRoot", "hash">>, <<"ConsensusProgram", "str">> >>

\* io.ReadFull's error is dropped: no bytes at all read as flags of 0.
ReadBlockHeader(s) ==
  Then(IF s = <<>> THEN Read(0, s) ELSE ReadByte(s), LAMBDA flags, s1 :
  IF flags \notin {0, SerBlockHeader, SerBlockFull} THEN Fail ELSE
  Then(ReadFields(HeaderReads, s1), LAMBDA fields, s2 :
  Then(ReadExtensibleString(LAMBDA b : ReadFields(BlockCommitmentReads, b), s2), LAMBDA commitment, s3 :
  Then(IF flags = 0 THEN Read([contents |-> <<>>, suffix |-> <<>>], s3)
       ELSE ReadExtensibleString(ReadVarstrList, s3), LAMBDA witness, s4 :
    Read([flags |-> flags, header |->
           [CommitmentSuffix |-> commitment.suffix, Witness |-> witness.contents,
            WitnessSuffix |-> witness.suffix] @@ fields @@ commitment.contents], s4)))))
WriteBlockHeader(bh, flags) ==
  <<flags>> \o WriteFields(HeaderWrites, bh)
  \o WriteExtensibleString(WriteFields(BlockCommitmentWrites, bh), bh.CommitmentSuffix)
  \o (IF flags = 0 THEN <<>> ELSE WriteExtensibleString(WriteVarstrList(bh.Witness), bh.WitnessSuffix))
UnmarshalHeader(s) == Then(ReadBlockHeader(s), LAMBDA h, rest : Read(h.header, rest)).val

ReadBlock(s) ==
  Then(ReadBlockHeader(s), LAMBDA h, b :
  Then(IF h.flags = SerBlockFull THEN ReadList(ReadTxData, b) ELSE Read(<<>>, b), LAMBDA txs, rest :
    Read([header |-> h.header, txs |-> txs], rest)))
WriteBlock(b) ==
  WriteBlockHeader(b.header, SerBlockFull)
  \o PutUvarint(Len(b.txs)) \o FlattenSeq([i \in DOMAIN b.txs |-> WriteTxData(b.txs[i])])
UnmarshalBlock(s) == Whole(ReadBlock(s))
-----------------------------------------------------------------------------
(* bc.writeForHash: what is hashed of an entry's body.  A nil hash counts  *)
(* as zero bytes, any other nil pointer as nothing.                        *)

ValueFields == << <<"asset", "hash">>, <<"amount", "int">> >>
SourceFields == << <<"ref", "hash">>, <<"value", "value">>, <<"position", "int">> >>
ProgramFields == << <<"version", "int">>, <<"code", "str">> >>
HashFields ==
  [output1 |-> << <<"source", "source">>, <<"program", "program">>, <<"data", "hash">>, <<"ext", "hash">> >>,
   retirement1 |-> << <<"source", "source">>, <<"data", "hash">>, <<"ext", "hash">> >>,
   spend1 |-> << <<"spent", "hash">>, <<"data", "hash">>, <<"ext", "hash">> >>,
   issuance1 |-> << <<"anchor", "hash">>, <<"value", "value">>, <<"data", "hash">>, <<"ext", "hash">> >>,
   nonce1 |-> << <<"program", "program">>, <<"timeRange", "hash">>, <<"ext", "hash">> >>,
   timerange1 |-> << <<"min", "int">>, <<"max", "int">>, <<"ext", "hash">> >>,
   mux1 |-> << <<"sources", "sources">>, <<"program", "program">>, <<"ext", "hash">> >>,
   txheader |-> << <<"version", "int">>, <<"results", "hashes">>, <<"data", "hash">>, <<"min", "int">>, <<"max", "int">>,
                   <<"ext", "hash">> >>]

RECURSIVE WriteForHash(_, _)
StructForHash(layout, x) ==
  IF x = Nil THEN <<>> ELSE FlattenSeq([i \in DOMAIN layout |-> WriteForHash(layout[i][2], x[layout[i][1]])])

ListForHash(kind, list) == PutUvarint(Len(list)) \o FlattenSeq([i \in DOMAIN list |-> WriteForHash(kind, list[i])])
WriteForHash(kind, v) ==
  CASE kind = "int" -> PutUvarint(v)
    [] kind = "str" -> WriteVarstr31(v)
    [] kind = "hash" -> IF v = Nil THEN [i \in 1 .. HashLen |-> 0] ELSE v
    [] kind = "value" -> StructForHash(ValueFields, v)
    [] kind = "source" -> StructForHash(SourceFields, v)
    [] kind = "program" -> StructForHash(ProgramFields, v)
    [] kind = "hashes" -> ListForHash("hash", v)
    [] kind = "sources" -> ListForHash("source", v)
HashInput(typ, body) == StructForHash(HashFields[typ], body)
=============================================================================
