-------------------------------- MODULE MCVM --------------------------------
(* Small programs, arguments and contexts for the virtual machine, and the *)
(* inputs on which its encodings and its arithmetic are compared with      *)
(* reference definitions: one input at a time, in the variable `case`.     *)
EXTENDS VM, TLC

MCHash(x) ==
  LET h == FoldLeft(LAMBDA acc, b : (acc * 31 + b + 7) % 65536, 5, x)
  IN <<h % 256, h \div 256>>
MCSign(pub, msg) == pub \o msg
MCSigned(pub, msg, sig) == sig = MCSign(pub, msg)
MCSigHash(id, txid) == MCHash(id \o txid)

B(name) == OpByte(name)
Words == {<<>>, <<1>>, <<3>>, <<255, 255>>, <<0, 128>>, <<255, 127>>, <<1, 2, 3>>}
Few == {<<>>, <<1>>, <<2>>}
ArgLists ==
  {<<>>} \cup {<<a>> : a \in Words} \cup {<<a, b>> : a, b \in Words}
  \cup {<<a, b, c>> : a, b, c \in Few} \cup {<<<<1, 2, 3>>, b, c>> : b, c \in Few}
  \cup {<<<<9>>, <<8>>, <<7>>, <<6>>>>, <<<<9>>, <<8>>, <<7>>, <<6>>, <<5>>, <<4>>, <<3>>>>}

Key(i) == <<10 + i, i>>
Message == <<42, 43>>
Block == [ID |-> Message, TimestampMs |-> 7, NextConsensusProgram |-> <<81>>]
InBlock(prog, args) == newBlockVMContext(Block, prog, args)

\* A transaction that spends output o0 and issues into a mux with two
\* destinations: output o1 and retirement r1.
AssetA == <<77, 77>>
Val(n) == [asset |-> AssetA, amount |-> n]
Link(ref, n, pos) == [ref |-> ref, value |-> Val(n), pos |-> pos]
Prog(code) == [vmVersion |-> 1, code |-> code]
Tx ==
  [ID |-> <<1, 1>>, Version |-> 1, Data |-> <<6, 6>>, MinTimeMs |-> 3, MaxTimeMs |-> 60000,
   Entries |->
     (<<2, 1>> :> [type |-> "mux", sources |-> <<Link(<<2, 2>>, 5, 0), Link(<<2, 3>>, 4, 0)>>,
                   dests |-> <<Link(<<2, 4>>, 6, 0), Link(<<2, 5>>, 3, 0), Link(<<2, 9>>, 0, 0)>>]) @@
     (<<2, 2>> :> [type |-> "spend", spentOutput |-> <<2, 6>>, dest |-> Link(<<2, 1>>, 5, 0),
                   data |-> <<6, 7>>]) @@
     (<<2, 3>> :> [type |-> "issuance", anchor |-> <<2, 7>>, value |-> Val(4),
                   dest |-> Link(<<2, 1>>, 4, 1), data |-> <<6, 8>>]) @@
     (<<2, 4>> :> [type |-> "output", source |-> Link(<<2, 1>>, 6, 0), program |-> Prog(<<81>>),
                   data |-> <<6, 9>>]) @@
     (<<2, 5>> :> [type |-> "retirement", source |-> Link(<<2, 1>>, 3, 1), data |-> <<6, 9>>]) @@
     (<<2, 6>> :> [type |-> "output", source |-> Link(<<2, 8>>, 5, 0), program |-> Prog(<<81>>),
                   data |-> <<6, 9>>]) @@
     (<<2, 7>> :> [type |-> "nonce", anchored |-> <<2, 3>>])]
InTx(id, prog, args) == NewTxVMContext(Tx, id, Prog(prog), args)
TxIds == {<<2, 1>>, <<2, 2>>, <<2, 3>>, <<2, 7>>}

OneOp == {InBlock(<<b>>, args) : b \in (DOMAIN Ops \cup {80, 138}) \ (1 .. 75), args \in ArgLists}

\* CHECKPREDICATE on every opcode with several limits and argument counts.
ChildArgs == {<<>>, <<<<1>>>>, <<<<1, 2, 3>>, <<2>>>>, <<<<1>>, <<3>>, <<1>>>>}
Children ==
  {InBlock(<<B("CHECKPREDICATE")>>, args \o <<n, <<b>>, limit>>) :
     b \in (DOMAIN Ops \cup {80}) \ (2 .. 75), args \in ChildArgs,
     n \in {<<>>, <<1>>, <<2>>, <<255, 255>>}, limit \in {<<>>, <<2>>, <<30>>, <<255, 255>>}}

Introspection ==
  {InTx(id, <<b>>, <<>>) : id \in TxIds, b \in DOMAIN ContextOps \cup {80}}
  \cup {InTx(id, <<B("CHECKOUTPUT")>>, <<<<i>>, data, <<n>>, AssetA, v, code>>) :
          id \in TxIds, i \in 0 .. 3, data \in {<<>>, <<6, 9>>}, n \in {3, 6},
          v \in {<<>>, <<1>>}, code \in {<<>>, <<81>>}}
  \cup {[InTx(<<2, 2>>, <<80>>, <<>>) EXCEPT !.VMVersion = 2],
        [InTx(<<2, 2>>, <<80>>, <<>>) EXCEPT !.TxVersion = 2],
        InTx(<<2, 2>>, <<81>>, <<[i \in 1 .. 2000 |-> 1]>>)}

\* Loops, jumps and short programs.
Control ==
  {InBlock(prog, args) :
     prog \in {<<99, 0, 0>>, <<100, 0, 0>>, <<81, 100, 0, 0>>, <<99, 4, 0, 106, 81>>,
               <<99, 9, 9>>, <<99, 1>>, <<76>>, <<76, 2, 1>>, <<76, 1, 7>>, <<77, 1, 0, 9>>,
               <<77, 255, 255, 9>>, <<78, 1, 0, 9>>, <<78, 255, 255, 1>>, <<2, 1>>, <<1, 5>>,
               <<81, 147, 99, 0, 0>>, <<>>},
     args \in {<<>>, <<<<1>>, <<>>>>, <<<<1>>, <<1>>, <<1>>>>}}
  \cup {InBlock(<<118, 99, 0, 0>>, <<[i \in 1 .. n |-> 0]>>) : n \in {100, 200}}

\* Two instructions after one argument.
Pairs ==
  {InBlock(<<81, a, b>>, <<<<1, 2, 3>>>>) :
     a, b \in {118, 107, 108, 116, 120, 123, 124, 125, 126, 128, 130, 131, 135, 140, 170}}

\* Consensus programs of two keys with all short lists of signatures.
Sigs == {MCSign(Key(1), Message), MCSign(Key(2), Message), <<0>>}
SigLists == {<<>>} \cup {<<a>> : a \in Sigs} \cup {<<a, b>> : a, b \in Sigs}
KeyLists == {<<Key(1)>>, <<Key(1), Key(2)>>, <<Key(2), <<9>>>>}
Multisigs ==
  {InBlock(BlockMultiSigProgram(keys, m).prog, sigs) :
     keys \in KeyLists, m \in 1 .. 2, sigs \in SigLists}

\* Control programs of an account: arguments, their number, signatures over
\* the hash of the predicate, and the predicate.
Predicates == {<<81>>, <<0>>, <<106>>}
P2SPs ==
  {InTx(<<2, 2>>, P2SPMultiSigProgram(keys, m).prog,
        <<<<>>>> \o [i \in DOMAIN who |-> MCSign(Key(who[i]), MCHash(p))] \o <<p>>) :
     keys \in {<<Key(1)>>, <<Key(1), Key(2)>>}, m \in 1 .. 2, p \in Predicates,
     who \in {<<>>, <<1>>, <<2>>, <<1, 2>>, <<2, 1>>}}

MCContexts == OneOp \cup Children \cup Introspection \cup Control \cup Pairs \cup Multisigs \cup P2SPs

\* An item is duplicated, one copy is cut, and bytes are put behind the cut.
MCSplices ==
  {InBlock(<<B("DUP"), 81, cut, 81, B("CAT")>>, <<<<1, 2, 3>>>>) : cut \in {B("LEFT"), B("RIGHT")}}
-----------------------------------------------------------------------------
VARIABLE case

NoCase == [kind |-> "none"]
Signed4 == IntType(4)
Unsigned4 == UintType(4)
Alphabet == {0, 1, 3, 76, 81, 99, 100}

Cases ==
  [kind : {"signed"}, a : Values(Signed4), b : Values(Signed4)]
  \cup [kind : {"unsigned"}, a : Values(Unsigned4), b : Values(Unsigned4)]
  \cup [kind : {"int"}, n : (-300 .. 300) \cup {Int64.min, Int64.min + 1, Int64.max - 1, Int64.max}]
  \cup [kind : {"data"}, len : {0, 1, 16, 74, 75, 76, 77, 255, 256, 257}]
  \cup [kind : {"program"}, prog : UNION {[1 .. k -> Alphabet] : k \in 0 .. 4}]
  \cup {[kind |-> "program", prog |-> <<99, t, 0>> \o p] :
          t \in 0 .. 7, p \in UNION {[1 .. k -> {1, 76, 81, 97}] : k \in 0 .. 3}}
  \cup [kind : {"multisig"}, n : 0 .. 20, m : -1 .. 21]

Choose ==
  /\ case.kind = "none" /\ verdict = "idle"
  /\ case' \in Cases
  /\ UNCHANGED vars
Drop == case.kind # "none" /\ case' = NoCase /\ UNCHANGED vars

MCInit == Init /\ case = NoCase
MCNext ==
  \/ case.kind = "none" /\ Next /\ UNCHANGED case
  \/ Choose
  \/ Drop
MCSpec == MCInit /\ [][MCNext]_<<vars, case>>

\* On every pair of 4-bit operands the checked operations agree with exact
\* arithmetic (checked.go).
ArithmeticExact ==
  /\ case.kind = "signed" => SignedExact(Signed4, case.a, case.b)
  /\ case.kind = "unsigned" => UnsignedExact(Unsigned4, case.a, case.b)

\* Values and pushes are read back as they were written (types.go, pushdata.go).
EncodingsInvert ==
  /\ case.kind = "int" => IntRoundTrip(case.n)
  /\ case.kind = "data" => DataRoundTrip([i \in 1 .. case.len |-> i % 256])

\* A disassembled program assembles to one that does the same (assemble.go).
DisassemblyIsFaithful == case.kind = "program" => Reassembles(case.prog)

\* Multisig programs are parsed into what they were built from (script.go).
MultisigInverts ==
  case.kind = "multisig" => MultisigRoundTrip([i \in 1 .. case.n |-> Key(i)], case.m)

\* What is written into a program is what is read from it: numbers, data, jumps over
\* both, and the keys and quorum of a multisig program (types.go, pushdata.go,
\* assemble.go, script.go).
ProgramsInvert == EncodingsInvert /\ DisassemblyIsFaithful /\ MultisigInverts
=============================================================================
