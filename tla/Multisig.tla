------------------------------ MODULE Multisig ------------------------------
(***************************************************************************)
(* The programs protocol/vmutil builds and parses: the consensus program   *)
(* of a block (BLOCKHASH keys m n CHECKMULTISIG) and the pay-to-signature- *)
(* program multisig control program of an account.                         *)
(***************************************************************************)
EXTENDS Program

IsUnspendable(prog) == Len(prog) > 0 /\ prog[1] = OpByte("FAIL")

checkMultiSigParams(nrequired, npubkeys) ==
  /\ nrequired >= 0 /\ npubkeys >= 0
  /\ nrequired <= npubkeys
  /\ nrequired = 0 => npubkeys = 0

Op1(name) == <<OpByte(name)>>
PushKeys(pubkeys) == FlattenSeq([i \in DOMAIN pubkeys |-> PushdataBytes(pubkeys[i])])
Built(prog) == [prog |-> prog, err |-> "nil"]
Parsed(keys, m) == [keys |-> keys, m |-> m, err |-> "nil"]
NotParsed(e) == [keys |-> <<>>, m |-> 0, err |-> e]

BlockMultiSigProgram(pubkeys, nrequired) ==
  IF ~checkMultiSigParams(nrequired, Len(pubkeys)) THEN [prog |-> <<>>, err |-> "ErrBadValue"]
  ELSE Built(Op1("BLOCKHASH") \o PushKeys(pubkeys) \o PushdataInt64(nrequired)
             \o PushdataInt64(Len(pubkeys)) \o Op1("CHECKMULTISIG"))

P2SPMultiSigProgram(pubkeys, nrequired) ==
  IF ~checkMultiSigParams(nrequired, Len(pubkeys)) THEN [prog |-> <<>>, err |-> "ErrBadValue"]
  ELSE Built(Op1("DUP") \o Op1("TOALTSTACK") \o Op1("SHA3") \o PushKeys(pubkeys)
             \o PushdataInt64(nrequired) \o PushdataInt64(Len(pubkeys))
             \o Op1("CHECKMULTISIG") \o Op1("VERIFY") \o Op1("FROMALTSTACK")
             \o PushdataInt64(0) \o Op1("CHECKPREDICATE"))

AllKeys(keys, nrequired) ==
  IF \E i \in DOMAIN keys : Len(keys[i]) # KeyLen THEN Parsed(<<>>, 0) ELSE Parsed(keys, nrequired)

\* The keys are the npubkeys instructions before position last (1-based); a
\* key of the wrong length makes the parser return no keys and no error.
KeysBefore(pops, last, npubkeys, nrequired) ==
  AllKeys([i \in 1 .. npubkeys |-> pops[last - npubkeys + i - 1].data], nrequired)

\* The number that instruction i pushes.
PushedInt(pops, i) == AsInt64(pops[i].data)

BlockMultiSigOf(pops, n, npubkeys, nrequired) ==
  CASE OpName(pops[n].op) # "CHECKMULTISIG" -> NotParsed("ErrMultisigFormat")
    [] ~npubkeys.ok -> NotParsed("ErrMultisigFormat")
    [] npubkeys.ok /\ npubkeys.val # n - 4 -> NotParsed("ErrShortProgram")
    [] ~nrequired.ok -> NotParsed("ErrMultisigFormat")
    [] ~checkMultiSigParams(nrequired.val, npubkeys.val) -> NotParsed("ErrBadValue")
    [] OTHER -> KeysBefore(pops, n - 2, npubkeys.val, nrequired.val)
BlockMultiSigIn(p, n) ==
  CASE p.err # "nil" -> NotParsed(p.err)
    [] n < 4 -> NotParsed("ErrShortProgram")
    [] OTHER -> BlockMultiSigOf(p.insts, n, PushedInt(p.insts, n - 1), PushedInt(p.insts, n - 2))
WithLength(p, F(_, _)) == F(p, Len(p.insts))
ParseBlockMultiSigProgram(script) == WithLength(ParseProgram(script), BlockMultiSigIn)

P2SPMultiSigOf(pops, n, npubkeys, nrequired) ==
  CASE ~npubkeys.ok -> NotParsed("ErrBadValue")
    [] npubkeys.ok /\ npubkeys.val > n - 10 -> NotParsed("ErrShortProgram")
    [] ~nrequired.ok -> NotParsed("ErrBadValue")
    [] ~checkMultiSigParams(nrequired.val, npubkeys.val) -> NotParsed("ErrBadValue")
    [] OTHER -> KeysBefore(pops, n - 6, npubkeys.val, nrequired.val)
P2SPMultiSigIn(p, n) ==
  CASE p.err # "nil" -> NotParsed(p.err)
    [] n < 11 -> NotParsed("ErrShortProgram")
    [] OTHER -> P2SPMultiSigOf(p.insts, n, PushedInt(p.insts, n - 5), PushedInt(p.insts, n - 6))
ParseP2SPMultiSigProgram(program) == WithLength(ParseProgram(program), P2SPMultiSigIn)
-----------------------------------------------------------------------------
(* Reference                                                               *)

BlockRoundTrip(b, keys, m) ==
  /\ b.err = "nil" => ParseBlockMultiSigProgram(b.prog) = Parsed(keys, m)
  /\ b.err = "nil" <=> (m \in 1 .. Len(keys) \/ (m = 0 /\ keys = <<>>))
P2SPRoundTrip(c, keys, m) ==
  c.err = "nil" /\ keys # <<>> => ParseP2SPMultiSigProgram(c.prog) = Parsed(keys, m)

\* Parsing a multisig program gives the keys and the quorum it was built
\* from; the parser of control programs wants at least one key.
MultisigRoundTrip(keys, m) ==
  BlockRoundTrip(BlockMultiSigProgram(keys, m), keys, m) /\ P2SPRoundTrip(P2SPMultiSigProgram(keys, m), keys, m)
=============================================================================
