------------------------------ MODULE VMContext ------------------------------
(***************************************************************************)
(* What a program may ask about the block or the transaction entry it      *)
(* guards: protocol/validation/vmcontext.go.  Hashes, asset IDs, data and  *)
(* programs are byte strings; an absent field is Nil.                      *)
(***************************************************************************)
EXTENDS Naturals, Sequences

CONSTANTS
  Nil,          \* the nil pointer
  SigHash(_, _) \* TXSIGHASH: the hash of an entry ID and a transaction ID

\* The fields of vm.Context that hold byte strings or nil.
ByteFields == <<"EntryID", "BlockHash", "NextConsensusProgram", "AssetID", "EntryData",
                "TxData", "AnchorID", "SpentOutputID", "TxSigHash">>

NoContext ==
  [VMVersion |-> 1, Code |-> <<>>, Arguments |-> <<>>, TxVersion |-> Nil,
   EntryID |-> <<>>, BlockHash |-> Nil, NextConsensusProgram |-> Nil, AssetID |-> Nil,
   EntryData |-> Nil, TxData |-> Nil, AnchorID |-> Nil, SpentOutputID |-> Nil,
   TxSigHash |-> Nil, BlockTimeMS |-> Nil, Amount |-> Nil, MinTimeMS |-> Nil,
   MaxTimeMS |-> Nil, DestPos |-> Nil, CheckOutput |-> Nil]

newBlockVMContext(block, prog, args) ==
  [NoContext EXCEPT !.Code = prog, !.Arguments = args, !.BlockHash = block.ID,
                    !.BlockTimeMS = block.TimestampMs,
                    !.NextConsensusProgram = block.NextConsensusProgram]

\* The entry decides which of the asset, amount, position, anchor and spent
\* output the program sees.  tx.Entries maps the ID of an entry to it.
NewTxVMContext(tx, id, prog, args) ==
  LET e == tx.Entries[id]
      valued == CASE e.type = "nonce" -> LET a == tx.Entries[e.anchored]
                                         IN IF a.type = "issuance" THEN a.value ELSE Nil
                  [] e.type = "issuance" -> e.value
                  [] e.type = "spend" -> tx.Entries[e.spentOutput].source.value
                  [] OTHER -> Nil
  IN [NoContext EXCEPT
        !.VMVersion = prog.vmVersion, !.Code = prog.code, !.Arguments = args,
        !.TxVersion = tx.Version, !.EntryID = id, !.TxData = tx.Data,
        !.TxSigHash = SigHash(id, tx.ID),
        !.AssetID = IF valued = Nil THEN Nil ELSE valued.asset,
        !.Amount = IF valued = Nil THEN Nil ELSE valued.amount,
        !.MinTimeMS = tx.MinTimeMs, !.MaxTimeMS = tx.MaxTimeMs,
        !.EntryData = IF e.type \in {"issuance", "spend", "output", "retirement"} THEN e.data ELSE Nil,
        !.DestPos = IF e.type \in {"issuance", "spend"} THEN e.dest.pos ELSE Nil,
        !.AnchorID = IF e.type = "issuance" THEN e.anchor ELSE Nil,
        !.SpentOutputID = IF e.type = "spend" THEN e.spentOutput ELSE Nil,
        !.CheckOutput = [entry |-> e, entries |-> tx.Entries]]

Answer(b) == [ok |-> b, err |-> "nil"]
NoAnswer(e) == [ok |-> FALSE, err |-> e]

\* Does an output or a retirement look as q describes it?
Matches(q, prog, value, dataHash) ==
  /\ prog.vmVersion = q.vmVersion /\ prog.code = q.code
  /\ value.asset = q.assetID /\ value.amount = q.amount
  /\ q.data = <<>> \/ dataHash = q.data

\* CHECKOUTPUT: is destination q.index of the entry's mux, or the entry's own
\* destination when it has no mux, an output or a retirement as described by q?
checkOutput(ec, q) ==
  LET checkEntry(e) ==
        CASE e.type = "output" -> Answer(Matches(q, e.program, e.source.value, e.data))
          [] e.type = "retirement" ->
               Answer(Matches(q, [vmVersion |-> 0, code |-> IF q.expansion THEN q.code ELSE <<>>],
                              e.source.value, e.data))
          [] OTHER -> NoAnswer("ErrContext")
      Found(id, F(_)) ==
        IF id \in DOMAIN ec.entries THEN F(ec.entries[id]) ELSE NoAnswer("ErrMissingEntry")
      checkMux(m) ==
        IF q.index >= Len(m.dests) THEN NoAnswer("ErrBadValue")
        ELSE Found(m.dests[q.index + 1].ref, checkEntry)
      checkDest(d) ==
        IF d.type = "mux" THEN checkMux(d)
        ELSE IF q.index # 0 THEN NoAnswer("ErrBadValue") ELSE checkEntry(d)
  IN CASE ec.entry.type = "mux" -> checkMux(ec.entry)
       [] ec.entry.type \in {"issuance", "spend"} -> Found(ec.entry.dest.ref, checkDest)
       [] OTHER -> NoAnswer("ErrContext")
=============================================================================
