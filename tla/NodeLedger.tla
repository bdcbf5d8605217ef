----------------------------- MODULE NodeLedger -----------------------------
(***************************************************************************)
(* The node implements Ledger.  The ledger is the chain in table blocks:   *)
(* SaveBlock is the commit, as the comment in CommitAppliedBlock says.     *)
(* The draft is, in this order, the pending row while its block is not     *)
(* stored (it outlives a crash), the initial block while it is being       *)
(* saved, and the block that GenerateBlock is working on.                  *)
(***************************************************************************)
EXTENDS Node

ASSUME NodeLedgerAssumption ==
  MaxHeight > 0 /\ None \notin [ts : Nat, snap : SnapshotType, txs : Seq(Tx)]

State == Replay(blocks, StoreHeight).snap

DraftOf(b, s) == [ts |-> b.ts, snap |-> s, txs |-> b.txs]

LedgerDraft ==
  CASE pending # None /\ pending.height = StoreHeight + 1 ->
         DraftOf(pending, ApplyBlock(State, pending).snap)
    [] call.pc = "initial" /\ commit.pc = "save" /\ StoreHeight = 0 ->
         DraftOf(commit.b, commit.s)
    [] call.pc \in {"generate", "pending"} /\ call.prev # None ->
         DraftOf(call.b, call.s)
    [] OTHER -> None

LedgerLog == UNION {{[height |-> h, pos |-> i, tx |-> blocks[h].txs[i]] :
                       i \in DOMAIN blocks[h].txs} : h \in DOMAIN blocks}

Ledger == INSTANCE Ledger WITH
  height <- StoreHeight,
  time   <- IF StoreHeight = 0 THEN 0 ELSE blocks[StoreHeight].ts,
  snap   <- State,
  log    <- LedgerLog,
  draft  <- LedgerDraft

(***************************************************************************)
(* Every step of the node is a step of the ledger or none: whatever fails, *)
(* crashes or is retried, a block enters the chain once, complete, on the  *)
(* state it was generated on, and the state is the one the ledger has.     *)
(***************************************************************************)
ImplementsLedger ==
  Ledger!Init /\ [][UNCHANGED <<blocks, pending, call, commit>> \/ Ledger!Next]_(Ledger!vars)
=============================================================================
