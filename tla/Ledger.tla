------------------------------- MODULE Ledger -------------------------------
(***************************************************************************)
(* What protocol.Chain promises of the chain it builds, with storage left  *)
(* out: GenerateBlock turns a pool of transactions into a draft block, one *)
(* transaction at a time, on a copy of the current snapshot, and           *)
(* CommitAppliedBlock makes the draft the new tip (its SaveBlock "is the   *)
(* linearization point").  Nothing is assumed of the pool: any transaction *)
(* may be offered any number of times, in any order.                       *)
(***************************************************************************)
EXTENDS Snapshot, Sequences

CONSTANTS None, Timestamp, MaxHeight, MaxBlockTxs

ASSUME LedgerAssumption ==
  /\ Timestamp \subseteq Nat
  /\ MaxHeight \in Nat
  /\ MaxBlockTxs \in Nat
  /\ None \notin [ts : Nat, snap : SnapshotType, txs : Seq(Tx)]

VARIABLES height,  \* height of the committed chain
          time,    \* timestamp of its last block
          snap,    \* the state after it
          log,     \* the confirmed transactions: [height, pos, tx]
          draft    \* the block being generated, or None

vars == <<height, time, snap, log, draft>>

Entry == [height : Nat, pos : Nat, tx : Tx]
Draft == [ts : Nat, snap : SnapshotType, txs : Seq(Tx)]

Init ==
  /\ height = 0
  /\ time = 0
  /\ snap = Empty
  /\ log = {}
  /\ draft = None

\* GenerateBlock: the timestamp may not be earlier than the previous block's.
StartBlock(ts) ==
  /\ draft = None
  /\ height < MaxHeight
  /\ ~(ts < time)
  /\ draft' = [ts |-> ts, snap |-> PruneNonces(snap, ts), txs |-> <<>>]
  /\ UNCHANGED <<height, time, snap, log>>

\* One iteration of GenerateBlock's loop that puts tx into the block.
AddTx(tx) ==
  /\ draft # None
  /\ Len(draft.txs) < MaxBlockTxs
  /\ tx.valid
  /\ Timely(tx, draft.ts)
  /\ CanApply(draft.snap, tx)
  /\ draft' = [draft EXCEPT !.snap = Applied(draft.snap, tx),
                            !.txs = Append(draft.txs, tx)]
  /\ UNCHANGED <<height, time, snap, log>>

\* One iteration in which ApplyTx fails: tx is left out, its effects are not.
SkipTx(tx) ==
  /\ draft # None
  /\ Len(draft.txs) < MaxBlockTxs
  /\ tx.valid
  /\ Timely(tx, draft.ts)
  /\ ~CanApply(draft.snap, tx)
  /\ \E s \in FailedApply(draft.snap, tx) : draft' = [draft EXCEPT !.snap = s]
  /\ UNCHANGED <<height, time, snap, log>>

\* CommitAppliedBlock of the draft.
CommitBlock ==
  /\ draft # None
  /\ height' = height + 1
  /\ time' = draft.ts
  /\ snap' = draft.snap
  /\ log' = log \cup {[height |-> height + 1, pos |-> i, tx |-> draft.txs[i]] :
                        i \in 1 .. Len(draft.txs)}
  /\ draft' = None

\* The draft is dropped: an empty block, an error on the way, or a crash.
DropBlock ==
  /\ draft # None
  /\ draft' = None
  /\ UNCHANGED <<height, time, snap, log>>

Next ==
  \/ \E ts \in Timestamp : StartBlock(ts)
  \/ \E tx \in Tx : AddTx(tx) \/ SkipTx(tx)
  \/ CommitBlock
  \/ DropBlock

Spec == Init /\ [][Next]_vars

-----------------------------------------------------------------------------
TypeOK ==
  /\ height \in Nat
  /\ time \in Nat
  /\ snap \in SnapshotType
  /\ log \subseteq Entry
  /\ draft \in Draft \cup {None}

(***************************************************************************)
(* No output is spent, and no nonce used, by two confirmed transactions,   *)
(* or twice by the same one: ApplyTx's checks, PruneNonces' expiry and the *)
(* time ranges that GenerateBlock enforces leave no gap to replay in.      *)
(***************************************************************************)
NoDoubleSpend ==
  \A e, f \in log : e # f =>
    /\ e.tx.spent \cap f.tx.spent = {}
    /\ e.tx.nonces \cap f.tx.nonces = {}

(***************************************************************************)
(* Every output in the state tree was created by a confirmed transaction   *)
(* and spent by none: what CanApply accepts later is really unspent.       *)
(***************************************************************************)
TreeIsUnspent ==
  \A o \in snap.tree :
    /\ \E e \in log : o \in e.tx.results
    /\ \A e \in log : o \notin e.tx.spent
=============================================================================
