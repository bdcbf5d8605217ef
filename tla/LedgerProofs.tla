---------------------------- MODULE LedgerProofs ----------------------------
(***************************************************************************)
(* No double spend and no replayed issuance, for every set of transactions *)
(* and every length of the chain.  The inductive invariant states the same *)
(* facts, Sound, of the committed chain and of the chain with the draft on *)
(* top of it.                                                              *)
(***************************************************************************)
EXTENDS Ledger, TLAPS

\* The entries the draft would add to the log.
DraftLog == {[height |-> height + 1, pos |-> i, tx |-> draft.txs[i]] :
               i \in 1 .. Len(draft.txs)}

(***************************************************************************)
(* Snapshot s accounts for the applications L of transactions up to time   *)
(* ts.  The second conjunct is the replay protection: a used nonce is      *)
(* still in the set or has expired.                                        *)
(***************************************************************************)
Sound(L, s, ts) ==
  /\ \A e \in L : e.tx.valid
  /\ \A e \in L : \A n \in e.tx.nonces : n \in s.nonces \/ Expiry[n] < ts
  /\ \A e, f \in L : e # f =>
       e.tx.spent \cap f.tx.spent = {} /\ e.tx.nonces \cap f.tx.nonces = {}
  /\ \A o \in s.tree : /\ \E e \in L : o \in e.tx.results
                       /\ \A e \in L : o \notin e.tx.spent
  /\ \A e \in L : \A o \in e.tx.spent : \E f \in L : o \in f.tx.results

LedgerInv ==
  /\ TypeOK
  /\ \A e \in log : e.height <= height
  /\ Sound(log, snap, time)
  /\ draft # None => /\ time <= draft.ts
                     /\ Sound(log \cup DraftLog, draft.snap, draft.ts)

-----------------------------------------------------------------------------
\* Adding a transaction that CanApply and Timely accept keeps the snapshot sound.
LEMMA SoundApplied ==
  ASSUME NEW L, L \subseteq Entry, NEW s \in SnapshotType, NEW ts \in Nat,
         NEW tx \in Tx, tx.valid, Timely(tx, ts), CanApply(s, tx),
         NEW g \in Entry, g \notin L, g.tx = tx,
         Sound(L, s, ts)
  PROVE  Sound(L \cup {g}, Applied(s, tx), ts)
<1> USE DEF Entry
<1> DEFINE t == Applied(s, tx)
           M == L \cup {g}
<1>1. tx \in Transaction /\ \A e \in L : e.tx \in Transaction /\ e.tx \in Tx
  BY TxAssumption
<1>2. t.tree = (s.tree \ tx.spent) \cup tx.results /\ t.nonces = s.nonces \cup tx.nonces
  BY DEF Applied
<1>3. \A n \in tx.nonces : n \in Nonce /\ ~(Expiry[n] < ts) /\ n \notin s.nonces
  <2>1. \A n \in tx.nonces : n \in Nonce /\ Expiry[n] = tx.maxTime /\ tx.maxTime > 0
    BY <1>1, EntryAssumption DEF Transaction
  <2>2. tx.maxTime > 0 => tx.maxTime >= ts
    BY DEF Timely
  <2>3. tx.maxTime \in Nat
    BY <1>1 DEF Transaction
  <2> QED BY <2>1, <2>2, <2>3 DEF CanApply
<1>4. \A e \in L : e.tx.nonces \cap tx.nonces = {}
  BY <1>3 DEF Sound
<1>5. \A e \in L : e.tx.spent \cap tx.spent = {}
  BY DEF Sound, CanApply
<1>6. \A e \in L : e.tx.results \cap tx.results = {}
  <2> SUFFICES ASSUME NEW e \in L, e.tx.results \cap tx.results # {}
               PROVE  FALSE
    OBVIOUS
  <2>1. e.tx.valid /\ e.tx \in Tx
    BY <1>1 DEF Sound
  <2>2. tx.nonces = e.tx.nonces /\ tx.spent = e.tx.spent /\ tx.nonces \cup tx.spent # {}
    BY <2>1, EntryAssumption
  <2> QED BY <2>2, <1>4, <1>5
<1>7. \A e \in M : e.tx.valid
  BY DEF Sound
<1>8. \A e \in M : \A n \in e.tx.nonces : n \in t.nonces \/ Expiry[n] < ts
  BY <1>2 DEF Sound
<1>9. \A e, f \in M : e # f =>
        e.tx.spent \cap f.tx.spent = {} /\ e.tx.nonces \cap f.tx.nonces = {}
  BY <1>4, <1>5 DEF Sound
<1>10. \A e \in L : \A o \in e.tx.spent : o \notin tx.results
  BY <1>6 DEF Sound
<1>11. \A o \in t.tree : /\ \E e \in M : o \in e.tx.results
                         /\ \A e \in M : o \notin e.tx.spent
  <2> TAKE o \in t.tree
  <2>1. CASE o \in tx.results
    <3>1. o \notin tx.spent
      BY <2>1, EntryAssumption
    <3> QED BY <2>1, <3>1, <1>10
  <2>2. CASE o \in s.tree /\ o \notin tx.spent
    BY <2>2 DEF Sound
  <2> QED BY <2>1, <2>2, <1>2
<1>12. \A e \in M : \A o \in e.tx.spent : \E f \in M : o \in f.tx.results
  BY DEF Sound, CanApply
<1> QED BY <1>7, <1>8, <1>9, <1>11, <1>12 DEF Sound

\* An ApplyTx that fails only removes outputs and adds nonces.
LEMMA SoundFailed ==
  ASSUME NEW L, NEW s \in SnapshotType, NEW ts \in Nat, NEW tx \in Tx,
         NEW t \in FailedApply(s, tx), Sound(L, s, ts)
  PROVE  t \in SnapshotType /\ Sound(L, t, ts)
<1>1. tx \in Transaction
  BY TxAssumption
<1>2. t \in SnapshotType /\ t.tree \subseteq s.tree /\ s.nonces \subseteq t.nonces
  BY <1>1 DEF FailedApply, SnapshotType, Transaction
<1> QED BY <1>2 DEF Sound

\* Pruning at a later time drops only nonces that have expired by then.
LEMMA SoundPruned ==
  ASSUME NEW L, L \subseteq Entry, NEW s \in SnapshotType, NEW t0 \in Nat, NEW ts \in Nat,
         t0 <= ts, \A n \in Nonce : Expiry[n] \in Nat, Sound(L, s, t0)
  PROVE  PruneNonces(s, ts) \in SnapshotType /\ Sound(L, PruneNonces(s, ts), ts)
<1> DEFINE t == PruneNonces(s, ts)
<1>1. t \in SnapshotType /\ t.tree = s.tree /\ t.nonces = {n \in s.nonces : ~(ts > Expiry[n])}
  BY DEF PruneNonces, SnapshotType
<1>2. \A e \in L : \A n \in e.tx.nonces : n \in Nonce
  BY TxAssumption DEF Entry, Transaction
<1>3. \A e \in L : \A n \in e.tx.nonces : n \in t.nonces \/ Expiry[n] < ts
  <2> SUFFICES ASSUME NEW e \in L, NEW n \in e.tx.nonces
               PROVE  n \in t.nonces \/ Expiry[n] < ts
    OBVIOUS
  <2>1. Expiry[n] \in Nat
    BY <1>2
  <2>2. n \in s.nonces \/ Expiry[n] < t0
    BY DEF Sound
  <2>3. CASE n \in s.nonces
    BY <1>1, <2>1, <2>3
  <2>4. CASE Expiry[n] < t0
    BY <2>1, <2>4
  <2> QED BY <2>2, <2>3, <2>4
<1> HIDE DEF t
<1>4. Sound(L, t, ts)
  BY <1>1, <1>3 DEF Sound
<1> QED BY <1>1, <1>4 DEF t

LEMMA ExpiryType == \A n \in Nonce : Expiry[n] \in Nat
BY TxAssumption

-----------------------------------------------------------------------------
\* The initial chain is empty and so is the tree.
LEMMA InitInv == Init => LedgerInv
<1> SUFFICES ASSUME Init PROVE LedgerInv
  OBVIOUS
<1>1. TypeOK
  BY DEF Init, TypeOK, Empty, SnapshotType
<1>2. Sound(log, snap, time)
  BY DEF Init, Sound, Empty
<1> QED BY <1>1, <1>2 DEF Init, LedgerInv

LEMMA StartBlockInv ==
  ASSUME LedgerInv, NEW ts \in Timestamp, StartBlock(ts)
  PROVE  LedgerInv'
<1> USE DEF LedgerInv
<1>1. ts \in Nat /\ time \in Nat /\ time <= ts /\ snap \in SnapshotType /\ log \subseteq Entry
  BY LedgerAssumption DEF StartBlock, TypeOK
<1>2. PruneNonces(snap, ts) \in SnapshotType /\ Sound(log, PruneNonces(snap, ts), ts)
  BY <1>1, SoundPruned, ExpiryType
<1>3. draft' = [ts |-> ts, snap |-> PruneNonces(snap, ts), txs |-> <<>>]
      /\ UNCHANGED <<height, time, snap, log>>
  BY DEF StartBlock
<1>4. DraftLog' = {}
  BY <1>3 DEF DraftLog
<1>5. TypeOK'
  BY <1>1, <1>2, <1>3 DEF TypeOK, Draft
<1>6. draft'.ts = ts /\ draft'.snap = PruneNonces(snap, ts) /\ log' \cup DraftLog' = log
  BY <1>3, <1>4
<1>7. Sound(log, snap, time)'
  BY <1>3 DEF Sound
<1>8. Sound(log' \cup DraftLog', draft'.snap, draft'.ts)
  BY <1>2, <1>6
<1> QED BY <1>1, <1>3, <1>5, <1>6, <1>7, <1>8 DEF Sound

LEMMA AddTxInv ==
  ASSUME LedgerInv, NEW tx \in Tx, AddTx(tx)
  PROVE  LedgerInv'
<1> USE DEF LedgerInv
<1> DEFINE g == [height |-> height + 1, pos |-> Len(draft.txs) + 1, tx |-> tx]
<1>1. draft \in Draft /\ draft.snap \in SnapshotType /\ draft.ts \in Nat
      /\ draft.txs \in Seq(Tx) /\ log \subseteq Entry /\ height \in Nat
  BY DEF AddTx, TypeOK, Draft
<1>2. draft' = [draft EXCEPT !.snap = Applied(draft.snap, tx),
                             !.txs = Append(draft.txs, tx)]
      /\ UNCHANGED <<height, time, snap, log>>
  BY DEF AddTx
<1>3. /\ draft'.ts = draft.ts /\ draft'.snap = Applied(draft.snap, tx)
      /\ draft'.txs = Append(draft.txs, tx)
  BY <1>1, <1>2 DEF Draft
<1>4. DraftLog \subseteq Entry /\ g \in Entry /\ g \notin log /\ g \notin DraftLog
  <2>1. Len(draft.txs) \in Nat /\ \A i \in 1 .. Len(draft.txs) : draft.txs[i] \in Tx
    BY <1>1
  <2>2. DraftLog \subseteq Entry /\ g \in Entry
    BY <1>1, <2>1 DEF DraftLog, Entry
  <2>3. g \notin log
    BY <1>1
  <2>4. \A i \in 1 .. Len(draft.txs) : i # Len(draft.txs) + 1
    BY <2>1
  <2>5. g \notin DraftLog
    BY <2>4 DEF DraftLog
  <2> QED BY <2>2, <2>3, <2>5
<1>5. DraftLog' = DraftLog \cup {g}
  BY <1>1, <1>2, <1>3 DEF DraftLog
<1>6. Applied(draft.snap, tx) \in SnapshotType
  BY <1>1, TxAssumption DEF Applied, SnapshotType, Transaction
<1>7. TypeOK'
  <2>1. Append(draft.txs, tx) \in Seq(Tx)
    BY <1>1
  <2>2. draft' \in Draft
    BY <1>1, <1>2, <1>6, <2>1 DEF Draft
  <2> QED BY <1>2, <2>2 DEF TypeOK
<1>8. Sound((log \cup DraftLog) \cup {g}, Applied(draft.snap, tx), draft.ts)
  <2>1. (log \cup DraftLog) \subseteq Entry /\ g \notin log \cup DraftLog /\ g.tx = tx
    BY <1>1, <1>4
  <2>2. Sound(log \cup DraftLog, draft.snap, draft.ts) /\ tx.valid
        /\ Timely(tx, draft.ts) /\ CanApply(draft.snap, tx)
    BY DEF AddTx
  <2> HIDE DEF g
  <2> QED BY <1>1, <1>4, <2>1, <2>2, SoundApplied
<1>9. log' \cup DraftLog' = (log \cup DraftLog) \cup {g}
  BY <1>2, <1>5
<1>10. Sound(log' \cup DraftLog', draft'.snap, draft'.ts)
  BY <1>3, <1>8, <1>9
<1>11. Sound(log, snap, time)'
  BY <1>2 DEF Sound
<1>12. draft # None /\ time <= draft.ts
  BY DEF AddTx
<1> QED BY <1>2, <1>3, <1>7, <1>10, <1>11, <1>12 DEF Sound

LEMMA SkipTxInv ==
  ASSUME LedgerInv, NEW tx \in Tx, SkipTx(tx)
  PROVE  LedgerInv'
<1> USE DEF LedgerInv
<1>1. draft \in Draft /\ draft.snap \in SnapshotType /\ draft.ts \in Nat
  BY DEF SkipTx, TypeOK, Draft
<1>2. PICK s \in FailedApply(draft.snap, tx) : draft' = [draft EXCEPT !.snap = s]
  BY DEF SkipTx
<1>3. UNCHANGED <<height, time, snap, log>> /\ draft # None
  BY DEF SkipTx
<1>4. s \in SnapshotType /\ Sound(log \cup DraftLog, s, draft.ts)
  BY <1>1, <1>3, SoundFailed
<1>5. draft'.ts = draft.ts /\ draft'.snap = s /\ draft'.txs = draft.txs /\ draft' \in Draft
  BY <1>1, <1>2, <1>4 DEF Draft
<1>6. DraftLog' = DraftLog
  BY <1>3, <1>5 DEF DraftLog
<1>7. Sound(log' \cup DraftLog', draft'.snap, draft'.ts)
  BY <1>3, <1>4, <1>5, <1>6
<1>8. TypeOK' /\ Sound(log, snap, time)'
  BY <1>3, <1>5 DEF TypeOK, Sound
<1> QED BY <1>3, <1>5, <1>7, <1>8 DEF Sound

LEMMA CommitBlockInv ==
  ASSUME LedgerInv, CommitBlock
  PROVE  LedgerInv'
<1> USE DEF LedgerInv
<1>1. /\ draft \in Draft /\ draft.snap \in SnapshotType /\ draft.ts \in Nat
      /\ draft.txs \in Seq(Tx) /\ log \subseteq Entry /\ height \in Nat
  BY DEF CommitBlock, TypeOK, Draft
<1>2. height' = height + 1 /\ time' = draft.ts /\ snap' = draft.snap
      /\ log' = log \cup DraftLog /\ draft' = None
  BY DEF CommitBlock, DraftLog
<1>3. DraftLog \subseteq Entry /\ \A e \in DraftLog : e.height = height + 1
  <2>1. \A i \in 1 .. Len(draft.txs) : i \in Nat /\ draft.txs[i] \in Tx
    BY <1>1
  <2> QED BY <1>1, <2>1 DEF DraftLog, Entry
<1>4. \A e \in log' : e.height <= height'
  <2>1. \A e \in log : e.height \in Nat /\ e.height <= height
    BY <1>1 DEF Entry
  <2> QED BY <1>1, <1>2, <1>3, <2>1
<1>5. TypeOK'
  BY <1>1, <1>2, <1>3 DEF TypeOK
<1>6. Sound(log \cup DraftLog, draft.snap, draft.ts)
  BY DEF CommitBlock
<1>7. Sound(log, snap, time)'
  BY <1>2, <1>6 DEF Sound
<1> QED BY <1>2, <1>4, <1>5, <1>7

LEMMA NextInv == LedgerInv /\ [Next]_vars => LedgerInv'
<1> SUFFICES ASSUME LedgerInv, [Next]_vars PROVE LedgerInv'
  OBVIOUS
<1>1. CASE UNCHANGED vars
  BY <1>1 DEF LedgerInv, TypeOK, Sound, DraftLog, vars
<1>2. CASE DropBlock
  BY <1>2 DEF DropBlock, LedgerInv, TypeOK, Sound
<1> QED
  BY <1>1, <1>2, StartBlockInv, AddTxInv, SkipTxInv, CommitBlockInv DEF Next

\* The variables keep their types in every reachable state of the ledger.
THEOREM LedgerTypeOK == Spec => []TypeOK
BY InitInv, NextInv, PTL DEF Spec, LedgerInv

(***************************************************************************)
(* The chain GenerateBlock builds never spends an output or uses a nonce   *)
(* twice, whatever is submitted and however often ApplyTx fails half-way.  *)
(***************************************************************************)
THEOREM LedgerNoDoubleSpend == Spec => []NoDoubleSpend
<1>1. LedgerInv => NoDoubleSpend
  BY DEF LedgerInv, Sound, NoDoubleSpend
<1> QED BY <1>1, InitInv, NextInv, PTL DEF Spec

\* Every output the committed state tree holds was created and is unspent.
THEOREM LedgerTreeIsUnspent == Spec => []TreeIsUnspent
<1>1. LedgerInv => TreeIsUnspent
  BY DEF LedgerInv, Sound, TreeIsUnspent
<1> QED BY <1>1, InitInv, NextInv, PTL DEF Spec

=============================================================================
