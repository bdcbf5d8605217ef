------------------------- MODULE SigningIndexProofs -------------------------
(***************************************************************************)
(* Block signing, the transaction feeds and the index that serves queries, *)
(* for every value of their constants.  No part uses facts of another.     *)
(***************************************************************************)
EXTENDS Signing, TxFeed, QueryIndex, FiniteSetTheorems, TLAPS

-----------------------------------------------------------------------------
(***************************************************************************)
(* Block signing, for every set of signers, every quorum, and any number   *)
(* of blocks, failures and restarts.                                       *)
(***************************************************************************)
\* What the table signed_blocks is good for: a signature, and a call that is
\* about to produce one, is for a block in the table, which has one block of
\* each height.
SignedInv ==
  /\ TypeOK
  /\ \A x \in signatures : x.b \in locked[x.signer]
  /\ \A c \in calls : c.pc = "locked" => c.b \in locked[c.signer]
  /\ \A s \in Signer : \A x, y \in locked[s] : Len(x) = Len(y) => x = y

\* What the pending row is good for: signers are asked for the pending block,
\* or were asked for one that has been committed since.
PendingInv ==
  /\ TypeOK
  /\ pending # None => Len(pending) <= Len(chain) + 1
  /\ asked # None => asked = pending /\ HavePending
  /\ \A c \in calls : c.signer \notin Exposed => Len(c.b) <= Len(chain) \/ c.b = pending
  /\ LockedIsPending

-----------------------------------------------------------------------------
LEMMA AbandonType ==
  ASSUME TypeOK, NEW kept \in SUBSET calls, Abandon(kept)
  PROVE  /\ asked' \in Block \cup {None} /\ waiting' \subseteq Signer /\ good' \subseteq Signer
         /\ calls' \subseteq Call
<1>1. ASSUME NEW c \in kept PROVE [c EXCEPT !.live = FALSE] \in Call
  <2>1. c \in Call
    BY Zenon DEF TypeOK
  <2> QED BY <2>1, Zenon DEF Call
<1> QED BY <1>1, Zenon DEF TypeOK, Abandon

\* Every call that Abandon leaves is an earlier call, no longer waited for.
LEMMA AbandonCalls ==
  ASSUME TypeOK, NEW kept \in SUBSET calls, Abandon(kept)
  PROVE  \A c \in calls' : \E d \in calls : c.signer = d.signer /\ c.b = d.b /\ c.pc = d.pc /\ ~c.live
<1> SUFFICES ASSUME NEW c \in calls'
             PROVE  \E d \in calls : c.signer = d.signer /\ c.b = d.b /\ c.pc = d.pc /\ ~c.live
  BY Zenon
<1>1. PICK d \in kept : c = [d EXCEPT !.live = FALSE]
  BY Zenon DEF Abandon
<1>2. d \in Call
  BY Zenon DEF TypeOK
<1> QED BY <1>1, <1>2, Zenon DEF Call

LEMMA ReplyType ==
  ASSUME TypeOK, NEW c \in calls, NEW b \in BOOLEAN, Reply(c, b)
  PROVE  /\ chain' = chain /\ pending' = pending /\ asked' = asked
         /\ waiting' \subseteq Signer /\ good' \subseteq Signer
         /\ calls' \subseteq calls /\ known' = known /\ restarts' = restarts
<1>1. c \in Call
  BY Zenon DEF TypeOK
<1> QED BY <1>1, Zenon DEF TypeOK, Reply, Call

LEMMA AppendType ==
  ASSUME NEW b \in Block, NEW c \in Content
  PROVE  Append(b, c) \in Block /\ Len(Append(b, c)) = Len(b) + 1
BY DEF Block

LEMMA InitType == Init => TypeOK
<1> SUFFICES ASSUME Init PROVE TypeOK
  BY Zenon
<1>1. PICK c \in Content : chain = <<c>>
  BY Zenon DEF Init
<1>2. chain \in Block
  BY <1>1 DEF Block
<1> QED BY <1>2, Zenon DEF Init, TypeOK

\* No step spoils the types.
LEMMA NextType == TypeOK /\ [Next]_vars => TypeOK'
<1> SUFFICES ASSUME TypeOK, [Next]_vars PROVE TypeOK'
  BY Zenon
<1>1. ASSUME NEW c \in Content, Generate(c) PROVE TypeOK'
  <2>1. chain \in Block
    BY Zenon DEF TypeOK
  <2>2. pending' \in Block
    BY <1>1, <2>1, AppendType, Zenon DEF Generate
  <2> QED BY <1>1, <2>2, Zenon DEF Generate, TypeOK
<1>2. CASE Collect
  <2>1. pending \in Block
    BY <1>2, Zenon DEF TypeOK, Collect, HavePending
  <2>2. ASSUME NEW s \in Signer
        PROVE  [signer |-> s, b |-> pending, pc |-> "call", live |-> TRUE] \in Call
    BY <2>1, Zenon DEF Call
  <2> QED BY <1>2, <2>1, <2>2, Zenon DEF TypeOK, Collect
<1>3. CASE Commit
  <2>1. Abandon(calls)
    BY <1>3, Zenon DEF Commit
  <2>2. chain' \in Block /\ fails' \in Nat
    BY <1>3 DEF Commit, Fail, TypeOK
  <2> QED BY <1>3, <2>1, <2>2, AbandonType, Zenon DEF Commit, TypeOK
<1>4. CASE GiveUp
  <2>1. Abandon(calls)
    BY <1>4, Zenon DEF GiveUp
  <2> QED BY <1>4, <2>1, AbandonType, Zenon DEF GiveUp, TypeOK
<1>5. CASE Restart
  <2>1. Abandon({c \in calls : c.signer \notin Local}) /\ restarts' \in Nat
    BY <1>5 DEF Restart, TypeOK
  <2>2. {c \in calls : c.signer \notin Local} \in SUBSET calls
    BY Zenon
  <2> QED BY <1>5, <2>1, <2>2, AbandonType, Zenon DEF Restart, TypeOK
<1>6. ASSUME NEW c \in calls, Lock(c) PROVE TypeOK'
  <2>1. c \in Call
    BY Zenon DEF TypeOK
  <2>2. [c EXCEPT !.pc = "locked"] \in Call
    BY <2>1, Zenon DEF Call
  <2>3. locked' \in [Signer -> SUBSET Block]
    BY <1>6, <2>1, Zenon DEF Lock, TypeOK, Call
  <2> QED BY <1>6, <2>2, <2>3, Zenon DEF Lock, TypeOK
<1>7. ASSUME NEW c \in calls, Refuse(c) PROVE TypeOK'
  BY <1>7, ReplyType, Zenon DEF Refuse, TypeOK
<1>8. ASSUME NEW c \in calls, Sign(c) PROVE TypeOK'
  <2>1. c \in Call
    BY Zenon DEF TypeOK
  <2>2. signatures' \subseteq [signer : Signer, b : Block]
    BY <1>8, <2>1 DEF Sign, TypeOK, Call
  <2> QED BY <1>8, <2>2, ReplyType, Zenon DEF Sign, TypeOK
<1>9. ASSUME NEW c \in calls, CallFails(c) PROVE TypeOK'
  <2>1. c \in Call
    BY Zenon DEF TypeOK
  <2>2. signatures' \subseteq [signer : Signer, b : Block]
    BY <1>9, <2>1 DEF CallFails, TypeOK, Call
  <2>3. fails' \in Nat
    BY <1>9 DEF CallFails, Fail, TypeOK
  <2> QED BY <1>9, <2>2, <2>3, ReplyType, Zenon DEF CallFails, TypeOK
<1>10. ASSUME NEW s \in Exposed, NEW h \in 1 .. MaxHeight, NEW c \in Content, Request(s, h, c)
       PROVE  TypeOK'
  <2>1. SubSeq(chain, 1, h) \in Block
    BY <1>10 DEF Request, TypeOK, Block
  <2>2. [signer |-> s, b |-> Append(SubSeq(chain, 1, h), c), pc |-> "call", live |-> FALSE] \in Call
    BY <2>1, AppendType, SigningAssumption, Zenon DEF Call
  <2> QED BY <1>10, <2>2, Zenon DEF Request, TypeOK
<1>11. ASSUME NEW s \in Signer, Learn(s) PROVE TypeOK'
  BY <1>11 DEF Learn, TypeOK
<1>12. CASE UNCHANGED vars
  BY <1>12, Zenon DEF vars, TypeOK
<1> QED BY <1>1, <1>2, <1>3, <1>4, <1>5, <1>6, <1>7, <1>8, <1>9, <1>10, <1>11, <1>12, Zenon DEF Next, MakeBlock, SignBlock


-----------------------------------------------------------------------------
\* A step that leaves signed_blocks and the signatures alone and brings in no
\* call beyond the lock.
LEMMA SignedSame ==
  ASSUME SignedInv, TypeOK', locked' = locked, signatures' = signatures,
         \A c \in calls' : c.pc = "locked" =>
            \E d \in calls : d.pc = "locked" /\ d.b = c.b /\ d.signer = c.signer
  PROVE  SignedInv'
BY Zenon DEF SignedInv

LEMMA NextSigned == SignedInv /\ [Next]_vars => SignedInv'
<1> SUFFICES ASSUME SignedInv, [Next]_vars PROVE SignedInv'
  BY Zenon
<1>0. TypeOK /\ TypeOK'
  BY NextType, Zenon DEF SignedInv
<1>1. ASSUME NEW c \in Content, Generate(c) PROVE SignedInv'
  BY <1>0, <1>1, SignedSame, Zenon DEF Generate
<1>2. CASE Collect
  BY <1>0, <1>2, SignedSame DEF Collect
<1>3. CASE Commit
  <2>1. Abandon(calls) /\ locked' = locked /\ signatures' = signatures
    BY <1>3, Zenon DEF Commit
  <2> QED BY <1>0, <2>1, AbandonCalls, SignedSame, Zenon
<1>4. CASE GiveUp
  <2>1. Abandon(calls) /\ locked' = locked /\ signatures' = signatures
    BY <1>4, Zenon DEF GiveUp
  <2> QED BY <1>0, <2>1, AbandonCalls, SignedSame, Zenon
<1>5. CASE Restart
  <2> DEFINE kept == {c \in calls : c.signer \notin Local}
  <2>1. Abandon(kept) /\ locked' = locked /\ signatures' = signatures
    BY <1>5, Zenon DEF Restart
  <2>2. kept \in SUBSET calls
    BY Zenon
  <2> HIDE DEF kept
  <2> QED BY <1>0, <2>1, <2>2, AbandonCalls, SignedSame, Zenon
<1>6. ASSUME NEW c \in calls, Lock(c) PROVE SignedInv'
  <2>1. c \in Call
    BY <1>0, Zenon DEF TypeOK
  <2>2. \A s \in Signer : locked'[s] = IF s = c.signer THEN locked[s] \cup {c.b} ELSE locked[s]
    BY <1>0, <1>6, Zenon DEF Lock, TypeOK
  <2>3. \A x \in signatures' : x.b \in locked'[x.signer]
    <3>1. \A x \in signatures : x.signer \in Signer
      BY <1>0, Zenon DEF TypeOK
    <3> QED BY <1>6, <2>2, <3>1 DEF Lock, SignedInv
  <2>4. \A d \in calls' : d.pc = "locked" => d.b \in locked'[d.signer]
    <3> SUFFICES ASSUME NEW d \in calls', d.pc = "locked" PROVE d.b \in locked'[d.signer]
      BY Zenon
    <3>1. CASE d \in calls
      <4>1. d \in Call /\ d.b \in locked[d.signer]
        BY <1>0, <3>1, Zenon DEF TypeOK, SignedInv
      <4> QED BY <2>2, <4>1, Zenon DEF Call
    <3>2. CASE d = [c EXCEPT !.pc = "locked"]
      BY <2>1, <2>2, <3>2, Zenon DEF Call
    <3> QED BY <1>6, <3>1, <3>2, Zenon DEF Lock
  <2>5. \A s \in Signer : \A x, y \in locked'[s] : Len(x) = Len(y) => x = y
    BY <1>6, <2>1, <2>2 DEF Lock, HeightFree, SignedInv
  <2> QED BY <1>0, <2>3, <2>4, <2>5, Zenon DEF SignedInv
<1>7. ASSUME NEW c \in calls, Refuse(c) PROVE SignedInv'
  <2>1. calls' \subseteq calls
    BY <1>7, Zenon DEF Refuse, Reply
  <2> QED BY <1>0, <1>7, <2>1, SignedSame, Zenon DEF Refuse
<1>8. ASSUME NEW c \in calls, Sign(c) PROVE SignedInv'
  <2>1. calls' \subseteq calls /\ locked' = locked
    BY <1>8, Zenon DEF Sign, Reply
  <2>2. \A x \in signatures' : x.b \in locked[x.signer]
    BY <1>8 DEF Sign, SignedInv
  <2> QED BY <1>0, <2>1, <2>2, Zenon DEF SignedInv
<1>9. ASSUME NEW c \in calls, CallFails(c) PROVE SignedInv'
  <2>1. calls' \subseteq calls /\ locked' = locked
    BY <1>9, Zenon DEF CallFails, Reply
  <2>2. \A x \in signatures' : x.b \in locked[x.signer]
    BY <1>9 DEF CallFails, SignedInv
  <2> QED BY <1>0, <2>1, <2>2, Zenon DEF SignedInv
<1>10. ASSUME NEW s \in Exposed, NEW h \in 1 .. MaxHeight, NEW c \in Content, Request(s, h, c)
       PROVE  SignedInv'
  BY <1>0, <1>10, SignedSame DEF Request
<1>11. ASSUME NEW s \in Signer, Learn(s) PROVE SignedInv'
  BY <1>0, <1>11, SignedSame, Zenon DEF Learn
<1>12. CASE UNCHANGED vars
  BY <1>0, <1>12, SignedSame, Zenon DEF vars
<1> QED BY <1>1, <1>2, <1>3, <1>4, <1>5, <1>6, <1>7, <1>8, <1>9, <1>10, <1>11, <1>12, Zenon DEF Next, MakeBlock, SignBlock


\* Every reachable state is well typed.
THEOREM SigningTypeOK == Spec => []TypeOK
BY InitType, NextType, PTL DEF Spec

\* No signer ever signs two blocks of a height: the unique index on the
\* height of signed_blocks is enough, whoever asks for signatures.
THEOREM SigningOneBlock == Spec => []OneBlockPerHeight
<1>1. Init => SignedInv
  <2> SUFFICES ASSUME Init PROVE SignedInv
    BY Zenon
  <2>1. TypeOK
    BY InitType, Zenon
  <2> QED BY <2>1, Zenon DEF Init, SignedInv
<1>2. SignedInv => OneBlockPerHeight
  BY Zenon DEF SignedInv, TypeOK, OneBlockPerHeight
<1> QED BY <1>1, <1>2, NextSigned, PTL DEF Spec

-----------------------------------------------------------------------------
LEMMA NextPending == PendingInv /\ [Next]_vars => PendingInv'
<1> SUFFICES ASSUME PendingInv, [Next]_vars PROVE PendingInv'
  BY Zenon
<1>0. TypeOK /\ TypeOK'
  BY NextType, Zenon DEF PendingInv
<1>a. /\ chain \in Block /\ Len(chain) \in Nat
      /\ pending # None => pending \in Block /\ Len(pending) \in Nat
  BY <1>0 DEF TypeOK, Block
<1>b. \A c \in calls : c \in Call /\ c.b \in Block /\ Len(c.b) \in Nat /\ c.signer \in Signer
  BY <1>0 DEF TypeOK, Call, Block
<1>c. \A s \in Signer : \A b \in locked[s] : Len(b) \in Nat
  BY <1>0 DEF TypeOK, Block
<1>d. ASSUME chain' = chain, pending' = pending, asked' = asked, locked' = locked,
             \A c \in calls' : c.signer \notin Exposed =>
                \E d \in calls : d.signer = c.signer /\ d.b = c.b
      PROVE  PendingInv'
  BY <1>0, <1>d, Zenon DEF PendingInv, HavePending, LockedIsPending
<1>e. ASSUME chain' = chain, pending' = pending, locked' = locked,
             NEW kept \in SUBSET calls, Abandon(kept)
      PROVE  PendingInv'
  <2>1. asked' = None
    BY <1>e, Zenon DEF Abandon
  <2>2. \A c \in calls' : \E d \in calls : d.signer = c.signer /\ d.b = c.b
    BY <1>0, <1>e, AbandonCalls, Zenon
  <2> QED BY <1>0, <1>e, <2>1, <2>2, Zenon DEF PendingInv, LockedIsPending
<1>1. ASSUME NEW c \in Content, Generate(c) PROVE PendingInv'
  <2>1. /\ pending' = Append(chain, c) /\ Len(pending') = Len(chain) + 1
        /\ chain' = chain /\ calls' = calls /\ locked' = locked /\ asked' = None
    BY <1>1, <1>a, AppendType, Zenon DEF Generate
  <2>2. pending # None => Len(pending) <= Len(chain)
    BY <1>1, <1>a DEF Generate, HavePending, PendingInv
  <2>3. pending = None => \A d \in calls : d.b # pending
    BY <1>b, SigningAssumption, Zenon
  <2>4. \A d \in calls : d.signer \notin Exposed => Len(d.b) <= Len(chain)
    BY <1>b, <2>2, <2>3, Zenon DEF PendingInv
  <2>5. pending = None => \A s \in Signer : \A b \in locked[s] : b # pending
    BY <1>0, SigningAssumption, Zenon DEF TypeOK
  <2>6. \A s \in Signer \ Exposed : \A b \in locked[s] : ~(Len(b) > Len(chain))
    BY <1>a, <1>c, <2>2, <2>5 DEF PendingInv, LockedIsPending
  <2> QED BY <1>0, <1>a, <2>1, <2>4, <2>6 DEF PendingInv, LockedIsPending
<1>2. CASE Collect
  <2>1. /\ asked' = pending /\ chain' = chain /\ pending' = pending /\ locked' = locked
        /\ HavePending
    BY <1>2, Zenon DEF Collect
  <2>2. \A c \in calls' : c \in calls \/ c.b = pending
    BY <1>2 DEF Collect
  <2> QED BY <1>0, <2>1, <2>2, Zenon DEF PendingInv, HavePending, LockedIsPending
<1>3. CASE Commit
  <2>1. Abandon(calls) /\ locked' = locked /\ pending' = pending
    BY <1>3, Zenon DEF Commit
  <2>2. CASE chain' = chain
    BY <2>1, <2>2, <1>e, Zenon
  <2>3. CASE chain' = asked
    <3>1. chain' = pending /\ Len(pending) = Len(chain) + 1 /\ asked' = None
      BY <1>3, <2>3, Zenon DEF Commit, Abandon, PendingInv, HavePending
    <3>2. Len(chain') = Len(chain) + 1
      BY <3>1, Zenon
    <3>3. \A c \in calls' : \E d \in calls : d.signer = c.signer /\ d.b = c.b
      BY <1>0, <2>1, AbandonCalls, Zenon
    <3>4. \A c \in calls' : c.signer \notin Exposed => Len(c.b) <= Len(chain) \/ c.b = pending
      BY <3>3, Zenon DEF PendingInv
    <3>5. \A c \in calls' : Len(c.b) \in Nat
      BY <3>3, <1>b, Zenon
    <3>6. \A c \in calls' : c.signer \notin Exposed => Len(c.b) <= Len(chain') \/ c.b = pending'
      BY <1>a, <2>1, <3>2, <3>4, <3>5
    <3>7. \A s \in Signer \ Exposed : \A b \in locked[s] : Len(b) > Len(chain') => b = pending
      BY <1>a, <1>c, <3>2 DEF PendingInv, LockedIsPending
    <3>8. pending' # None => Len(pending') <= Len(chain') + 1
      BY <1>a, <2>1, <3>1, <3>2
    <3>9. LockedIsPending'
      BY <2>1, <3>7, Zenon DEF LockedIsPending
    <3> QED BY <1>0, <3>1, <3>6, <3>8, <3>9, Zenon DEF PendingInv
  <2> QED BY <1>3, <2>2, <2>3, Zenon DEF Commit
<1>4. CASE GiveUp
  BY <1>4, <1>e, Zenon DEF GiveUp
<1>5. CASE Restart
  <2>1. {c \in calls : c.signer \notin Local} \in SUBSET calls
    BY Zenon
  <2> QED BY <1>5, <1>e, <2>1, Zenon DEF Restart
<1>6. ASSUME NEW c \in calls, Lock(c) PROVE PendingInv'
  <2>1. /\ chain' = chain /\ pending' = pending /\ asked' = asked
        /\ calls' = (calls \ {c}) \cup {[c EXCEPT !.pc = "locked"]}
    BY <1>6, Zenon DEF Lock
  <2>2. [c EXCEPT !.pc = "locked"].b = c.b /\ [c EXCEPT !.pc = "locked"].signer = c.signer
    BY <1>b, Zenon DEF Call
  <2>3. \A d \in calls' : d.signer \notin Exposed => Len(d.b) <= Len(chain) \/ d.b = pending
    BY <2>1, <2>2, Zenon DEF PendingInv
  <2>4. \A s \in Signer : \A b \in locked'[s] : b \in locked[s] \/ (s = c.signer /\ b = c.b)
    BY <1>0, <1>6, Zenon DEF Lock, TypeOK
  <2>5. LockedIsPending'
    BY <1>a, <1>b, <2>1, <2>4 DEF PendingInv, LockedIsPending
  <2> QED BY <1>0, <2>1, <2>3, <2>5, Zenon DEF PendingInv, HavePending
<1>7. ASSUME NEW c \in calls, Refuse(c) PROVE PendingInv'
  BY <1>7, <1>d, Zenon DEF Refuse, Reply
<1>8. ASSUME NEW c \in calls, Sign(c) PROVE PendingInv'
  BY <1>8, <1>d, Zenon DEF Sign, Reply
<1>9. ASSUME NEW c \in calls, CallFails(c) PROVE PendingInv'
  BY <1>9, <1>d, Zenon DEF CallFails, Reply
<1>10. ASSUME NEW s \in Exposed, NEW h \in 1 .. MaxHeight, NEW c \in Content, Request(s, h, c)
       PROVE  PendingInv'
  BY <1>10, <1>d DEF Request
<1>11. ASSUME NEW s \in Signer, Learn(s) PROVE PendingInv'
  BY <1>11, <1>d, Zenon DEF Learn
<1>12. CASE UNCHANGED vars
  BY <1>12, <1>d, Zenon DEF vars
<1> QED BY <1>1, <1>2, <1>3, <1>4, <1>5, <1>6, <1>7, <1>8, <1>9, <1>10, <1>11, <1>12, Zenon DEF Next, MakeBlock, SignBlock


\* A signer that only the generator calls is never bound to a block that the
\* generator would not come back to after a restart.
THEOREM SigningLockedIsPending == Spec => []LockedIsPending
<1>1. Init => PendingInv
  <2> SUFFICES ASSUME Init PROVE PendingInv
    BY Zenon
  <2>1. TypeOK
    BY InitType, Zenon
  <2> QED BY <2>1, Zenon DEF Init, PendingInv, LockedIsPending
<1>2. PendingInv => LockedIsPending
  BY Zenon DEF PendingInv
<1> QED BY <1>1, <1>2, NextPending, PTL DEF Spec

-----------------------------------------------------------------------------
(* The signatures of a block are counted.                                  *)

\* What makes CommittedIsSigned inductive: the pending block extends the chain, the
\* calls that are waited for are about the block that is asked for, and every signature
\* that the generator counts has been made for that block.
CountInv ==
  /\ PendingInv
  /\ HavePending => \A i \in 1 .. Len(chain) : pending[i] = chain[i]
  /\ \A c \in calls : c.live => c.b = asked
  /\ \A s \in good : [signer |-> s, b |-> asked] \in signatures
  /\ CommittedIsSigned

\* The signatures for a block.
Over(sigs, b) == {x \in sigs : x.b = b}

\* A block has at most one signature of each signer, so it has finitely many.
LEMMA SignedFinite ==
  ASSUME NEW sigs, sigs \subseteq [signer : Signer, b : Block], NEW b
  PROVE  IsFiniteSet(Over(sigs, b))
<1> DEFINE f == [x \in Over(sigs, b) |-> x.signer]
<1>1. \A x \in Over(sigs, b) : x \in [signer : Signer, b : Block] /\ x.b = b
  BY Zenon DEF Over
<1>2. \A x, y \in Over(sigs, b) : x.signer = y.signer => x = y
  BY <1>1
<1>3. f \in Injection(Over(sigs, b), Signer)
  BY <1>1, <1>2, Zenon DEF Injection, IsInjective
<1> HIDE DEF f
<1> QED BY <1>3, FS_Injection, SigningAssumption, Zenon

\* More signatures are not fewer for any block.
LEMMA SignedGrows ==
  ASSUME NEW sigs, NEW more, more \subseteq [signer : Signer, b : Block], sigs \subseteq more, NEW b,
         Cardinality(Over(sigs, b)) >= Quorum
  PROVE  Cardinality(Over(more, b)) >= Quorum
<1>1. Over(sigs, b) \in SUBSET Over(more, b)
  BY Zenon DEF Over
<1>2. IsFiniteSet(Over(sigs, b)) /\ IsFiniteSet(Over(more, b))
  BY SignedFinite, Zenon
<1>3. /\ Cardinality(Over(sigs, b)) <= Cardinality(Over(more, b))
      /\ Cardinality(Over(sigs, b)) \in Nat /\ Cardinality(Over(more, b)) \in Nat
  BY <1>1, <1>2, FS_Subset, FS_CardinalityType, Zenon
<1> QED BY <1>3, SigningAssumption

\* A quorum of signers that have signed a block is a quorum of signatures.
LEMMA SignedByAll ==
  ASSUME NEW sigs, sigs \subseteq [signer : Signer, b : Block], NEW b, NEW G \in SUBSET Signer,
         \A s \in G : [signer |-> s, b |-> b] \in sigs, Cardinality(G) >= Quorum
  PROVE  Cardinality(Over(sigs, b)) >= Quorum
<1> DEFINE f == [s \in G |-> [signer |-> s, b |-> b]]
<1>1. \A s \in G : [signer |-> s, b |-> b] \in Over(sigs, b)
  BY Zenon DEF Over
<1>2. \A s, t \in G : [signer |-> s, b |-> b] = [signer |-> t, b |-> b] => s = t
  BY Zenon
<1>3. IsFiniteSet(Over(sigs, b)) /\ IsFiniteSet(G)
  BY SignedFinite, FS_Subset, SigningAssumption, Zenon
<1>4. f \in Injection(G, Over(sigs, b))
  BY <1>1, <1>2, Zenon DEF Injection, IsInjective
<1> HIDE DEF f
<1>5. /\ Cardinality(G) <= Cardinality(Over(sigs, b))
      /\ Cardinality(Over(sigs, b)) \in Nat /\ Cardinality(G) \in Nat
  BY <1>3, <1>4, FS_Injection, FS_CardinalityType, Zenon
<1> QED BY <1>5, SigningAssumption

\* Blocks that agree up to a height have the same block at that height.
LEMMA SamePrefix ==
  ASSUME NEW a \in Block, NEW b \in Block, NEW n \in Nat, n <= Len(a), n <= Len(b),
         \A i \in 1 .. n : a[i] = b[i]
  PROVE  SubSeq(a, 1, n) = SubSeq(b, 1, n)
<1>1. SubSeq(a, 1, n) = [i \in 1 .. n |-> a[i]] /\ SubSeq(b, 1, n) = [i \in 1 .. n |-> b[i]]
  BY DEF Block
<1> QED BY <1>1, Zenon

\* A step of a signer: the generator counts what has been signed.
LEMMA CountSame ==
  ASSUME CountInv, PendingInv', chain' = chain, pending' = pending, asked' = asked,
         signatures \subseteq signatures',
         \A s \in good' : s \in good \/ [signer |-> s, b |-> asked] \in signatures',
         \A c \in calls' : c.live => \E d \in calls : d.live /\ d.b = c.b
  PROVE  CountInv'
<1>1. CommittedIsSigned'
  <2>1. signatures' \subseteq [signer : Signer, b : Block]
    BY Zenon DEF PendingInv, TypeOK
  <2>2. \A h \in 2 .. Len(chain) : Cardinality(Over(signatures, SubSeq(chain, 1, h))) >= Quorum
    BY Zenon DEF CountInv, CommittedIsSigned, Over
  <2>3. \A h \in 2 .. Len(chain) : Cardinality(Over(signatures', SubSeq(chain, 1, h))) >= Quorum
    BY <2>1, <2>2, SignedGrows, Zenon
  <2> QED BY <2>3, Zenon DEF CommittedIsSigned, Over
<1>2. HavePending' => HavePending
  BY Zenon DEF HavePending
<1> QED BY <1>1, <1>2, Zenon DEF CountInv

\* The generator no longer asks for signatures.
LEMMA CountIdle ==
  ASSUME CountInv, PendingInv', chain' = chain, HavePending' => pending' = pending /\ HavePending,
         signatures' = signatures, good' = {}, \A c \in calls' : ~c.live
  PROVE  CountInv'
<1>1. CommittedIsSigned'
  BY Zenon DEF CountInv, CommittedIsSigned
<1> QED BY <1>1, Zenon DEF CountInv

LEMMA NextCount == CountInv /\ [Next]_vars => CountInv'
<1> SUFFICES ASSUME CountInv, [Next]_vars PROVE CountInv'
  BY Zenon
<1>0. PendingInv /\ PendingInv' /\ TypeOK /\ TypeOK'
  BY NextPending, Zenon DEF CountInv, PendingInv
<1>a. /\ chain \in Block /\ Len(chain) \in Nat /\ calls \subseteq Call
      /\ signatures \subseteq [signer : Signer, b : Block] /\ good \subseteq Signer
  BY <1>0 DEF TypeOK, Block
<1>b. asked = None => good = {} /\ \A c \in calls : ~c.live
  <2> HAVE asked = None
  <2>1. \A s \in good : FALSE
    BY <1>a, SigningAssumption, Zenon DEF CountInv
  <2>2. \A c \in calls : c.b # None
    BY <1>a, SigningAssumption, Zenon DEF Call
  <2> QED BY <2>1, <2>2, Zenon DEF CountInv
<1>c. ASSUME NEW kept \in SUBSET calls, Abandon(kept) PROVE good' = {} /\ \A c \in calls' : ~c.live
  BY <1>0, <1>c, AbandonCalls, Zenon DEF Abandon
<1>1. ASSUME NEW c \in Content, Generate(c) PROVE CountInv'
  <2>1. /\ asked = None /\ pending' = Append(chain, c) /\ chain' = chain
        /\ UNCHANGED <<asked, good, calls, signatures>>
    BY <1>1, Zenon DEF Generate
  <2>2. \A i \in 1 .. Len(chain) : Append(chain, c)[i] = chain[i]
    BY <1>a DEF Block
  <2>3. CommittedIsSigned'
    BY <2>1, Zenon DEF CountInv, CommittedIsSigned
  <2> QED BY <1>0, <2>1, <2>2, <2>3, Zenon DEF CountInv
<1>2. CASE Collect
  <2>1. /\ asked = None /\ HavePending /\ asked' = pending
        /\ UNCHANGED <<chain, pending, good, signatures>>
        /\ calls' = calls \cup {[signer |-> s, b |-> pending, pc |-> "call", live |-> TRUE] : s \in Signer}
    BY <1>2, Zenon DEF Collect
  <2>2. good' = {} /\ \A c \in calls' : c.live => c.b = asked'
    BY <1>b, <2>1
  <2>3. CommittedIsSigned'
    BY <2>1, Zenon DEF CountInv, CommittedIsSigned
  <2>4. HavePending' => \A i \in 1 .. Len(chain) : pending[i] = chain[i]
    BY <2>1, Zenon DEF CountInv
  <2> QED BY <1>0, <2>1, <2>2, <2>3, <2>4, Zenon DEF CountInv
<1>3. CASE Commit
  <2>1. /\ Abandon(calls) /\ pending' = pending /\ signatures' = signatures
        /\ asked # None /\ Cardinality(good) >= Quorum
    BY <1>3, Zenon DEF Commit
  <2>2. good' = {} /\ \A c \in calls' : ~c.live
    BY <1>c, <2>1, Zenon
  <2>3. CASE chain' = chain
    <3>1. HavePending' => pending' = pending /\ HavePending
      BY <2>1, <2>3, Zenon DEF HavePending
    <3> QED BY <1>0, <2>1, <2>2, <2>3, <3>1, CountIdle, Zenon
  <2>4. CASE chain' = asked
    <3>1. /\ chain' = pending /\ pending \in Block /\ Len(pending) = Len(chain) + 1
          /\ \A i \in 1 .. Len(chain) : pending[i] = chain[i]
      BY <1>0, <2>1, <2>4, Zenon DEF CountInv, PendingInv, HavePending, TypeOK
    <3>2. ~HavePending'
      BY <1>a, <2>1, <3>1 DEF HavePending
    <3>3. ASSUME NEW h \in 2 .. Len(pending)
          PROVE  Cardinality(Over(signatures, SubSeq(pending, 1, h))) >= Quorum
      <4>1. CASE h = Len(pending)
        <5>1. SubSeq(pending, 1, h) = asked
          BY <2>4, <3>1, <4>1 DEF Block
        <5>2. \A s \in good : [signer |-> s, b |-> asked] \in signatures
          BY Zenon DEF CountInv
        <5> QED BY <1>a, <2>1, <5>1, <5>2, SignedByAll, Zenon
      <4>2. CASE h \in 2 .. Len(chain)
        <5>1. SubSeq(pending, 1, h) = SubSeq(chain, 1, h)
          BY <1>a, <3>1, <4>2, SamePrefix
        <5> QED BY <4>2, <5>1, Zenon DEF CountInv, CommittedIsSigned, Over
      <4> QED BY <1>a, <3>1, <4>1, <4>2
    <3>4. CommittedIsSigned'
      BY <2>1, <3>1, <3>3, Zenon DEF CommittedIsSigned, Over
    <3> QED BY <1>0, <2>2, <3>2, <3>4, Zenon DEF CountInv
  <2> QED BY <1>3, <2>3, <2>4, Zenon DEF Commit
<1>4. CASE GiveUp
  <2>1. Abandon(calls) /\ UNCHANGED <<chain, pending, signatures>>
    BY <1>4, Zenon DEF GiveUp
  <2>2. good' = {} /\ \A c \in calls' : ~c.live
    BY <1>c, <2>1, Zenon
  <2>3. HavePending' => pending' = pending /\ HavePending
    BY <2>1, Zenon DEF HavePending
  <2> QED BY <1>0, <2>1, <2>2, <2>3, CountIdle, Zenon
<1>5. CASE Restart
  <2> DEFINE kept == {c \in calls : c.signer \notin Local}
  <2>1. Abandon(kept) /\ kept \in SUBSET calls /\ UNCHANGED <<chain, pending, signatures>>
    BY <1>5, Zenon DEF Restart
  <2> HIDE DEF kept
  <2>2. good' = {} /\ \A c \in calls' : ~c.live
    BY <1>c, <2>1, Zenon
  <2>3. HavePending' => pending' = pending /\ HavePending
    BY <2>1, Zenon DEF HavePending
  <2> QED BY <1>0, <2>1, <2>2, <2>3, CountIdle, Zenon
<1>6. ASSUME NEW c \in calls, Lock(c) PROVE CountInv'
  <2>1. UNCHANGED <<chain, pending, asked, good, signatures>>
        /\ calls' = (calls \ {c}) \cup {[c EXCEPT !.pc = "locked"]}
    BY <1>6, Zenon DEF Lock
  <2>2. [c EXCEPT !.pc = "locked"].live = c.live /\ [c EXCEPT !.pc = "locked"].b = c.b
    BY <1>a, Zenon DEF Call
  <2>3. \A d \in calls' : d.live => \E e \in calls : e.live /\ e.b = d.b
    BY <2>1, <2>2, Zenon
  <2> QED BY <1>0, <2>1, <2>3, CountSame, Zenon
<1>7. ASSUME NEW c \in calls, Refuse(c) PROVE CountInv'
  <2>1. UNCHANGED <<chain, pending, asked, signatures>> /\ good' = good /\ calls' \subseteq calls
    BY <1>7, Zenon DEF Refuse, Reply
  <2> QED BY <1>0, <2>1, CountSame, Zenon
<1>8. ASSUME NEW c \in calls, Sign(c) PROVE CountInv'
  <2>1. /\ UNCHANGED <<chain, pending, asked>> /\ calls' \subseteq calls
        /\ signatures' = signatures \cup {[signer |-> c.signer, b |-> c.b]}
        /\ good' = IF c.live THEN good \cup {c.signer} ELSE good
    BY <1>8, Zenon DEF Sign, Reply
  <2>2. c.live => c.b = asked
    BY Zenon DEF CountInv
  <2>3. \A s \in good' : s \in good \/ [signer |-> s, b |-> asked] \in signatures'
    BY <2>1, <2>2, Zenon
  <2> QED BY <1>0, <2>1, <2>3, CountSame, Zenon
<1>9. ASSUME NEW c \in calls, CallFails(c) PROVE CountInv'
  <2>1. /\ UNCHANGED <<chain, pending, asked>> /\ good' = good /\ calls' \subseteq calls
        /\ signatures \subseteq signatures'
    BY <1>9, Zenon DEF CallFails, Reply
  <2> QED BY <1>0, <2>1, CountSame, Zenon
<1>10. ASSUME NEW s \in Exposed, NEW h \in 1 .. MaxHeight, NEW c \in Content, Request(s, h, c)
       PROVE  CountInv'
  <2>1. UNCHANGED <<chain, pending, asked, good, signatures>>
        /\ \A d \in calls' : d \in calls \/ ~d.live
    BY <1>10 DEF Request
  <2> QED BY <1>0, <2>1, CountSame, Zenon
<1>11. ASSUME NEW s \in Signer, Learn(s) PROVE CountInv'
  <2>1. UNCHANGED <<chain, pending, asked, good, calls, signatures>>
    BY <1>11, Zenon DEF Learn
  <2> QED BY <1>0, <2>1, CountSame, Zenon
<1>12. CASE UNCHANGED vars
  <2>1. UNCHANGED <<chain, pending, asked, good, calls, signatures>>
    BY <1>12, Zenon DEF vars
  <2> QED BY <1>0, <2>1, CountSame, Zenon
<1> QED BY <1>1, <1>2, <1>3, <1>4, <1>5, <1>6, <1>7, <1>8, <1>9, <1>10, <1>11, <1>12, Zenon DEF Next, MakeBlock, SignBlock


\* Every committed block has a quorum of signatures over its own hash: no reply to an
\* earlier attempt, no lost or repeated call and no restart makes the generator count a
\* signature of another block (generator.go, getAndAddBlockSignatures).
THEOREM SigningCommittedIsSigned == Spec => []CommittedIsSigned
<1>1. Init => CountInv
  <2> SUFFICES ASSUME Init PROVE CountInv
    BY Zenon
  <2>1. TypeOK
    BY InitType, Zenon
  <2>2. Len(chain) = 1
    BY DEF Init
  <2> QED BY <2>1, <2>2 DEF Init, CountInv, PendingInv, LockedIsPending, HavePending, CommittedIsSigned
<1>2. CountInv => CommittedIsSigned
  BY Zenon DEF CountInv
<1> QED BY <1>1, <1>2, NextCount, PTL DEF Spec

-----------------------------------------------------------------------------
(***************************************************************************)
(* Pages.  In a finite set that a relation orders, the number of elements  *)
(* before an element is its place, and every place is taken.               *)
(***************************************************************************)
Ahead(S, R, x) == {y \in S : <<y, x>> \in R}
Orders(R, S) ==
  /\ \A x \in S : <<x, x>> \notin R
  /\ \A x, y \in S : x # y => <<x, y>> \in R \/ <<y, x>> \in R
  /\ \A x, y, z \in S : <<x, y>> \in R /\ <<y, z>> \in R => <<x, z>> \in R

\* The places of ORDER BY (transactions.go, txfeed/query.go).
LEMMA Places ==
  ASSUME NEW S, IsFiniteSet(S), NEW R, Orders(R, S)
  PROVE  /\ \A x \in S : Cardinality(Ahead(S, R, x)) \in 0 .. (Cardinality(S) - 1)
         /\ \A x, y \in S : <<x, y>> \in R <=> Cardinality(Ahead(S, R, x)) < Cardinality(Ahead(S, R, y))
         /\ \A n \in 0 .. (Cardinality(S) - 1) : \E x \in S : Cardinality(Ahead(S, R, x)) = n
<1> DEFINE N == Cardinality(S)
           rank == [x \in S |-> Cardinality(Ahead(S, R, x))]
<1>1. N \in Nat
  BY FS_CardinalityType, Zenon
<1>2. ASSUME NEW x \in S
      PROVE  IsFiniteSet(Ahead(S, R, x)) /\ rank[x] \in 0 .. (N - 1)
  <2>1. Ahead(S, R, x) \in SUBSET S /\ x \notin Ahead(S, R, x)
    BY Zenon DEF Ahead, Orders
  <2>2. IsFiniteSet(Ahead(S, R, x)) /\ Cardinality(Ahead(S, R, x)) <= N /\ Cardinality(Ahead(S, R, x)) # N
    BY <2>1, FS_Subset, Zenon
  <2>3. Cardinality(Ahead(S, R, x)) \in Nat
    BY <2>2, FS_CardinalityType, Zenon
  <2> QED BY <1>1, <2>2, <2>3
<1>3. ASSUME NEW x \in S, NEW y \in S, <<x, y>> \in R
      PROVE  rank[x] < rank[y]
  <2>1. Ahead(S, R, x) \in SUBSET Ahead(S, R, y) /\ x \in Ahead(S, R, y) /\ x \notin Ahead(S, R, x)
    BY <1>3, Zenon DEF Ahead, Orders
  <2>2. Cardinality(Ahead(S, R, x)) <= Cardinality(Ahead(S, R, y)) /\ Cardinality(Ahead(S, R, x)) # Cardinality(Ahead(S, R, y))
    BY <1>2, <2>1, FS_Subset, Zenon
  <2> QED BY <1>1, <1>2, <2>2
<1>4. ASSUME NEW x \in S, NEW y \in S
      PROVE  <<x, y>> \in R <=> rank[x] < rank[y]
  <2>1. rank[x] \in Int /\ rank[y] \in Int
    BY <1>1, <1>2
  <2>2. CASE <<x, y>> \in R
    BY <1>3, <2>2, Zenon
  <2>3. CASE <<y, x>> \in R
    <3>1. rank[y] < rank[x]
      BY <1>3, <2>3, Zenon
    <3>2. <<x, y>> \notin R
      BY <2>3, Zenon DEF Orders
    <3> QED BY <2>1, <3>1, <3>2
  <2>4. CASE x = y
    <3>1. <<x, y>> \notin R
      BY <2>4, Zenon DEF Orders
    <3> QED BY <2>1, <2>4, <3>1
  <2> QED BY <2>2, <2>3, <2>4, Zenon DEF Orders
<1>5. \A n \in 0 .. (N - 1) : \E x \in S : rank[x] = n
  <2>1. rank \in Injection(S, 0 .. (N - 1))
    <3>1. rank \in [S -> 0 .. (N - 1)]
      BY <1>2, Zenon
    <3>2. ASSUME NEW x \in S, NEW y \in S, rank[x] = rank[y]
          PROVE  x = y
      <4>1. ~(rank[x] < rank[y]) /\ ~(rank[y] < rank[x])
        BY <1>1, <1>2, <3>2
      <4> QED BY <1>4, <4>1, Zenon DEF Orders
    <3> HIDE DEF rank
    <3> QED BY <3>1, <3>2, Zenon DEF Injection, IsInjective
  <2>2. IsFiniteSet(0 .. (N - 1)) /\ Cardinality(0 .. (N - 1)) = N
    BY <1>1, FS_Interval
  <2>3. rank \in Surjection(S, 0 .. (N - 1))
    <3> HIDE DEF rank, N
    <3> QED BY <2>1, <2>2, FS_Injection, Zenon DEF N
  <2> HIDE DEF rank, N
  <2> QED BY <2>3, Zenon DEF Surjection
<1> QED BY <1>2, <1>4, <1>5, Zenon

-----------------------------------------------------------------------------
(***************************************************************************)
(* Transaction feeds, for any number of feeds, consumers and blocks.       *)
(***************************************************************************)
\* What makes AckedOnce inductive: an acknowledgement ends at or before the cursor of
\* its feed, if that exists, and begins before it ends.
AckedBehind ==
  \A a \in acked :
    /\ Earlier(a.prev, a.after)
    /\ a.id \in DOMAIN feeds => ~Earlier(feeds[a.id].after, a.after)

FeedInv == FeedTypeOK /\ AckedBehind /\ AckedOnce

\* The order of cursors is the lexicographic one.
LEMMA EarlierOrder ==
  ASSUME NEW a \in Cursor, NEW b \in Cursor, NEW c \in Cursor
  PROVE /\ ~Earlier(a, a)
        /\ Earlier(a, b) /\ Earlier(b, c) => Earlier(a, c)
        /\ ~Earlier(b, a) /\ ~Earlier(c, b) => ~Earlier(c, a)
        /\ Earlier(a, b) => ~Earlier(b, a)
  BY FeedAssumption DEF Earlier, Cursor

\* The initial table satisfies the inductive invariant.
LEMMA FeedInvInit == FeedInit => FeedInv
  BY FeedAssumption DEF FeedInit, FeedInv, FeedTypeOK, AckedBehind, AckedOnce, Feed

\* A step that leaves acknowledgements alone and keeps the cursors of the feeds it
\* keeps preserves the part of the invariant about acknowledgements.
LEMMA CursorsKept ==
  ASSUME FeedInv, acked' = acked,
         \A i \in DOMAIN feeds' : (\A a \in acked : a.id # i) \/ (i \in DOMAIN feeds /\ feeds'[i] = feeds[i])
  PROVE AckedBehind' /\ AckedOnce'
  BY Zenon DEF FeedInv, AckedBehind, AckedOnce, Earlier

\* Every action preserves the inductive invariant.
LEMMA FeedInvNext == FeedInv /\ [FeedNext]_fvars => FeedInv'
<1> SUFFICES ASSUME FeedInv, [FeedNext]_fvars PROVE FeedInv'
  BY Zenon
<1>t. FeedTypeOK /\ AckedBehind /\ AckedOnce
  BY Zenon DEF FeedInv
<1>s. CASE UNCHANGED <<feeds, nextID, looking, acked, answered>> /\ chainHeight' \in 0 .. MaxCursorHeight
  <2>1. FeedTypeOK'
    BY <1>t, <1>s, Zenon DEF FeedTypeOK
  <2>2. QED
    BY <2>1, <1>s, <1>t, Zenon DEF FeedInv, AckedBehind, AckedOnce, Earlier
<1>1. CASE AddBlock
  <2>1. chainHeight' \in 0 .. MaxCursorHeight
    BY <1>1, <1>t, FeedAssumption DEF AddBlock, FeedTypeOK
  <2>2. QED
    BY <1>1, <1>s, <2>1, Zenon DEF AddBlock
<1>2. CASE createTxFeed
  <2>0. PICK alias \in Alias \cup {Nil}, token \in Token \cup {Nil}, stop \in Stop :
          Insert(alias, token, [height |-> chainHeight, pos |-> MaxPos, stop |-> stop])
    BY <1>2, Zenon DEF createTxFeed
  <2>n. nextID \in 1 .. MaxID
    BY <1>2, <1>t, FeedAssumption DEF createTxFeed, FeedTypeOK
  <2> DEFINE after == [height |-> chainHeight, pos |-> MaxPos, stop |-> stop]
             made == [alias |-> alias, token |-> token, after |-> after]
  <2>a. after \in Cursor /\ made \in Feed
    BY <1>t, FeedAssumption DEF FeedTypeOK, Cursor, Feed
  <2>f. /\ feeds' = [i \in DOMAIN feeds \cup {nextID} |-> IF i = nextID THEN made ELSE feeds[i]]
        /\ nextID' = nextID + 1 /\ acked' = acked /\ looking' = looking /\ chainHeight' = chainHeight
        /\ answered' = [t \in Token |-> IF t = token THEN nextID ELSE answered[t]]
    BY <2>0, Zenon DEF Insert, Answer
  <2>1. feeds' \in [DOMAIN feeds' -> Feed] /\ DOMAIN feeds' \subseteq 1 .. (nextID' - 1)
    <3> HIDE DEF made
    <3>1. DOMAIN feeds' = DOMAIN feeds \cup {nextID}
      BY <2>f, Zenon
    <3>2. ASSUME NEW i \in DOMAIN feeds' PROVE feeds'[i] \in Feed
      BY <2>f, <2>a, <1>t, Zenon DEF FeedTypeOK
    <3>3. feeds' = [i \in DOMAIN feeds' |-> feeds'[i]]
      BY <2>f, <3>1, Zenon
    <3>4. feeds' \in [DOMAIN feeds' -> Feed]
      BY <3>2, <3>3, Zenon
    <3>5. DOMAIN feeds' \subseteq 1 .. (nextID' - 1)
      BY <3>1, <2>f, <2>n, <1>t DEF FeedTypeOK
    <3>6. QED
      BY <3>4, <3>5, Zenon
  <2>2. acked' \subseteq [id : 1 .. (nextID' - 1), prev : Cursor, after : Cursor]
    BY <2>f, <2>n, <1>t DEF FeedTypeOK
  <2>3. answered' \in [Token -> 0 .. MaxID]
    BY <2>f, <2>n, <1>t, FeedAssumption DEF FeedTypeOK
  <2>4. FeedTypeOK'
    <3>1. nextID' \in 1 .. (MaxID + 1)
      BY <2>f, <2>n, FeedAssumption
    <3>2. QED
      BY <3>1, <2>1, <2>2, <2>3, <2>f, <1>t, Zenon DEF FeedTypeOK
  <2>5. \A a \in acked : a.id # nextID
    BY <1>t, <2>n DEF FeedTypeOK
  <2>6. \A i \in DOMAIN feeds' : (\A a \in acked : a.id # i) \/ (i \in DOMAIN feeds /\ feeds'[i] = feeds[i])
    BY <2>5, <2>f, Zenon
  <2>7. QED
    BY <2>4, <2>6, <2>f, CursorsKept, Zenon DEF FeedInv
<1>3. CASE createRepeated
  <2>1. FeedTypeOK'
    BY <1>3, <1>t, Zenon DEF FeedTypeOK, createRepeated
  <2>2. QED
    BY <2>1, <1>3, CursorsKept, Zenon DEF FeedInv, createRepeated
<1>4. CASE txfeedByClientToken
  <2>1. answered' \in [Token -> 0 .. MaxID]
    <3>1. CASE \E token \in looking : \E i \in DOMAIN feeds : Answer(token, i)
      <4>1. DOMAIN feeds \subseteq 0 .. MaxID
        BY <1>t, FeedAssumption DEF FeedTypeOK
      <4>2. QED
        BY <3>1, <4>1, <1>t, Zenon DEF FeedTypeOK, Answer
    <3>2. CASE UNCHANGED answered
      BY <3>2, <1>t, Zenon DEF FeedTypeOK
    <3>3. QED
      BY <1>4, <3>1, <3>2, Zenon DEF txfeedByClientToken
  <2>2. FeedTypeOK'
    BY <2>1, <1>4, <1>t, Zenon DEF FeedTypeOK, txfeedByClientToken
  <2>3. QED
    BY <2>2, <1>4, CursorsKept, Zenon DEF FeedInv, txfeedByClientToken
<1>5. CASE deleteTxFeed
  <2>0. PICK i \in DOMAIN feeds : feeds' = [j \in DOMAIN feeds \ {i} |-> feeds[j]]
    BY <1>5, Zenon DEF deleteTxFeed
  <2>1. FeedTypeOK'
    BY <2>0, <1>5, <1>t, Zenon DEF FeedTypeOK, deleteTxFeed
  <2>2. \A j \in DOMAIN feeds' : j \in DOMAIN feeds /\ feeds'[j] = feeds[j]
    BY <2>0, Zenon
  <2>3. QED
    BY <2>1, <2>2, <1>5, CursorsKept, Zenon DEF FeedInv, deleteTxFeed
<1>6. CASE updateTxFeed
  <2>0. PICK i \in DOMAIN feeds, prev \in Cursor, after \in Cursor :
          /\ ~Earlier(after, prev) /\ feeds[i].after = prev
          /\ feeds' = [feeds EXCEPT ![i].after = after]
          /\ acked' = acked \cup {a \in {[id |-> i, prev |-> prev, after |-> after]} : Earlier(prev, after)}
    BY <1>6, Zenon DEF updateTxFeed, Found, txAfterIsBefore, Earlier
  <2>u. nextID' = nextID /\ looking' = looking /\ answered' = answered /\ chainHeight' = chainHeight
    BY <1>6, Zenon DEF updateTxFeed
  <2> DEFINE new == [id |-> i, prev |-> prev, after |-> after]
  <2>i. i \in 1 .. (nextID - 1) /\ new \in [id : 1 .. (nextID - 1), prev : Cursor, after : Cursor]
    BY <1>t, Zenon DEF FeedTypeOK
  <2>d. /\ DOMAIN feeds' = DOMAIN feeds /\ feeds'[i].after = after
        /\ \A j \in DOMAIN feeds : j # i => feeds'[j] = feeds[j]
    BY <2>0, <1>t, Zenon DEF FeedTypeOK, Feed
  <2>1. FeedTypeOK'
    <3>1. feeds' \in [DOMAIN feeds' -> Feed]
      BY <2>0, <2>d, <1>t DEF FeedTypeOK, Feed
    <3>2. acked' \subseteq [id : 1 .. (nextID' - 1), prev : Cursor, after : Cursor]
      BY <2>0, <2>u, <2>i, <1>t, Zenon DEF FeedTypeOK
    <3>3. QED
      BY <3>1, <3>2, <2>d, <2>u, <1>t, Zenon DEF FeedTypeOK
  <2>c. \A a \in acked : a.prev \in Cursor /\ a.after \in Cursor
    BY <1>t, Zenon DEF FeedTypeOK
  <2>o. \A a \in acked : a.id = i => ~Earlier(prev, a.after)
    BY <2>0, <1>t, Zenon DEF AckedBehind
  <2>2. AckedBehind'
    <3>1. ASSUME NEW a \in acked', a.id \in DOMAIN feeds' PROVE ~Earlier(feeds'[a.id].after, a.after)
      <4>1. CASE a = new
        BY <4>1, <2>d, EarlierOrder, Zenon
      <4>2. CASE a \in acked /\ a.id = i
        BY <4>2, <2>d, <2>c, <2>o, <2>0, EarlierOrder
      <4>3. CASE a \in acked /\ a.id # i
        BY <4>3, <3>1, <2>d, <1>t, Zenon DEF AckedBehind
      <4>4. QED
        BY <4>1, <4>2, <4>3, <2>0, Zenon
    <3>2. ASSUME NEW a \in acked' PROVE Earlier(a.prev, a.after)
      BY <2>0, <1>t DEF AckedBehind
    <3>3. QED
      BY <3>1, <3>2, Zenon DEF AckedBehind, Earlier
  <2>3. AckedOnce'
    <3>1. ASSUME NEW a \in acked', NEW b \in acked', a # b, a.id = b.id
          PROVE ~Earlier(a.prev, b.after) \/ ~Earlier(b.prev, a.after)
      <4>1. CASE a \in acked /\ b \in acked
        BY <4>1, <3>1, <1>t, Zenon DEF AckedOnce
      <4>2. CASE a = new /\ b \in acked
        BY <4>2, <3>1, <2>o, Zenon
      <4>3. CASE b = new /\ a \in acked
        BY <4>3, <3>1, <2>o, Zenon
      <4>4. QED
        BY <4>1, <4>2, <4>3, <3>1, <2>0, Zenon
    <3>2. QED
      BY <3>1, Zenon DEF AckedOnce, Earlier
  <2>4. QED
    BY <2>1, <2>2, <2>3, Zenon DEF FeedInv
<1>7. CASE listTxFeeds
  BY <1>7, <1>s, <1>t, Zenon DEF listTxFeeds, FeedTypeOK
<1>8. CASE UNCHANGED fvars
  BY <1>8, <1>s, <1>t, Zenon DEF fvars, FeedTypeOK
<1>9. QED
  BY <1>1, <1>2, <1>3, <1>4, <1>5, <1>6, <1>7, <1>8, Zenon DEF FeedNext

\* The inductive invariant holds in every reachable state.
THEOREM FeedInvariant == FeedSpec => []FeedInv
  BY FeedInvInit, FeedInvNext, PTL DEF FeedSpec

\* No transaction of a feed is acknowledged twice (txfeed.go, Update).
THEOREM FeedAckedOnce == FeedSpec => []AckedOnce
<1>1. FeedInv => AckedOnce
  BY Zenon DEF FeedInv
<1>2. QED
  BY <1>1, FeedInvariant, PTL

\* The cursor of a feed never goes back (txfeeds.go, updateTxFeed).
THEOREM FeedAfterAdvances == FeedSpec => AfterAdvances
<1>1. FeedInv /\ [FeedNext]_fvars =>
        [\A i \in DOMAIN feeds \cap DOMAIN feeds' : ~Earlier(feeds'[i].after, feeds[i].after)]_fvars
  <2> SUFFICES ASSUME FeedInv, FeedNext, NEW i \in DOMAIN feeds \cap DOMAIN feeds'
               PROVE ~Earlier(feeds'[i].after, feeds[i].after)
    BY Zenon
  <2>t. feeds[i].after \in Cursor /\ feeds \in [DOMAIN feeds -> Feed] /\ nextID \notin DOMAIN feeds
    BY DEF FeedInv, FeedTypeOK, Feed
  <2>1. CASE feeds'[i] = feeds[i]
    BY <2>1, <2>t, EarlierOrder, Zenon
  <2>2. CASE updateTxFeed
    <3>1. PICK j \in DOMAIN feeds, prev \in Cursor, after \in Cursor :
            /\ ~Earlier(after, prev) /\ feeds[j].after = prev /\ feeds' = [feeds EXCEPT ![j].after = after]
      BY <2>2, Zenon DEF updateTxFeed, Found, txAfterIsBefore, Earlier
    <3>2. CASE i = j
      BY <3>1, <3>2, <2>t, Zenon DEF Feed
    <3>3. CASE i # j
      BY <3>1, <3>3, <2>1, Zenon
    <3>4. QED
      BY <3>2, <3>3, Zenon
  <2>3. CASE createTxFeed
    BY <2>3, <2>1, <2>t, Zenon DEF createTxFeed, Insert
  <2>4. CASE deleteTxFeed
    BY <2>4, <2>1, Zenon DEF deleteTxFeed
  <2>5. CASE AddBlock \/ createRepeated \/ txfeedByClientToken \/ listTxFeeds
    BY <2>5, <2>1, Zenon DEF AddBlock, createRepeated, txfeedByClientToken, listTxFeeds
  <2>6. QED
    BY <2>2, <2>3, <2>4, <2>5, Zenon DEF FeedNext
<1>2. QED
  BY <1>1, FeedInvariant, PTL DEF FeedSpec, AfterAdvances


\* A page is the rows with fewer than P rows before them: it has a last row, and one
\* that is not full is the last page (txfeed/query.go, LIMIT and LastPage).
FirstOf(S, R, P) == {x \in S : Cardinality(Ahead(S, R, x)) < P}
LEMMA FirstRows ==
  ASSUME NEW S, IsFiniteSet(S), NEW R, Orders(R, S), NEW P \in Nat \ {0}
  PROVE  /\ S # {} => \E x \in FirstOf(S, R, P) : \A y \in FirstOf(S, R, P) : <<x, y>> \notin R
         /\ Cardinality(FirstOf(S, R, P)) < P => FirstOf(S, R, P) = S
<1> DEFINE N == Cardinality(S)
           rows == FirstOf(S, R, P)
           rank(x) == Cardinality(Ahead(S, R, x))
<1>1. /\ \A x \in S : rank(x) \in 0 .. (N - 1)
      /\ \A x, y \in S : <<x, y>> \in R <=> rank(x) < rank(y)
      /\ \A n \in 0 .. (N - 1) : \E x \in S : rank(x) = n
  BY Places, Zenon
<1>2. N \in Nat
  BY FS_CardinalityType, Zenon
<1>3. rows = {x \in S : rank(x) < P}
  BY Zenon DEF FirstOf
<1> HIDE DEF rows
<1>4. \A x \in S : Ahead(S, R, x) = {y \in S : <<y, x>> \in R}
  BY Zenon DEF Ahead
<1>5. ASSUME S # {} PROVE \E x \in rows : \A y \in rows : <<x, y>> \notin R
  <2> DEFINE m == IF N < P THEN N - 1 ELSE P - 1
  <2>1. m \in 0 .. (N - 1) /\ m < P /\ \A k \in 0 .. (N - 1) : k < P => ~(m < k)
    <3>1. PICK x \in S : TRUE
      BY <1>5, Zenon
    <3>2. rank(x) \in 0 .. (N - 1)
      BY <1>1, Zenon
    <3> HIDE DEF rank, N
    <3> QED BY <1>2, <3>2
  <2> HIDE DEF m, rank, N
  <2>2. PICK x \in S : rank(x) = m
    BY <1>1, <2>1, Zenon
  <2>3. x \in rows /\ \A y \in rows : ~(rank(x) < rank(y))
    BY <1>1, <1>3, <2>1, <2>2, Zenon
  <2> QED BY <1>1, <1>3, <2>3, Zenon
<1>6. ASSUME Cardinality(rows) < P, NEW i \in S, i \notin rows PROVE FALSE
  <2>1. P \in 0 .. (N - 1)
    <3>1. rank(i) \in 0 .. (N - 1) /\ ~(rank(i) < P)
      BY <1>1, <1>3, <1>6, Zenon
    <3> HIDE DEF rank, N
    <3> QED BY <1>2, <3>1
  <2>2. PICK x \in S : rank(x) = P
    BY <1>1, <2>1, Zenon
  <2>3. Ahead(S, R, x) = rows
    <3> HIDE DEF rank
    <3> QED BY <1>1, <1>3, <1>4, <2>2, Zenon
  <2> QED BY <1>6, <2>2, <2>3
<1> QED BY <1>3, <1>5, <1>6, Zenon DEF rows
-----------------------------------------------------------------------------
\* What makes FeedsListed inductive: a listing has the feeds from its cursor up, and
\* only those.
Listed(i) == \E r \in pages.got : r.id = i
ListedInv ==
  /\ pages.after \in Int /\ pages.base \subseteq 1 .. (nextID - 1)
  /\ pages.state = "new" => pages.after = MaxID + 1 /\ pages.got = {} /\ pages.base = {}
  /\ \A r \in pages.got : r.id \in Int /\ r.id >= pages.after
  /\ \A r, s \in pages.got : r.id = s.id => r = s
  /\ \A i \in pages.base \cap DOMAIN feeds : (i >= pages.after \/ pages.state = "done") => Listed(i)

\* A page of numbers, the highest first.
TopOf(S, P) == {i \in S : Cardinality({j \in S : j > i}) < P}
LEMMA PageOfIDs ==
  ASSUME NEW S, S \subseteq Int, IsFiniteSet(S), NEW P \in Nat \ {0}
  PROVE  /\ TopOf(S, P) \subseteq S
         /\ S # {} => \E x \in TopOf(S, P) : \A y \in TopOf(S, P) : x <= y
         /\ Cardinality(TopOf(S, P)) < P => TopOf(S, P) = S
         /\ \A i \in S : \A j \in TopOf(S, P) : i >= j => i \in TopOf(S, P)
<1> DEFINE R == {p \in Int \X Int : p[1] > p[2]}
           rows == TopOf(S, P)
           rank(i) == Cardinality(Ahead(S, R, i))
<1>1. \A x, y \in S : <<x, y>> \in R <=> x > y
  BY Zenon
<1> HIDE DEF R
<1>2. Orders(R, S)
  BY <1>1 DEF Orders
<1>3. ASSUME NEW i \in S PROVE {j \in S : j > i} = Ahead(S, R, i)
  BY <1>1, Zenon DEF Ahead
<1>4. rows = {i \in S : rank(i) < P} /\ rows = FirstOf(S, R, P)
  BY <1>3, Zenon DEF TopOf, FirstOf
<1> HIDE DEF rows
<1>5. /\ S # {} => \E x \in rows : \A y \in rows : <<x, y>> \notin R
      /\ Cardinality(rows) < P => rows = S
  BY <1>2, <1>4, FirstRows, Zenon
<1>6. S # {} => \E x \in rows : \A y \in rows : x <= y
  <2>1. rows \subseteq S
    BY <1>4, Zenon
  <2>2. \A x, y \in S : <<x, y>> \notin R => x <= y
    BY <1>1
  <2> QED BY <1>5, <2>1, <2>2, Zenon
<1>7. /\ \A x \in S : rank(x) \in 0 .. (Cardinality(S) - 1)
      /\ \A x, y \in S : <<x, y>> \in R <=> rank(x) < rank(y)
  BY <1>2, Places, Zenon
<1>8. Cardinality(S) \in Nat
  BY FS_CardinalityType, Zenon
<1> HIDE DEF rank
<1>9. ASSUME NEW i \in S, NEW j \in rows, i >= j PROVE i \in rows
  <2>1. j \in S /\ rank(j) < P
    BY <1>4, Zenon
  <2>2. ~(j > i)
    BY <1>9, <2>1
  <2>3. ~(rank(j) < rank(i))
    BY <1>1, <1>7, <2>1, <2>2, Zenon
  <2>4. rank(i) \in Int /\ rank(j) \in Int
    BY <1>7, <1>8, <2>1
  <2>5. rank(i) < P
    BY <2>1, <2>3, <2>4
  <2> QED BY <1>4, <2>5, Zenon
<1> QED BY <1>4, <1>5, <1>6, <1>9, Zenon DEF rows

\* The page that listTxFeeds reads, and the cursor it returns.
LEMMA ListingStep == ASSUME FeedTypeOK, ListedInv, listTxFeeds PROVE ListedInv'
<1> DEFINE S == Below(pages.after)
           rows == {i \in S : Cardinality({j \in S : j > i}) < PageSize}
           last == IF rows = {} THEN pages.after ELSE CHOOSE i \in rows : \A j \in rows : i <= j
           base == IF pages.state = "new" THEN DOMAIN feeds ELSE pages.base
           new == {[id |-> i, from |-> pages.after] : i \in rows}
<1>1. /\ pages' = [state |-> IF Cardinality(rows) < PageSize THEN "done" ELSE "paging",
                   after |-> last, got |-> pages.got \cup new, base |-> base]
      /\ UNCHANGED <<feeds, nextID>> /\ pages.state # "done"
  BY Zenon DEF listTxFeeds
<1>2. pages.after \in Int /\ nextID \in 1 .. (MaxID + 1) /\ DOMAIN feeds \subseteq 1 .. (nextID - 1)
  BY Zenon DEF FeedTypeOK, ListedInv
<1>3. \A i : i \in S <=> i \in DOMAIN feeds /\ i < pages.after
  BY Zenon DEF Below
<1>4. rows = TopOf(S, PageSize)
  BY Zenon DEF TopOf
<1>5. last = IF rows = {} THEN pages.after ELSE CHOOSE i \in rows : \A j \in rows : i <= j
  BY Zenon
<1>6. \A r : r \in new <=> \E i \in rows : r = [id |-> i, from |-> pages.after]
  BY Zenon
<1>7. base = IF pages.state = "new" THEN DOMAIN feeds ELSE pages.base
  BY Zenon
<1> HIDE DEF S, rows, last, base, new
<1>8. S \subseteq Int /\ IsFiniteSet(S)
  <2>1. nextID - 1 \in Int /\ S \in SUBSET (1 .. (nextID - 1))
    BY <1>2, <1>3, FeedAssumption
  <2>2. IsFiniteSet(1 .. (nextID - 1))
    BY <2>1, FS_Interval
  <2>3. IsFiniteSet(S)
    BY <2>1, <2>2, FS_Subset, Zenon
  <2> QED BY <2>1, <2>3
<1>9. /\ rows \subseteq S
      /\ S # {} => \E x \in rows : \A y \in rows : x <= y
      /\ Cardinality(rows) < PageSize => rows = S
      /\ \A i \in S : \A j \in rows : i >= j => i \in rows
  <2>1. PageSize \in Nat \ {0}
    BY FeedAssumption, Zenon
  <2> QED BY <1>4, <1>8, <2>1, PageOfIDs, Zenon
<1>10. /\ last \in Int /\ last <= pages.after /\ (rows # {} => last \in rows) /\ \A j \in rows : last <= j
       /\ rows = {} => S = {}
  <2>1. CASE rows = {}
    BY <1>2, <1>5, <1>9, <2>1
  <2>2. CASE rows # {}
    <3>1. \E x \in rows : \A y \in rows : x <= y
      BY <1>9, <2>2, Zenon
    <3>2. last \in rows /\ \A j \in rows : last <= j
      BY <1>5, <2>2, <3>1, Zenon
    <3>3. last \in Int /\ last < pages.after
      BY <1>3, <1>8, <1>9, <3>2, Zenon
    <3> QED BY <1>2, <2>2, <3>2, <3>3
  <2> QED BY <2>1, <2>2, Zenon
<1>11. ASSUME NEW i \in base \cap DOMAIN feeds, i >= last \/ Cardinality(rows) < PageSize
       PROVE  \E r \in pages.got \cup new : r.id = i
  <2>1. i \in Int /\ i <= MaxID
    BY <1>2, FeedAssumption
  <2>2. CASE i >= pages.after
    <3>1. pages.state # "new"
      BY <2>1, <2>2, FeedAssumption DEF ListedInv
    <3>2. i \in pages.base \cap DOMAIN feeds
      BY <1>7, <1>11, <3>1, Zenon
    <3> QED BY <2>2, <3>2, Zenon DEF ListedInv, Listed
  <2>3. CASE i < pages.after
    <3>1. i \in S
      BY <1>3, <2>3, Zenon
    <3>2. i \in rows
      BY <1>9, <1>10, <1>11, <3>1, Zenon
    <3>3. [id |-> i, from |-> pages.after] \in new
      BY <1>6, <3>2, Zenon
    <3> QED BY <3>3
  <2> QED BY <1>2, <2>1, <2>2, <2>3
<1>12. \A r \in new : r.id \in rows /\ r.id \in Int /\ r.id < pages.after /\ r = [id |-> r.id, from |-> pages.after]
  BY <1>3, <1>6, <1>8, <1>9
<1>13. \A r \in pages.got : r.id \in Int /\ r.id >= pages.after
  BY Zenon DEF ListedInv
<1>14. \A r \in pages.got \cup new : r.id \in Int /\ r.id >= last
  BY <1>2, <1>10, <1>12, <1>13
<1>15. \A r, s \in pages.got \cup new : r.id = s.id => r = s
  BY <1>2, <1>12, <1>13 DEF ListedInv
<1>16. base \subseteq 1 .. (nextID - 1)
  BY <1>2, <1>7, Zenon DEF ListedInv
<1>17. /\ pages'.after = last /\ pages'.base = base /\ pages'.got = pages.got \cup new
       /\ pages'.state \in {"done", "paging"} /\ (pages'.state = "done" => Cardinality(rows) < PageSize)
  BY <1>1, Zenon
<1> QED BY <1>1, <1>10, <1>11, <1>14, <1>15, <1>16, <1>17, Zenon DEF ListedInv, Listed

\* Feeds that come have new numbers and feeds that go are not asked for.
LEMMA ListedNext == ASSUME FeedTypeOK, ListedInv, [FeedNext]_fvars PROVE ListedInv'
<1>1. CASE createTxFeed
  <2>1. /\ DOMAIN feeds' = DOMAIN feeds \cup {nextID} /\ nextID' = nextID + 1 /\ pages' = pages
    BY <1>1, Zenon DEF createTxFeed, Insert
  <2>2. pages.base \subseteq 1 .. (nextID' - 1) /\ nextID \notin pages.base
    BY <2>1 DEF ListedInv, FeedTypeOK
  <2> QED BY <2>1, <2>2, Zenon DEF ListedInv, Listed
<1>2. CASE listTxFeeds
  BY <1>2, ListingStep, Zenon
<1>3. CASE DOMAIN feeds' \subseteq DOMAIN feeds /\ UNCHANGED <<pages, nextID>>
  BY <1>3, Zenon DEF ListedInv, Listed
<1>4. CASE deleteTxFeed
  BY <1>3, <1>4, Zenon DEF deleteTxFeed
<1>5. CASE updateTxFeed
  BY <1>3, <1>5, Zenon DEF updateTxFeed
<1>6. CASE AddBlock \/ createRepeated \/ txfeedByClientToken \/ UNCHANGED fvars
  BY <1>3, <1>6, Zenon DEF AddBlock, createRepeated, txfeedByClientToken, fvars
<1> QED BY <1>1, <1>2, <1>4, <1>5, <1>6, Zenon DEF FeedNext

\* A client token names one feed: no two feeds have it, and the feed a request with the
\* token was answered with has it (txfeed.go, insertTxFeed).
TokenInv ==
  /\ \A i, j \in DOMAIN feeds : feeds[i].token = feeds[j].token /\ feeds[i].token # Nil => i = j
  /\ \A t \in Token : answered[t] < nextID /\ (answered[t] \in DOMAIN feeds => feeds[answered[t]].token = t)

\* Whatever a step does to the feeds, they keep their tokens, and an answer stays.
LEMMA TokenStep ==
  ASSUME FeedTypeOK, TokenInv, [FeedNext]_fvars
  PROVE  TokenInv' /\ \A t \in Token : answered[t] \in DOMAIN feeds => answered'[t] = answered[t]
<1> USE FeedAssumption
<1>t. nextID \in Int /\ DOMAIN feeds \subseteq 1 .. (nextID - 1) /\ answered \in [Token -> Int] /\ feeds \in [DOMAIN feeds -> Feed]
  BY DEF FeedTypeOK
<1>1. CASE createTxFeed
  <2>1. PICK alias \in Alias \cup {Nil}, token \in Token \cup {Nil}, stop \in Stop :
          /\ ~TokenTaken(token)
          /\ Insert(alias, token, [height |-> chainHeight, pos |-> MaxPos, stop |-> stop])
    BY <1>1, Zenon DEF createTxFeed
  <2>2. /\ DOMAIN feeds' = DOMAIN feeds \cup {nextID} /\ nextID' = nextID + 1
        /\ feeds'[nextID].token = token /\ \A i \in DOMAIN feeds : feeds'[i] = feeds[i]
    BY <1>t, <2>1 DEF Insert
  <2>3. answered' = [t \in Token |-> IF t = token THEN nextID ELSE answered[t]]
    BY <2>1, Zenon DEF Insert, Answer
  <2>4. token # Nil => \A i \in DOMAIN feeds : feeds[i].token # token
    BY <2>1, Zenon DEF TokenTaken
  <2>5. \A i, j \in DOMAIN feeds' : feeds'[i].token = feeds'[j].token /\ feeds'[i].token # Nil => i = j
    BY <2>2, <2>4, Zenon DEF TokenInv
  <2>6. ASSUME NEW t \in Token
        PROVE  /\ answered'[t] < nextID' /\ (answered'[t] \in DOMAIN feeds' => feeds'[answered'[t]].token = t)
               /\ answered[t] \in DOMAIN feeds => answered'[t] = answered[t]
    <3>1. CASE t = token
      BY <1>t, <2>2, <2>3, <2>4, <3>1 DEF TokenInv
    <3>2. CASE t # token
      BY <1>t, <2>2, <2>3, <3>2 DEF TokenInv
    <3> QED BY <3>1, <3>2, Zenon
  <2> QED BY <2>5, <2>6, Zenon DEF TokenInv
<1>2. CASE txfeedByClientToken
  <2>1. feeds' = feeds /\ nextID' = nextID
    BY <1>2, Zenon DEF txfeedByClientToken
  <2>2. CASE answered' = answered
    BY <2>1, <2>2, Zenon DEF TokenInv
  <2>3. ASSUME NEW token \in looking, NEW i \in DOMAIN feeds, feeds[i].token = token, Answer(token, i)
        PROVE  TokenInv' /\ \A t \in Token : answered[t] \in DOMAIN feeds => answered'[t] = answered[t]
    <3>1. token \in Token
      BY Zenon DEF FeedTypeOK
    <3>2. answered' = [t \in Token |-> IF t = token THEN i ELSE answered[t]]
      BY <2>3, Zenon DEF Answer
    <3>3. answered[token] \in DOMAIN feeds => answered[token] = i
      BY <2>3, <3>1, Zenon DEF TokenInv
    <3>4. i < nextID
      BY <1>t
    <3> QED BY <2>1, <2>3, <3>1, <3>2, <3>3, <3>4, Zenon DEF TokenInv
  <2> QED BY <1>2, <2>2, <2>3, Zenon DEF txfeedByClientToken
<1>3. CASE /\ DOMAIN feeds' \subseteq DOMAIN feeds /\ UNCHANGED <<answered, nextID>>
           /\ \A i \in DOMAIN feeds' : feeds'[i].token = feeds[i].token
  BY <1>3, Zenon DEF TokenInv
<1>4. CASE deleteTxFeed
  BY <1>3, <1>4, Zenon DEF deleteTxFeed
<1>5. CASE updateTxFeed
  <2>1. PICK i \in DOMAIN feeds, after \in Cursor : feeds' = [feeds EXCEPT ![i].after = after]
    BY <1>5, Zenon DEF updateTxFeed
  <2>2. DOMAIN feeds' = DOMAIN feeds /\ \A j \in DOMAIN feeds : feeds'[j].token = feeds[j].token
    BY <1>t, <2>1, Zenon DEF Feed
  <2> QED BY <1>3, <1>5, <2>2, Zenon DEF updateTxFeed
<1>6. CASE AddBlock \/ createRepeated \/ listTxFeeds \/ UNCHANGED fvars
  BY <1>3, <1>6, Zenon DEF AddBlock, createRepeated, listTxFeeds, fvars
<1> QED BY <1>1, <1>2, <1>4, <1>5, <1>6, Zenon DEF FeedNext

\* The pages of a listing name a feed once, and every feed that exists from the first
\* page to the last, whatever feeds are created and deleted meanwhile (listTxFeeds).
THEOREM FeedAllListed == FeedSpec => []FeedsListed
<1>1. FeedInit => ListedInv
  BY FeedAssumption DEF FeedInit, ListedInv, Listed
<1>2. FeedInv /\ ListedInv /\ [FeedNext]_fvars => ListedInv'
  BY ListedNext, Zenon DEF FeedInv
<1>3. ListedInv => FeedsListed
  BY Zenon DEF ListedInv, Listed, FeedsListed
<1> QED BY <1>1, <1>2, <1>3, FeedInvariant, PTL DEF FeedSpec

\* As long as the feed a client token was answered with exists, requests that are
\* repeated with the token are answered with it (createTxFeed).
THEOREM FeedTokenNamesFeed == FeedSpec => TokenNamesFeed
<1>1. FeedInit => TokenInv
  BY FeedAssumption DEF FeedInit, TokenInv
<1>2. FeedInv /\ TokenInv /\ [FeedNext]_fvars => TokenInv'
  BY TokenStep, Zenon DEF FeedInv
<1>3. FeedInv /\ TokenInv /\ [FeedNext]_fvars =>
        [\A t \in Token : answered[t] \in DOMAIN feeds => answered'[t] = answered[t]]_fvars
  BY TokenStep, Zenon DEF FeedInv
<1> QED BY <1>1, <1>2, <1>3, FeedInvariant, PTL DEF FeedSpec, TokenNamesFeed

-----------------------------------------------------------------------------
-----------------------------------------------------------------------------
(***************************************************************************)
(* The index and its clients, for every chain, page size and number of     *)
(* failures.                                                               *)
(***************************************************************************)
Height == 0 .. Len(Chain)
TxsUpTo(n) == UNION {TxsOf(h) : h \in 1 .. n}
InputsUpTo(n) == UNION {InputsOf(h) : h \in 1 .. n}
OutputsUpTo(n) == UNION {OutputsOf(h) : h \in 1 .. n}
Steps == {"idle", "block", "txs", "outputs", "spent", "inputs", "complete"}

\* Each table has the blocks up to pin, or one more, and no table is ahead of annotated_txs.
TablesAt(t, i, o) ==
  /\ t \in Height /\ i \in Height /\ o \in Height
  /\ t \in pin .. (pin + 1) /\ i \in pin .. t /\ o \in pin .. t
  /\ annotated_txs = TxsUpTo(t) /\ annotated_inputs = InputsUpTo(i) /\ DOMAIN annotated_outputs = OutputsUpTo(o)
  /\ step \in {"outputs", "spent", "inputs", "complete"} => t = pin + 1
  /\ step \in {"spent", "inputs", "complete"} => o = pin + 1
  /\ step = "complete" => i = pin + 1
TablesInv ==
  /\ height \in Height /\ pin \in 0 .. height /\ step \in Steps
  /\ step # "idle" => pin < height
  /\ 1 .. pin \subseteq query_blocks /\ query_blocks \subseteq 1 .. Len(Chain)
  /\ step \in {"txs", "outputs", "spent", "inputs", "complete"} => pin + 1 \in query_blocks
  /\ \E t, i, o \in Height : TablesAt(t, i, o)

\* The span s of output x when the blocks up to n have closed what they spend.
SpanAs(s, x, n) ==
  IF OutputAt(x).retire THEN s = Empty
  ELSE \E end \in 1 .. Forever :
         /\ s = <<Chain[x[1]].ts, end>>
         /\ \A k \in 1 .. n : OutputAt(x).id \in PrevoutIDs(k) => end = Chain[k].ts
         /\ (\A k \in 1 .. n : OutputAt(x).id \notin PrevoutIDs(k)) => end = Forever
SpansInv ==
  \A x \in DOMAIN annotated_outputs : ~SelfSpent(x) =>
    /\ SpanAs(annotated_outputs[x], x, pin) \/ (pin < height /\ SpanAs(annotated_outputs[x], x, pin + 1))
    /\ step \in {"inputs", "complete"} => SpanAs(annotated_outputs[x], x, pin + 1)

\* Blocks one after the other.
LEMMA UpToNext ==
  ASSUME NEW n \in Nat
  PROVE  /\ TxsUpTo(n + 1) = TxsUpTo(n) \cup TxsOf(n + 1)
         /\ InputsUpTo(n + 1) = InputsUpTo(n) \cup InputsOf(n + 1)
         /\ OutputsUpTo(n + 1) = OutputsUpTo(n) \cup OutputsOf(n + 1)
<1>1. 1 .. (n + 1) = (1 .. n) \cup {n + 1}
  OBVIOUS
<1> QED BY <1>1, Zenon DEF TxsUpTo, InputsUpTo, OutputsUpTo

\* Rows are numbered by their block.
LEMMA RowsOf ==
  ASSUME NEW n \in Nat
  PROVE  /\ \A x \in TxsUpTo(n) : x[1] \in 1 .. n /\ x[2] \in DOMAIN Chain[x[1]].txs /\ x = <<x[1], x[2]>>
         /\ \A x \in OutputsUpTo(n) : x[1] \in 1 .. n /\ x \in OutputsOf(x[1])
         /\ \A h \in 1 .. n : \A x \in OutputsOf(h) : x[1] = h
  BY DEF TxsUpTo, OutputsUpTo, TxsOf, OutputsOf

\* The chain as the protocol leaves it.
LEMMA Times ==
  ASSUME NEW h \in 1 .. Len(Chain)
  PROVE  /\ Chain[h].ts \in Int /\ 1 <= Chain[h].ts /\ Chain[h].ts < Forever
         /\ \A k \in 1 .. Len(Chain) : h < k => Chain[h].ts < Chain[k].ts
  BY IndexAssumption
LEMMA Spending ==
  ASSUME NEW h \in 1 .. Len(Chain), NEW x \in OutputsOf(h), NEW k \in 1 .. Len(Chain), OutputAt(x).id \in PrevoutIDs(k)
  PROVE  h <= k /\ ~OutputAt(x).retire /\ \A m \in 1 .. Len(Chain) : OutputAt(x).id \in PrevoutIDs(m) => m = k
<1>1. DOMAIN Chain = 1 .. Len(Chain)
  BY IndexAssumption, Zenon
<1>2. h <= k /\ ~OutputAt(x).retire
  BY <1>1, IndexAssumption, Zenon
<1>3. \A m, n \in DOMAIN Chain : m < n => PrevoutIDs(m) \cap PrevoutIDs(n) = {}
  BY IndexAssumption, Zenon
<1>4. ASSUME NEW m \in 1 .. Len(Chain), OutputAt(x).id \in PrevoutIDs(m) PROVE m = k
  <2>1. ~(m < k) /\ ~(k < m)
    BY <1>1, <1>3, <1>4, Zenon
  <2>2. m \in Int /\ k \in Int
    OBVIOUS
  <2> QED BY <2>1, <2>2
<1> QED BY <1>2, <1>4, Zenon

\* A new row of annotated_outputs, and a row that the UPDATE reaches.
LEMMA SpanNew ==
  ASSUME NEW n \in Nat, n < Len(Chain), NEW x \in OutputsOf(n + 1)
  PROVE  SpanAs(IF OutputAt(x).retire THEN Empty ELSE range(Chain[n + 1].ts, Forever), x, n)
<1>1. n + 1 \in 1 .. Len(Chain) /\ x[1] = n + 1 /\ Forever \in Nat
  BY RowsOf, IndexAssumption
<1>2. ASSUME NEW k \in 1 .. n PROVE OutputAt(x).id \notin PrevoutIDs(k)
  <2>1. k \in 1 .. Len(Chain) /\ ~(n + 1 <= k)
    BY IndexAssumption
  <2> QED BY <1>1, <2>1, Spending, Zenon
<1>3. range(Chain[n + 1].ts, Forever) = <<Chain[n + 1].ts, Forever>> /\ Forever \in 1 .. Forever
  BY <1>1, Times DEF range
<1> QED BY <1>1, <1>2, <1>3, Zenon DEF SpanAs
LEMMA SpanClosed ==
  ASSUME NEW n \in Nat, n < Len(Chain), NEW x \in OutputsUpTo(n + 1), ~SelfSpent(x), NEW s,
         SpanAs(s, x, n) \/ SpanAs(s, x, n + 1)
  PROVE  SpanAs(IF OutputAt(x).id \in PrevoutIDs(n + 1) THEN range(lower(s), Chain[n + 1].ts) ELSE s, x, n + 1)
<1> DEFINE h == x[1]
           m == n + 1
<1>1. h \in 1 .. m /\ x \in OutputsOf(h) /\ h \in 1 .. Len(Chain) /\ m \in 1 .. Len(Chain)
  BY RowsOf, IndexAssumption
<1>2. CASE OutputAt(x).id \in PrevoutIDs(m)
  <2>1. h <= m /\ ~OutputAt(x).retire /\ \A k \in 1 .. Len(Chain) : OutputAt(x).id \in PrevoutIDs(k) => k = m
    BY <1>1, <1>2, Spending, Zenon
  <2>2. h # m
    BY <1>2, Zenon DEF SelfSpent
  <2>3. Chain[h].ts \in Int /\ Chain[m].ts \in Int /\ 1 <= Chain[h].ts /\ Chain[h].ts < Chain[m].ts /\ Chain[m].ts < Forever
    BY <1>1, <2>1, <2>2, Times
  <2>4. PICK end : s = <<Chain[h].ts, end>>
    BY <2>1, Zenon DEF SpanAs
  <2>5. lower(s) = Chain[h].ts
    BY <2>3, <2>4 DEF lower, Empty
  <2>6. range(lower(s), Chain[m].ts) = <<Chain[h].ts, Chain[m].ts>>
    BY <2>3, <2>5 DEF range
  <2>7. Chain[m].ts \in 1 .. Forever
    BY <2>3, IndexAssumption
  <2>8. \A k \in 1 .. m : k \in 1 .. Len(Chain)
    BY <1>1, IndexAssumption
  <2> HIDE DEF h, m
  <2>9. SpanAs(<<Chain[h].ts, Chain[m].ts>>, x, m)
    <3>1. m \in 1 .. m
      BY <1>1
    <3> QED BY <1>2, <2>1, <2>7, <2>8, <3>1, Zenon DEF SpanAs, h
  <2> QED BY <1>2, <2>6, <2>9, Zenon DEF m
<1>3. CASE OutputAt(x).id \notin PrevoutIDs(m)
  <2>1. SpanAs(s, x, n) => SpanAs(s, x, m)
    <3>1. \A k \in 1 .. m : k \in 1 .. n \/ k = m
      OBVIOUS
    <3>2. \A k \in 1 .. n : k \in 1 .. m
      OBVIOUS
    <3> HIDE DEF m
    <3> QED BY <1>3, <3>1, <3>2, Zenon DEF SpanAs
  <2> QED BY <1>3, <2>1, Zenon
<1> QED BY <1>2, <1>3, Zenon


\* Clients read.
LEMMA ClientsRead ==
  ASSUME Listing \/ Polling \/ UNCHANGED ivars
  PROVE  UNCHANGED <<height, pin, step, query_blocks, annotated_txs, annotated_inputs, annotated_outputs>>
<1>1. CASE Listing
  BY <1>1, Zenon DEF Listing, ListFirst, ListPage, tables
<1>2. CASE Polling
  BY <1>2, Zenon DEF Polling, PollStart, PollFetch, PollTimeout, tables
<1>3. CASE UNCHANGED ivars
  BY <1>3, Zenon DEF ivars
<1> QED BY <1>1, <1>2, <1>3, Zenon

\* The tables are written in order, a block at a time, and may be written again.
LEMMA TablesNext == ASSUME TablesInv, [IndexNext \/ Listing \/ Polling]_ivars PROVE TablesInv'
<1>1. PICK t \in Height, i \in Height, o \in Height : TablesAt(t, i, o)
  BY Zenon DEF TablesInv
<1>2. Len(Chain) \in Nat /\ Height \subseteq Nat /\ height \in Height /\ pin \in Nat /\ pin <= height
  BY IndexAssumption DEF TablesInv, Height
<1>3. ASSUME UNCHANGED <<pin, step, tables>>, height' \in Height, height <= height' PROVE TablesInv'
  <2>1. TablesAt(t, i, o)'
    BY <1>1, <1>3, Zenon DEF TablesAt, tables, Height
  <2> QED BY <1>2, <1>3, <2>1 DEF TablesInv, tables, Height
<1>4. CASE NewBlock
  <2>1. height' \in Height /\ height <= height'
    BY <1>2, <1>4 DEF NewBlock, Height
  <2> QED BY <1>3, <1>4, <2>1, Zenon DEF NewBlock
<1>5. CASE Listing \/ Polling \/ UNCHANGED ivars
  BY <1>2, <1>3, <1>5, ClientsRead DEF tables
<1>6. CASE IndexTransactions \/ insertBlock \/ Retry
  <2>1. /\ UNCHANGED <<height, pin, annotated_txs, annotated_inputs, annotated_outputs>> /\ pin < height
        /\ step' \in {"block", "txs"} /\ query_blocks \subseteq query_blocks' /\ query_blocks' \subseteq query_blocks \cup {pin + 1}
        /\ step' = "txs" => pin + 1 \in query_blocks'
    BY <1>6, Zenon DEF IndexTransactions, insertBlock, Retry, tables, TablesInv
  <2>2. TablesAt(t, i, o)'
    BY <1>1, <2>1, Zenon DEF TablesAt, Height
  <2>3. pin + 1 \in 1 .. Len(Chain)
    BY <1>2, <2>1 DEF Height
  <2> QED BY <1>2, <2>1, <2>2, <2>3, Zenon DEF TablesInv, Steps, Height
<1>7. ASSUME UNCHANGED <<height, pin, query_blocks>>, step' \in Steps, step \notin {"idle", "block"},
             NEW t2 \in Height, NEW i2 \in Height, NEW o2 \in Height, TablesAt(t2, i2, o2)'
      PROVE  TablesInv'
  BY <1>2, <1>7, Zenon DEF TablesInv, Steps, Height
<1>8. CASE insertAnnotatedTxs
  <2>1. UNCHANGED <<height, pin, query_blocks, annotated_inputs, annotated_outputs>> /\ step = "txs" /\ step' = "outputs"
        /\ annotated_txs' = annotated_txs \cup TxsOf(pin + 1)
    BY <1>8, Zenon DEF insertAnnotatedTxs
  <2>2. pin + 1 \in Height
    BY <1>2, <2>1 DEF TablesInv, Height
  <2>3. annotated_txs' = TxsUpTo(pin + 1)
    <3>1. t = pin \/ t = pin + 1
      BY <1>1, <1>2 DEF TablesAt
    <3> QED BY <1>1, <1>2, <2>1, <3>1, UpToNext, Zenon DEF TablesAt
  <2>4. TablesAt(pin + 1, i, o)'
    BY <1>1, <1>2, <2>1, <2>2, <2>3 DEF TablesAt, Height
  <2> QED BY <1>7, <2>1, <2>2, <2>4, Zenon DEF Steps
<1>9. CASE insertAnnotatedOutputs
  <2>1. UNCHANGED <<height, pin, query_blocks, annotated_txs, annotated_inputs>> /\ step = "outputs" /\ step' = "spent"
        /\ DOMAIN annotated_outputs' = DOMAIN annotated_outputs \cup OutputsOf(pin + 1)
    BY <1>9, Zenon DEF insertAnnotatedOutputs
  <2>2. pin + 1 \in Height
    BY <1>2, <2>1 DEF TablesInv, Height
  <2>3. DOMAIN annotated_outputs' = OutputsUpTo(pin + 1)
    <3>1. o = pin \/ o = pin + 1
      BY <1>1, <1>2 DEF TablesAt
    <3> QED BY <1>1, <1>2, <2>1, <3>1, UpToNext, Zenon DEF TablesAt
  <2>4. TablesAt(t, i, pin + 1)'
    BY <1>1, <1>2, <2>1, <2>2, <2>3, Zenon DEF TablesAt, Height
  <2> QED BY <1>7, <2>1, <2>2, <2>4, Zenon DEF Steps
<1>10. CASE updateSpentOutputs
  <2>1. UNCHANGED <<height, pin, query_blocks, annotated_txs, annotated_inputs>> /\ step = "spent" /\ step' = "inputs"
        /\ DOMAIN annotated_outputs' = DOMAIN annotated_outputs
    BY <1>10, Zenon DEF updateSpentOutputs, Spent
  <2>4. TablesAt(t, i, o)'
    BY <1>1, <2>1, Zenon DEF TablesAt, Height
  <2> QED BY <1>7, <2>1, <2>4, Zenon DEF Steps
<1>11. CASE insertAnnotatedInputs
  <2>1. UNCHANGED <<height, pin, query_blocks, annotated_txs, annotated_outputs>> /\ step = "inputs" /\ step' = "complete"
        /\ annotated_inputs' = annotated_inputs \cup InputsOf(pin + 1)
    BY <1>11, Zenon DEF insertAnnotatedInputs
  <2>2. pin + 1 \in Height
    BY <1>2, <2>1 DEF TablesInv, Height
  <2>3. annotated_inputs' = InputsUpTo(pin + 1)
    <3>1. i = pin \/ i = pin + 1
      BY <1>1, <1>2 DEF TablesAt
    <3> QED BY <1>1, <1>2, <2>1, <3>1, UpToNext, Zenon DEF TablesAt
  <2>4. TablesAt(t, pin + 1, o)'
    BY <1>1, <1>2, <2>1, <2>2, <2>3, Zenon DEF TablesAt, Height
  <2> QED BY <1>7, <2>1, <2>2, <2>4, Zenon DEF Steps
<1>12. CASE complete
  <2>1. UNCHANGED <<height, tables>> /\ step = "complete" /\ step' = "idle" /\ pin' = pin + 1
    BY <1>12, Zenon DEF complete
  <2>2. pin + 1 <= height /\ pin + 1 \in query_blocks
    BY <1>2, <2>1 DEF TablesInv, Height
  <2>3. t = pin + 1 /\ i = pin + 1 /\ o = pin + 1
    BY <1>1, <2>1, Zenon DEF TablesAt
  <2>4. TablesAt(t, i, o)'
    BY <1>1, <1>2, <2>1, <2>3 DEF TablesAt, tables, Height
  <2>5. 1 .. (pin + 1) \subseteq query_blocks
    BY <1>2, <2>2 DEF TablesInv
  <2> QED BY <1>2, <2>1, <2>2, <2>4, <2>5 DEF TablesInv, tables, Steps, Height
<1> QED BY <1>4, <1>5, <1>6, <1>8, <1>9, <1>10, <1>11, <1>12, Zenon DEF IndexNext, Indexing

\* Spans are closed once, whatever is written again.
LEMMA SpansNext == ASSUME TablesInv, SpansInv, [IndexNext \/ Listing \/ Polling]_ivars PROVE SpansInv'
<1>1. Len(Chain) \in Nat /\ height \in Nat /\ height <= Len(Chain) /\ pin \in Nat /\ pin <= height
  BY IndexAssumption DEF TablesInv, Height
<1>2. PICK t \in Height, i \in Height, o \in Height : TablesAt(t, i, o)
  BY Zenon DEF TablesInv
<1>3. ASSUME UNCHANGED <<pin, annotated_outputs>>, height' \in Nat, height <= height', step' \notin {"inputs"},
             step' = "complete" => step \in {"inputs", "complete"}
      PROVE  SpansInv'
  BY <1>1, <1>3 DEF SpansInv
<1>4. ASSUME step = "inputs", UNCHANGED <<step, pin, annotated_outputs, height>> PROVE SpansInv'
  BY <1>1, <1>4, Zenon DEF SpansInv
<1>5. CASE NewBlock \/ Listing \/ Polling \/ UNCHANGED ivars
  <2>1. UNCHANGED <<pin, step, annotated_outputs>> /\ height' \in Nat /\ height <= height'
    BY <1>1, <1>5, ClientsRead DEF NewBlock, tables
  <2> QED BY <1>1, <2>1 DEF SpansInv
<1>6. CASE IndexTransactions \/ insertBlock \/ Retry \/ insertAnnotatedTxs \/ insertAnnotatedInputs
  BY <1>1, <1>3, <1>6 DEF IndexTransactions, insertBlock, Retry, insertAnnotatedTxs, insertAnnotatedInputs, tables
<1>7. CASE insertAnnotatedOutputs
  <2> DEFINE New(x) == IF OutputAt(x).retire THEN Empty ELSE range(Chain[pin + 1].ts, Forever)
  <2>1. UNCHANGED <<height, pin>> /\ step = "outputs" /\ step' = "spent" /\ pin < height
    BY <1>7, Zenon DEF insertAnnotatedOutputs, TablesInv
  <2>2. annotated_outputs' = [x \in DOMAIN annotated_outputs \cup OutputsOf(pin + 1) |->
                                IF x \in DOMAIN annotated_outputs THEN annotated_outputs[x] ELSE New(x)]
    BY <1>7, Zenon DEF insertAnnotatedOutputs
  <2>3. ASSUME NEW x \in OutputsOf(pin + 1) PROVE SpanAs(New(x), x, pin)
    BY <1>1, <2>1, <2>3, SpanNew
  <2> HIDE DEF New
  <2>4. ASSUME NEW x \in DOMAIN annotated_outputs', ~SelfSpent(x)
        PROVE  SpanAs(annotated_outputs'[x], x, pin) \/ (pin < height /\ SpanAs(annotated_outputs'[x], x, pin + 1))
    BY <2>2, <2>3, <2>4, Zenon DEF SpansInv
  <2> QED BY <2>1, <2>4, Zenon DEF SpansInv
<1>8. CASE updateSpentOutputs
  <2>1. UNCHANGED <<height, pin>> /\ step = "spent" /\ step' = "inputs" /\ pin < height
    BY <1>8, Zenon DEF updateSpentOutputs, TablesInv
  <2>2. annotated_outputs' = [x \in DOMAIN annotated_outputs |->
          IF OutputAt(x).id \in PrevoutIDs(pin + 1) THEN range(lower(annotated_outputs[x]), Chain[pin + 1].ts) ELSE annotated_outputs[x]]
    BY <1>8, Zenon DEF updateSpentOutputs, Spent
  <2>3. DOMAIN annotated_outputs = OutputsUpTo(pin + 1)
    BY <1>2, <2>1, Zenon DEF TablesAt
  <2>4. ASSUME NEW x \in DOMAIN annotated_outputs', ~SelfSpent(x)
        PROVE  SpanAs(annotated_outputs'[x], x, pin + 1)
    <3>1. x \in OutputsUpTo(pin + 1) /\ (SpanAs(annotated_outputs[x], x, pin) \/ SpanAs(annotated_outputs[x], x, pin + 1))
      BY <2>2, <2>3, <2>4, Zenon DEF SpansInv
    <3>2. pin < Len(Chain)
      BY <1>1, <2>1
    <3>3. SpanAs(IF OutputAt(x).id \in PrevoutIDs(pin + 1) THEN range(lower(annotated_outputs[x]), Chain[pin + 1].ts)
                 ELSE annotated_outputs[x], x, pin + 1)
      BY <1>1, <2>4, <3>1, <3>2, SpanClosed, Zenon
    <3>4. annotated_outputs'[x] = IF OutputAt(x).id \in PrevoutIDs(pin + 1) THEN range(lower(annotated_outputs[x]), Chain[pin + 1].ts)
                                  ELSE annotated_outputs[x]
      BY <2>2, <2>4, Zenon
    <3> QED BY <3>3, <3>4, Zenon
  <2> QED BY <2>1, <2>4, Zenon DEF SpansInv
<1>9. CASE complete
  <2>1. UNCHANGED <<height, annotated_outputs>> /\ step = "complete" /\ step' = "idle" /\ pin' = pin + 1
    BY <1>9, Zenon DEF complete, tables
  <2> QED BY <2>1, Zenon DEF SpansInv
<1> QED BY <1>5, <1>6, <1>7, <1>8, <1>9, Zenon DEF IndexNext, Indexing

\* Spans as they should be select the unspent outputs.
LEMMA SpansSelect == ASSUME TablesInv, SpansInv PROVE UnspentIsChain
<1>1. Len(Chain) \in Nat /\ pin \in Nat /\ height \in Nat /\ pin <= height /\ height <= Len(Chain) /\ Forever \in Nat
  BY IndexAssumption DEF TablesInv, Height
<1>2. PICK t \in Height, i \in Height, o \in Height : TablesAt(t, i, o)
  BY Zenon DEF TablesInv
<1>3. DOMAIN annotated_outputs = OutputsUpTo(o) /\ o \in pin .. (pin + 1) /\ o \in Nat /\ o <= Len(Chain)
  BY <1>1, <1>2 DEF TablesAt, Height
<1>4. Now \in Int /\ \A k \in 1 .. Len(Chain) : k <= pin => Chain[k].ts <= Now
  BY <1>1, Times DEF Now
<1>5. \A k \in 1 .. Len(Chain) : k > pin => Chain[k].ts > Now
  BY <1>1, Times DEF Now
<1>6. ASSUME NEW T \in 0 .. Now, NEW x, ~SelfSpent(x), x \in IndexedAt(T)
      PROVE  x \in UnspentAt(T)
  <2>1. x \in OutputsUpTo(o) /\ annotated_outputs[x][1] <= T /\ T < annotated_outputs[x][2] /\ T \in Int /\ T <= Now /\ 0 <= T
    BY <1>3, <1>4, <1>6 DEF IndexedAt
  <2>2. x[1] \in 1 .. Len(Chain) /\ x \in OutputsOf(x[1])
    BY <1>1, <1>3, <2>1, RowsOf
  <2>3. PICK n \in {pin, pin + 1} : SpanAs(annotated_outputs[x], x, n)
    BY <1>3, <1>6, <2>1, Zenon DEF SpansInv
  <2>4. ~OutputAt(x).retire
    BY <2>1, <2>3 DEF SpanAs, Empty
  <2>5. PICK end \in 1 .. Forever :
          /\ annotated_outputs[x] = <<Chain[x[1]].ts, end>>
          /\ \A k \in 1 .. n : OutputAt(x).id \in PrevoutIDs(k) => end = Chain[k].ts
    BY <2>3, <2>4, Zenon DEF SpanAs
  <2>6. Chain[x[1]].ts <= T /\ T < end
    BY <2>1, <2>5
  <2>7. x[1] \in 1 .. pin
    BY <1>1, <1>4, <1>5, <2>1, <2>2, <2>6, Times
  <2>8. ASSUME NEW k \in 1 .. pin, Chain[k].ts <= T, OutputAt(x).id \in PrevoutIDs(k) PROVE FALSE
    <3>1. k \in 1 .. n /\ k \in 1 .. Len(Chain)
      BY <1>1
    <3>2. end = Chain[k].ts /\ Chain[k].ts \in Int
      BY <2>5, <2>8, <3>1, Times, Zenon
    <3> QED BY <2>1, <2>6, <2>8, <3>2
  <2>9. x \in UNION {OutputsOf(h) : h \in 1 .. pin}
    BY <2>2, <2>7, Zenon
  <2> QED BY <2>4, <2>6, <2>8, <2>9, Zenon DEF UnspentAt
<1>7. ASSUME NEW T \in 0 .. Now, NEW x, ~SelfSpent(x), x \in UnspentAt(T)
      PROVE  x \in IndexedAt(T)
  <2>1. /\ x \in OutputsUpTo(pin) /\ ~OutputAt(x).retire /\ Chain[x[1]].ts <= T /\ T \in Int /\ T <= Now
        /\ \A k \in 1 .. pin : Chain[k].ts <= T => OutputAt(x).id \notin PrevoutIDs(k)
    BY <1>4, <1>7 DEF UnspentAt, OutputsUpTo
  <2>2. x \in DOMAIN annotated_outputs
    <3>1. 1 .. pin \subseteq 1 .. o
      BY <1>1, <1>3
    <3> QED BY <1>3, <2>1, <3>1, Zenon DEF OutputsUpTo
  <2>3. PICK n \in {pin, pin + 1} : SpanAs(annotated_outputs[x], x, n) /\ n <= height
    BY <1>1, <1>7, <2>2 DEF SpansInv
  <2>4. PICK end \in 1 .. Forever :
          /\ annotated_outputs[x] = <<Chain[x[1]].ts, end>>
          /\ \A k \in 1 .. n : OutputAt(x).id \in PrevoutIDs(k) => end = Chain[k].ts
          /\ (\A k \in 1 .. n : OutputAt(x).id \notin PrevoutIDs(k)) => end = Forever
    BY <2>1, <2>3, Zenon DEF SpanAs
  <2>5. Now < Forever \/ pin = 0
    BY <1>1, Times DEF Now
  <2>6. pin # 0
    BY <2>1 DEF OutputsUpTo
  <2>7. T < end
    <3>1. CASE \E k \in 1 .. n : OutputAt(x).id \in PrevoutIDs(k)
      <4>1. PICK k \in 1 .. n : OutputAt(x).id \in PrevoutIDs(k)
        BY <3>1, Zenon
      <4>2. end = Chain[k].ts /\ k \in 1 .. Len(Chain) /\ Chain[k].ts \in Int
        BY <1>1, <2>3, <2>4, <4>1, Times
      <4>3. CASE k <= pin
        BY <2>1, <4>1, <4>2, <4>3
      <4>4. CASE k > pin
        BY <1>4, <1>5, <2>1, <4>2, <4>4
      <4> QED BY <1>1, <2>3, <4>3, <4>4
    <3>2. CASE \A k \in 1 .. n : OutputAt(x).id \notin PrevoutIDs(k)
      BY <1>1, <1>4, <2>1, <2>4, <2>5, <2>6, <3>2
    <3> QED BY <3>1, <3>2, Zenon
  <2> QED BY <2>1, <2>2, <2>4, <2>7 DEF IndexedAt
<1> QED BY <1>6, <1>7, Zenon DEF UnspentIsChain

-----------------------------------------------------------------------------
Row == Int \X Int

\* The order of transactions, up or down.
LEMMA RowOrder ==
  ASSUME NEW asc \in BOOLEAN, NEW x \in Row, NEW y \in Row, NEW z \in Row
  PROVE  /\ ~InOrder(x, x, asc)
         /\ x # y => InOrder(x, y, asc) \/ InOrder(y, x, asc)
         /\ InOrder(x, y, asc) /\ InOrder(y, z, asc) => InOrder(x, z, asc)
         /\ InOrder(x, y, asc) => ~InOrder(y, x, asc)
         /\ InOrder(x, y, asc) /\ ~InOrder(z, y, asc) => InOrder(x, z, asc)
         /\ ~InOrder(y, x, asc) /\ InOrder(y, z, asc) => InOrder(x, z, asc)
  BY DEF InOrder, Before, Row

\* A page has the first rows in order: a row that is not in it comes after a full page.
Sorted(s, asc) == \A i, j \in DOMAIN s : i < j => InOrder(s[i], s[j], asc)
LEMMA PageIs ==
  ASSUME NEW c, NEW asc \in BOOLEAN, IsFiniteSet(Selected(c, asc)), Selected(c, asc) \subseteq Row
  PROVE  /\ Page(c, asc) \in Seq(Selected(c, asc)) /\ Sorted(Page(c, asc), asc)
         /\ \A x \in Selected(c, asc) :
              \/ \E i \in DOMAIN Page(c, asc) : Page(c, asc)[i] = x
              \/ Len(Page(c, asc)) = Limit /\ \A i \in DOMAIN Page(c, asc) : InOrder(Page(c, asc)[i], x, asc)
<1> DEFINE S == Selected(c, asc)
           page == Page(c, asc)
           R == {p \in S \X S : InOrder(p[1], p[2], asc)}
           N == Cardinality(S)
           rank(x) == Cardinality(Ahead(S, R, x))
           size == IF N < Limit THEN N ELSE Limit
<1>1. page = [i \in 1 .. size |-> RowAt(S, i, asc)]
  BY Zenon DEF Page
<1>2. \A x, y \in S : <<x, y>> \in R <=> InOrder(x, y, asc)
  BY Zenon
<1>3. S \subseteq Row /\ IsFiniteSet(S) /\ N \in Nat /\ Limit \in Nat
  BY FS_CardinalityType, IndexAssumption, Zenon
<1> HIDE DEF S, page, R
<1>4. Orders(R, S)
  BY <1>2, <1>3, RowOrder, Zenon DEF Orders
<1>5. /\ \A x \in S : rank(x) \in 0 .. (N - 1)
      /\ \A x, y \in S : <<x, y>> \in R <=> rank(x) < rank(y)
      /\ \A n \in 0 .. (N - 1) : \E x \in S : rank(x) = n
  BY <1>3, <1>4, Places, Zenon
<1>6. \A x \in S : Ahead(S, R, x) = {y \in S : InOrder(y, x, asc)}
  BY <1>2, Zenon DEF Ahead
<1>7. ASSUME NEW i \in 1 .. size PROVE RowAt(S, i, asc) \in S /\ rank(RowAt(S, i, asc)) = i - 1
  <2>1. RowAt(S, i, asc) = CHOOSE x \in S : rank(x) = i - 1
    BY <1>6, Zenon DEF RowAt
  <2>2. i - 1 \in 0 .. (N - 1)
    BY <1>3
  <2> HIDE DEF rank, N
  <2> QED BY <1>5, <2>1, <2>2, Zenon
<1> HIDE DEF rank, N
<1>8. /\ size \in Nat /\ DOMAIN page = 1 .. size /\ Len(page) = size
      /\ \A i \in 1 .. size : page[i] \in S /\ rank(page[i]) = i - 1
      /\ page \in Seq(S)
  <2>1. size \in Nat
    BY <1>3, Zenon
  <2> HIDE DEF size
  <2> QED BY <1>1, <1>7, <2>1
<1>9. Sorted(page, asc)
  <2> SUFFICES ASSUME NEW i \in 1 .. size, NEW j \in 1 .. size, i < j PROVE InOrder(page[i], page[j], asc)
    BY <1>8, Zenon DEF Sorted
  <2>1. page[i] \in S /\ page[j] \in S /\ rank(page[i]) < rank(page[j])
    BY <1>8
  <2> QED BY <1>2, <1>5, <2>1, Zenon
<1>10. ASSUME NEW x \in S
       PROVE  \/ \E i \in DOMAIN page : page[i] = x
              \/ Len(page) = Limit /\ \A i \in DOMAIN page : InOrder(page[i], x, asc)
  <2>1. rank(x) \in 0 .. (N - 1)
    BY <1>5, Zenon
  <2>2. CASE rank(x) < size
    <3>1. rank(x) + 1 \in 1 .. size
      BY <1>8, <2>1, <2>2
    <3>2. page[rank(x) + 1] \in S /\ rank(page[rank(x) + 1]) = rank(x)
      BY <1>8, <2>1, <3>1
    <3>3. page[rank(x) + 1] = x
      <4>1. ~(rank(x) < rank(page[rank(x) + 1])) /\ ~(rank(page[rank(x) + 1]) < rank(x))
        BY <2>1, <3>2
      <4> QED BY <1>4, <1>5, <3>2, <4>1, Zenon DEF Orders
    <3> QED BY <1>8, <3>1, <3>3, Zenon
  <2>3. CASE ~(rank(x) < size)
    <3>1. size = Limit
      BY <1>3, <2>1, <2>3
    <3>2. ASSUME NEW i \in 1 .. size PROVE InOrder(page[i], x, asc)
      <4>1. page[i] \in S /\ rank(page[i]) < rank(x)
        BY <1>8, <2>1, <2>3
      <4> QED BY <1>2, <1>5, <4>1, Zenon
    <3> HIDE DEF size
    <3> QED BY <1>8, <3>1, <3>2, Zenon
  <2> QED BY <2>2, <2>3, Zenon
<1> QED BY <1>8, <1>9, <1>10, Zenon DEF S, page

\* Pages are put together.
LEMMA PagesTogether ==
  ASSUME NEW S, NEW s \in Seq(S), NEW t \in Seq(S)
  PROVE  /\ s \o t \in Seq(S)
         /\ \A i \in DOMAIN (s \o t) : (i \in DOMAIN s /\ (s \o t)[i] = s[i]) \/ (i - Len(s) \in DOMAIN t /\ (s \o t)[i] = t[i - Len(s)])
         /\ \A i \in DOMAIN s : i \in DOMAIN (s \o t) /\ (s \o t)[i] = s[i]
         /\ \A i \in DOMAIN t : Len(s) + i \in DOMAIN (s \o t) /\ (s \o t)[Len(s) + i] = t[i]
  OBVIOUS
LEMMA SortedTogether ==
  ASSUME NEW asc \in BOOLEAN, NEW S, NEW s \in Seq(S), NEW t \in Seq(S), Sorted(s, asc), Sorted(t, asc),
         \A i \in DOMAIN s : \A j \in DOMAIN t : InOrder(s[i], t[j], asc)
  PROVE  Sorted(s \o t, asc)
<1> SUFFICES ASSUME NEW i \in DOMAIN (s \o t), NEW j \in DOMAIN (s \o t), i < j
             PROVE  InOrder((s \o t)[i], (s \o t)[j], asc)
  BY Zenon DEF Sorted
<1>1. DOMAIN s = 1 .. Len(s) /\ DOMAIN t = 1 .. Len(t) /\ Len(s) \in Nat /\ i \in Int /\ j \in Int
  BY PagesTogether
<1>2. CASE j \in DOMAIN s
  <2>1. i \in DOMAIN s
    BY <1>1, <1>2, PagesTogether
  <2> QED BY <1>2, <2>1, PagesTogether DEF Sorted
<1>3. CASE j \notin DOMAIN s
  <2>1. j - Len(s) \in DOMAIN t /\ (s \o t)[j] = t[j - Len(s)]
    BY <1>3, PagesTogether
  <2>2. CASE i \in DOMAIN s /\ (s \o t)[i] = s[i]
    BY <2>1, <2>2, Zenon
  <2>3. CASE i - Len(s) \in DOMAIN t /\ (s \o t)[i] = t[i - Len(s)]
    <3>1. i - Len(s) < j - Len(s)
      BY <1>1
    <3> QED BY <2>1, <2>3, <3>1, Zenon DEF Sorted
  <2> QED BY <2>2, <2>3, PagesTogether
<1> QED BY <1>2, <1>3, Zenon

-----------------------------------------------------------------------------
\* A filter that the bounds of the query apply to as a whole.
Safe(f) == f.bracketed \/ Len(f.any) = 1
Conditions == {"own", "in", "out"}
Newest(cond, t, i, o) == CASE cond = "own" -> t [] cond = "in" -> i [] cond = "out" -> o

\* The rows of the chain.
LEMMA AllRows ==
  /\ AllTxs = TxsUpTo(Len(Chain)) /\ AllTxs \subseteq Row /\ IsFiniteSet(AllTxs)
  /\ \A x \in AllTxs : x[1] \in 1 .. Len(Chain) /\ x[2] \in Int /\ x[2] < LastPos
  /\ \A n \in Height : TxsUpTo(n) = {x \in AllTxs : x[1] <= n}
<1>1. Len(Chain) \in Nat /\ LastPos \in Nat /\ DOMAIN Chain = 1 .. Len(Chain)
      /\ \A h \in 1 .. Len(Chain) : DOMAIN Chain[h].txs \subseteq 1 .. (LastPos - 1)
  BY IndexAssumption, Zenon
<1>2. AllTxs = TxsUpTo(Len(Chain))
  BY <1>1, Zenon DEF AllTxs, TxsUpTo
<1>3. ASSUME NEW x \in AllTxs
      PROVE  x[1] \in 1 .. Len(Chain) /\ x[2] \in 1 .. (LastPos - 1) /\ x = <<x[1], x[2]>> /\ x[2] \in DOMAIN Chain[x[1]].txs
  BY <1>1, <1>2, RowsOf, Zenon
<1>4. IsFiniteSet(AllTxs)
  <2>1. AllTxs \in SUBSET ((1 .. Len(Chain)) \X (1 .. (LastPos - 1)))
    BY <1>3
  <2>2. IsFiniteSet((1 .. Len(Chain)) \X (1 .. (LastPos - 1)))
    <3>1. IsFiniteSet(1 .. Len(Chain)) /\ IsFiniteSet(1 .. (LastPos - 1))
      BY <1>1, FS_Interval
    <3> QED BY <3>1, FS_Product, Zenon
  <2> QED BY <2>1, <2>2, FS_Subset, Zenon
<1>5. ASSUME NEW n \in Height PROVE TxsUpTo(n) = {x \in AllTxs : x[1] <= n}
  <2>1. n \in Nat /\ n <= Len(Chain)
    BY <1>1 DEF Height
  <2>2. ASSUME NEW x \in TxsUpTo(n) PROVE x \in AllTxs /\ x[1] <= n
    <3>1. x[1] \in 1 .. n
      BY <2>1, RowsOf, Zenon
    <3>2. 1 .. n \subseteq 1 .. Len(Chain)
      BY <1>1, <2>1
    <3>3. x \in TxsUpTo(Len(Chain))
      BY <3>2, Zenon DEF TxsUpTo
    <3> QED BY <1>2, <2>1, <3>1, <3>3
  <2>3. ASSUME NEW x \in AllTxs, x[1] <= n PROVE x \in TxsUpTo(n)
    <3>1. x[1] \in 1 .. n
      BY <1>1, <1>3, <2>1, <2>3
    <3>2. x \in TxsOf(x[1])
      BY <1>3, Zenon DEF TxsOf
    <3> QED BY <3>1, <3>2, Zenon DEF TxsUpTo
  <2> QED BY <2>2, <2>3, Zenon
<1>6. AllTxs \subseteq Row
  BY <1>1, <1>3 DEF Row
<1> QED BY <1>1, <1>2, <1>3, <1>4, <1>5, <1>6

\* A row meets a condition once the table that the condition is about has its block.
LEMMA MeetsIs ==
  ASSUME NEW t \in Height, NEW i \in Height, NEW o \in Height, TablesAt(t, i, o),
         NEW x \in TxsUpTo(t), NEW cond \in Conditions
  PROVE  Meets(x, cond) <=> (Has(x, cond) /\ x[1] <= Newest(cond, t, i, o))
<1>1. Len(Chain) \in Nat /\ t \in Nat /\ i \in Nat /\ o \in Nat
  BY IndexAssumption DEF Height
<1>2. x[1] \in 1 .. t /\ x[2] \in DOMAIN Chain[x[1]].txs
  BY <1>1, RowsOf, Zenon
<1>3. CASE cond = "own"
  BY <1>1, <1>2, <1>3 DEF Meets, Has, Newest
<1>4. CASE cond = "in"
  <2>1. Newest(cond, t, i, o) = i /\ (Meets(x, cond) <=> \E y \in annotated_inputs : y[1] = x[1] /\ y[2] = x[2] /\ InputAt(y).match)
        /\ (Has(x, cond) <=> \E k \in DOMAIN TxAt(x).ins : TxAt(x).ins[k].match) /\ annotated_inputs = InputsUpTo(i)
    BY <1>4, Zenon DEF Newest, Meets, Has, TablesAt
  <2>2. ASSUME NEW y \in annotated_inputs, y[1] = x[1], y[2] = x[2], InputAt(y).match
        PROVE  x[1] <= i /\ \E k \in DOMAIN TxAt(x).ins : TxAt(x).ins[k].match
    <3>1. PICK h \in 1 .. i : y \in InputsOf(h)
      BY <2>1, Zenon DEF InputsUpTo
    <3>2. y[1] = h /\ y[3] \in DOMAIN Chain[h].txs[y[2]].ins
      BY <3>1 DEF InputsOf
    <3>3. InputAt(y) = TxAt(x).ins[y[3]] /\ TxAt(x) = Chain[h].txs[y[2]]
      BY <2>2, <3>2, Zenon DEF InputAt, TxAt
    <3>4. TxAt(x).ins[y[3]].match
      BY <2>2, <3>3, Zenon
    <3> QED BY <1>1, <2>2, <3>2, <3>3, <3>4
  <2>3. ASSUME x[1] <= i, NEW k \in DOMAIN TxAt(x).ins, TxAt(x).ins[k].match
        PROVE  \E y \in annotated_inputs : y[1] = x[1] /\ y[2] = x[2] /\ InputAt(y).match
    <3> DEFINE y == <<x[1], x[2], k>>
    <3>1. y[1] = x[1] /\ y[2] = x[2] /\ y[3] = k
      BY Zenon
    <3>2. x[1] \in 1 .. i
      BY <1>1, <1>2, <2>3
    <3>3. y \in InputsOf(x[1])
      BY <1>2, <2>3 DEF InputsOf, TxAt
    <3> HIDE DEF y
    <3>4. y \in annotated_inputs
      BY <2>1, <3>2, <3>3, Zenon DEF InputsUpTo
    <3>5. InputAt(y) = TxAt(x).ins[k]
      BY <3>1, Zenon DEF InputAt, TxAt
    <3>6. InputAt(y).match
      BY <2>3, <3>5, Zenon
    <3> QED BY <3>1, <3>4, <3>6, Zenon
  <2> QED BY <2>1, <2>2, <2>3, Zenon
<1>5. CASE cond = "out"
  <2>1. Newest(cond, t, i, o) = o /\ (Meets(x, cond) <=> \E y \in DOMAIN annotated_outputs : y[1] = x[1] /\ y[2] = x[2] /\ OutputAt(y).match)
        /\ (Has(x, cond) <=> \E k \in DOMAIN TxAt(x).outs : TxAt(x).outs[k].match) /\ DOMAIN annotated_outputs = OutputsUpTo(o)
    BY <1>5, Zenon DEF Newest, Meets, Has, TablesAt
  <2>2. ASSUME NEW y \in DOMAIN annotated_outputs, y[1] = x[1], y[2] = x[2], OutputAt(y).match
        PROVE  x[1] <= o /\ \E k \in DOMAIN TxAt(x).outs : TxAt(x).outs[k].match
    <3>1. PICK h \in 1 .. o : y \in OutputsOf(h)
      BY <2>1, Zenon DEF OutputsUpTo
    <3>2. y[1] = h /\ y[3] \in DOMAIN Chain[h].txs[y[2]].outs
      BY <3>1 DEF OutputsOf
    <3>3. OutputAt(y) = TxAt(x).outs[y[3]] /\ TxAt(x) = Chain[h].txs[y[2]]
      BY <2>2, <3>2, Zenon DEF OutputAt, TxAt
    <3>4. TxAt(x).outs[y[3]].match
      BY <2>2, <3>3, Zenon
    <3> QED BY <1>1, <2>2, <3>2, <3>3, <3>4
  <2>3. ASSUME x[1] <= o, NEW k \in DOMAIN TxAt(x).outs, TxAt(x).outs[k].match
        PROVE  \E y \in DOMAIN annotated_outputs : y[1] = x[1] /\ y[2] = x[2] /\ OutputAt(y).match
    <3> DEFINE y == <<x[1], x[2], k>>
    <3>1. y[1] = x[1] /\ y[2] = x[2] /\ y[3] = k
      BY Zenon
    <3>2. x[1] \in 1 .. o
      BY <1>1, <1>2, <2>3
    <3>3. y \in OutputsOf(x[1])
      BY <1>2, <2>3 DEF OutputsOf, TxAt
    <3> HIDE DEF y
    <3>4. y \in DOMAIN annotated_outputs
      BY <2>1, <3>2, <3>3, Zenon DEF OutputsUpTo
    <3>5. OutputAt(y) = TxAt(x).outs[k]
      BY <3>1, Zenon DEF OutputAt, TxAt
    <3>6. OutputAt(y).match
      BY <2>3, <3>5, Zenon
    <3> QED BY <3>1, <3>4, <3>6, Zenon
  <2> QED BY <2>1, <2>2, <2>3, Zenon
<1> QED BY <1>3, <1>4, <1>5, Zenon DEF Conditions

\* The rows of a query: what matches, within the bounds, in the blocks that the tables
\* of the filter have.
LEMMA SelectedIs ==
  ASSUME TablesInv, NEW c, c.filter \in Filter, Safe(c.filter), NEW asc \in BOOLEAN
  PROVE  /\ \A x \in Selected(c, asc) : x \in AllTxs /\ Matches(x, c.filter) /\ Bounds(x, c, asc)
         /\ \A x \in AllTxs : x[1] <= pin /\ Matches(x, c.filter) /\ Bounds(x, c, asc) => x \in Selected(c, asc)
         /\ Uniform(c.filter) =>
              \A x \in Selected(c, asc) : \A y \in AllTxs :
                y[1] <= x[1] /\ Matches(y, c.filter) /\ Bounds(y, c, asc) => y \in Selected(c, asc)
<1> DEFINE any == c.filter.any
<1>1. any \in Seq(Conditions) /\ any # <<>> /\ DOMAIN any = 1 .. Len(any) /\ Len(any) \in Nat
  BY IndexAssumption DEF Conditions
<1>2. PICK t \in Height, i \in Height, o \in Height : TablesAt(t, i, o)
  BY Zenon DEF TablesInv
<1>3. /\ pin \in Int /\ t \in Int /\ i \in Int /\ o \in Int /\ pin <= i /\ pin <= o /\ i <= t /\ o <= t
      /\ annotated_txs = {x \in AllTxs : x[1] <= t}
  <2>1. annotated_txs = TxsUpTo(t) /\ pin \in Nat
    BY <1>2, IndexAssumption DEF TablesAt, TablesInv, Height
  <2> QED BY <1>2, <2>1, AllRows, IndexAssumption DEF TablesAt, Height
<1>4. Selected(c, asc) = {x \in annotated_txs : (\E n \in DOMAIN any : Meets(x, any[n])) /\ Bounds(x, c, asc)}
  <2>1. CASE c.filter.bracketed
    BY <1>1, <2>1, Zenon DEF Selected
  <2>2. CASE ~c.filter.bracketed
    <3>0. Len(any) = 1
      BY <2>2, Zenon DEF Safe
    <3>1. Len(any) = 1 /\ DOMAIN any = {1} /\ 1 .. (Len(any) - 1) = {}
      BY <1>1, <3>0
    <3> HIDE DEF any
    <3>2. Selected(c, asc) = {x \in annotated_txs : (\E n \in {} : Meets(x, any[n])) \/ (Meets(x, any[1]) /\ Bounds(x, c, asc))}
      BY <2>2, <3>1, Zenon DEF Selected, any
    <3> QED BY <3>1, <3>2, Zenon
  <2> QED BY <2>1, <2>2, Zenon
<1> HIDE DEF any
<1>5. \A x \in AllTxs, n \in DOMAIN any : x[1] <= t => (Meets(x, any[n]) <=> (Has(x, any[n]) /\ x[1] <= Newest(any[n], t, i, o)))
  <2> SUFFICES ASSUME NEW x \in AllTxs, NEW n \in DOMAIN any, x[1] <= t
               PROVE  Meets(x, any[n]) <=> (Has(x, any[n]) /\ x[1] <= Newest(any[n], t, i, o))
    BY Zenon
  <2>1. x \in TxsUpTo(t) /\ any[n] \in Conditions
    BY <1>1, AllRows
  <2> QED BY <1>2, <2>1, MeetsIs, Zenon
<1>6. \A x : Matches(x, c.filter) <=> \E n \in DOMAIN any : Has(x, any[n])
  BY Zenon DEF Matches, any
<1>7. \A n \in DOMAIN any : pin <= Newest(any[n], t, i, o) /\ Newest(any[n], t, i, o) \in Int /\ Newest(any[n], t, i, o) <= t
  <2> SUFFICES ASSUME NEW n \in DOMAIN any PROVE pin <= Newest(any[n], t, i, o) /\ Newest(any[n], t, i, o) \in Int /\ Newest(any[n], t, i, o) <= t
    BY Zenon
  <2>1. any[n] \in Conditions
    BY <1>1
  <2> QED BY <1>3, <2>1 DEF Newest, Conditions
<1>8. \A x \in AllTxs : x[1] \in Int
  BY AllRows
<1>9. ASSUME NEW x \in Selected(c, asc) PROVE x \in AllTxs /\ Matches(x, c.filter) /\ Bounds(x, c, asc) /\ x[1] <= t
  BY <1>3, <1>4, <1>5, <1>6, Zenon
<1>10. ASSUME NEW x \in AllTxs, x[1] <= pin, Matches(x, c.filter), Bounds(x, c, asc) PROVE x \in Selected(c, asc)
  <2>1. PICK n \in DOMAIN any : Has(x, any[n])
    BY <1>6, <1>10, Zenon
  <2>2. x[1] <= t /\ x[1] <= Newest(any[n], t, i, o)
    BY <1>3, <1>7, <1>8, <1>10
  <2>3. Meets(x, any[n])
    BY <1>5, <2>1, <2>2, Zenon
  <2> QED BY <1>3, <1>4, <1>10, <2>2, <2>3, Zenon
<1>11. ASSUME Uniform(c.filter), NEW x \in Selected(c, asc), NEW y \in AllTxs,
              y[1] <= x[1], Matches(y, c.filter), Bounds(y, c, asc)
       PROVE  y \in Selected(c, asc)
  <2>1. PICK m \in DOMAIN any : Meets(x, any[m])
    BY <1>4, Zenon
  <2>2. PICK n \in DOMAIN any : Has(y, any[n])
    BY <1>6, <1>11, Zenon
  <2>3. any[m] = any[n]
    BY <1>11, Zenon DEF Uniform, any
  <2>4. x[1] <= Newest(any[n], t, i, o) /\ x \in AllTxs
    BY <1>5, <1>9, <2>1, <2>3, Zenon
  <2>5. y[1] <= t /\ y[1] <= Newest(any[n], t, i, o)
    BY <1>3, <1>7, <1>8, <1>11, <2>4
  <2>6. Meets(y, any[n])
    BY <1>5, <2>2, <2>5, Zenon
  <2> QED BY <1>3, <1>4, <1>11, <2>5, <2>6, Zenon
<1> QED BY <1>9, <1>10, <1>11, Zenon

-----------------------------------------------------------------------------
ListType ==
  list \in [filter : Filter, state : {"new", "paging", "done"}, from : Row, stop : Int, got : Seq(AllTxs), asOf : Int, times : Int \X Int]
FeedType == feed \in [filter : Filter, state : {"idle", "waiting"}, from : Row, wait : Int, got : Seq(AllTxs)]

\* What makes PagesComplete inductive: a listing has what it is about down to its cursor.
Wanted(x) == x \in AllTxs /\ Matches(x, list.filter) /\ Chain[x[1]].ts \in list.times[1] .. list.times[2]
Got(x) == \E i \in DOMAIN list.got : list.got[i] = x
ListInv ==
  /\ Sorted(list.got, FALSE)
  /\ \A i \in DOMAIN list.got : Wanted(list.got[i]) /\ ~Before(list.got[i], list.from)
  /\ list.state = "new" => list.got = <<>>
  /\ list.state # "new" =>
       /\ list.asOf <= pin
       /\ \A h \in 1 .. Len(Chain) : list.stop <= h /\ h <= list.from[1] => Chain[h].ts \in list.times[1] .. list.times[2]
       /\ \A x \in AllTxs : Wanted(x) /\ x[1] <= list.asOf => list.stop <= x[1] /\ (Got(x) \/ Before(x, list.from))
  /\ list.state = "done" => \A x \in AllTxs : Wanted(x) /\ x[1] <= list.asOf => Got(x)

\* The next page of a client, and where it leaves the cursor.
LEMMA PageOf ==
  ASSUME TablesInv, NEW c, c.filter \in Filter, Safe(c.filter), NEW asc \in BOOLEAN
  PROVE  /\ Page(c, asc) \in Seq(AllTxs) /\ Sorted(Page(c, asc), asc)
         /\ \A i \in DOMAIN Page(c, asc) : Page(c, asc)[i] \in Selected(c, asc)
         /\ \A x \in Selected(c, asc) :
              \/ \E i \in DOMAIN Page(c, asc) : Page(c, asc)[i] = x
              \/ /\ Len(Page(c, asc)) = Limit /\ Page(c, asc) # <<>>
                 /\ InOrder(Page(c, asc)[Len(Page(c, asc))], x, asc)
         /\ Page(c, asc) # <<>> =>
              \A i \in DOMAIN Page(c, asc) : ~InOrder(Page(c, asc)[Len(Page(c, asc))], Page(c, asc)[i], asc)
<1> DEFINE S == Selected(c, asc)
           page == Page(c, asc)
<1>1. S \subseteq AllTxs
  BY SelectedIs, Zenon
<1>2. IsFiniteSet(S) /\ S \subseteq Row /\ AllTxs \subseteq Row
  BY <1>1, AllRows, FS_Subset, Zenon
<1>3. /\ page \in Seq(S) /\ Sorted(page, asc)
      /\ \A x \in S : \/ \E i \in DOMAIN page : page[i] = x
                      \/ Len(page) = Limit /\ \A i \in DOMAIN page : InOrder(page[i], x, asc)
  BY <1>2, PageIs, Zenon
<1> HIDE DEF S, page
<1>4. Limit \in Nat \ {0}
  BY IndexAssumption, Zenon
<1>5. page \in Seq(AllTxs) /\ DOMAIN page = 1 .. Len(page) /\ Len(page) \in Nat /\ \A i \in DOMAIN page : page[i] \in S
  BY <1>1, <1>3
<1>6. page # <<>> => Len(page) \in DOMAIN page
  BY <1>5
<1>7. Len(page) = Limit => page # <<>>
  BY <1>4, <1>5, Zenon
<1>8. ASSUME page # <<>>, NEW i \in DOMAIN page PROVE ~InOrder(page[Len(page)], page[i], asc)
  <2>1. page[i] \in Row /\ page[Len(page)] \in Row
    BY <1>2, <1>5, <1>6, <1>8, Zenon
  <2>2. i = Len(page) \/ i < Len(page)
    BY <1>5
  <2>3. i < Len(page) => InOrder(page[i], page[Len(page)], asc)
    BY <1>3, <1>6, <1>8, Zenon DEF Sorted
  <2> QED BY <2>1, <2>2, <2>3, RowOrder, Zenon
<1> QED BY <1>3, <1>5, <1>6, <1>7, <1>8, Zenon DEF S, page


\* What the rows got so far and the next page make together.
Together(u, s, t) ==
  /\ \A i \in DOMAIN u : (\E k \in DOMAIN s : u[i] = s[k]) \/ (\E k \in DOMAIN t : u[i] = t[k])
  /\ \A k \in DOMAIN s : \E i \in DOMAIN u : u[i] = s[k]
  /\ \A k \in DOMAIN t : \E i \in DOMAIN u : u[i] = t[k]
LEMMA RowsTogether ==
  ASSUME NEW S, NEW s \in Seq(S), NEW t \in Seq(S)
  PROVE  s \o t \in Seq(S) /\ Together(s \o t, s, t)
<1>1. s \o t \in Seq(S)
  OBVIOUS
<1>2. ASSUME NEW i \in DOMAIN (s \o t)
      PROVE  (\E k \in DOMAIN s : (s \o t)[i] = s[k]) \/ (\E k \in DOMAIN t : (s \o t)[i] = t[k])
  BY PagesTogether
<1>3. ASSUME NEW k \in DOMAIN s PROVE \E i \in DOMAIN (s \o t) : (s \o t)[i] = s[k]
  BY PagesTogether
<1>4. ASSUME NEW k \in DOMAIN t PROVE \E i \in DOMAIN (s \o t) : (s \o t)[i] = t[k]
  <2>1. Len(s) + k \in DOMAIN (s \o t) /\ (s \o t)[Len(s) + k] = t[k]
    BY PagesTogether
  <2> QED BY <2>1, Zenon
<1> QED BY <1>1, <1>2, <1>3, <1>4, Zenon DEF Together

\* A page of a listing.
LEMMA ListPageInv ==
  ASSUME TablesInv, ListType, ListInv, \A f \in Filter : Safe(f), ListPage
  PROVE  ListType' /\ ListInv'
<1> DEFINE page == Page(list, FALSE)
           got == list.got \o page
           from == IF page = <<>> THEN list.from ELSE page[Len(page)]
<1>1. list.filter \in Filter /\ Safe(list.filter) /\ list.got \in Seq(AllTxs) /\ list.from \in Row
      /\ pin \in Int /\ list.asOf \in Int /\ list.stop \in Int /\ Limit \in Nat \ {0}
  BY IndexAssumption DEF ListType, TablesInv, Height
<1>2. /\ page \in Seq(AllTxs) /\ Sorted(page, FALSE)
      /\ \A i \in DOMAIN page : page[i] \in Selected(list, FALSE)
      /\ \A x \in Selected(list, FALSE) :
           \/ \E i \in DOMAIN page : page[i] = x
           \/ Len(page) = Limit /\ page # <<>> /\ InOrder(page[Len(page)], x, FALSE)
      /\ page # <<>> => \A i \in DOMAIN page : ~InOrder(page[Len(page)], page[i], FALSE)
  BY <1>1, PageOf, Zenon
<1>3. /\ \A x \in Selected(list, FALSE) : x \in AllTxs /\ Matches(x, list.filter) /\ Bounds(x, list, FALSE)
      /\ \A x \in AllTxs : x[1] <= pin /\ Matches(x, list.filter) /\ Bounds(x, list, FALSE) => x \in Selected(list, FALSE)
  BY <1>1, SelectedIs, Zenon
<1>4. \A x \in AllTxs : x \in Row /\ x[1] \in 1 .. Len(Chain)
  BY AllRows, Zenon
<1>5. /\ list.state = "paging" /\ pin' = pin
      /\ list' = [[list EXCEPT !.got = got, !.from = from] EXCEPT !.state = IF Len(page) < Limit THEN "done" ELSE "paging"]
  BY Zenon DEF ListPage, Past
<1>6. got = list.got \o page /\ from = IF page = <<>> THEN list.from ELSE page[Len(page)]
  BY Zenon
<1> HIDE DEF page, got, from
<1>7. got \in Seq(AllTxs) /\ Together(got, list.got, page)
  <2>1. list.got \in Seq(AllTxs) /\ page \in Seq(AllTxs)
    BY <1>1, <1>2, Zenon
  <2> QED BY <1>6, <2>1, RowsTogether, Zenon
<1>8. \A x : Bounds(x, list, FALSE) <=> Before(x, list.from) /\ x[1] >= list.stop
  BY Zenon DEF Bounds
<1>9. \A x, y : InOrder(x, y, FALSE) <=> Before(y, x)
  BY Zenon DEF InOrder
<1>10. \A i \in DOMAIN list.got : list.got[i] \in Row /\ Wanted(list.got[i]) /\ ~Before(list.got[i], list.from)
  BY <1>1, <1>4 DEF ListInv
<1>11. \A i \in DOMAIN page : page[i] \in AllTxs /\ page[i] \in Row /\ Matches(page[i], list.filter) /\ Before(page[i], list.from) /\ page[i][1] >= list.stop
  BY <1>2, <1>3, <1>4, <1>8, Zenon
<1>12. (page # <<>> => Len(page) \in DOMAIN page) /\ (page = <<>> => DOMAIN page = {})
  BY <1>2
<1>13. from \in Row
  BY <1>1, <1>6, <1>11, <1>12, Zenon
<1>14. \A x, y, z \in Row :
         /\ ~Before(x, x) /\ (Before(x, y) => ~Before(y, x)) /\ (Before(x, y) /\ Before(y, z) => Before(x, z))
         /\ (Before(x, y) /\ ~Before(z, y) => Before(x, z)) /\ (~Before(y, x) /\ Before(y, z) => Before(x, z))
         /\ (Before(x, y) => x[1] \in Int /\ y[1] \in Int /\ x[1] <= y[1])
  BY DEF Before, Row
<1>15. Sorted(got, FALSE)
  <2>1. \A i \in DOMAIN list.got : \A j \in DOMAIN page : InOrder(list.got[i], page[j], FALSE)
    BY <1>1, <1>9, <1>10, <1>11, <1>14, Zenon
  <2>2. Sorted(list.got, FALSE)
    BY Zenon DEF ListInv
  <2> QED BY <1>1, <1>2, <1>6, <2>1, <2>2, SortedTogether, Zenon
<1>16. /\ list'.filter = list.filter /\ list'.stop = list.stop /\ list'.asOf = list.asOf /\ list'.times = list.times
       /\ list'.got = got /\ list'.from = from /\ list'.state = (IF Len(page) < Limit THEN "done" ELSE "paging")
       /\ ListType'
  BY <1>5, <1>7, <1>13, Zenon DEF ListType
<1>17. \A x : Wanted(x)' <=> Wanted(x)
  BY <1>16, Zenon DEF Wanted
<1>18. ASSUME NEW i \in DOMAIN page PROVE Wanted(page[i])
  <2>1. page[i][1] \in 1 .. Len(Chain) /\ page[i][1] <= list.from[1] /\ list.stop <= page[i][1]
    BY <1>1, <1>4, <1>11, <1>14, Zenon
  <2> QED BY <1>5, <1>11, <2>1, Zenon DEF ListInv, Wanted
<1>19. ASSUME NEW i \in DOMAIN got PROVE Wanted(got[i]) /\ ~Before(got[i], from)
  <2>1. ASSUME NEW k \in DOMAIN list.got PROVE Wanted(list.got[k]) /\ ~Before(list.got[k], from)
    BY <1>1, <1>6, <1>10, <1>11, <1>12, <1>13, <1>14, Zenon
  <2>2. ASSUME NEW k \in DOMAIN page PROVE Wanted(page[k]) /\ ~Before(page[k], from)
    BY <1>2, <1>6, <1>9, <1>12, <1>18, Zenon
  <2> QED BY <1>7, <2>1, <2>2, Zenon DEF Together
<1>20. ASSUME NEW x \in AllTxs, Wanted(x), x[1] <= list.asOf
       PROVE  /\ list.stop <= x[1] /\ ((\E i \in DOMAIN got : got[i] = x) \/ Before(x, from))
              /\ Len(page) < Limit => \E i \in DOMAIN got : got[i] = x
  <2>1. list.stop <= x[1] /\ (Got(x) \/ Before(x, list.from)) /\ list.asOf <= pin /\ x[1] \in Int
    BY <1>4, <1>5, <1>20 DEF ListInv
  <2>2. CASE Got(x)
    BY <1>7, <2>1, <2>2, Zenon DEF Got, Together
  <2>3. CASE Before(x, list.from)
    <3>1. x[1] <= pin /\ Bounds(x, list, FALSE)
      <4>1. x[1] <= pin /\ x[1] >= list.stop
        BY <1>1, <1>20, <2>1
      <4> QED BY <1>8, <2>3, <4>1, Zenon
    <3>2. x \in Selected(list, FALSE)
      BY <1>3, <1>20, <3>1, Zenon DEF Wanted
    <3>3. CASE \E i \in DOMAIN page : page[i] = x
      BY <1>7, <2>1, <3>3, Zenon DEF Together
    <3>4. CASE Len(page) = Limit /\ page # <<>> /\ InOrder(page[Len(page)], x, FALSE)
      <4>1. ~(Len(page) < Limit) /\ Before(x, from)
        <5>1. from = page[Len(page)] /\ Before(x, page[Len(page)])
          BY <1>6, <1>9, <3>4, Zenon
        <5> QED BY <1>1, <3>4, <5>1
      <4> QED BY <2>1, <4>1, Zenon
    <3> QED BY <1>2, <3>2, <3>3, <3>4, Zenon
  <2> QED BY <2>1, <2>2, <2>3, Zenon
<1>21. ASSUME NEW h \in 1 .. Len(Chain), list.stop <= h, h <= from[1]
       PROVE  Chain[h].ts \in list.times[1] .. list.times[2]
  <2>1. from[1] <= list.from[1] /\ from[1] \in Int /\ list.from[1] \in Int /\ h \in Int
    <3>1. from = list.from \/ Before(from, list.from)
      BY <1>6, <1>11, <1>12, Zenon
    <3> QED BY <1>1, <1>13, <1>14, <3>1 DEF Row
  <2> QED BY <1>5, <1>21, <2>1 DEF ListInv
<1>22. list.asOf <= pin' /\ list'.state \in {"done", "paging"} /\ (list'.state = "done" => Len(page) < Limit)
  BY <1>5, <1>16, Zenon DEF ListInv
<1> QED BY <1>15, <1>16, <1>17, <1>19, <1>20, <1>21, <1>22, Zenon DEF ListInv, Got

\* The highest and the lowest of some blocks.
LEMMA Extremes ==
  ASSUME NEW S, S \subseteq Int, S # {}, IsFiniteSet(S)
  PROVE  (\E h \in S : \A k \in S : k <= h) /\ (\E h \in S : \A k \in S : h <= k)
<1>1. Cardinality(S) \in Nat /\ Cardinality(S) # 0
  BY FS_CardinalityType, FS_EmptySet, Zenon
<1>2. 0 \in 0 .. (Cardinality(S) - 1)
  BY <1>1
<1>3. ASSUME NEW R, Orders(R, S) PROVE \E h \in S : \A k \in S : <<k, h>> \notin R
  <2>1. PICK h \in S : Cardinality(Ahead(S, R, h)) = 0
    BY <1>2, <1>3, Places, Zenon
  <2>2. Ahead(S, R, h) \in SUBSET S
    BY Zenon DEF Ahead
  <2>3. IsFiniteSet(Ahead(S, R, h))
    BY <2>2, FS_Subset, Zenon
  <2>4. Ahead(S, R, h) = {}
    BY <2>1, <2>3, FS_EmptySet, Zenon
  <2> QED BY <2>4, Zenon DEF Ahead
<1>4. \E h \in S : \A k \in S : k <= h
  <2> DEFINE R == {p \in Int \X Int : p[1] > p[2]}
  <2>1. \A x, y \in S : <<x, y>> \in R <=> x > y
    BY Zenon
  <2> HIDE DEF R
  <2>2. Orders(R, S)
    BY <2>1 DEF Orders
  <2>3. PICK h \in S : \A k \in S : <<k, h>> \notin R
    BY <1>3, <2>2, Zenon
  <2>4. \A k \in S : ~(k > h)
    BY <2>1, <2>3, Zenon
  <2>5. \A k \in S : k <= h
    BY <2>4
  <2> QED BY <2>5, Zenon
<1>5. \E h \in S : \A k \in S : h <= k
  <2> DEFINE R == {p \in Int \X Int : p[1] < p[2]}
  <2>1. \A x, y \in S : <<x, y>> \in R <=> x < y
    BY Zenon
  <2> HIDE DEF R
  <2>2. Orders(R, S)
    BY <2>1 DEF Orders
  <2>3. PICK h \in S : \A k \in S : <<k, h>> \notin R
    BY <1>3, <2>2, Zenon
  <2>4. \A k \in S : ~(k < h)
    BY <2>1, <2>3, Zenon
  <2>5. \A k \in S : h <= k
    BY <2>4
  <2> QED BY <2>5, Zenon
<1> QED BY <1>4, <1>5, Zenon

\* LookupTxAfter: the blocks of the time range lie between its ends.
LEMMA LookupIs ==
  ASSUME TablesInv, NEW times \in TimeRange
  PROVE  /\ LookupTxAfter(times).from \in Row /\ LookupTxAfter(times).from[2] = LastPos /\ LookupTxAfter(times).stop \in Int
         /\ \A h \in 1 .. Len(Chain) : LookupTxAfter(times).stop <= h /\ h <= LookupTxAfter(times).from[1] =>
              Chain[h].ts \in times[1] .. times[2]
         /\ \A h \in 1 .. pin : Chain[h].ts \in times[1] .. times[2] =>
              LookupTxAfter(times).stop <= h /\ h <= LookupTxAfter(times).from[1]
<1> DEFINE blocks == {h \in query_blocks : Chain[h].ts \in times[1] .. times[2]}
           extreme == IF blocks = {} THEN {0} ELSE blocks
           hi == CHOOSE h \in extreme : \A k \in extreme : k <= h
           lo == CHOOSE h \in extreme : \A k \in extreme : h <= k
           after == LookupTxAfter(times)
<1>1. after = [from |-> <<hi, LastPos>>, stop |-> lo]
  BY Zenon DEF LookupTxAfter
<1>2. Len(Chain) \in Nat /\ LastPos \in Nat /\ times[1] \in Int /\ times[2] \in Int /\ pin \in Nat /\ pin <= Len(Chain)
      /\ query_blocks \subseteq 1 .. Len(Chain) /\ 1 .. pin \subseteq query_blocks
  BY IndexAssumption DEF TablesInv, Height
<1>3. \A h : h \in blocks <=> h \in query_blocks /\ Chain[h].ts \in times[1] .. times[2]
  BY Zenon
<1>4. extreme = IF blocks = {} THEN {0} ELSE blocks
  BY Zenon
<1>5. hi = (CHOOSE h \in extreme : \A k \in extreme : k <= h) /\ lo = (CHOOSE h \in extreme : \A k \in extreme : h <= k)
  BY Zenon
<1> HIDE DEF blocks, extreme, hi, lo, after
<1>6. extreme \in SUBSET (0 .. Len(Chain)) /\ extreme # {} /\ extreme \subseteq Int
  <2>1. blocks \subseteq 1 .. Len(Chain)
    BY <1>2, <1>3, Zenon
  <2> QED BY <1>2, <1>4, <2>1
<1>7. IsFiniteSet(0 .. Len(Chain))
  BY <1>2, FS_Interval
<1>8. IsFiniteSet(extreme)
  BY <1>6, <1>7, FS_Subset, Zenon
<1>9. (\E h \in extreme : \A k \in extreme : k <= h) /\ (\E h \in extreme : \A k \in extreme : h <= k)
  BY <1>6, <1>8, Extremes, Zenon
<1>10. hi \in extreme /\ lo \in extreme /\ \A k \in extreme : lo <= k /\ k <= hi
  BY <1>5, <1>9, Zenon
<1>11. after.from = <<hi, LastPos>> /\ after.from[1] = hi /\ after.from[2] = LastPos /\ after.stop = lo /\ hi \in Int /\ lo \in Int
  BY <1>1, <1>6, <1>10, Zenon
<1>12. ASSUME NEW h \in 1 .. Len(Chain), lo <= h, h <= hi PROVE Chain[h].ts \in times[1] .. times[2]
  <2>1. blocks # {}
    BY <1>2, <1>4, <1>10, <1>12
  <2>2. /\ lo \in 1 .. Len(Chain) /\ hi \in 1 .. Len(Chain)
        /\ Chain[lo].ts \in times[1] .. times[2] /\ Chain[hi].ts \in times[1] .. times[2]
    BY <1>2, <1>3, <1>4, <1>10, <2>1, Zenon
  <2>3. Chain[h].ts \in Int /\ Chain[lo].ts <= Chain[h].ts /\ Chain[h].ts <= Chain[hi].ts
    <3>1. (lo = h \/ lo < h) /\ (h = hi \/ h < hi)
      BY <1>2, <1>12, <2>2
    <3> QED BY <2>2, <3>1, Times
  <2> QED BY <1>2, <2>2, <2>3
<1>13. ASSUME NEW h \in 1 .. pin, Chain[h].ts \in times[1] .. times[2] PROVE lo <= h /\ h <= hi
  <2>1. h \in blocks
    BY <1>2, <1>3, <1>13, Zenon
  <2> QED BY <1>4, <1>10, <2>1, Zenon
<1>14. after.from \in Row
  BY <1>2, <1>11 DEF Row
<1> QED BY <1>11, <1>12, <1>13, <1>14, Zenon DEF after

\* The beginning of a listing.
LEMMA ListFirstInv ==
  ASSUME TablesInv, ListType, ListInv, ListFirst
  PROVE  ListType' /\ ListInv'
<1>1. PICK times \in TimeRange :
        list' = [list EXCEPT !.from = LookupTxAfter(times).from, !.stop = LookupTxAfter(times).stop,
                             !.state = "paging", !.asOf = pin, !.times = times]
  BY Zenon DEF ListFirst
<1>2. list.state = "new" /\ pin' = pin
  BY Zenon DEF ListFirst
<1> DEFINE from == LookupTxAfter(times).from
           stop == LookupTxAfter(times).stop
<1>3. /\ from \in Row /\ from[2] = LastPos /\ stop \in Int
      /\ \A h \in 1 .. Len(Chain) : stop <= h /\ h <= from[1] => Chain[h].ts \in times[1] .. times[2]
      /\ \A h \in 1 .. pin : Chain[h].ts \in times[1] .. times[2] => stop <= h /\ h <= from[1]
  BY LookupIs, Zenon
<1>4. list' = [list EXCEPT !.from = from, !.stop = stop, !.state = "paging", !.asOf = pin, !.times = times]
  BY <1>1, Zenon
<1> HIDE DEF from, stop
<1>5. times \in Int \X Int /\ pin \in Int /\ LastPos \in Int
  BY IndexAssumption DEF TablesInv, Height
<1>6. /\ list'.filter = list.filter /\ list'.stop = stop /\ list'.asOf = pin /\ list'.times = times
      /\ list'.got = list.got /\ list'.from = from /\ list'.state = "paging" /\ ListType'
  BY <1>3, <1>4, <1>5, Zenon DEF ListType
<1>7. list.got = <<>> /\ DOMAIN list.got = {}
  BY <1>2 DEF ListInv
<1>8. ASSUME NEW x \in AllTxs, Chain[x[1]].ts \in times[1] .. times[2], x[1] <= pin
      PROVE  stop <= x[1] /\ Before(x, from)
  <2>1. x[1] \in 1 .. pin /\ x[2] \in Int /\ x[2] < LastPos
    BY <1>5, <1>8, AllRows, IndexAssumption
  <2>2. stop <= x[1] /\ x[1] <= from[1] /\ from[1] \in Int
    BY <1>3, <1>8, <2>1, Zenon DEF Row
  <2> QED BY <1>3, <2>1, <2>2 DEF Before
<1>9. Sorted(list'.got, FALSE) /\ DOMAIN list'.got = {}
  BY <1>6, <1>7, Zenon DEF Sorted
<1>10. pin <= pin' /\ list'.state # "new" /\ list'.state # "done"
  BY <1>2, <1>5, <1>6
<1> QED BY <1>2, <1>3, <1>6, <1>8, <1>9, <1>10, Zenon DEF ListInv, Wanted


\* A page of a feed.
LEMMA PollFetchInv ==
  ASSUME TablesInv, FeedType, FeedComplete, \A f \in Filter : Safe(f), PollFetch
  PROVE  FeedType' /\ FeedComplete'
<1> DEFINE page == Page(feed, TRUE)
           got == feed.got \o page
           from == page[Len(page)]
<1>1. feed.filter \in Filter /\ Safe(feed.filter) /\ feed.got \in Seq(AllTxs) /\ feed.from \in Row /\ feed.wait \in Int
  BY Zenon DEF FeedType
<1>2. /\ page \in Seq(AllTxs) /\ Sorted(page, TRUE)
      /\ \A i \in DOMAIN page : page[i] \in Selected(feed, TRUE)
      /\ \A x \in Selected(feed, TRUE) :
           \/ \E i \in DOMAIN page : page[i] = x
           \/ Len(page) = Limit /\ page # <<>> /\ InOrder(page[Len(page)], x, TRUE)
      /\ page # <<>> => \A i \in DOMAIN page : ~InOrder(page[Len(page)], page[i], TRUE)
  BY <1>1, PageOf, Zenon
<1>3. /\ \A x \in Selected(feed, TRUE) : x \in AllTxs /\ Matches(x, feed.filter) /\ Bounds(x, feed, TRUE)
      /\ Uniform(feed.filter) =>
           \A x \in Selected(feed, TRUE) : \A y \in AllTxs :
             y[1] <= x[1] /\ Matches(y, feed.filter) /\ Bounds(y, feed, TRUE) => y \in Selected(feed, TRUE)
  BY <1>1, SelectedIs, Zenon
<1>4. feed' = IF page = <<>> THEN [feed EXCEPT !.wait = @ + 1]
              ELSE [[feed EXCEPT !.got = got, !.from = IF page = <<>> THEN @ ELSE from] EXCEPT !.state = "idle"]
  BY Zenon DEF PollFetch, Past
<1>5. got = feed.got \o page /\ from = page[Len(page)]
  BY Zenon
<1> HIDE DEF page, got, from
<1>6. CASE page = <<>>
  <2>1. feed'.filter = feed.filter /\ feed'.got = feed.got /\ feed'.from = feed.from /\ FeedType'
    BY <1>1, <1>4, <1>6 DEF FeedType
  <2> QED BY <2>1, Zenon DEF FeedComplete, FeedHasAll
<1>7. CASE page # <<>>
  <2>1. got \in Seq(AllTxs) /\ Together(got, feed.got, page)
    <3>1. feed.got \in Seq(AllTxs) /\ page \in Seq(AllTxs)
      BY <1>1, <1>2, Zenon
    <3> QED BY <1>5, <3>1, RowsTogether, Zenon
  <2>2. \A x \in AllTxs : x \in Row /\ x[1] \in 1 .. Len(Chain) /\ x[1] > 0
    BY AllRows
  <2>3. Len(page) \in DOMAIN page
    BY <1>2, <1>7
  <2>4. \A x : Bounds(x, feed, TRUE) <=> Before(feed.from, x)
    BY Zenon DEF Bounds
  <2>5. \A x, y : InOrder(x, y, TRUE) <=> Before(x, y)
    BY Zenon DEF InOrder
  <2>6. \A i \in DOMAIN page : page[i] \in AllTxs /\ Matches(page[i], feed.filter) /\ Before(feed.from, page[i])
    BY <1>2, <1>3, <2>4, Zenon
  <2>7. from \in AllTxs /\ from \in Row /\ Before(feed.from, from) /\ from \in Selected(feed, TRUE)
    BY <1>2, <1>5, <2>2, <2>3, <2>6, Zenon
  <2>8. feed'.filter = feed.filter /\ feed'.got = got /\ feed'.from = from /\ FeedType'
    BY <1>4, <1>7, <2>1, <2>7, Zenon DEF FeedType
  <2>9. \A x, y, z \in Row :
          /\ Before(x, y) /\ ~Before(x, z) => ~Before(y, z) /\ Before(z, y)
          /\ ~Before(x, y) => y[1] <= x[1]
    BY DEF Before, Row
  <2>10. ASSUME Uniform(feed.filter) PROVE FeedHasAll'
    <3>1. /\ Ascending(feed.got)
          /\ \A i \in DOMAIN feed.got : feed.got[i] \in AllTxs /\ Matches(feed.got[i], feed.filter) /\ ~Before(feed.from, feed.got[i])
          /\ \A x \in AllTxs : Matches(x, feed.filter) /\ ~Before(feed.from, x) => \E i \in DOMAIN feed.got : feed.got[i] = x
      BY <2>2, <2>10, Zenon DEF FeedComplete, FeedHasAll
    <3>2. Ascending(got)
      <4>1. \A i \in DOMAIN feed.got : \A j \in DOMAIN page : InOrder(feed.got[i], page[j], TRUE)
        <5>1. \A i \in DOMAIN feed.got : feed.got[i] \in Row /\ ~Before(feed.from, feed.got[i])
          BY <2>2, <3>1, Zenon
        <5>2. \A j \in DOMAIN page : page[j] \in Row /\ Before(feed.from, page[j])
          BY <2>2, <2>6, Zenon
        <5> QED BY <1>1, <2>5, <2>9, <5>1, <5>2, Zenon
      <4>2. Sorted(feed.got, TRUE)
        BY <2>5, <3>1, Zenon DEF Sorted, Ascending
      <4>3. Sorted(got, TRUE)
        BY <1>1, <1>2, <1>5, <4>1, <4>2, SortedTogether, Zenon
      <4> QED BY <2>5, <4>3, Zenon DEF Sorted, Ascending
    <3>3. ASSUME NEW i \in DOMAIN got
          PROVE  got[i] \in AllTxs /\ Matches(got[i], feed.filter) /\ ~Before(from, got[i])
      <4>1. ASSUME NEW k \in DOMAIN feed.got PROVE ~Before(from, feed.got[k])
        BY <1>1, <2>2, <2>7, <2>9, <3>1, Zenon
      <4>2. ASSUME NEW k \in DOMAIN page PROVE ~Before(from, page[k])
        BY <1>2, <1>5, <1>7, <2>5, Zenon
      <4> QED BY <2>1, <2>6, <3>1, <4>1, <4>2, Zenon DEF Together
    <3>4. ASSUME NEW x \in AllTxs, Matches(x, feed.filter), ~Before(from, x)
          PROVE  \E i \in DOMAIN got : got[i] = x
      <4>1. CASE ~Before(feed.from, x)
        BY <2>1, <3>1, <3>4, <4>1 DEF Together
      <4>2. CASE Before(feed.from, x)
        <5>1. x[1] <= from[1]
          BY <2>2, <2>7, <2>9, <3>4, Zenon
        <5>2. x \in Selected(feed, TRUE)
          BY <1>3, <2>4, <2>7, <2>10, <3>4, <4>2, <5>1, Zenon
        <5>3. \E i \in DOMAIN page : page[i] = x
          BY <1>2, <1>5, <2>5, <3>4, <5>2, Zenon
        <5> QED BY <2>1, <5>3, Zenon DEF Together
      <4> QED BY <4>1, <4>2, Zenon
    <3> QED BY <2>2, <2>8, <3>2, <3>3, <3>4, Zenon DEF FeedHasAll
  <2> QED BY <2>8, <2>10, Zenon DEF FeedComplete
<1> QED BY <1>6, <1>7, Zenon

\* The inductive invariant of the index and its clients.
IndexInv == TablesInv /\ SpansInv /\ ListType /\ ListInv /\ FeedType /\ FeedComplete

LEMMA IndexInvInit == IndexInit => IndexInv
<1> SUFFICES ASSUME IndexInit PROVE IndexInv
  BY Zenon
<1>1. Len(Chain) \in Nat /\ LastPos \in Nat
  BY IndexAssumption, Zenon
<1>2. TablesInv
  <2>1. 0 \in Height /\ 1 .. 0 = {} /\ 0 \in 0 .. 0
    BY <1>1 DEF Height
  <2>2. TxsUpTo(0) = {} /\ InputsUpTo(0) = {} /\ OutputsUpTo(0) = {}
    BY <2>1, Zenon DEF TxsUpTo, InputsUpTo, OutputsUpTo
  <2>3. TablesAt(0, 0, 0)
    BY <2>1, <2>2 DEF IndexInit, TablesAt
  <2> QED BY <1>1, <2>1, <2>3, Zenon DEF IndexInit, TablesInv, Steps
<1>3. SpansInv
  BY DEF IndexInit, SpansInv
<1>4. ListType /\ FeedType
  <2>1. <<>> \in Seq(AllTxs) /\ <<0, 0>> \in Row /\ <<0, LastPos>> \in Row /\ <<0, 0>> \in Int \X Int
    BY <1>1 DEF Row
  <2> QED BY <2>1 DEF IndexInit, ListType, FeedType
<1>5. ListInv
  BY DEF IndexInit, ListInv, Sorted
<1>6. FeedHasAll
  <2>1. feed.got = <<>> /\ feed.from = <<0, LastPos>>
    BY DEF IndexInit
  <2>2. \A x \in AllTxs : Before(feed.from, x)
    BY <2>1, AllRows DEF Before
  <2> QED BY <2>1, <2>2 DEF FeedHasAll, Ascending
<1> QED BY <1>2, <1>3, <1>4, <1>5, <1>6, Zenon DEF IndexInv, FeedComplete

LEMMA IndexInvNext ==
  ASSUME \A f \in Filter : Safe(f), IndexInv, [IndexNext \/ Listing \/ Polling]_ivars
  PROVE  IndexInv'
<1>1. TablesInv' /\ SpansInv'
  BY TablesNext, SpansNext, Zenon DEF IndexInv
<1>2. pin \in Int /\ pin' \in Int /\ height \in Int
  BY <1>1, IndexAssumption DEF IndexInv, TablesInv, Height
<1>3. ASSUME UNCHANGED list, pin <= pin' PROVE ListType' /\ ListInv'
  <2>1. list.asOf \in Int
    BY Zenon DEF IndexInv, ListType
  <2>2. list.asOf <= pin => list.asOf <= pin'
    BY <1>2, <1>3, <2>1
  <2>3. ListType' /\ \A x : (Wanted(x)' <=> Wanted(x)) /\ (Got(x)' <=> Got(x))
    BY <1>3, Zenon DEF IndexInv, ListType, Wanted, Got
  <2> QED BY <1>3, <2>2, <2>3, Zenon DEF IndexInv, ListInv
<1>4. ASSUME UNCHANGED feed PROVE FeedType' /\ FeedComplete'
  BY <1>4, Zenon DEF IndexInv, FeedType, FeedComplete, FeedHasAll
<1>5. CASE IndexNext \/ UNCHANGED ivars
  <2>1. UNCHANGED <<list, feed>> /\ pin <= pin'
    BY <1>2, <1>5 DEF IndexNext, Indexing, NewBlock, IndexTransactions, insertBlock, insertAnnotatedTxs,
       insertAnnotatedOutputs, updateSpentOutputs, insertAnnotatedInputs, complete, Retry, ivars
  <2> QED BY <1>1, <1>3, <1>4, <2>1, Zenon DEF IndexInv
<1>6. CASE Listing
  <2>1. UNCHANGED feed
    BY <1>6, Zenon DEF Listing, ListFirst, ListPage
  <2>2. ListType' /\ ListInv'
    BY <1>6, ListFirstInv, ListPageInv, Zenon DEF IndexInv, Listing
  <2> QED BY <1>1, <1>4, <2>1, <2>2, Zenon DEF IndexInv
<1>7. CASE Polling
  <2>1. UNCHANGED <<list, pin>>
    BY <1>7, Zenon DEF Polling, PollStart, PollFetch, PollTimeout
  <2>2. ASSUME PollStart \/ PollTimeout PROVE FeedType' /\ FeedComplete'
    <3>1. feed'.filter = feed.filter /\ feed'.got = feed.got /\ feed'.from = feed.from /\ FeedType'
      BY <1>2, <2>2, Zenon DEF IndexInv, FeedType, PollStart, PollTimeout, waitFor
    <3> QED BY <3>1, Zenon DEF IndexInv, FeedComplete, FeedHasAll
  <2>3. FeedType' /\ FeedComplete'
    BY <1>7, <2>2, PollFetchInv, Zenon DEF IndexInv, Polling
  <2>4. ListType' /\ ListInv'
    BY <1>2, <1>3, <2>1
  <2> QED BY <1>1, <2>3, <2>4, Zenon DEF IndexInv
<1> QED BY <1>5, <1>6, <1>7, Zenon

\* At every time the index has the outputs that were unspent then, a listing has every
\* matching transaction once and a feed has each up to its cursor in the order of the
\* chain, for every chain that the protocol allows, every page size, and however often
\* the statements of a block fail and run again (index.go, transactions.go, query.go).
\* A filter has one condition or brackets: buildTransactionsQuery does not put them in.
THEOREM IndexMatchesChain ==
  ASSUME \A f \in Filter : Safe(f) PROVE IndexSpec => []IndexIsChain
<1>1. ASSUME IndexInv PROVE IndexIsChain
  <2>1. UnspentIsChain
    BY <1>1, SpansSelect, Zenon DEF IndexInv
  <2>2. PagesComplete
    <3>1. Descending(list.got)
      BY <1>1, Zenon DEF IndexInv, ListInv, Sorted, InOrder, Descending
    <3> QED BY <1>1, <3>1, Zenon DEF IndexInv, ListInv, Wanted, Got, PagesComplete
  <2> QED BY <1>1, <2>1, <2>2, Zenon DEF IndexInv, IndexIsChain
<1>2. IndexInv /\ [IndexNext \/ Listing \/ Polling]_ivars => IndexInv'
  BY IndexInvNext, Zenon
<1> QED BY <1>1, <1>2, IndexInvInit, PTL DEF IndexSpec
=============================================================================
