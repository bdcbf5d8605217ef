--------------------------------- MODULE VM ---------------------------------
(***************************************************************************)
(* The Chain virtual machine (protocol/vm).  A machine runs one program on *)
(* a data stack and an alternate stack under a run limit; CHECKPREDICATE   *)
(* runs a child machine on part of its parent's stack and run limit.  The  *)
(* machines that are active form the sequence `frames`, innermost last.    *)
(*                                                                         *)
(* A stack item is a Go slice: an array of the heap, an offset and a       *)
(* length.  Items that were duplicated or cut out of one another share     *)
(* their array, and Go's append writes into it when there is room.         *)
(*                                                                         *)
(* An operation of the code is a function of a machine to a machine: each  *)
(* of its steps is skipped once an error is set, which is what the early   *)
(* returns of the code do, and what the earlier steps did to the stacks    *)
(* and to the run limit stays, which matters because the parent of a       *)
(* failed machine gets back what is left of it.  `r` holds the values the  *)
(* operation has popped so far.                                            *)
(***************************************************************************)
EXTENDS Multisig, VMContext, FiniteSets

CONSTANTS
  initialRunLimit,        \* the run limit of an outermost machine (10000)
  Contexts,               \* the contexts Verify is called with
  Hash(_),                \* SHA256 and SHA3 of a byte string
  Signed(_, _, _)         \* ed25519.Verify(public key, message, signature)

VARIABLES
  context,   \* vm.Context: what is verified, and what the program may ask about it
  frames,    \* the active machines; the heap they share is kept in the last
  verdict    \* "running", or the error Verify returned ("nil" is success)

vars == <<context, frames, verdict>>

Slice(id, off, len) == [id |-> id, off |-> off, len |-> len]
Cut(s, from, to) == Slice(s.id, s.off + from, to - from)
BytesIn(heap, s) == SubSeq(heap[s.id], s.off + 1, s.off + s.len)
CapIn(heap, s) == Len(heap[s.id]) - s.off
Bytes(m, s) == BytesIn(m.heap, s)

\* Array 1 of the heap is the one-byte array of the package variable trueBytes.
trueBytes == Slice(1, 0, 1)

Machine(prog, limit, stack, reserved, heap) ==
  [program |-> prog, pc |-> 0, nextPC |-> 0, runLimit |-> limit, deferred |-> 0,
   data |-> <<>>, dataStack |-> stack, altStack |-> <<>>, r |-> <<>>,
   expansionReserved |-> reserved, err |-> "nil", heap |-> heap]

Failed(m) == m.err # "nil"
Fail(m, e) == IF Failed(m) THEN m ELSE [m EXCEPT !.err = e]
Then(m, Do(_)) == IF Failed(m) THEN m ELSE Do(m)
Require(m, cond, e) == IF cond THEN m ELSE Fail(m, e)

applyCost(m, n) ==
  IF Failed(m) THEN m
  ELSE IF n > m.runLimit THEN Fail(m, "ErrRunLimitExceeded")
  ELSE [m EXCEPT !.runLimit = @ - n]

deferCost(m, n) == IF Failed(m) THEN m ELSE [m EXCEPT !.deferred = @ + n]

ItemCost(s) == 8 + s.len
stackCost(stack) == FoldSeq(LAMBDA s, sum : ItemCost(s) + sum, 0, stack)

push(m, s, late) ==
  LET paid == IF late THEN deferCost(m, ItemCost(s)) ELSE applyCost(m, ItemCost(s))
  IN Then(paid, LAMBDA p : [p EXCEPT !.dataStack = Append(@, s)])

\* A slice of the first len bytes of a new array.
pushNew(m, array, len, late) ==
  push([m EXCEPT !.heap = Append(@, array)], Slice(Len(m.heap) + 1, 0, len), late)
pushBytes(m, bs, late) == pushNew(m, bs, Len(bs), late)
pushBool(m, b, late) == IF b THEN push(m, trueBytes, late) ELSE pushBytes(m, <<>>, late)
\* Int64Bytes cuts the zeros off an array of IntBytes bytes.
pushInt64(m, n, late) ==
  IF n = 0 THEN pushBytes(m, <<>>, late)
  ELSE pushNew(m, PutLittleEndian(n, IntBytes), Len(Int64Bytes(n)), late)

pop(m, late) ==
  IF Failed(m) THEN m
  ELSE IF m.dataStack = <<>> THEN Fail(m, "ErrDataStackUnderflow")
  ELSE LET s == Last(m.dataStack)
           n == [m EXCEPT !.dataStack = Front(@), !.r = Append(@, s)]
       IN IF late THEN deferCost(n, -ItemCost(s))
          ELSE [n EXCEPT !.runLimit = @ + ItemCost(s)]

\* As pop, and the value popped is decoded.
popInt64(m, late) ==
  Then(pop(m, late), LAMBDA p :
    LET n == AsInt64(Bytes(p, Last(p.r)))
    IN IF n.ok THEN [p EXCEPT !.r[Len(p.r)] = n.val] ELSE Fail(p, "ErrBadValue"))

Top(m) == Last(m.dataStack)
Depth(m) == Len(m.dataStack)
AtLeast(m, n) == IF Failed(m) THEN m ELSE Require(m, Depth(m) >= n, "ErrDataStackUnderflow")
WithStack(m, s) == [m EXCEPT !.dataStack = s]
\* The item i below the top (the top is item 1), and the stack without the top n.
Item(m, i) == m.dataStack[Depth(m) - i + 1]
Below(m, n) == SubSeq(m.dataStack, 1, Depth(m) - n)
IsTrue(m, s) == AsBool(Bytes(m, s))

falseResult(m) == m.dataStack = <<>> \/ ~IsTrue(m, Top(m))
-----------------------------------------------------------------------------
(* pushdata.go, control.go                                                 *)

opFalse(m) == pushBool(applyCost(m, 1), FALSE, FALSE)
opPushdata(m) == pushBytes(applyCost(m, 1), m.data, FALSE)
op1Negate(m) == pushInt64(applyCost(m, 1), -1, FALSE)
opNop(m) == applyCost(m, 1)

opVerify(m) ==
  Then(pop(applyCost(m, 1), TRUE), LAMBDA p : Require(p, IsTrue(p, p.r[1]), "ErrVerifyFailed"))

opFail(m) == Fail(applyCost(m, 1), "ErrReturn")

JumpTo(m) == [m EXCEPT !.nextPC = LittleEndian(m.data)]
opJump(m) == Then(applyCost(m, 1), JumpTo)
opJumpIf(m) ==
  Then(pop(applyCost(m, 1), TRUE), LAMBDA p : IF IsTrue(p, p.r[1]) THEN JumpTo(p) ELSE p)
-----------------------------------------------------------------------------
(* stack.go                                                                *)

opToAltStack(m) ==
  Then(AtLeast(applyCost(m, 2), 1), LAMBDA p :
    [p EXCEPT !.altStack = Append(@, Top(p)), !.dataStack = Front(@)])

opFromAltStack(m) ==
  Then(applyCost(m, 2), LAMBDA p :
    IF p.altStack = <<>> THEN Fail(p, "ErrAltStackUnderflow")
    ELSE [p EXCEPT !.dataStack = Append(@, Last(p.altStack)), !.altStack = Front(@)])

op2Drop(m) == pop(pop(applyCost(m, 2), FALSE), FALSE)
opDrop(m) == pop(applyCost(m, 1), FALSE)

\* Push n times the item i below the top, which each push moves by one.
RECURSIVE Repush(_, _, _)
Repush(m, n, i) ==
  IF n = 0 \/ Failed(m) THEN m ELSE Repush(push(m, Item(m, i), FALSE), n - 1, i)

nDup(m, n) == Repush(AtLeast(applyCost(m, n), n), n, n)
op2Over(m) == Repush(AtLeast(applyCost(m, 2), 4), 2, 4)
\* Mutant: the copy is not paid for.
opOverFree(m) ==
  Then(AtLeast(applyCost(m, 1), 2), LAMBDA p : WithStack(p, Append(p.dataStack, Item(p, 2))))
opOver(m) == Repush(AtLeast(applyCost(m, 1), 2), 1, 2)

op2Rot(m) ==
  Then(AtLeast(applyCost(m, 2), 6), LAMBDA p :
    WithStack(p, Below(p, 6) \o <<Item(p, 4), Item(p, 3), Item(p, 2), Item(p, 1),
                                  Item(p, 6), Item(p, 5)>>))

op2Swap(m) ==
  Then(AtLeast(applyCost(m, 2), 4), LAMBDA p :
    WithStack(p, Below(p, 4) \o <<Item(p, 2), Item(p, 1), Item(p, 4), Item(p, 3)>>))

opSwap(m) ==
  Then(AtLeast(applyCost(m, 1), 2), LAMBDA p :
    WithStack(p, Below(p, 2) \o <<Item(p, 1), Item(p, 2)>>))

opIfDup(m) ==
  Then(AtLeast(applyCost(m, 1), 1), LAMBDA p :
    IF IsTrue(p, Top(p)) THEN push(p, Top(p), FALSE) ELSE p)

opDepth(m) == Then(applyCost(m, 1), LAMBDA p : pushInt64(p, Depth(p), FALSE))

\* The top is taken off without accounting, the next item popped, and the
\* top put back.
opNip(m) ==
  LET p == AtLeast(applyCost(m, 1), 1)
  IN Then(p, LAMBDA q : Then(pop(WithStack(q, Front(q.dataStack)), FALSE), LAMBDA s :
       WithStack(s, Append(s.dataStack, Top(p)))))

opTuck(m) ==
  LET p == AtLeast(applyCost(m, 1), 2)
  IN Then(p, LAMBDA q : Then(push(WithStack(q, Below(q, 2)), Item(q, 1), FALSE), LAMBDA s :
       WithStack(s, s.dataStack \o <<Item(p, 2), Item(p, 1)>>)))

\* n, popped, counts from 0; the offset n + 1 is computed with a check.
Offset(m) ==
  Then(popInt64(applyCost(m, 2), FALSE), LAMBDA p :
    Require(p, p.r[1] >= 0 /\ AddInt(Int64, p.r[1], 1).ok, "ErrBadValue"))

opPick(m) ==
  Then(Offset(m), LAMBDA p : Then(AtLeast(p, p.r[1] + 1), LAMBDA q :
    push(q, Item(q, q.r[1] + 1), FALSE)))

\* Moves the item n below the top to the top.
rot(m, n) ==
  Then(AtLeast(m, n), LAMBDA p :
    WithStack(p, Below(p, n) \o SubSeq(p.dataStack, Depth(p) - n + 2, Depth(p)) \o <<Item(p, n)>>))
opRoll(m) == Then(Offset(m), LAMBDA p : rot(p, p.r[1] + 1))
opRot(m) == rot(applyCost(m, 2), 3)
-----------------------------------------------------------------------------
(* splice.go, bitwise.go                                                   *)

\* The capacity append allocates when the array is too small: twice the old
\* one or what is needed, rounded up to a size class of the Go allocator.
GrownCap(cap, need) ==
  LET want == IF need > 2 * cap THEN need ELSE 2 * cap
  IN IF want <= 8 THEN 8 ELSE 16 * ((want + 15) \div 16)

\* append(a, bs...): in place when the array of a has room behind a, which
\* overwrites what other slices of that array see there.
pushAppend(m, a, bs, late) ==
  LET len == a.len + Len(bs)
      At(i) == i - a.off - a.len
  IN IF len <= CapIn(m.heap, a)
     THEN push([m EXCEPT !.heap[a.id] =
                  [i \in DOMAIN @ |-> IF At(i) \in DOMAIN bs THEN bs[At(i)] ELSE @[i]]],
               Slice(a.id, a.off, len), late)
     ELSE pushNew(m, [i \in 1 .. GrownCap(CapIn(m.heap, a), len) |->
                        IF i <= len THEN (Bytes(m, a) \o bs)[i] ELSE 0], len, late)

\* Pop b and a, charge for their lengths until the end of the instruction.
PopTwoStrings(m) ==
  Then(pop(pop(applyCost(m, 4), TRUE), TRUE), LAMBDA p :
    LET lens == p.r[1].len + p.r[2].len IN deferCost(applyCost(p, lens), -lens))
opCat(m) ==
  Then(PopTwoStrings(m), LAMBDA p : pushAppend(p, p.r[2], Bytes(p, p.r[1]), TRUE))
opCatpushdata(m) ==
  Then(PopTwoStrings(m), LAMBDA p : pushAppend(p, p.r[2], PushdataBytes(Bytes(p, p.r[1])), TRUE))

\* Pop the size of the substring and charge for it until the end.
PopSize(m) ==
  Then(popInt64(applyCost(m, 4), TRUE), LAMBDA p :
    deferCost(applyCost(Require(p, p.r[1] >= 0, "ErrBadValue"), p.r[1]), -p.r[1]))

opSubstr(m) ==
  Then(popInt64(PopSize(m), TRUE), LAMBDA p :
    Then(pop(Require(p, p.r[2] >= 0, "ErrBadValue"), TRUE), LAMBDA q :
      LET end == AddInt(Int64, q.r[2], q.r[1])
      IN IF ~end.ok \/ end.val > q.r[3].len THEN Fail(q, "ErrBadValue")
         ELSE push(q, Cut(q.r[3], q.r[2], end.val), TRUE)))

opLeft(m) ==
  Then(pop(PopSize(m), TRUE), LAMBDA p :
    IF p.r[1] > p.r[2].len THEN Fail(p, "ErrBadValue")
    ELSE push(p, Cut(p.r[2], 0, p.r[1]), TRUE))

opRight(m) ==
  Then(pop(PopSize(m), TRUE), LAMBDA p :
    IF p.r[1] > p.r[2].len THEN Fail(p, "ErrBadValue")
    ELSE push(p, Cut(p.r[2], p.r[2].len - p.r[1], p.r[2].len), TRUE))

opSize(m) ==
  Then(AtLeast(applyCost(m, 1), 1), LAMBDA p : pushInt64(p, Top(p).len, TRUE))

opInvert(m) ==
  Then(AtLeast(applyCost(m, 1), 1), LAMBDA p : Then(applyCost(p, Top(p).len), LAMBDA q :
    LET new == [i \in 1 .. Top(q).len |-> 255 - Bytes(q, Top(q))[i]]
    IN [q EXCEPT !.heap = Append(@, new),
                 !.dataStack = Append(Front(@), Slice(Len(q.heap) + 1, 0, Len(new)))]))

Shorter(p) == IF p.r[1].len < p.r[2].len THEN p.r[1].len ELSE p.r[2].len
Longer(p) == IF p.r[1].len < p.r[2].len THEN p.r[2].len ELSE p.r[1].len

\* A bitwise operation given by its value on two bits.
Bitwise(a, b, F(_, _)) ==
  LET bit(x, i) == (x \div 2^i) % 2
  IN FoldLeft(LAMBDA sum, i : sum + F(bit(a, i - 1), bit(b, i - 1)) * 2^(i - 1), 0, [i \in 1 .. 8 |-> i])
ByteAt(p, s, i) == IF i <= s.len THEN Bytes(p, s)[i] ELSE 0

opAnd(m) ==
  Then(pop(pop(applyCost(m, 1), TRUE), TRUE), LAMBDA p :
    pushBytes(applyCost(p, Shorter(p)),
              [i \in 1 .. Shorter(p) |-> Bitwise(ByteAt(p, p.r[2], i), ByteAt(p, p.r[1], i),
                                                 LAMBDA x, y : x * y)], TRUE))

doOr(m, xor) ==
  Then(pop(pop(applyCost(m, 1), TRUE), TRUE), LAMBDA p :
    pushBytes(applyCost(p, Longer(p)),
              [i \in 1 .. Longer(p) |->
                 Bitwise(ByteAt(p, p.r[2], i), ByteAt(p, p.r[1], i),
                         LAMBDA x, y : IF xor THEN (x + y) % 2 ELSE x + y - x * y)], TRUE))

doEqual(m) ==
  Then(pop(pop(applyCost(m, 1), TRUE), TRUE), LAMBDA p : applyCost(p, Shorter(p)))
Same(p) == Bytes(p, p.r[1]) = Bytes(p, p.r[2])
opEqual(m) == Then(doEqual(m), LAMBDA p : pushBool(p, Same(p), TRUE))
opEqualVerify(m) == Then(doEqual(m), LAMBDA p : Require(p, Same(p), "ErrVerifyFailed"))
-----------------------------------------------------------------------------
(* numeric.go.  An operation is given by its cost, the number of integers   *)
(* it pops (r[1] was on top) and what it makes of them: a number, a truth   *)
(* value or an error.                                                       *)

RECURSIVE PopInts(_, _)
PopInts(m, n) == IF n = 0 THEN m ELSE PopInts(popInt64(m, TRUE), n - 1)

Numeric(m, cost, n, F(_)) ==
  Then(PopInts(applyCost(m, cost), n), LAMBDA p :
    LET res == F(p.r) IN IF res.ok THEN pushInt64(p, res.val, TRUE) ELSE Fail(p, "ErrRange"))

Test(m, cost, n, F(_)) ==
  Then(PopInts(applyCost(m, cost), n), LAMBDA p : pushBool(p, F(p.r), TRUE))

op1Add(m) == Numeric(m, 2, 1, LAMBDA r : AddInt(Int64, r[1], 1))
op1Sub(m) == Numeric(m, 2, 1, LAMBDA r : SubInt(Int64, r[1], 1))
op2Mul(m) == Numeric(m, 2, 1, LAMBDA r : MulInt(Int64, r[1], 2))
op2Div(m) == Numeric(m, 2, 1, LAMBDA r : Good(Shr(r[1], 1)))
opNegate(m) == Numeric(m, 2, 1, LAMBDA r : NegateInt(Int64, r[1]))
opAbs(m) ==
  Numeric(m, 2, 1, LAMBDA r : IF r[1] = Int64.min THEN Bad ELSE Good(IF r[1] < 0 THEN -r[1] ELSE r[1]))
opNot(m) == Test(m, 2, 1, LAMBDA r : r[1] = 0)
op0NotEqual(m) == Test(m, 2, 1, LAMBDA r : r[1] # 0)

opAdd(m) == Numeric(m, 2, 2, LAMBDA r : AddInt(Int64, r[2], r[1]))
opSub(m) == Numeric(m, 2, 2, LAMBDA r : SubInt(Int64, r[2], r[1]))
opMul(m) == Numeric(m, 8, 2, LAMBDA r : MulInt(Int64, r[2], r[1]))

\* DIV and MOD fail with an error of their own on a zero divisor.
NonZero(m) ==
  Then(PopInts(applyCost(m, 8), 2), LAMBDA p : Require(p, p.r[1] # 0, "ErrDivZero"))
Result(m, F(_)) ==
  Then(m, LAMBDA p : LET res == F(p.r)
                     IN IF res.ok THEN pushInt64(p, res.val, TRUE) ELSE Fail(p, "ErrRange"))
opDiv(m) == Result(NonZero(m), LAMBDA r : DivInt(Int64, r[2], r[1]))

\* Go's remainder has the sign of the dividend; MOD gives it the divisor's.
FloorMod(x, y) ==
  LET res == ModInt(Int64, x, y)
  IN IF res.ok /\ res.val # 0 /\ (x >= 0) # (y >= 0) THEN Good(Wrap(Int64, res.val + y)) ELSE res
opMod(m) == Result(NonZero(m), LAMBDA r : FloorMod(r[2], r[1]))

opLshift(m) ==
  Then(popInt64(applyCost(m, 8), TRUE), LAMBDA p :
    Result(popInt64(Require(p, p.r[1] >= 0, "ErrBadValue"), TRUE), LAMBDA r :
      IF r[2] = 0 \/ r[1] = 0 THEN Good(r[2]) ELSE LshiftInt(Int64, r[2], r[1])))

\* A shift by the width or more leaves only the sign.
ShrAll(x, y) == IF y >= Int64.bits THEN (IF x < 0 THEN -1 ELSE 0) ELSE Shr(x, y)
opRshift(m) ==
  Then(PopInts(applyCost(m, 8), 2), LAMBDA p :
    Result(Require(p, p.r[1] >= 0, "ErrBadValue"), LAMBDA r : Good(ShrAll(r[2], r[1]))))

opBoolAnd(m) ==
  Then(pop(pop(applyCost(m, 2), TRUE), TRUE), LAMBDA p :
    pushBool(p, IsTrue(p, p.r[1]) /\ IsTrue(p, p.r[2]), TRUE))
opBoolOr(m) ==
  Then(pop(pop(applyCost(m, 2), TRUE), TRUE), LAMBDA p :
    pushBool(p, IsTrue(p, p.r[1]) \/ IsTrue(p, p.r[2]), TRUE))

Compare(name, x, y) ==
  CASE name = "NUMEQUAL" -> x = y
    [] name = "NUMNOTEQUAL" -> x # y
    [] name = "LESSTHAN" -> x < y
    [] name = "GREATERTHAN" -> x > y
    [] name = "LESSTHANOREQUAL" -> x <= y
    [] name = "GREATERTHANOREQUAL" -> x >= y
doNumCompare(m, name) == Test(m, 2, 2, LAMBDA r : Compare(name, r[2], r[1]))
opNumEqualVerify(m) ==
  Then(PopInts(applyCost(m, 2), 2), LAMBDA p : Require(p, p.r[1] = p.r[2], "ErrVerifyFailed"))

opMin(m) == Numeric(m, 2, 2, LAMBDA r : Good(IF r[2] > r[1] THEN r[1] ELSE r[2]))
opMax(m) == Numeric(m, 2, 2, LAMBDA r : Good(IF r[2] < r[1] THEN r[1] ELSE r[2]))
opWithin(m) == Test(m, 4, 3, LAMBDA r : r[3] >= r[2] /\ r[3] < r[1])
-----------------------------------------------------------------------------
(* crypto.go                                                               *)

doHash(m) ==
  Then(pop(m, FALSE), LAMBDA p :
    LET x == Bytes(p, p.r[1])
    IN pushBytes(applyCost(p, IF Len(x) < 64 THEN 64 ELSE Len(x)), Hash(x), FALSE))

opCheckSig(m) ==
  Then(pop(pop(pop(applyCost(m, 1024), TRUE), TRUE), TRUE), LAMBDA p :
    LET pubkey == Bytes(p, p.r[1]) msg == Bytes(p, p.r[2]) sig == Bytes(p, p.r[3])
    IN IF Len(msg) # KeyLen THEN Fail(p, "ErrBadValue")
       ELSE pushBool(p, Len(pubkey) = KeyLen /\ Signed(pubkey, msg, sig), TRUE))

\* Mutant: a key is not used up by the signature it matches.
AllSignedAny(pubkeys, msg, sigs) ==
  \A i \in DOMAIN sigs : \E j \in DOMAIN pubkeys : Signed(pubkeys[j], msg, sigs[i])

\* The loop of CHECKMULTISIG: each signature in turn is tried with the keys
\* that are left, in order.
RECURSIVE AllSigned(_, _, _)
AllSigned(pubkeys, msg, sigs) ==
  IF sigs = <<>> THEN TRUE
  ELSE IF pubkeys = <<>> THEN FALSE
  ELSE AllSigned(Tail(pubkeys), msg,
                 IF Signed(Head(pubkeys), msg, Head(sigs)) THEN Tail(sigs) ELSE sigs)

RECURSIVE PopItems(_, _)
PopItems(m, n) == IF n = 0 \/ Failed(m) THEN m ELSE PopItems(pop(m, TRUE), n - 1)

\* r[1] is the number of keys and r[2] of signatures; then follow the keys,
\* the message and the signatures.
opCheckMultiSig(m) ==
  Then(popInt64(m, TRUE), LAMBDA p :
    LET cost == MulInt(Int64, p.r[1], 1024)
        paid == applyCost(Require(p, p.r[1] >= 0 /\ cost.ok, "ErrBadValue"), cost.val)
    IN Then(popInt64(paid, TRUE), LAMBDA q :
      LET nKeys == q.r[1]
          nSigs == q.r[2]
          counts == Require(q, nSigs >= 0 /\ nSigs <= nKeys /\ (nKeys > 0 => nSigs # 0), "ErrBadValue")
      IN Then(pop(PopItems(counts, nKeys), TRUE), LAMBDA u :
        LET msg == Bytes(u, u.r[nKeys + 3])
        IN Then(PopItems(Require(u, Len(msg) = KeyLen, "ErrBadValue"), nSigs), LAMBDA v :
          LET keys == [i \in 1 .. nKeys |-> Bytes(v, v.r[i + 2])]
              sigs == [i \in 1 .. nSigs |-> Bytes(v, v.r[nKeys + 3 + i])]
          IN pushBool(v, /\ \A i \in DOMAIN keys : Len(keys[i]) = KeyLen
                         /\ AllSigned(keys, msg, sigs), TRUE)))))
-----------------------------------------------------------------------------
(* introspection.go, and TXSIGHASH and BLOCKHASH of crypto.go               *)

\* The arrays of the heap when a verification starts: trueBytes, the code,
\* the arguments, and the byte fields of the context.
InitialHeap(c) ==
  <<<<1>>, c.Code>> \o c.Arguments
  \o [i \in DOMAIN ByteFields |-> IF c[ByteFields[i]] = Nil THEN <<>> ELSE c[ByteFields[i]]]
CodeSlice(c) == Slice(2, 0, Len(c.Code))
ArgSlice(c, i) == Slice(2 + i, 0, Len(c.Arguments[i]))
Field(name) ==
  LET i == CHOOSE i \in DOMAIN ByteFields : ByteFields[i] = name
  IN IF context[name] = Nil THEN Nil
     ELSE Slice(2 + Len(context.Arguments) + i, 0, Len(context[name]))

\* Push a field of the context; an absent one is ErrContext.
PushField(m, cost, field, late) ==
  IF field = Nil THEN Fail(applyCost(m, cost), "ErrContext")
  ELSE push(applyCost(m, cost), field, late)

\* The same for a number, converted from unsigned to signed.
AsSigned(n) == IF n > Int64.max THEN n - 256^IntBytes ELSE n
PushNumber(m, field) ==
  IF field = Nil THEN Fail(applyCost(m, 1), "ErrContext")
  ELSE pushInt64(applyCost(m, 1), AsSigned(field), TRUE)

opTxSigHash(m) == PushField(m, 256, Field("TxSigHash"), FALSE)
opBlockHash(m) == PushField(m, 1, Field("BlockHash"), FALSE)
opAsset(m) == PushField(m, 1, Field("AssetID"), TRUE)
opAmount(m) == PushNumber(m, context.Amount)
opProgram(m) == push(applyCost(m, 1), CodeSlice(context), TRUE)
opMinTime(m) == PushNumber(m, context.MinTimeMS)
opEntryData(m) == PushField(m, 1, Field("EntryData"), TRUE)
opTxData(m) == PushField(m, 1, Field("TxData"), TRUE)
opIndex(m) == PushNumber(m, context.DestPos)
opEntryID(m) == push(applyCost(m, 1), Field("EntryID"), TRUE)
opOutputID(m) == PushField(m, 1, Field("SpentOutputID"), TRUE)
opNonce(m) == PushField(m, 1, Field("AnchorID"), TRUE)
opNextProgram(m) == PushField(m, 1, Field("NextConsensusProgram"), TRUE)
opBlockTime(m) == PushNumber(m, context.BlockTimeMS)

\* No limit, or one beyond the signed range, is the largest signed number.
opMaxTime(m) ==
  LET t == context.MaxTimeMS
  IN PushNumber(m, IF t # Nil /\ (t = 0 \/ t > Int64.max) THEN Int64.max ELSE t)

\* r: code, VM version, asset, amount, data, index.
opCheckOutput(m) ==
  LET NonNegative(p) == IF Failed(p) THEN p ELSE Require(p, Last(p.r) >= 0, "ErrBadValue")
      code == pop(applyCost(m, 16), TRUE)
      version == NonNegative(popInt64(code, TRUE))
      amount == NonNegative(popInt64(pop(version, TRUE), TRUE))
      index == NonNegative(popInt64(pop(amount, TRUE), TRUE))
  IN Then(index, LAMBDA p :
       IF context.CheckOutput = Nil THEN Fail(p, "ErrContext")
       ELSE LET ans == checkOutput(context.CheckOutput,
                         [index |-> p.r[6], data |-> Bytes(p, p.r[5]), amount |-> p.r[4],
                          assetID |-> Bytes(p, p.r[3]), vmVersion |-> p.r[2],
                          code |-> Bytes(p, p.r[1]), expansion |-> p.expansionReserved])
            IN IF ans.err # "nil" THEN Fail(p, ans.err) ELSE pushBool(p, ans.ok, TRUE))

-----------------------------------------------------------------------------
(* vm.go                                                                   *)

\* The operation of an opcode, CHECKPREDICATE excepted.
Do(m, name) ==
  CASE name = "FALSE" -> opFalse(m)
    [] name \in {"DATA", "PUSHDATA1", "PUSHDATA2", "PUSHDATA4"} -> opPushdata(m)
    [] name = "1NEGATE" -> op1Negate(m)
    [] name = "NOP" -> opNop(m)
    [] name = "JUMP" -> opJump(m)
    [] name = "JUMPIF" -> opJumpIf(m)
    [] name = "VERIFY" -> opVerify(m)
    [] name = "FAIL" -> opFail(m)
    [] name = "TOALTSTACK" -> opToAltStack(m)
    [] name = "FROMALTSTACK" -> opFromAltStack(m)
    [] name = "2DROP" -> op2Drop(m)
    [] name = "2DUP" -> nDup(m, 2)
    [] name = "3DUP" -> nDup(m, 3)
    [] name = "2OVER" -> op2Over(m)
    [] name = "2ROT" -> op2Rot(m)
    [] name = "2SWAP" -> op2Swap(m)
    [] name = "IFDUP" -> opIfDup(m)
    [] name = "DEPTH" -> opDepth(m)
    [] name = "DROP" -> opDrop(m)
    [] name = "DUP" -> nDup(m, 1)
    [] name = "NIP" -> opNip(m)
    [] name = "OVER" -> opOver(m)
    [] name = "PICK" -> opPick(m)
    [] name = "ROLL" -> opRoll(m)
    [] name = "ROT" -> opRot(m)
    [] name = "SWAP" -> opSwap(m)
    [] name = "TUCK" -> opTuck(m)
    [] name = "CAT" -> opCat(m)
    [] name = "SUBSTR" -> opSubstr(m)
    [] name = "LEFT" -> opLeft(m)
    [] name = "RIGHT" -> opRight(m)
    [] name = "SIZE" -> opSize(m)
    [] name = "CATPUSHDATA" -> opCatpushdata(m)
    [] name = "INVERT" -> opInvert(m)
    [] name = "AND" -> opAnd(m)
    [] name = "OR" -> doOr(m, FALSE)
    [] name = "XOR" -> doOr(m, TRUE)
    [] name = "EQUAL" -> opEqual(m)
    [] name = "EQUALVERIFY" -> opEqualVerify(m)
    [] name = "1ADD" -> op1Add(m)
    [] name = "1SUB" -> op1Sub(m)
    [] name = "2MUL" -> op2Mul(m)
    [] name = "2DIV" -> op2Div(m)
    [] name = "NEGATE" -> opNegate(m)
    [] name = "ABS" -> opAbs(m)
    [] name = "NOT" -> opNot(m)
    [] name = "0NOTEQUAL" -> op0NotEqual(m)
    [] name = "ADD" -> opAdd(m)
    [] name = "SUB" -> opSub(m)
    [] name = "MUL" -> opMul(m)
    [] name = "DIV" -> opDiv(m)
    [] name = "MOD" -> opMod(m)
    [] name = "LSHIFT" -> opLshift(m)
    [] name = "RSHIFT" -> opRshift(m)
    [] name = "BOOLAND" -> opBoolAnd(m)
    [] name = "BOOLOR" -> opBoolOr(m)
    [] name \in {"NUMEQUAL", "NUMNOTEQUAL", "LESSTHAN", "GREATERTHAN",
                 "LESSTHANOREQUAL", "GREATERTHANOREQUAL"} -> doNumCompare(m, name)
    [] name = "NUMEQUALVERIFY" -> opNumEqualVerify(m)
    [] name = "MIN" -> opMin(m)
    [] name = "MAX" -> opMax(m)
    [] name = "WITHIN" -> opWithin(m)
    [] name \in {"SHA256", "SHA3"} -> doHash(m)
    [] name = "CHECKSIG" -> opCheckSig(m)
    [] name = "CHECKMULTISIG" -> opCheckMultiSig(m)
    [] name = "TXSIGHASH" -> opTxSigHash(m)
    [] name = "BLOCKHASH" -> opBlockHash(m)
    [] name = "CHECKOUTPUT" -> opCheckOutput(m)
    [] name = "ASSET" -> opAsset(m)
    [] name = "AMOUNT" -> opAmount(m)
    [] name = "PROGRAM" -> opProgram(m)
    [] name = "MINTIME" -> opMinTime(m)
    [] name = "MAXTIME" -> opMaxTime(m)
    [] name = "TXDATA" -> opTxData(m)
    [] name = "ENTRYDATA" -> opEntryData(m)
    [] name = "INDEX" -> opIndex(m)
    [] name = "ENTRYID" -> opEntryID(m)
    [] name = "OUTPUTID" -> opOutputID(m)
    [] name = "NONCE" -> opNonce(m)
    [] name = "NEXTPROGRAM" -> opNextProgram(m)
    [] name = "BLOCKTIME" -> opBlockTime(m)

Current == Last(frames)
AtEnd(m) == m.pc >= m.program.len
NextInst == ParseOp(Bytes(Current, Current.program), Current.pc)

\* The start of step(): the instruction is decoded.
Begin(m, inst) ==
  [m EXCEPT !.nextPC = m.pc + inst.len, !.deferred = 0, !.data = inst.data, !.r = <<>>]

\* The end of step(): the deferred cost is charged and the machine moves on.
\* What the next instruction would overwrite is cleared.
Finish(m) ==
  Then(applyCost(m, m.deferred), LAMBDA p :
    [p EXCEPT !.pc = p.nextPC, !.nextPC = 0, !.deferred = 0, !.data = <<>>, !.r = <<>>])

\* An opcode without a meaning yet.
Expand(m, inst) ==
  IF m.expansionReserved THEN Fail(m, "ErrDisallowedOpcode")
  ELSE applyCost([m EXCEPT !.pc = m.pc + inst.len], 1)

\* One instruction of the innermost machine, CHECKPREDICATE excepted.
Executed(m, inst, name) ==
  CASE inst.err # "nil" -> Fail(m, inst.err)
    [] inst.err = "nil" /\ name = "EXPANSION" -> Expand(m, inst)
    [] OTHER -> Finish(Do(Begin(m, inst), name))
IsCall(inst) == inst.err = "nil" /\ OpName(inst.op) = "CHECKPREDICATE"
StepWith(inst) ==
  /\ ~IsCall(inst)
  /\ frames' = Append(Front(frames), Executed(Current, inst, OpName(inst.op)))
Step ==
  /\ verdict = "running"
  /\ ~Failed(Current) /\ ~AtEnd(Current)
  /\ StepWith(NextInst)
  /\ UNCHANGED <<context, verdict>>

\* The first half of CHECKPREDICATE.  r: the child's run limit, its program
\* and the number of arguments; a negative number of arguments cuts the stack
\* out of its bounds, a panic that Verify turns into ErrUnexpected.
ChildLimit(r, available) == IF r[1] = 0 THEN available ELSE r[1]
CheckPredicate(m) ==
  Then(popInt64(pop(popInt64(deferCost(applyCost(m, 256), -256 + 64), TRUE), TRUE), TRUE), LAMBDA p :
    Require(applyCost(Require(Require(p, p.r[1] >= 0, "ErrBadValue"), p.r[3] <= Depth(p), "ErrDataStackUnderflow"),
                      ChildLimit(p.r, p.runLimit)),
            p.r[3] >= 0, "ErrUnexpected"))

\* The parent and its child, or the parent that failed; available is the limit of a
\* child that names none.
Child(p, limit) == Machine(p.r[2], limit, SubSeq(p.dataStack, Depth(p) - p.r[3] + 1, Depth(p)), FALSE, p.heap)
Called(p, available) ==
  IF Failed(p) THEN <<p>>
  ELSE <<[WithStack(p, Below(p, p.r[3])) EXCEPT !.heap = <<>>], Child(p, ChildLimit(p.r, available))>>
CallWith(inst) ==
  /\ IsCall(inst)
  /\ frames' = Front(frames) \o Called(CheckPredicate(Begin(Current, inst)), Current.runLimit - 256)
Call ==
  /\ verdict = "running"
  /\ ~Failed(Current) /\ ~AtEnd(Current)
  /\ CallWith(NextInst)
  /\ UNCHANGED <<context, verdict>>

\* The second half: the child has ended or failed.  The parent gets back the
\* run limit that is left and what the child's stacks hold.
Refund(c) == c.runLimit + stackCost(c.dataStack) + stackCost(c.altStack)
Returned(parent, c) ==
  Finish(pushBool(deferCost([parent EXCEPT !.heap = c.heap], -Refund(c)), ~Failed(c) /\ ~falseResult(c), TRUE))
Return ==
  /\ verdict = "running"
  /\ Len(frames) > 1
  /\ Failed(Current) \/ AtEnd(Current)
  /\ Current.err # "ErrUnexpected"
  /\ frames' = Append(Front(Front(frames)), Returned(frames[Len(frames) - 1], Current))
  /\ UNCHANGED <<context, verdict>>

\* Verify: the arguments are pushed and charged for, then the program runs.
RECURSIVE PushArgs(_, _, _)
PushArgs(m, c, i) ==
  IF i > Len(c.Arguments) THEN m ELSE PushArgs(push(m, ArgSlice(c, i), FALSE), c, i + 1)

Verify(c) ==
  /\ verdict = "idle"
  /\ context' = c
  /\ IF c.VMVersion # 1
     THEN verdict' = "ErrUnsupportedVM" /\ UNCHANGED frames
     ELSE LET m == PushArgs(Machine(CodeSlice(c), initialRunLimit, <<>>,
                                    c.TxVersion # Nil /\ c.TxVersion = 1, InitialHeap(c)), c, 1)
          IN frames' = <<m>> /\ verdict' = IF Failed(m) THEN m.err ELSE "running"

\* The outermost machine has ended or failed, or some machine has panicked.
End ==
  /\ verdict = "running"
  /\ \/ Len(frames) = 1 /\ (Failed(Current) \/ AtEnd(Current))
     \/ Current.err = "ErrUnexpected"
  /\ verdict' = IF Failed(Current) THEN Current.err
                ELSE IF falseResult(Current) THEN "ErrFalseVMResult" ELSE "nil"
  /\ UNCHANGED <<context, frames>>

Init == context = NoContext /\ frames = <<>> /\ verdict = "idle"

\* The caller takes the verdict; the next verification starts afresh.
Done ==
  /\ verdict \notin {"idle", "running"}
  /\ context' = NoContext /\ frames' = <<>> /\ verdict' = "idle"

Next ==
  \/ verdict = "idle" /\ \E c \in Contexts : Verify(c)
  \/ Step
  \/ Call
  \/ Return
  \/ End
  \/ Done

Spec == Init /\ [][Next]_vars
-----------------------------------------------------------------------------
(* Properties                                                              *)

\* Slices lie within their arrays, no run limit is negative, only a machine
\* that waits for its child or has failed has a deferred cost, and only the
\* innermost machine can have failed.
TypeOK ==
  /\ verdict \in STRING
  /\ \A i \in DOMAIN frames :
       /\ frames[i].pc \in Nat /\ frames[i].runLimit \in Nat
       /\ i = Len(frames) /\ ~Failed(frames[i]) => frames[i].deferred = 0
       /\ i < Len(frames) => ~Failed(frames[i])
       /\ \A s \in Range(frames[i].dataStack \o frames[i].altStack) :
            s.off \in Nat /\ s.len \in 0 .. CapIn(Current.heap, s)

\* What a machine owns: the run limit it has left, what it will get back, and
\* what it paid for the items on its stacks.
Budget(m) == m.runLimit - m.deferred + stackCost(m.dataStack) + stackCost(m.altStack)
Total(fs) == FoldSeq(LAMBDA m, sum : Budget(m) + sum, 0, fs)
\* Machines and items; the result of a child is one item.
Size(fs) == FoldSeq(LAMBDA m, sum : 2 + Len(m.dataStack) + sum, 0, fs)

\* A child that could not pay the deferred cost of its last instruction.
InDebt == Len(frames) > 1 /\ Failed(Current) /\ Current.deferred > 0

\* Every instruction is paid for (run, applyCost, deferCost, CHECKPREDICATE):
\* no step of a machine, no start of a child and no return from one creates
\* budget, and a step that succeeds uses some of it up or leaves less on the
\* stacks.  So every program comes to an end.  A return from a child in debt
\* is excepted here; BudgetNeverGrows is about it.
Metered ==
  [][(frames # <<>> /\ frames' # <<>> /\ frames' # frames /\ ~InDebt) =>
       /\ Total(frames') <= Total(frames)
       /\ \/ Failed(Last(frames'))
          \/ Total(frames') < Total(frames)
          \/ Size(frames') < Size(frames)]_vars

\* The run limit is a limit: what the machines own never grows, a child in
\* debt (opCheckPredicate refunds its stacks) included.
BudgetNeverGrows ==
  [][(frames # <<>> /\ frames' # <<>>) => Total(frames') <= Total(frames)]_vars

\* The items on the stacks are values: an instruction changes the bytes of no
\* item that was on a stack before and still is, nor of the programs that run.
Live(fs) ==
  UNION {Range(fs[i].dataStack) \cup Range(fs[i].altStack) \cup {fs[i].program} : i \in DOMAIN fs}
ItemsAreValues ==
  [][(frames # <<>> /\ frames' # <<>>) =>
       \A s \in Live(frames) \cap Live(frames') :
         BytesIn(Last(frames').heap, s) = BytesIn(Current.heap, s)]_vars

Signers(keys, msg) ==
  {k \in Range(keys) : \E i \in DOMAIN context.Arguments : Signed(k, msg, context.Arguments[i])}

Signatures(keys, sub) ==
  /\ Len(sub) = Len(context.Arguments)
  /\ \A i \in DOMAIN sub : Signed(keys[sub[i]], context.BlockHash, context.Arguments[i])
InOrder(m, keys) == {sub \in [1 .. m -> DOMAIN keys] : \A i, j \in 1 .. m : i < j => sub[i] < sub[j]}
QuorumSigned(p) ==
  p.err = "nil" /\ p.m > 0 =>
    /\ verdict = "nil" => Cardinality(Signers(p.keys, context.BlockHash)) >= p.m
    /\ (\E sub \in InOrder(p.m, p.keys) : Signatures(p.keys, sub)) => verdict = "nil"

\* A block passes its consensus program, as BlockMultiSigProgram writes it,
\* only if as many of the keys as it requires have signed the block's hash;
\* and if those signatures are given in the order of the keys, it passes.
ConsensusProgramIsQuorum ==
  verdict \notin {"idle", "running"} /\ context.BlockHash # Nil => QuorumSigned(ParseBlockMultiSigProgram(context.Code))

PredicateSigned(p) ==
  p.err = "nil" /\ p.m > 0 =>
    /\ context.Arguments # <<>>
    /\ Cardinality(Signers(p.keys, Hash(Last(context.Arguments)))) >= p.m

\* An output with an account's control program (P2SPMultiSigProgram) is spent
\* only under a predicate, its last argument, whose hash the required number
\* of keys have signed.
ControlProgramIsQuorum ==
  verdict = "nil" /\ context.SpentOutputID # Nil => PredicateSigned(ParseP2SPMultiSigProgram(context.Code))

\* CHECKOUTPUT answers yes only if the transaction holds, at the position
\* asked about, an output or a retirement of that asset and amount, under that
\* program if it is an output.
OutputIsThere ==
  (verdict = "nil" /\ context.Code = <<OpByte("CHECKOUTPUT")>>) =>
    LET a == context.Arguments
        entries == context.CheckOutput.entries
    IN \E id \in DOMAIN entries :
         LET e == entries[id]
         IN /\ e.type \in {"output", "retirement"}
            /\ e.source.pos = AsInt64(a[1]).val
            /\ e.source.value = [asset |-> a[4], amount |-> AsInt64(a[3]).val]
            /\ e.type = "output" => e.program = [vmVersion |-> AsInt64(a[5]).val, code |-> a[6]]

\* A program that stands for a condition succeeds only if the condition holds: a quorum
\* for a block, a quorum behind the predicate of a spend, an output that is there
\* (opCheckMultiSig, opCheckPredicate, opCheckOutput).
AcceptedIsMeant == ConsensusProgramIsQuorum /\ ControlProgramIsQuorum /\ OutputIsThere
=============================================================================
