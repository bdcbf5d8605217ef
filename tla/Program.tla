------------------------------ MODULE Program ------------------------------
(***************************************************************************)
(* CVM programs: the encoding of values as bytes (protocol/vm/types.go),   *)
(* the instruction set and its parser (ops.go), data pushes (pushdata.go), *)
(* the assembler and the disassembler on tokens (assemble.go), and the     *)
(* multisig programs of protocol/vmutil.  A byte string is a sequence over *)
(* 0 .. 255; a program counter counts from 0 as in the code.               *)
(***************************************************************************)
EXTENDS Checked, Sequences, SequencesExt

CONSTANTS
  IntBytes,   \* bytes of the VM's integers (8 in the code)
  AddrBytes,  \* bytes of a program counter and a jump target (4)
  KeyLen      \* bytes of a hash, a message and an ed25519 public key (32)

ASSUME WidthAssumption ==
  /\ IntBytes \in Nat \ {0} /\ AddrBytes \in Nat \ {0} /\ KeyLen \in Nat \ {0}

Int64 == IntType(8 * IntBytes)
Uint32 == UintType(8 * AddrBytes)

LittleEndian(bs) == FoldRight(LAMBDA b, acc : b + 256 * acc, bs, 0)
PutLittleEndian(n, k) == [i \in 1 .. k |-> (n \div 256^(i - 1)) % 256]

BoolBytes(b) == IF b THEN <<1>> ELSE <<>>

AsBool(bs) == \E i \in DOMAIN bs : bs[i] # 0

\* Two's complement, least significant byte first, without the zero bytes at
\* the end: 0 is the empty string and a negative number keeps all its bytes.
Int64Bytes(n) ==
  LET res == PutLittleEndian(n, IntBytes)
      keep == CHOOSE k \in 0 .. IntBytes :
                /\ \A i \in k + 1 .. IntBytes : res[i] = 0
                /\ k > 0 => res[k] # 0
  IN SubSeq(res, 1, keep)

AsInt64(bs) ==
  IF Len(bs) > IntBytes THEN Bad
  ELSE LET u == LittleEndian(bs)
       IN Good(IF u > Int64.max THEN u - 256^IntBytes ELSE u)
-----------------------------------------------------------------------------
(* The instruction set.                                                    *)

\* Opcodes first, first + 1, ... named in order.
Row(first, names) == [b \in first .. first + Len(names) - 1 |-> names[b - first + 1]]

ControlOps ==
  Row(0, <<"FALSE">>)
  @@ Row(76, <<"PUSHDATA1", "PUSHDATA2", "PUSHDATA4", "1NEGATE">>)
  @@ Row(97, <<"NOP">>)
  @@ Row(99, <<"JUMP", "JUMPIF">>)
  @@ Row(105, <<"VERIFY", "FAIL">>)
  @@ Row(192, <<"CHECKPREDICATE">>)

StackOps ==
  Row(107, <<"TOALTSTACK", "FROMALTSTACK", "2DROP", "2DUP", "3DUP", "2OVER",
             "2ROT", "2SWAP", "IFDUP", "DEPTH", "DROP", "DUP", "NIP", "OVER",
             "PICK", "ROLL", "ROT", "SWAP", "TUCK">>)

ByteOps ==
  Row(126, <<"CAT", "SUBSTR", "LEFT", "RIGHT", "SIZE", "INVERT", "AND", "OR",
             "XOR", "EQUAL", "EQUALVERIFY", "CATPUSHDATA">>)

NumericOps ==
  Row(139, <<"1ADD", "1SUB", "2MUL", "2DIV", "NEGATE", "ABS", "NOT",
             "0NOTEQUAL", "ADD", "SUB", "MUL", "DIV", "MOD", "LSHIFT",
             "RSHIFT", "BOOLAND", "BOOLOR", "NUMEQUAL", "NUMEQUALVERIFY",
             "NUMNOTEQUAL", "LESSTHAN", "GREATERTHAN", "LESSTHANOREQUAL",
             "GREATERTHANOREQUAL", "MIN", "MAX", "WITHIN">>)

ContextOps ==
  Row(168, <<"SHA256">>) @@ Row(170, <<"SHA3">>)
  @@ Row(172, <<"CHECKSIG", "CHECKMULTISIG", "TXSIGHASH", "BLOCKHASH">>)
  @@ Row(193, <<"CHECKOUTPUT", "ASSET", "AMOUNT", "PROGRAM", "MINTIME",
                "MAXTIME", "TXDATA", "ENTRYDATA", "INDEX", "ENTRYID",
                "OUTPUTID", "NONCE", "NEXTPROGRAM", "BLOCKTIME">>)

\* The table init() completes: DATA_1 .. DATA_75 and 1 .. 16 push data, and
\* every opcode left without a name is an expansion opcode.
DataOps == [b \in (1 .. 75) \cup (81 .. 96) |-> "DATA"]
Ops == ControlOps @@ StackOps @@ ByteOps @@ NumericOps @@ ContextOps @@ DataOps
OpName(b) == IF b \in DOMAIN Ops THEN Ops[b] ELSE "EXPANSION"
OpByte(name) == CHOOSE b \in DOMAIN Ops : Ops[b] = name

Inst(op, len, data) == [op |-> op, len |-> len, data |-> data, err |-> "nil"]
ParseError(e) == [op |-> 0, len |-> 0, data |-> <<>>, err |-> e]

\* The instruction whose opcode is followed by `skip` bytes of length field
\* and then by n bytes of data.
InstUpTo(prog, pc, skip, len, end) ==
  CASE ~len.ok \/ ~end.ok -> ParseError("ErrOverflow")
    [] end.val > Len(prog) -> ParseError("ErrShortProgram")
    [] OTHER -> Inst(prog[pc + 1], len.val, SubSeq(prog, pc + skip + 2, end.val))
InstOfLen(prog, pc, skip, len) == InstUpTo(prog, pc, skip, len, AddUint(Uint32, pc, len.val))
DataInst(prog, pc, skip, n) == InstOfLen(prog, pc, skip, AddUint(Uint32, 1 + skip, n))

\* The length field of a PUSHDATA op, read after checking that it is there.
PushdataInst(prog, pc, width) ==
  IF pc + 1 + width > Len(prog) THEN ParseError("ErrShortProgram")
  ELSE DataInst(prog, pc, width, LittleEndian(SubSeq(prog, pc + 2, pc + 1 + width)))

\* The bytes of the length field of an instruction that has one.
LengthWidth == ("PUSHDATA1" :> 1) @@ ("PUSHDATA2" :> 2) @@ ("PUSHDATA4" :> AddrBytes)
InstNamed(prog, pc, op, name) ==
  CASE op \in 81 .. 96 -> Inst(op, 1, <<op - 80>>)
    [] name \in DOMAIN LengthWidth -> PushdataInst(prog, pc, LengthWidth[name])
    [] op \in 1 .. 75 -> DataInst(prog, pc, 0, op)
    [] name \in {"JUMP", "JUMPIF"} -> DataInst(prog, pc, 0, AddrBytes)
    [] OTHER -> Inst(op, 1, <<>>)
ParseOp(prog, pc) ==
  IF pc >= Len(prog) THEN ParseError("ErrShortProgram")
  ELSE InstNamed(prog, pc, prog[pc + 1], OpName(prog[pc + 1]))

\* All instructions of a program, or the first parse error.
WithInst(i, More(_), insts) == IF i.err # "nil" THEN [insts |-> <<>>, err |-> i.err] ELSE More(Append(insts, i))
ParseProgram(prog) ==
  LET RECURSIVE From(_, _)
      From(pc, insts) ==
        IF pc >= Len(prog) THEN [insts |-> insts, err |-> "nil"]
        ELSE WithInst(ParseOp(prog, pc), LAMBDA more : From(pc + Last(more).len, more), insts)
  IN From(0, <<>>)
-----------------------------------------------------------------------------
(* Pushing data.                                                           *)

PushdataBytes(in) ==
  LET l == Len(in)
  IN CASE l = 0    -> <<0>>
       [] l \in 1 .. 75 -> <<l>> \o in
       [] l \in 76 .. 255 -> <<OpByte("PUSHDATA1"), l>> \o in
       [] l \in 256 .. 65535 -> <<OpByte("PUSHDATA2")>> \o PutLittleEndian(l, 2) \o in
       [] OTHER -> <<OpByte("PUSHDATA4")>> \o PutLittleEndian(l, AddrBytes) \o in

PushdataInt64(n) ==
  CASE n = 0        -> <<0>>
    [] n \in 1 .. 16 -> <<80 + n>>
    [] OTHER        -> PushdataBytes(Int64Bytes(n))
-----------------------------------------------------------------------------
(* The assembler.  Its input is a sequence of tokens: an opcode name, a    *)
(* jump to a label or to an address, a label, bytes to push (0x.. and '..')*)
(* or a number to push.                                                    *)

OpToken(name) == [kind |-> "op", name |-> name]
JumpToken(name, label) == [kind |-> "jump", name |-> name, label |-> label]
AddrToken(name, addr) == [kind |-> "addr", name |-> name, addr |-> addr]
LabelToken(label) == [kind |-> "label", label |-> label]
BytesToken(bs) == [kind |-> "bytes", bytes |-> bs]
NumToken(n) == [kind |-> "num", num |-> n]

\* Where a label stands.
\* Mutant: one byte late.
LocationLate(a) == Len(a.res) + 1
Location(a) == Len(a.res)

\* One token: the output grows, a label is placed, or a jump is left to be
\* filled in.  PUSHDATA, JUMP and unnamed opcodes are not accepted as names.
AssembleToken(a, t) ==
  LET zeros == [i \in 1 .. AddrBytes |-> 0]
  IN IF a.err # "nil" THEN a
     ELSE CASE t.kind = "op" ->
                 IF t.name \in {"PUSHDATA1", "PUSHDATA2", "PUSHDATA4", "JUMP", "JUMPIF", "EXPANSION"}
                 THEN [a EXCEPT !.err = "ErrToken"]
                 ELSE [a EXCEPT !.res = Append(@, OpByte(t.name))]
            [] t.kind = "jump" ->
                 [a EXCEPT !.res = Append(@, OpByte(t.name)) \o zeros,
                           !.unresolved = @ \cup {[label |-> t.label, at |-> Len(a.res) + 1]}]
            [] t.kind = "addr" ->
                 [a EXCEPT !.res = Append(@, OpByte(t.name)) \o PutLittleEndian(t.addr, AddrBytes)]
            [] t.kind = "label" ->
                 IF t.label \in DOMAIN a.locations THEN [a EXCEPT !.err = "redefined"]
                 ELSE [a EXCEPT !.locations = @ @@ (t.label :> Location(a))]
            [] t.kind = "bytes" -> [a EXCEPT !.res = @ \o PushdataBytes(t.bytes)]
            [] t.kind = "num" -> [a EXCEPT !.res = @ \o PushdataInt64(t.num)]

\* After the last token every jump gets the location of its label.
Resolve(a, uses, i) ==
  IF uses = {} THEN a.res[i]
  ELSE PutLittleEndian(a.locations[(CHOOSE u \in uses : TRUE).label], AddrBytes)[i - (CHOOSE u \in uses : TRUE).at]
Linked(a) ==
  CASE a.err # "nil" -> [res |-> <<>>, err |-> a.err]
    [] \E u \in a.unresolved : u.label \notin DOMAIN a.locations -> [res |-> <<>>, err |-> "undefined label"]
    [] OTHER ->
         [res |-> [i \in DOMAIN a.res |->
                     Resolve(a, {u \in a.unresolved : i \in u.at + 1 .. u.at + AddrBytes}, i)],
          err |-> "nil"]
Assemble(tokens) ==
  Linked(FoldLeft(AssembleToken, [res |-> <<>>, locations |-> <<>>, unresolved |-> {}, err |-> "nil"], tokens))

\* A label before every instruction (or the end) that some jump names.  The
\* label words of the code are one per address, so the address stands for it.
IsJump(i) == OpName(i.op) \in {"JUMP", "JUMPIF"}
InstToken(i, name) ==
  CASE name \in {"JUMP", "JUMPIF"} -> JumpToken(name, LittleEndian(i.data))
    [] Len(i.data) > 0 -> BytesToken(i.data)
    [] OTHER -> OpToken(name)
Mark(loc, labels) == IF loc \in labels THEN <<LabelToken(loc)>> ELSE <<>>
Marked(all, labels) == all.strs \o Mark(all.loc, labels)
Listing(insts, labels) ==
  Marked(FoldLeft(LAMBDA all, i : [loc |-> all.loc + i.len,
                                   strs |-> Append(Marked(all, labels), InstToken(i, OpName(i.op)))],
                  [loc |-> 0, strs |-> <<>>], insts), labels)
Listed(p) ==
  IF p.err # "nil" THEN [strs |-> <<>>, err |-> p.err]
  ELSE [strs |-> Listing(p.insts, {LittleEndian(i.data) : i \in {i \in Range(p.insts) : IsJump(i)}}), err |-> "nil"]
Disassemble(prog) == Listed(ParseProgram(prog))
-----------------------------------------------------------------------------
(* Reference                                                               *)

IsPush(p, Decodes(_)) == p.err = "nil" /\ Len(p.insts) = 1 /\ Decodes(p.insts[1].data)

\* Encoding an integer and decoding it gives it back, and so does pushing it
\* and parsing the push, which is a single instruction.
IntRoundTrip(n) ==
  /\ AsInt64(Int64Bytes(n)) = Good(n)
  /\ IsPush(ParseProgram(PushdataInt64(n)), LAMBDA data : AsInt64(data) = Good(n))

\* Pushing data and parsing the push gives the data back.
DataRoundTrip(bs) == IsPush(ParseProgram(PushdataBytes(bs)), LAMBDA data : data = bs)

Start(insts, i) == FoldSeq(LAMBDA x, sum : x.len + sum, 0, SubSeq(insts, 1, i - 1))
Target(insts, i) == {k \in 1 .. Len(insts) + 1 : Start(insts, k) = LittleEndian(insts[i].data)}
SameTarget(old, new) == old # {} /\ new = old
SameInst(old, new, i) ==
  IF IsJump(old[i]) THEN new[i].op = old[i].op /\ SameTarget(Target(old, i), Target(new, i))
  ELSE new[i].data = old[i].data /\ (old[i].data = <<>> => new[i].op = old[i].op)
SameProgram(old, new) == Len(new) = Len(old) /\ \A i \in DOMAIN old : SameInst(old, new, i)

SameWhenBuilt(prog, a) == a.err = "nil" => SameProgram(ParseProgram(prog).insts, ParseProgram(a.res).insts)
ReassemblesFrom(prog, d) == d.err = "nil" => SameWhenBuilt(prog, Assemble(d.strs))

\* Disassembling and assembling again, when both succeed, gives a program
\* that does the same: instruction by instruction the same opcode or a push
\* of the same data, and jumps that lead to the same instruction.
Reassembles(prog) == ReassemblesFrom(prog, Disassemble(prog))
=============================================================================
