------------------------------ MODULE WbProto ------------------------------
(***************************************************************************)
(* The protobuf reader of internal/core/wb.go, which looks for the TURN    *)
(* credentials in a LiveKit message without knowing its schema, and what   *)
(* it should find: a message as the tree of fields that was encoded.       *)
(*                                                                         *)
(* Bytes are numbers below 256, offsets count from 0 as in the code, and   *)
(* machine words have Word bits: 64 in the code, so that the last group of *)
(* a varint keeps one of its 7 bits.  A URL, a user name or a password is  *)
(* one byte that stands for it: "t" for a turn: or turns: URL, "s" for a   *)
(* stun: URL, any other for one that is neither.                           *)
(***************************************************************************)
EXTENDS Integers, Sequences, SequencesExt, FiniteSetsExt

CONSTANT Word

(* The powers are numbers whatever Word is; a proof has to be told.        *)
ASSUME WbProtoAssumption ==
    /\ Word \in Nat /\ Word > 7 /\ Word % 7 = 1
    /\ 2^Word \in Nat \ {0} /\ 2^(Word - 1) \in Nat

-----------------------------------------------------------------------------
(* The reader *)

(* wbPbVar: groups of 7 bits, the lowest first, as many as fit, up to the  *)
(* first of the last ones (those below 128); 0 when there is none.         *)
VarintUpTo(d, o, groups, last) ==
    LET n == Min(last)
        value[k \in 0..n] ==   \* of the k highest groups
            IF k = 0 THEN 0 ELSE (d[o + n - k + 1] % 128) + 128 * value[k - 1]
    IN  IF last = {} THEN [v |-> 0, o |-> o + groups]
        ELSE [v |-> value[n] % 2^Word, o |-> o + n]

wbPbVar(d, o) ==
    LET groups == Max({0, Min({(Word + 6) \div 7, Len(d) - o})})
    IN  VarintUpTo(d, o, groups, {n \in 1..groups : d[o + n] < 128})

(* The conversion int(l) and a sum, in two's complement. *)
Signed(n) == ((n + 2^(Word - 1)) % 2^Word) - 2^(Word - 1)

Field(num, val, end) == [num |-> num, val |-> val, o |-> end]

(* Mutation: a 32-bit field is skipped as if it had 64. *)
FieldOfFixed64(d, t, x) ==
    LET e == Signed(x.o + Signed(x.v))
        num == t.v \div 8
    IN  CASE t.v % 8 = 0 -> Field(num, <<>>, x.o)
          [] t.v % 8 \in {1, 5} -> Field(num, <<>>, t.o + 8)
          [] t.v % 8 = 2 /\ e <= Len(d) /\ e >= x.o -> Field(num, <<SubSeq(d, x.o + 1, e)>>, e)
          [] OTHER -> Field(num, <<>>, Len(d))

(* One round of the loop that wbPbAll and wbPbICE share, with the tag t    *)
(* and the varint x after it: the field, its payload (if it is             *)
(* length-delimited) and where the next one begins.  A length past the     *)
(* end, or one that overflows, and an unknown wire type end the loop.      *)
FieldOf(d, t, x) ==
    LET e == Signed(x.o + Signed(x.v))
        num == t.v \div 8
    IN  CASE t.v % 8 = 0 -> Field(num, <<>>, x.o)
          [] t.v % 8 = 1 -> Field(num, <<>>, t.o + 8)
          [] t.v % 8 = 5 -> Field(num, <<>>, t.o + 4)
          [] t.v % 8 = 2 /\ e <= Len(d) /\ e >= x.o -> Field(num, <<SubSeq(d, x.o + 1, e)>>, e)
          [] OTHER -> Field(num, <<>>, Len(d))

WbField(d, o) == LET t == wbPbVar(d, o) IN FieldOf(d, t, wbPbVar(d, t.o))

(* All fields of a message, in order. *)
WbFields(d) ==
    LET From[o \in 0..Len(d) + 8] ==
            IF o >= Len(d) THEN <<>>
            ELSE LET x == WbField(d, o) IN <<x>> \o From[x.o]
    IN  From[0]

(* The payloads of the fields whose number is in nums. *)
Payloads(fields, nums) ==
    FlattenSeq([i \in DOMAIN fields |-> IF fields[i].num \in nums THEN fields[i].val ELSE <<>>])

FirstOf(seq) == IF seq = <<>> THEN <<>> ELSE seq[1]

wbPbAll(d, f) == Payloads(WbFields(d), {f})

wbPbStr(d, f) == FirstOf(wbPbAll(d, f))

Turn == 116
Stun == 115
Hit(urls) == \E i \in DOMAIN urls : urls[i] # <<>> /\ urls[i][1] \in {Turn, Stun}

(* The credentials of one ICE server block. *)
WbTurnCred(urls, user, pass) ==
    [i \in DOMAIN urls |-> [url |-> urls[i], user |-> user, pass |-> pass]]
BlockCreds(blk) == WbTurnCred(wbPbAll(blk, 1), wbPbStr(blk, 2), wbPbStr(blk, 3))

(* The credentials of the blocks, those of the first hit before the others. *)
BlocksCreds(blks, hits) ==
    IF hits = {} THEN <<>>
    ELSE LET creds == [i \in DOMAIN blks |-> BlockCreds(blks[i])]
         IN  creds[Min(hits)] \o FlattenSeq([creds EXCEPT ![Min(hits)] = <<>>])

(* The credentials in field 5, else 9, of a top field. *)
FieldCreds(inner, f) ==
    LET blks == wbPbAll(inner, f)
    IN  BlocksCreds(blks, {i \in DOMAIN blks : Hit(wbPbAll(blks[i], 1))})
InnerCreds(inner) ==
    FirstOf(SelectSeq(<<FieldCreds(inner, 5), FieldCreds(inner, 9)>>, LAMBDA c : c # <<>>))

(* wbPbICE: the credentials of the first top field that has some. *)
InnersCreds(inners) ==
    FirstOf(SelectSeq([i \in DOMAIN inners |-> InnerCreds(inners[i])], LAMBDA c : c # <<>>))
wbPbICE(d) ==
    LET fields == WbFields(d)
    IN  InnersCreds(Payloads(fields, {fields[i].num : i \in DOMAIN fields}))

(* wbDedup: the first of each URL and user name. *)
wbDedup(cc) ==
    FlattenSeq([i \in DOMAIN cc |->
        IF \E j \in 1..i - 1 : cc[j].url = cc[i].url /\ cc[j].user = cc[i].user
        THEN <<>> ELSE <<cc[i]>>])

-----------------------------------------------------------------------------
(* What a message says.  A tree is a sequence of fields; a field holds a   *)
(* number (wire type 0), a filler of 8 or 4 bytes (1 and 5), a string or a *)
(* tree (2).                                                               *)

Varint(n) == IF n < 128 THEN <<n>> ELSE <<128 + (n % 128), n \div 128>>
Tag(num, wire) == Varint(8 * num + wire)

(* The bytes of a leaf field, and of one that holds the bytes of a tree. *)
Str(num, b) == Tag(num, 2) \o <<1, b>>
Nested(num, bytes) == Tag(num, 2) \o Varint(Len(bytes)) \o bytes
Number(num, n) == Tag(num, 0) \o Varint(n)
Filler(num, wire) == Tag(num, wire) \o [i \in 1..(IF wire = 1 THEN 8 ELSE 4) |-> 42]

(* A block [urls, user, pass], with user name and password or without. *)
BlockBytes(b) ==
    FlattenSeq([i \in DOMAIN b.urls |-> Str(1, b.urls[i])])
    \o (IF b.user = 0 THEN <<>> ELSE Str(2, b.user) \o Str(3, b.pass))

(* A message [before, servers]: fillers, then a top field with the blocks  *)
(* of servers, a sequence of [num, block], and a number between any two.   *)
InnerBytes(servers) ==
    FlattenSeq([i \in DOMAIN servers |->
        Number(1, 200) \o Nested(servers[i].num, BlockBytes(servers[i].block))])
MessageBytes(m) == m.before \o Nested(2, InnerBytes(m.servers))

CredsOf(b) ==
    [i \in DOMAIN b.urls |->
        [url |-> <<b.urls[i]>>,
         user |-> IF b.user = 0 THEN <<>> ELSE <<b.user>>,
         pass |-> IF b.user = 0 THEN <<>> ELSE <<b.pass>>]]

(* The credentials a reader of the schema would take out of the message:   *)
(* those of every block of the field chosen, grouped by block.             *)
ServersOf(m, f) == SelectSeq(m.servers, LAMBDA x : x.num = f)
IsIce(b) == \E i \in DOMAIN b.urls : b.urls[i] \in {Turn, Stun}
ChosenField(m) ==
    LET fs == {f \in {5, 9} : \E i \in DOMAIN m.servers :
                                  m.servers[i].num = f /\ IsIce(m.servers[i].block)}
    IN  IF fs = {} THEN 0 ELSE Min(fs)
Credentials(m) ==
    UNION {Range(CredsOf(ServersOf(m, ChosenField(m))[i].block)) :
               i \in DOMAIN ServersOf(m, ChosenField(m))}
FirstIce(m) ==
    LET x == ServersOf(m, ChosenField(m))
    IN  x[Min({i \in DOMAIN x : IsIce(x[i].block)})].block
=============================================================================
