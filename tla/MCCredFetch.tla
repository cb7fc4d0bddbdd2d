---------------------------- MODULE MCCredFetch ----------------------------
(* Small instances of CredFetch: the frames LiveKit may send. *)
EXTENDS CredFetch

Other == 104

MCBlocks == {[urls |-> <<Stun>>, user |-> 0, pass |-> 0],
             [urls |-> <<Other, Turn, Other>>, user |-> 1, pass |-> 2],
             [urls |-> <<Other>>, user |-> 1, pass |-> 3],
             [urls |-> <<>>, user |-> 2, pass |-> 2]}

MCServers == [num : {5, 9}, block : MCBlocks]

(* No field, a number of a field above 15, fixed fields, an empty message, *)
(* and a message with a block of a field that is not looked at.            *)
MCBefore == {<<>>, Number(20, 300), Filler(3, 1), Filler(3, 5), Nested(1, <<>>),
             Nested(1, Nested(6, Str(1, Turn)))}

IceServer == [num |-> 9, block |-> [urls |-> <<Turn>>, user |-> 1, pass |-> 2]]

(* Whole frames, some that are cut off, and one whose length overflows. *)
MCFrames ==
    [msg : [before : MCBefore, servers : {<<x>> : x \in MCServers}], cut : {0}]
    \cup [msg : [before : {<<>>, Filler(3, 5)}, servers : {<<x, y>> : x, y \in MCServers}], cut : {0}]
    \cup [msg : [before : {Filler(3, 1)}, servers : {<<IceServer, IceServer>>}], cut : 1..24]
    \cup [msg : [before : {Tag(3, 2) \o <<255, 255, 1>>}, servers : {<<>>}], cut : {0}]
=============================================================================
