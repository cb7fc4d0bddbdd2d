------------------------------- MODULE WbAuth -------------------------------
(***************************************************************************)
(* The credential fetch of internal/core/wb.go: wbFetch runs the requests  *)
(* of fetchWbCreds (register a guest, create a room, join it, get its      *)
(* token), opens LiveKit's websocket in wbLkICE and reads messages until   *)
(* one has credentials.                                                    *)
(*                                                                         *)
(* A frame is a message (see WbProto) of which the last cut bytes are      *)
(* missing.  Resolving a name never ends the fetch: without an answer the  *)
(* name itself is used.                                                    *)
(***************************************************************************)
EXTENDS FetchQueue, WbProto

CONSTANTS Frames,       \* the frames LiveKit may send
          MaxReads      \* the rounds of wbLkICE's loop (15)

ASSUME WbAuthAssumption == MaxReads \in Nat \ {0}

VARIABLES reads,        \* rounds of the read loop so far
          frame,        \* the frame just read, or None
          found         \* what wbPbICE found in it

wbVars == <<reads, frame, found>>

Received(f) == LET bytes == MessageBytes(f.msg) IN SubSeq(bytes, 1, Len(bytes) - f.cut)

WbInit == reads = 0 /\ frame = None /\ found = <<>>

WbStart(s) == LockFetch(s, "guest") /\ UNCHANGED wbVars

(* wbReq with each endpoint: where a good answer leads. *)
WbStep == [guest |-> "room", room |-> "join", join |-> "roomtoken", roomtoken |-> "dial"]

wbReq(s) ==
    /\ Answered
    /\ \E from \in DOMAIN WbStep : Move(s, from, WbStep[from])
    /\ UNCHANGED wbVars

(* A request or the dial fails, or an answer lacks what it should hold. *)
WbRequestFails(s) ==
    /\ pc[s] \in DOMAIN WbStep \cup {"dial"}
    /\ FetchFails(s)
    /\ UNCHANGED wbVars

Dial(s) ==
    /\ Answered
    /\ Move(s, "dial", "listen")
    /\ reads' = 0
    /\ UNCHANGED <<frame, found>>

(* The reads know only their 5 s deadline, not the context. *)
ReadMessage(s) ==
    /\ reads < MaxReads
    /\ Move(s, "listen", "parse")
    /\ reads' = reads + 1
    /\ frame' \in Frames
    /\ found' = wbPbICE(Received(frame'))

NoCreds(s) ==
    /\ found = <<>>
    /\ Move(s, "parse", "listen")
    /\ frame' = None
    /\ UNCHANGED <<reads, found>>

(* A read times out or fails, or the rounds are used up. *)
ReadsEnd(s) ==
    /\ pc[s] = "listen"
    /\ FetchFails(s)
    /\ reads' = 0
    /\ UNCHANGED <<frame, found>>

(* The first credential's address is resolved, or left as it is. *)
HandOut(s) ==
    /\ found # <<>>
    /\ FetchEndsWell(s, "parse")
    /\ reads' = 0 /\ frame' = None /\ found' = <<>>

(* The steps that need no message to come: a read has its deadline. *)
wbFetch(s) ==
    \/ wbReq(s) \/ WbRequestFails(s) \/ Dial(s)
    \/ NoCreds(s) \/ ReadsEnd(s) \/ HandOut(s)

-----------------------------------------------------------------------------
(* The schema-less reader takes out of a message what the message says,    *)
(* whatever fields stand before and between the ICE servers: a credential  *)
(* for every URL of the field chosen, each with the user name and password *)
(* of its own block, none twice, and those of a block with a STUN or TURN  *)
(* server first.  Out of a message that is cut off it takes nothing.       *)
ParserAgrees ==
    frame # None =>
        LET m == frame.msg
            creds == wbDedup(found)
            Same(c, d) == c.url = d.url /\ c.user = d.user
        IN  IF frame.cut > 0 \/ ChosenField(m) = 0 THEN creds = <<>>
            ELSE /\ Range(creds) \subseteq Credentials(m)
                 /\ \A c \in Credentials(m) : \E i \in DOMAIN creds : Same(creds[i], c)
                 /\ \A i, j \in DOMAIN creds : Same(creds[i], creds[j]) => i = j
                 /\ creds[1] \in Range(CredsOf(FirstIce(m)))

(* "wbLkICE ... extracts TURN credentials" (wb.go:253): what is handed out *)
(* as the TURN server is the first credential found.                       *)
TurnHandedOut ==
    found # <<>> => wbDedup(found)[1].url = <<Turn>>
=============================================================================
