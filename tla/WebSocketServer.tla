-------------------------- MODULE WebSocketServer ---------------------------
(***************************************************************************)
(* One connection of the WebSocket server (express/src/websocket/          *)
(* server.ts): frames arrive in chunks of any size and are taken out of    *)
(* the buffer one by one.  The bytes are counted, not kept: pos is where   *)
(* the parser stands in what the peer has sent, and a header read anywhere *)
(* but at the start of a frame is garbage.                                 *)
(***************************************************************************)
EXTENDS Naturals, Sequences, FiniteSets, Functions

CONSTANTS
  maxPayload,
  MaxFrames,     \* bound on the frames the peer sends
  MaxWrites      \* bound on broadcasts

\* ext: bytes of the extended length; hi: its upper half is not zero.
Frame(op, mask, ext, len) == [op |-> op, mask |-> mask, ext |-> ext, len |-> len, hi |-> FALSE]
Samples ==
  {Frame("text", 4, 0, 0), Frame("text", 4, 2, 2), Frame("text", 0, 8, 1),
   Frame("binary", 4, 0, 1), Frame("ping", 4, 0, 1), Frame("pong", 4, 0, 0),
   Frame("continuation", 4, 0, 1), Frame("close", 4, 0, 2), Frame("reserved", 4, 0, 0),
   Frame("text", 4, 2, maxPayload + 1), [Frame("text", 4, 8, 1) EXCEPT !.hi = TRUE]}

VARIABLES
  frames,        \* what the peer sends
  got, pos,      \* bytes received, and taken out of the buffer
  state,         \* new | open | looping (a data event is being handled) | gone
  member,        \* the client is in the map
  events,        \* emitted: indexes of frames, in order, 0 for garbage
  pongs, closes, \* pongs written, 'close' events emitted
  writes,        \* frames written by broadcast
  late           \* history: something was written or emitted after the socket was destroyed

vars == <<frames, got, pos, state, member, events, pongs, closes, writes, late>>

Size(f) == 2 + f.ext + f.mask + f.len
\* Where frame k starts in the stream.
Start(k) == FoldFunctionOnSet(LAMBDA f, n : Size(f) + n, 0, frames, 1..(k - 1))
Total == Start(Len(frames) + 1)
At(k) == k \in DOMAIN frames /\ Start(k) <= pos /\ pos < Start(k + 1)

TypeOK ==
  /\ frames \in Seq(Samples) /\ got \in 0..Total /\ pos \in 0..got
  /\ state \in {"new", "open", "looping", "gone"} /\ member \in BOOLEAN
  /\ events \in Seq(0..MaxFrames) /\ pongs \in Nat /\ closes \in Nat
  /\ writes \in 0..MaxWrites /\ late \in BOOLEAN

Init ==
  /\ frames \in UNION {[1..n -> Samples] : n \in 0..MaxFrames}
  /\ got = 0 /\ pos = 0 /\ state = "new" /\ member = FALSE
  /\ events = <<>> /\ pongs = 0 /\ closes = 0 /\ writes = 0 /\ late = FALSE

-----------------------------------------------------------------------------
\* handleUpgrade: without a key the socket is destroyed.
Upgrade ==
  /\ state = "new"
  /\ \/ state' = "open" /\ member' = TRUE
     \/ state' = "gone" /\ UNCHANGED member
  /\ UNCHANGED <<frames, got, pos, events, pongs, closes, writes, late>>

\* A data event: the chunk is appended and the loop runs.
Data(n) ==
  /\ state = "open" /\ got + n <= Total
  /\ got' = got + n /\ state' = "looping"
  /\ UNCHANGED <<frames, pos, member, events, pongs, closes, writes, late>>

\* drop: once only, for a client that is in the map.
Drop ==
  /\ member' = FALSE /\ state' = "gone"
  /\ closes' = IF member THEN closes + 1 ELSE closes

Buffered == got - pos

\* What the header asks for before the payload is looked at.
Refused(f) == f.hi \/ f.len > maxPayload

\* The bytes of a frame; the mutant forgets the mask.
WithoutMask(f) == 2 + f.ext + f.len
FrameSize(f) == Size(f)

\* The end of the loop: too few bytes for the header, its length, or the payload.
Incomplete(f) ==
  \/ Buffered < 2 + f.ext
  \/ ~Refused(f) /\ Buffered < FrameSize(f)

Wait ==
  /\ state = "looping"
  /\ Buffered < 2 \/ \E k \in DOMAIN frames : At(k) /\ Incomplete(frames[k])
  /\ state' = "open"
  /\ UNCHANGED <<frames, got, pos, member, events, pongs, closes, writes, late>>

\* A frame that is too long or has an unknown opcode: a close frame, then drop.
Fail(k) ==
  /\ state = "looping" /\ At(k) /\ Buffered >= 2
  /\ ~Incomplete(frames[k])
  /\ Refused(frames[k]) \/ frames[k].op = "reserved"
  /\ Drop /\ pos' = got
  /\ UNCHANGED <<frames, got, events, pongs, writes, late>>

\* A complete frame.
Dispatch(k) ==
  LET f == frames[k] IN
    /\ state = "looping" /\ At(k) /\ Buffered >= 2
    /\ ~Incomplete(f) /\ ~Refused(f) /\ f.op # "reserved"
    /\ \/ /\ f.op = "close" /\ Drop /\ pos' = got
          /\ UNCHANGED <<events, pongs>>
       \/ /\ f.op # "close"
          /\ pos' = pos + FrameSize(f)
          /\ events' = IF f.op \in {"text", "binary"} THEN Append(events, IF pos = Start(k) THEN k ELSE 0)
                     ELSE events
          /\ pongs' = IF f.op = "ping" THEN pongs + 1 ELSE pongs
          /\ UNCHANGED <<state, member, closes>>
    /\ UNCHANGED <<frames, got, writes, late>>

\* The socket closes or fails.
SocketGone ==
  /\ state = "open"
  /\ Drop
  /\ UNCHANGED <<frames, got, pos, events, pongs, writes, late>>

\* broadcast writes to the clients in the map; the mutant to every one it ever had.
EverySocket == state # "new"
Recipient == member

Broadcast ==
  /\ state # "looping" /\ writes < MaxWrites /\ Recipient
  /\ writes' = writes + 1
  /\ late' = (late \/ state = "gone")
  /\ UNCHANGED <<frames, got, pos, state, member, events, pongs, closes>>

\* close(): the sockets are destroyed and the map is cleared, without 'close' events.
ServerClose ==
  /\ state = "open"
  /\ state' = "gone" /\ member' = FALSE
  /\ UNCHANGED <<frames, got, pos, events, pongs, closes, writes, late>>

Next ==
  \/ Upgrade \/ (\E n \in 1..Total : Data(n)) \/ Wait
  \/ (\E k \in 1..MaxFrames : Fail(k) \/ Dispatch(k))
  \/ SocketGone \/ Broadcast \/ ServerClose

Spec == Init /\ [][Next]_vars

-----------------------------------------------------------------------------
(* Properties *)

\* The frames that matter to an application, and the last one that is read.
Stops(k) == Refused(frames[k]) \/ frames[k].op \in {"close", "reserved"}
Before(k) == \A j \in 1..k : ~Stops(j)
Arrived(k) == got >= Start(k + 1)
Expected ==
  SelectSeq([k \in DOMAIN frames |-> k],
            LAMBDA k : Before(k) /\ Arrived(k) /\ frames[k].op \in {"text", "binary"})
Pings == {k \in DOMAIN frames : Before(k) /\ Arrived(k) /\ frames[k].op = "ping"}

\* However the bytes are cut into chunks, the messages come out whole, in order and
\* once, and none that has arrived is left behind once the data event is over.
Framing ==
  /\ \E n \in 0..Len(Expected) : events = SubSeq(Expected, 1, n)
  /\ state = "open" => events = Expected /\ pongs = Cardinality(Pings)

\* A connection ends once, and nothing is written to it afterwards.
EndsOnce == closes <= 1 /\ ~late /\ (state = "open" => member)
=============================================================================
