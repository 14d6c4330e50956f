---------------------------- MODULE FrameDecoder ----------------------------
(***************************************************************************)
(* How main reads the engine's byte stream: the decoder of                  *)
(* electron/main/framing.ts under the 'data' handler of                     *)
(* electron/main/engineClient.ts.  A message is a header of four bytes that *)
(* says its length and that many bytes; the kernel cuts the stream into     *)
(* chunks as it likes.                                                      *)
(*                                                                          *)
(* A byte is known by the message it is of and its place in it.  What a     *)
(* message holds is its kind: one the client can take, one that is not a    *)
(* JSON object with a type, or one whose header gives no length it accepts. *)
(***************************************************************************)
EXTENDS Naturals, Sequences, SequencesExt

CONSTANTS
    MaxFrame,    \* MAX_FRAME_BYTES
    MaxMessages  \* bound: messages the engine sends

HeaderBytes == 4

Message == [kind : {"good", "not_a_message"}, length : 1..MaxFrame]
             \cup [kind : {"bad_length"}, length : {0, MaxFrame + 1}]

VARIABLES
    sent,        \* what the engine writes in this connection
    wire,        \* bytes in the socket
    buffer,      \* FrameDecoder.buffer
    dispatched,  \* the messages dispatched
    closed       \* EngineClient.closed

vars == <<sent, wire, buffer, dispatched, closed>>

(* encodeMessage; of a length that is refused only the header is ever read.   *)
Bytes(i, message) ==
    [place \in 1..(HeaderBytes + message.length) |-> [of |-> i, place |-> place]]

(* One turn of push's loop over what is left: it takes a whole message, waits *)
(* for the rest of one, or throws.                                            *)
Decode(d) ==
    LET message == sent[Head(d.left).of]
        whole   == HeaderBytes + message.length
    IN  IF d.thrown \/ Len(d.left) < HeaderBytes THEN d
        ELSE IF message.length = 0 \/ message.length > MaxFrame
             THEN [d EXCEPT !.thrown = TRUE]
        ELSE IF Len(d.left) < whole THEN d
        ELSE [left   |-> SubSeq(d.left, whole + 1, Len(d.left)),
              thrown |-> message.kind # "good",
              taken  |-> IF message.kind = "good" THEN Append(d.taken, Head(d.left).of)
                         ELSE d.taken]

(* Mutant of push: one message of each chunk. *)
PushOne(chunk) ==
    Decode([left |-> buffer \o chunk, thrown |-> FALSE, taken |-> <<>>])

(* The loop turns at most once for each byte. *)
push(chunk) ==
    LET bytes == buffer \o chunk
        after[n \in 0..Len(bytes)] ==
          IF n = 0 THEN [left |-> bytes, thrown |-> FALSE, taken |-> <<>>]
          ELSE Decode(after[n - 1])
    IN  after[Len(bytes)]

Init ==
    /\ sent = <<>> /\ wire = <<>>
    /\ buffer = <<>> /\ dispatched = <<>> /\ closed = FALSE

Write ==
    /\ Len(sent) < MaxMessages
    /\ \E message \in Message :
          /\ sent' = Append(sent, message)
          /\ wire' = wire \o Bytes(Len(sent'), message)
    /\ UNCHANGED <<buffer, dispatched, closed>>

(* The 'data' handler.  If push throws, the messages it had taken from the    *)
(* chunk go with it, and the client closes.                                   *)
onData ==
    /\ ~closed
    /\ \E count \in 1..Len(wire) :
          LET after == push(SubSeq(wire, 1, count))
          IN  /\ wire' = SubSeq(wire, count + 1, Len(wire))
              /\ closed' = after.thrown
              /\ buffer' = IF after.thrown THEN <<>> ELSE after.left
              /\ dispatched' = IF after.thrown THEN dispatched
                               ELSE dispatched \o after.taken
    /\ UNCHANGED sent

(* The client is closed by the supervisor. *)
close ==
    /\ ~closed
    /\ closed' = TRUE /\ buffer' = <<>>
    /\ UNCHANGED <<sent, wire, dispatched>>

Next == Write \/ onData \/ close

Spec == Init /\ [][Next]_vars

-----------------------------------------------------------------------------
(* However the stream is cut, the messages dispatched are the first ones that *)
(* were sent, in order and all good; while the client is open they are all    *)
(* that have arrived whole, and the decoder keeps nothing but the part of the *)
(* next one that is here, so less than one message (framing.ts:3, "Partial    *)
(* frames stay buffered until complete").                                     *)
StreamIsDecoded ==
    /\ \A i \in DOMAIN dispatched : dispatched[i] = i /\ sent[i].kind = "good"
    /\ ~closed =>
          /\ Len(buffer) < HeaderBytes + MaxFrame
          /\ buffer \o wire = FlattenSeq([i \in 1..(Len(sent) - Len(dispatched)) |->
                                             Bytes(Len(dispatched) + i, sent[Len(dispatched) + i])])
          /\ Len(buffer) >= HeaderBytes =>
                Len(buffer) < HeaderBytes + sent[Head(buffer).of].length

=============================================================================
