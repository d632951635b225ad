----------------------------- MODULE WireFormat -----------------------------
(***************************************************************************)
(* The frames of the WebSocket and the packets of messages: encode and      *)
(* decode of lib/proto.js, which proto/wire.py mirrors.  A frame may come   *)
(* from a newer server, with fields this client does not know, and may be   *)
(* cut short.  Of the fields of a type the schema here keeps one of each    *)
(* shape.  A field comes with the wire type of its shape: both sides use    *)
(* one schema.                                                              *)
(***************************************************************************)
EXTENDS Integers, Sequences, FiniteSetsExt, SequencesExt, TLC

CONSTANTS
    Frames,   \* the frames that are sent: the fields they have, by name
    Newer,    \* what a newer server adds: fields by number and wire type
    MaxNewer  \* bound: fields added

WireAssumption == MaxNewer \in Nat

VARIABLES
    frame, \* what is sent
    wire,  \* its bytes; not sent yet: <<>>
    added, \* fields of a newer server in it
    cut,
    read   \* what the client made of it: [ok, value]

wireVars == <<frame, wire, added, cut, read>>

Field(num, name, shape, repeated) == [num |-> num, name |-> name, shape |-> shape, repeated |-> repeated]
SCHEMA ==
    [MessagePacket |-> <<Field(1, "client_msg_id", "string", FALSE), Field(3, "key_epoch", "uint", FALSE),
                         Field(5, "nonce", "bytes", FALSE), Field(11, "search_tokens", "string", TRUE)>>,
     WsFrame |-> <<Field(1, "event", "string", FALSE), Field(4, "seq", "uint", FALSE),
                   Field(7, "packet", "message", FALSE)>>]

\* UTF-8 of the texts in use.
Utf8 == ("" :> <<>>) @@ ("a" :> <<97>>) @@ ("io" :> <<209, 142>>)
Unread == [ok |-> FALSE, value |-> <<>>]
Added == [num : {19}, wireType : {0, 1, 2, 5}, bytes : Seq(0 .. 255)]

WireTypeOK ==
    /\ frame \in Frames /\ wire \in Seq(0 .. 255)
    /\ added \in 0 .. MaxNewer /\ cut \in BOOLEAN /\ read.ok \in BOOLEAN

----------------------------------------------------------------------------
(* Integers of variable length *)

\* pushVarint: seven bits to a byte, the lowest first.
RECURSIVE pushVarint(_)
pushVarint(v) == IF v >= 128 THEN <<128 + (v % 128)>> \o pushVarint(v \div 128) ELSE <<v>>

\* readVarint: the value and the bytes after it; it fails at the end of the bytes, and
\* after the tenth byte that continues.
readVarint(bytes) ==
    LET ends == {i \in DOMAIN bytes : bytes[i] < 128}
        last == Min(ends)
        value[i \in 1 .. last] == (bytes[i] % 128) + (IF i = last THEN 0 ELSE 128 * value[i + 1])
    IN IF ends = {} \/ last > 10 THEN [ok |-> FALSE]
       ELSE [ok |-> TRUE, value |-> value[1], rest |-> SubSeq(bytes, last + 1, Len(bytes))]

----------------------------------------------------------------------------
(* encode *)

Chunk(num, wireType, payload) ==
    pushVarint(num * 8 + wireType) \o (IF wireType = 2 THEN pushVarint(Len(payload)) ELSE <<>>) \o payload

RECURSIVE encode(_, _)
encode(type, data) ==
    LET one(f, v) ==
            CASE f.shape = "uint" -> IF v = 0 THEN <<>> ELSE Chunk(f.num, 0, pushVarint(v))
              [] f.shape = "string" -> IF v = "" /\ ~f.repeated THEN <<>> ELSE Chunk(f.num, 2, Utf8[v])
              [] f.shape = "bytes" -> IF v = <<>> THEN <<>> ELSE Chunk(f.num, 2, v)
              [] f.shape = "message" -> Chunk(f.num, 2, encode("MessagePacket", v))
        field(f) ==
            IF f.name \notin DOMAIN data THEN <<>>
            ELSE IF f.repeated THEN FlattenSeq([i \in DOMAIN data[f.name] |-> one(f, data[f.name][i])])
            ELSE one(f, data[f.name])
    IN FlattenSeq([i \in DOMAIN SCHEMA[type] |-> field(SCHEMA[type][i])])

----------------------------------------------------------------------------
(* decode *)

Absent(f) ==
    IF f.repeated THEN <<>>
    ELSE CASE f.shape = "uint" -> 0 [] f.shape = "string" -> "" [] OTHER -> <<>>

Fields(type) == {SCHEMA[type][i] : i \in DOMAIN SCHEMA[type]}
Defaults(type) == [n \in {f.name : f \in Fields(type)} |-> Absent(CHOOSE f \in Fields(type) : f.name = n)]

\* Mutant for FramesSurvive: a field is taken however few bytes are left of it.
HoldsAny(bytes, len) == TRUE

\* A field of this length is there.
Holds(bytes, len) == len <= Len(bytes)

\* The next len bytes, as many as there are (subarray), and what is left after them.
First(bytes, len) == SubSeq(bytes, 1, Min({len, Len(bytes)}))
After(bytes, len) == SubSeq(bytes, len + 1, Len(bytes))

RECURSIVE decode(_, _)
RECURSIVE DecodeRest(_, _, _)

\* The value of a known field put into the result so far.
WithField(type, num, value, result) ==
    LET f == CHOOSE g \in Fields(type) : g.num = num
        texts == {t \in DOMAIN Utf8 : Utf8[t] = value}
        got == CASE f.shape = "string" -> IF texts = {} THEN Unread
                                          ELSE [ok |-> TRUE, value |-> CHOOSE t \in texts : TRUE]
                 [] f.shape = "message" -> decode("MessagePacket", value)
                 [] OTHER -> [ok |-> TRUE, value |-> value]
    IN IF ~got.ok THEN Unread
       ELSE [ok |-> TRUE,
             value |-> [result EXCEPT ![f.name] = IF f.repeated THEN Append(@, got.value) ELSE got.value]]

DecodeRest(type, bytes, result) ==
    LET key == readVarint(bytes)
        num == key.value \div 8
        wireType == key.value % 8
        known == \E f \in Fields(type) : f.num = num
        next == readVarint(key.rest)
        taken(value, rest) ==
            IF ~known THEN DecodeRest(type, rest, result)
            ELSE LET with == WithField(type, num, value, result)
                 IN IF with.ok THEN DecodeRest(type, rest, with.value) ELSE Unread
    IN IF bytes = <<>> THEN [ok |-> TRUE, value |-> result]
       ELSE IF ~key.ok THEN Unread
       ELSE CASE wireType = 0 -> IF next.ok THEN taken(next.value, next.rest) ELSE Unread
              [] wireType = 2 -> IF next.ok /\ Holds(next.rest, next.value)
                                 THEN taken(First(next.rest, next.value), After(next.rest, next.value))
                                 ELSE Unread
              [] wireType = 1 -> DecodeRest(type, After(key.rest, 8), result)
              [] wireType = 5 -> DecodeRest(type, After(key.rest, 4), result)
              [] OTHER -> Unread

decode(type, bytes) == DecodeRest(type, bytes, Defaults(type))

----------------------------------------------------------------------------
Sent ==
    /\ wire = <<>>
    /\ wire' = encode("WsFrame", frame)
    /\ UNCHANGED <<frame, added, cut, read>>

\* The server is newer: a field this client does not know, before or after the others.
AddField ==
    /\ wire # <<>> /\ ~cut /\ added < MaxNewer
    /\ added' = added + 1
    /\ \E n \in Newer :
         LET chunk == Chunk(n.num, n.wireType, n.bytes)
         IN wire' = chunk \o wire \/ wire' = wire \o chunk
    /\ UNCHANGED <<frame, cut, read>>

\* Only the first n bytes arrive.
Cut(n) ==
    /\ ~cut /\ ~read.ok /\ n < Len(wire)
    /\ cut' = TRUE /\ wire' = SubSeq(wire, 1, n)
    /\ UNCHANGED <<frame, added, read>>

\* ws.onmessage: a frame that cannot be read is dropped.
Received ==
    /\ wire # <<>> /\ ~read.ok
    /\ read' = decode("WsFrame", wire)
    /\ UNCHANGED <<frame, wire, added, cut>>

WireInit ==
    /\ frame \in Frames
    /\ wire = <<>> /\ added = 0 /\ cut = FALSE /\ read = Unread

WireNext == Sent \/ AddField \/ (\E n \in 1 .. Len(wire) : Cut(n)) \/ Received

WireSpec == WireInit /\ [][WireNext]_wireVars

----------------------------------------------------------------------------
\* What was sent, with the default of every field that was not.
RECURSIVE Filled(_, _)
Filled(type, data) ==
    [n \in DOMAIN Defaults(type) |->
        IF n \notin DOMAIN data THEN Defaults(type)[n]
        ELSE IF n = "packet" THEN Filled("MessagePacket", data[n]) ELSE data[n]]

\* A frame that is read is the one that was sent, whatever fields a newer server added; one
\* that was cut short is dropped, or lacks whole fields: no value is ever read in part.
FramesSurvive ==
    read.ok => \A n \in DOMAIN read.value :
                  \/ read.value[n] = Filled("WsFrame", frame)[n]
                  \/ cut /\ read.value[n] = Defaults("WsFrame")[n]
=============================================================================
