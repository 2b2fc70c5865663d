------------------------------- MODULE AmfCodec -------------------------------
(***************************************************************************)
(* AMF0 (src/rtmp/amf.js) and the way of a command through it: RtmpServer  *)
(* decodes what OBS sent, field by field, RtmpClient encodes what it makes *)
(* of the command, and the remote decodes that.                            *)
(*                                                                         *)
(* A string is the sequence of its bytes in UTF-8; a number is kept as the *)
(* eight bytes of its double, also those of a NaN.  Lengths stay below     *)
(* 256, so that the last byte of a length is all of it.                    *)
(***************************************************************************)
EXTENDS Integers, Sequences, FiniteSets, SequencesExt

CONSTANTS
  Sent,           \* the commands of OBS, [cmd, fields], fields as values
  Depth,          \* how deep the values in them are nested
  TransId,        \* the transaction id of the client, a value
  Url             \* the value of tcUrl and swfUrl that the client builds

Byte == 0..255
Short(S) == {s \in Seq(S) : Len(s) < 256}
Ascii == 0..127

\* The values of AMF0, and those of JavaScript they are decoded to: what has
\* members has their keys, but for a strict array, and parts.
Scalar(type, bytes) == [type |-> type, bytes |-> bytes, keys |-> <<>>, parts |-> <<>>]
Object(keys, parts) == [type |-> "object", bytes |-> <<>>, keys |-> keys, parts |-> parts]
StrictArray(parts) == [type |-> "sarray", bytes |-> <<>>, keys |-> <<>>, parts |-> parts]
Null == Scalar("null", <<>>)
Undefined == Scalar("undefined", <<>>)

\* The name of the member that decoding adds to a typed object, __className__
\* in the code.  This name and those that the client reads are abbreviated.
ClassName == <<95, 95>>

Scalars ==
  LET Of(types, bytes) == [type : types, bytes : bytes, keys : {<<>>}, parts : {<<>>}]
  IN  Of({"number", "date"}, [1..8 -> Byte])
        \cup Of({"bool"}, {<<0>>, <<1>>})
        \cup Of({"string", "long", "xml"}, Short(Ascii))
        \cup Of({"null", "undefined"}, {<<>>})
        \cup Of({"ref"}, {<<n>> : n \in 0..9})

\* The names of members that JavaScript keeps as they are: in its objects an
\* index moves to the front, and __proto__ is no member.
Names == {s \in Short(Ascii) \ {<<>>} :
            s[1] \notin 48..57 /\ s # <<95, 95, 112, 114, 111, 116, 111, 95, 95>>}

\* Values of the type with the bytes of their own, and members out of parts.
Keyed(type, bytes, parts) ==
  {v \in [type : {type}, bytes : bytes, keys : Seq(Names), parts : Seq(parts)] :
     Len(v.keys) = Len(v.parts) /\ IsInjective(v.keys)}

\* The values that are nested at most d deep.
Nested[d \in Nat] ==
  LET parts == IF d = 0 THEN {} ELSE Nested[d - 1]
  IN  Scalars
        \cup Keyed("object", {<<>>}, parts)
        \cup {v \in Keyed("typed", Short(Ascii), parts) : \A i \in 1..Len(v.keys) : v.keys[i] # ClassName}
        \cup [type : {"sarray"}, bytes : {<<>>}, keys : {<<>>}, parts : Short(parts)]

\* An ECMA array is only the last value of a command: see DecodeArray.
Arrays == {v \in Keyed("array", {<<>>}, Nested[Depth - 1]) : Len(v.keys) < 256}

\* All values: decoding a typed object makes its class name a part.
Value == Nested[Depth + 1] \cup Arrays

U16(n) == <<0, n>>
U32(n) == <<0, 0, 0, n>>
UString(s) == U16(Len(s)) \o s
ObjectEnd == <<0, 0, 9>>
From(b, i) == SubSeq(b, i, Len(b))

\* No command of Sent makes the code read past the end, where it throws.
ByteAt(b, i) == IF i <= Len(b) THEN b[i] ELSE 0
Slice(b, from, len) == SubSeq(b, from, IF from + len - 1 < Len(b) THEN from + len - 1 ELSE Len(b))

-----------------------------------------------------------------------------
(* Decoding: each operator gives a value and how many bytes it took.  The  *)
(* functions that call each other are one function, Decode, and get it as  *)
(* `decode'; a loop is what one round does and what the rest of it gives.  *)

Decoded(len, value) == [len |-> len, value |-> value]
Throws == Decoded(0, Scalar("error", <<>>))

\* A string whose length of `width' bytes follows the marker.
DecodeString(b, width) ==
  LET n == ByteAt(b, 1 + width)
  IN  Decoded(1 + width + n, Scalar("string", Slice(b, 2 + width, n)))

\* The loop of amf0decObject.
DecodeMembers(decode, b) ==
  LET n    == ByteAt(b, 2)
      key  == Slice(b, 3, n)
      val  == decode[<<"one", From(b, 3 + n), 0>>]
      rest == decode[<<"members", From(b, 3 + n + val.len), 0>>]
  IN  IF ByteAt(b, 1) = 9 THEN Decoded(0, Object(<<>>, <<>>))
      ELSE IF Len(b) < 2 + n THEN Decoded(2 + n, Object(<<>>, <<>>))
      ELSE IF ByteAt(b, 3 + n) = 9 THEN Decoded(3 + n, Object(<<>>, <<>>))
      ELSE IF key = <<>> THEN Decoded(2, Object(<<>>, <<>>))
      ELSE Decoded(2 + n + val.len + rest.len,
                   Object(<<key>> \o rest.value.keys, <<val.value>> \o rest.value.parts))

\* amf0decObject looks at no marker: its callers pass any byte for it.
DecodeObject(decode, b) ==
  LET obj == decode[<<"members", From(b, 2), 0>>] IN Decoded(1 + obj.len, obj.value)

\* amf0decArray counts one byte too many.
DecodeArray(decode, b) ==
  LET obj == DecodeObject(decode, From(b, 5)) IN Decoded(5 + obj.len, obj.value)

\* The loop of amf0decSArray, with n items to go.
DecodeItems(decode, b, n) ==
  LET item == decode[<<"one", b, 0>>]
      rest == decode[<<"items", From(b, item.len + 1), n - 1>>]
  IN  IF n = 0 THEN Decoded(0, StrictArray(<<>>))
      ELSE Decoded(item.len + rest.len, StrictArray(<<item.value>> \o rest.value.parts))

DecodeSArray(decode, b) ==
  LET items == decode[<<"items", From(b, 6), ByteAt(b, 5)>>] IN Decoded(5 + items.len, items.value)

\* Variant with a defect: the byte both parts share is counted twice.
DecodeTypedTwice(decode, b) ==
  LET class == DecodeString(b, 2)
      obj   == DecodeObject(decode, From(b, class.len))
  IN  Decoded(class.len + obj.len,
              Object(Append(obj.value.keys, ClassName), Append(obj.value.parts, class.value)))

\* amf0decTypedObj: the class name becomes one more member.
DecodeTyped(decode, b) ==
  LET class == DecodeString(b, 2)
      obj   == DecodeObject(decode, From(b, class.len))
  IN  Decoded(class.len + obj.len - 1,
              Object(Append(obj.value.keys, ClassName), Append(obj.value.parts, class.value)))

\* amf0dRules, by the marker.  For an unknown one the code throws, which no
\* command of Sent makes it do.
ByMarker(decode, b) ==
  LET marker == ByteAt(b, 1)
  IN  CASE marker = 0  -> Decoded(9, Scalar("number", Slice(b, 2, 8)))
        [] marker = 1  -> Decoded(2, Scalar("bool", <<IF ByteAt(b, 2) # 0 THEN 1 ELSE 0>>))
        [] marker = 2  -> DecodeString(b, 2)
        [] marker = 3  -> DecodeObject(decode, b)
        [] marker = 5  -> Decoded(1, Null)
        [] marker = 6  -> Decoded(1, Undefined)
        [] marker = 7  -> Decoded(3, Scalar("string", <<114, 101, 102, 48 + ByteAt(b, 3)>>))
        [] marker = 8  -> DecodeArray(decode, b)
        [] marker = 10 -> DecodeSArray(decode, b)
        [] marker = 11 -> Decoded(11, Scalar("number", Slice(b, 4, 8)))
        [] marker = 12 -> DecodeString(b, 4)
        [] marker = 15 -> DecodeString(b, 2)
        [] marker = 16 -> DecodeTyped(decode, b)
        [] OTHER       -> Throws

\* A call: of which function, with what bytes, and for how many items.
Calls == {"one", "members", "items"} \X Seq(Byte) \X Byte

Decode[call \in Calls] ==
  CASE call[1] = "one"     -> ByMarker(Decode, call[2])
    [] call[1] = "members" -> DecodeMembers(Decode, call[2])
    [] call[1] = "items"   -> DecodeItems(Decode, call[2], call[3])

DecodeOne(b) == Decode[<<"one", b, 0>>]

-----------------------------------------------------------------------------
(* Encoding.                                                               *)

\* str.length counts UTF-16 units: one for each byte that begins a character, and
\* a second for a character of four bytes.
Units(s) ==
  Cardinality({i \in 1..Len(s) : s[i] \notin 128..191}) + Cardinality({i \in 1..Len(s) : s[i] >= 240})

\* amf0encArray and amf0encSArray call a function that does not exist.
Encodes[v \in Value] == v.type # "sarray" /\ \A i \in 1..Len(v.parts) : Encodes[v.parts[i]]

\* Variant with a defect: an object does not end with an empty key.
EncodeObjectOpen(keys, encoded) ==
  <<3>> \o FlattenSeq([i \in 1..Len(keys) |-> UString(keys[i]) \o encoded[i]]) \o <<9>>

EncodeObject(keys, encoded) ==
  <<3>> \o FlattenSeq([i \in 1..Len(keys) |-> UString(keys[i]) \o encoded[i]]) \o ObjectEnd

\* amf0eRules, for the types that JavaScript has.
EncodedAs(v, parts) ==
  CASE v.type = "number"    -> <<0>> \o v.bytes
    [] v.type = "bool"      -> <<1>> \o v.bytes
    [] v.type = "string"    -> <<2>> \o U16(Units(v.bytes)) \o v.bytes
    [] v.type = "null"      -> <<5>>
    [] v.type = "undefined" -> <<6>>
    [] v.type = "object"    -> EncodeObject(v.keys, parts)

EncodeOne[v \in Value] == EncodedAs(v, [i \in 1..Len(v.parts) |-> EncodeOne[v.parts[i]]])

-----------------------------------------------------------------------------
(* What a peer writes, and what it means: by the format, not by the code.  *)

WrittenAs(v, parts) ==
  LET members == FlattenSeq([i \in 1..Len(v.keys) |-> UString(v.keys[i]) \o parts[i]]) \o ObjectEnd
  IN  CASE v.type = "number"    -> <<0>> \o v.bytes
        [] v.type = "bool"      -> <<1>> \o v.bytes
        [] v.type = "string"    -> <<2>> \o UString(v.bytes)
        [] v.type = "object"    -> <<3>> \o members
        [] v.type = "null"      -> <<5>>
        [] v.type = "undefined" -> <<6>>
        [] v.type = "ref"       -> <<7, 0>> \o v.bytes
        [] v.type = "array"     -> <<8>> \o U32(Len(v.keys)) \o members
        [] v.type = "sarray"    -> <<10>> \o U32(Len(v.parts)) \o FlattenSeq(parts)
        [] v.type = "date"      -> <<11, 0, 0>> \o v.bytes
        [] v.type = "long"      -> <<12>> \o U32(Len(v.bytes)) \o v.bytes
        [] v.type = "xml"       -> <<15>> \o UString(v.bytes)
        [] v.type = "typed"     -> <<16>> \o UString(v.bytes) \o members

Bytes[v \in Value] == WrittenAs(v, [i \in 1..Len(v.parts) |-> Bytes[v.parts[i]]])

\* The JavaScript value: dates are numbers, all texts are strings, and what
\* has keys is an object.
MeantAs(v, parts) ==
  CASE v.type \in {"number", "date"}         -> Scalar("number", v.bytes)
    [] v.type \in {"string", "long", "xml"}  -> Scalar("string", v.bytes)
    [] v.type \in {"bool", "null", "undefined"} -> v
    [] v.type = "ref"               -> Scalar("string", <<114, 101, 102, 48 + v.bytes[1]>>)
    [] v.type \in {"object", "array"} -> Object(v.keys, parts)
    [] v.type = "typed"             -> Object(Append(v.keys, ClassName),
                                              Append(parts, Scalar("string", v.bytes)))
    [] v.type = "sarray"            -> StrictArray(parts)

Meaning[v \in Value] == MeantAs(v, [i \in 1..Len(v.parts) |-> Meaning[v.parts[i]]])

-----------------------------------------------------------------------------
(* A command on its way.                                                   *)

VARIABLES
  sent,           \* rigid: what OBS sent
  at,             \* who is decoding it, or how it ended
  buffer,         \* the bytes that are left to decode
  fields          \* the fields decoded so far

vars == <<sent, at, buffer, fields>>

\* How many fields after its name rtmpCmdCode has for a command.
FieldCount(cmd) ==
  CASE cmd \in {"createStream", "closeStream"}           -> 2
    [] cmd \in {"connect", "releaseStream", "FCPublish",
                "FCUnpublish", "deleteStream", "_result",
                "onStatus"}                              -> 3
    [] cmd = "publish"                                   -> 4

\* OBS sends the fields a command has, and not less than the client reads
\* of it; the client itself writes numbers and a text.
ASSUME CommandsAssumption ==
  /\ Depth \in Nat \ {0}
  /\ TransId \in Scalars /\ TransId.type = "number"
  /\ Url \in Scalars /\ Url.type = "string"
  /\ \A s \in Sent :
       /\ s.cmd \in {"connect", "createStream", "publish", "releaseStream", "FCPublish",
                     "FCUnpublish", "deleteStream", "closeStream"}
       /\ s.fields \in Seq(Nested[Depth] \cup Arrays)
       /\ Len(s.fields) \in 1..FieldCount(s.cmd)
       /\ \A i \in 1..(Len(s.fields) - 1) : s.fields[i].type # "array"
       /\ s.cmd = "publish" => Len(s.fields) >= 3
       /\ s.cmd = "connect" => Len(s.fields) >= 2 /\ s.fields[2].type \in {"object", "typed", "array"}

Init ==
  /\ sent \in Sent
  /\ at = "server"
  /\ buffer = FlattenSeq([i \in 1..Len(sent.fields) |-> Bytes[sent.fields[i]]])
  /\ fields = <<>>

Decoding == at \in {"server", "remote"} /\ buffer # <<>> /\ Len(fields) < FieldCount(sent.cmd)

\* One round of the forEach in decodeAmf0Cmd.
DecodeField ==
  LET field == DecodeOne(buffer)
  IN  /\ Decoding
      /\ buffer' = From(buffer, field.len + 1)
      /\ fields' = Append(fields, field.value)
      /\ UNCHANGED <<sent, at>>

\* What JavaScript reads of a field or member, v ?? default, and v as a truth:
\* of the numbers, neither 0, -0 nor NaN is one.
Field(fs, i) == IF i <= Len(fs) THEN fs[i] ELSE Undefined
Member(obj, key) ==
  LET found == {i \in 1..Len(obj.keys) : obj.keys[i] = key}
  IN  IF found = {} THEN Undefined ELSE obj.parts[CHOOSE i \in found : TRUE]
IsNullish(v) == v.type \in {"null", "undefined"}
OrElse(v, default) == IF IsNullish(v) THEN default ELSE v
IsZero(b) == b[1] \in {0, 128} /\ \A i \in 2..8 : b[i] = 0
IsNaN(b) == b[1] \in {127, 255} /\ b[2] >= 240 /\ (b[2] > 240 \/ \E i \in 3..8 : b[i] # 0)
Truthy(v) ==
  CASE IsNullish(v)                   -> FALSE
    [] v.type = "number"              -> ~IsZero(v.bytes) /\ ~IsNaN(v.bytes)
    [] v.type = "bool"                -> v.bytes[1] # 0
    [] v.type = "string"              -> v.bytes # <<>>
    [] OTHER                          -> TRUE

App == <<97>>  Type == <<116>>  FlashVer == <<102>>  SwfUrl == <<115>>  TcUrl == <<117>>
ObjectEncoding == <<111>>
NonPrivate == Scalar("string", <<110>>)
Fmle == Scalar("string", <<109>>)
Live == Scalar("string", <<108>>)

\* sendConnect
ConnectObject(obj) ==
  LET present == Truthy(Member(obj, ObjectEncoding))
  IN  Object(<<App, Type, FlashVer, SwfUrl, TcUrl>> \o (IF present THEN <<ObjectEncoding>> ELSE <<>>),
             <<Member(obj, App), OrElse(Member(obj, Type), NonPrivate),
               OrElse(Member(obj, FlashVer), Fmle), Url, Url>>
               \o (IF present THEN <<Member(obj, ObjectEncoding)>> ELSE <<>>))

\* The fields that relayCommand encodes: the three commands it builds anew,
\* and the others as they were decoded but for the transaction id.
Relayed(cmd, fs) ==
  CASE cmd = "connect"      -> <<TransId, ConnectObject(fs[2])>>
    [] cmd = "createStream" -> <<TransId, Null>>
    [] cmd = "publish"      -> <<TransId, Null, Field(fs, 3), OrElse(Field(fs, 4), Live)>>
    [] OTHER                -> [fs EXCEPT ![1] = TransId]

\* encodeAmf0Cmd; what it throws ends in relayCommand, and in the log.
Relay ==
  LET relayed == Relayed(sent.cmd, fields)
  IN  /\ at = "server" /\ ~Decoding
      /\ IF \A i \in 1..Len(relayed) : Encodes[relayed[i]]
           THEN /\ at' = "remote"
                /\ buffer' = FlattenSeq([i \in 1..Len(relayed) |-> EncodeOne[relayed[i]]])
                /\ fields' = <<>>
           ELSE at' = "dropped" /\ UNCHANGED <<buffer, fields>>
      /\ UNCHANGED sent

Arrive == at = "remote" /\ ~Decoding /\ at' = "arrived" /\ UNCHANGED <<sent, buffer, fields>>

Next == DecodeField \/ Relay \/ Arrive

Spec == Init /\ [][Next]_vars

-----------------------------------------------------------------------------
\* What OBS meant by the fields it sent.
Meant == [i \in 1..Len(sent.fields) |-> Meaning[sent.fields[i]]]

\* Whatever is nested in the fields that were read, each is what OBS meant,
\* and the next begins where the one before ended: no length is off.
FieldsAsSent ==
  at = "server" =>
    LET rest == From(sent.fields, Len(fields) + 1)
    IN  /\ fields = SubSeq(Meant, 1, Len(fields))
        /\ buffer = FlattenSeq([i \in 1..Len(rest) |-> Bytes[rest[i]]])

HasStrictArray[v \in Value] ==
  v.type = "sarray" \/ \E i \in 1..Len(v.parts) : HasStrictArray[v.parts[i]]

\* The remote gets the command that OBS sent, as far as it is relayed: under
\* the id of the client, with every other field as OBS meant it, and of the
\* commands built anew the application, the stream and its type, but for a
\* null the client has a default for.  Only a command with a strict array in
\* it is not relayed.
RelayedAsSent ==
  /\ at = "dropped" => \E i \in 1..Len(Meant) : HasStrictArray[Meant[i]]
  /\ at = "arrived" =>
       /\ buffer = <<>>
       /\ fields[1] = TransId
       /\ CASE sent.cmd = "createStream" -> Len(fields) = 2
            [] sent.cmd = "publish" ->
                 /\ fields[3] = Meant[3]
                 /\ Len(Meant) = 4 /\ ~IsNullish(Meant[4]) => fields[4] = Meant[4]
            [] sent.cmd = "connect" ->
                 \A i \in 1..Len(Meant[2].keys) :
                   LET key == Meant[2].keys[i]  part == Meant[2].parts[i]
                   IN  key = App \/ (key \in {Type, FlashVer} /\ ~IsNullish(part)) =>
                         \E j \in 1..Len(fields[2].keys) :
                           fields[2].keys[j] = key /\ fields[2].parts[j] = part
            [] OTHER -> From(fields, 2) = From(Meant, 2)
=============================================================================
