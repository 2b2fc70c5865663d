------------------------------ MODULE MCAmfCodec ------------------------------
(***************************************************************************)
(* AmfCodec on small commands.  An ECMA array is only the last value of a  *)
(* command, where its length does not matter, and texts are ASCII: see the *)
(* README for what the code does with others.                              *)
(***************************************************************************)
EXTENDS AmfCodec

Number(n) == Scalar("number", <<n, 0, 0, 0, 0, 0, 0, 9>>)
Compound(type, bytes, keys, parts) ==
  [type |-> type, bytes |-> bytes, keys |-> keys, parts |-> parts]

SmallScalars == {Number(0), Number(9), Scalar("bool", <<1>>), Scalar("string", <<>>), Scalar("string", <<65, 66>>),
            Null, Undefined, Scalar("ref", <<2>>), Scalar("date", <<7, 0, 0, 0, 0, 0, 0, 0>>),
            Scalar("long", <<65>>), Scalar("xml", <<>>)}
Plain == Object(<<>>, <<>>)
Keys == <<<<120>>, <<121, 122>>>>

\* Values with members: of one or two kinds, empty ones, and nested ones.
SmallNested(members) ==
  {Plain}
    \cup {Object(<<Keys[1]>>, <<m>>) : m \in members}
    \cup {Object(Keys, <<m, n>>) : m \in members, n \in {Number(1), Scalar("string", <<67>>)}}
    \cup {Compound("typed", <<84>>, <<Keys[1]>>, <<m>>) : m \in members}
    \cup {Compound("sarray", <<>>, <<>>, <<m, n>>) : m \in members, n \in {Null}}
Once == SmallNested(SmallScalars)
Twice == SmallNested({Plain, Object(<<Keys[2]>>, <<Number(9)>>),
                 Compound("typed", <<>>, <<>>, <<>>), Compound("sarray", <<>>, <<>>, <<Number(2)>>)})
Values == SmallScalars \cup Once \cup Twice
SmallArrays == {Compound("array", <<>>, <<Keys[1]>>, <<m>>) : m \in SmallScalars \cup {Plain}}

Name == Scalar("string", <<107>>)
Zero == Scalar("number", <<0, 0, 0, 0, 0, 0, 0, 0>>)
ConnectObjects ==
  {Object(<<App>> \o keys, <<Name>> \o [i \in 1..Len(keys) |-> v]) :
     keys \in {<<>>, <<Type>>, <<FlashVer, TcUrl>>, <<ObjectEncoding>>, <<Keys[1], Type, ObjectEncoding>>},
     v \in {Number(3), Zero, Name, Null}}

MCSent ==
  [cmd : {"FCPublish"}, fields : {<<Number(4), v, Name>> : v \in Values}]
    \cup [cmd : {"deleteStream"}, fields : {<<Number(4), Null, v>> : v \in Values \cup SmallArrays}]
    \cup [cmd : {"releaseStream"}, fields : {<<Number(4)>>, <<Number(4), Null>>}]
    \cup [cmd : {"createStream"}, fields : {<<Number(2), v>> : v \in {Null, Plain}}]
    \cup [cmd : {"publish"}, fields : {<<Number(5), Null, v>> : v \in SmallScalars}
                                        \cup {<<Number(5), Null, Name, Scalar("string", <<114>>)>>}]
    \cup [cmd : {"connect"}, fields : {<<Number(1), o>> : o \in ConnectObjects}
                                        \cup {<<Number(1), o, Plain>> : o \in ConnectObjects}]

MCDepth == 2
MCTransId == Number(6)
MCUrl == Scalar("string", <<85>>)
=============================================================================
