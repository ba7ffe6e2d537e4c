------------------------------- MODULE MCParts -------------------------------
(***************************************************************************)
(* Instances for TLC of the parts that do not meet, and the inputs of the  *)
(* algorithms on texts, adapters and JSON.                                 *)
(***************************************************************************)
EXTENDS Parts, Adapters, Json

TwoMessages == {<<1, 0, 2>>, <<0>>}
Int8Min == -128
-----------------------------------------------------------------------------
(* Inputs of the algorithms.                                               *)

UpToLength(n, symbols) == UNION {[1 .. k -> symbols] : k \in 0 .. n}

Names == {<<>>, <<"a", "\"">>}
Strings == Names \cup {<<"\\">>, <<"SOH", "LF">>, <<"/">>}
Scalars ==
  {NullValue, <<"bool", TRUE>>, <<"int", -128>>, <<"int", 7>>, <<"uint", 20>>, <<"uint", 255>>,
   <<"real", << <<>>, 0, <<"3", "0", "0", "0", "4">> >> >>,
   <<"real", << <<"-">>, 9, <<"9", "9", "9", "6">> >> >>} \cup {<<"string", s>> : s \in Strings}
Small ==
  Scalars \cup {Array(<<>>), Object(<<>>)}
    \cup {Array(<<v>>) : v \in Scalars} \cup {Array(<<v, v, v>>) : v \in Scalars}
    \cup {Object([n \in {s} |-> v]) : s \in Strings, v \in Scalars}
Values ==
  Small \cup {Array(<<v, w>>) : v \in Small, w \in {NullValue, Array(<<NullValue>>)}}
    \cup {Object([n \in Names |-> IF n = <<>> THEN v ELSE <<"int", 2>>]) : v \in Small}

(* Documents: all short ones, and what was written with one symbol wrong.  *)
JsonSymbols == {"{", "}", "[", "]", ",", ":", "\"", "a", "1", "-", ".", "/", "*", "\\", "n"}
WithOneWrong(text) ==
  {[text EXCEPT ![i] = x] : i \in DOMAIN text, x \in {"]", "}", ",", "1"}}
CommentForComma ==
  <<"{", "\"", "a", "\"", ":", "1", "/", "*", "*", "/", ":", "\"", "b", "\"", ":", "1", "}">>
Documents ==
  UpToLength(3, JsonSymbols) \cup UNION {WithOneWrong(FastWrite(v)) : v \in Small}
    \cup {CommentForComma}

(* Json::Value: numbers at the limits of 8 bit and 5 bit integers, and one *)
(* half to each side; arrays and objects; calls on an array or an object.  *)
Numbers ==
  {<<"int", n>> : n \in {-128, -17, -16, -1, 0, 15, 16, 31, 32, 127}}
    \cup {<<"uint", n>> : n \in {0, 15, 16, 31, 32, 127, 128, 255}}
    \cup {<<"real", n + e>> : n \in {-256, -32, 0, 30, 62, 254, 256, 510, 512}, e \in {-1, 0, 1}}
Leaves ==
  {Null, <<"int", 0>>, <<"int", 1>>, <<"uint", 0>>, <<"real", 1>>, <<"bool", FALSE>>, <<"bool", TRUE>>}
    \cup {<<"string", s>> : s \in {NoString, 0, 2}}
Entries == UNION {[K -> {Null, <<"int", 1>>}] : K \in SUBSET {0, 2}}
SomeValues ==
  Leaves \cup {<<type, f>> : type \in {"array", "object"}, f \in Entries}
    \cup {<<"array", 0 :> <<"array", f>> >> : f \in Entries}
ValueCalls ==
  {<<"set", n, <<"int", 1>> >> : n \in {0, 2}} \cup {<<"at", n, 0>> : n \in {1, 3}}
    \cup {<<"append", 0, <<"int", 2>> >>, <<"remove", 0, 0>>, <<"clear", 0, 0>>}
    \cup {<<"resize", n, 0>> : n \in 0 .. 4} \cup {<<"member", n, Null>> : n \in {0, 1}}

KernelEntries ==
  [index : {1, 2}, flags : {{"up", "broadcast"}, {"up", "broadcast", "loopback"}, {"broadcast"}},
   family : {"inet", "inet6", "null"}, address : {1}, mask : {<<255, 128, 0>>}]
AdapterInfos ==
  [index : {1, 2}, current : {NoAddress, 3}, first : {NotConnected, 2}]
    \cup [index : {1}, current : {NotConnected}, first : {NotConnected}]

AlgorithmInputs ==
  {<<"value", v>> : v \in Values} \cup {<<"document", d>> : d \in Documents}
    \cup {<<"text", t>> : t \in UpToLength(4, {"a", "b", "SP"})}
    \cup {<<"prefix", n>> : n \in 0 .. 128}
    \cup {<<"address", <<a, b, c, 1>> >> : a \in {169, 16, 1}, b \in {254, 25, 4}, c \in {254, 4}}
    \cup {<<"entries", e>> : e \in UpToLength(2, KernelEntries)}
    \cup {<<"infos", <<e, f>> >> : e \in UpToLength(1, AdapterInfos), f \in UpToLength(2, AdapterInfos)}
    \cup {<<"number", v>> : v \in Numbers \cup SomeValues}
    \cup {<<"order", <<v, w>> >> : v, w \in SomeValues}
    \cup {<<"calls", c>> : c \in UpToLength(4, ValueCalls)}

JsonAgrees(tag, data) ==
  CASE tag = "value" -> ReadBack(data)
    [] tag = "document" -> ReadsOrTells(data)
    [] OTHER -> TRUE

ValueAgrees(tag, data) ==
  CASE tag = "number" -> ConversionsAgree(data)
    [] tag = "order" -> \A x \in SomeValues : OrderAgrees(data[1], data[2], x)
    [] tag = "calls" -> CallsAgree(data)
    [] OTHER -> TRUE

TextAgrees(tag, data) ==
  CASE tag = "text" -> \A search, substitute \in UpToLength(2, {"a", "b"}) :
                         TextsAgree(data, search, substitute)
    [] tag = "prefix" -> PrefixesAgree(data)
    [] tag = "address" -> ApipaAgrees(data)
    [] tag = "entries" -> AdaptersAgree(data)
    [] tag = "infos" -> WinAdaptersAgree(data[1], data[2])
    [] OTHER -> TRUE


(* A Json::Value has one order, converts to what it says it converts to    *)
(* and to nothing else, and calls make it the sequence or the map they are *)
(* documented to make it.  (json_value.cpp.)                               *)
ValuesAgree == [][input' # input => ValueAgrees(input'[1], input'[2])]_input

(* split, replace and trim agree with each other; prefixes and private     *)
(* addresses are told from their bits, and the list of adapters is what    *)
(* the system told last.  (hbm/string, netadapter.cpp,                     *)
(* netadapterlist.cpp.)                                                    *)
TextsAndAdaptersAgree == [][input' # input => TextAgrees(input'[1], input'[2])]_input
=============================================================================
