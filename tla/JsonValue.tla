----------------------------- MODULE JsonValue -----------------------------
(***************************************************************************)
(* Json::Value (jsoncpp/src/lib_json/json_value.cpp): what devscan takes   *)
(* telegrams apart with and builds requests of.                            *)
(*                                                                         *)
(* A value is a pair of its type and its content.  A real number is given  *)
(* in halves; a string by its place in the order of strcmp, 0 for the      *)
(* empty one and NoString where there is no pointer.  Arrays and objects   *)
(* are both maps: from indices, of which some may be missing, and from     *)
(* names.  Comments and offsets are left out.                              *)
(***************************************************************************)
EXTENDS Integers, Sequences, SequencesExt

CONSTANTS
  LargestUIntMax,   \* Value::maxLargestUInt
  LargestIntMin,    \* Value::minLargestInt
  IntMax            \* Value::maxInt

ASSUME JsonValueAssumption ==
  /\ {LargestUIntMax, IntMax} \subseteq Nat
  /\ LargestIntMin \in Int /\ LargestIntMin < 0

IntMin == -IntMax - 1
UIntMax == 2 * IntMax + 1
LargestIntMax == -LargestIntMin - 1

(* ValueType, in its order.                                                *)
ValueTypes == <<"null", "int", "uint", "real", "string", "bool", "array", "object">>

NoString == -1
NoEntries == [n \in {} |-> 0]

(* Value(ValueType).                                                       *)
NewValue(type) ==
  <<type, CASE type \in {"null", "int", "uint", "real"} -> 0
            [] type = "string" -> NoString
            [] type = "bool" -> FALSE
            [] type \in {"array", "object"} -> NoEntries>>

Null == NewValue("null")

(* Instead of a value: an exception, or, where assertions are on, abort.   *)
Thrown == <<"thrown", 0>>
Aborted == <<"aborted", 0>>
-----------------------------------------------------------------------------
(* Comparison.                                                             *)

TypeRank(v) == CHOOSE i \in DOMAIN ValueTypes : ValueTypes[i] = v[1]

KeysOf(entries) == SetToSortSeq(DOMAIN entries, <)

RECURSIVE Less(_, _)

(* operator< of two maps of one size, entry by entry, the key first.       *)
LessEntries(f, g) ==
  LET K == KeysOf(f)
      L == KeysOf(g)
      entryLess(a, k, b, l) == k < l \/ (k = l /\ Less(a[k], b[l]))
  IN  \E i \in DOMAIN K :
        /\ entryLess(f, K[i], g, L[i])
        /\ \A j \in 1 .. i - 1 : ~entryLess(f, K[j], g, L[j]) /\ ~entryLess(g, L[j], f, K[j])

(* operator<: of one type first the smaller map.                           *)
Less(v, w) ==
  IF v[1] # w[1] THEN TypeRank(v) < TypeRank(w)
  ELSE CASE v[1] = "null" -> FALSE
         [] v[1] \in {"int", "uint", "real", "string"} -> v[2] < w[2]
         [] v[1] = "bool" -> ~v[2] /\ w[2]
         [] v[1] \in {"array", "object"} ->
              LET m == Cardinality(DOMAIN v[2])
                  n == Cardinality(DOMAIN w[2])
              IN  m < n \/ (m = n /\ LessEntries(v[2], w[2]))

(* operator==.                                                             *)
Equal(v, w) == v[1] = w[1] /\ v[2] = w[2]
-----------------------------------------------------------------------------
(* Numbers and conversions.                                                *)

HasWhole(halves) == halves % 2 = 0
Whole(halves) == IF halves < 0 THEN -((-halves) \div 2) ELSE halves \div 2

(* isInt and isUInt.                                                       *)
IsInt(v) ==
  \/ v[1] = "int" /\ v[2] >= IntMin /\ v[2] <= IntMax
  \/ v[1] = "uint" /\ v[2] <= IntMax
  \/ v[1] = "real" /\ v[2] >= 2 * IntMin /\ v[2] <= 2 * IntMax /\ HasWhole(v[2])

IsUInt(v) ==
  \/ v[1] = "int" /\ v[2] >= 0 /\ v[2] <= UIntMax
  \/ v[1] = "uint" /\ v[2] <= UIntMax
  \/ v[1] = "real" /\ v[2] >= 0 /\ v[2] <= 2 * UIntMax /\ HasWhole(v[2])

(* isInt64 and isUInt64.  As a double the largest of either is one more.   *)
IsLargestInt(v) ==
  \/ v[1] = "int"
  \/ v[1] = "uint" /\ v[2] <= LargestIntMax
  \/ /\ v[1] = "real" /\ HasWhole(v[2])
     /\ v[2] >= 2 * LargestIntMin /\ v[2] < 2 * (LargestIntMax + 1)

IsLargestUInt(v) ==
  \/ v[1] = "int" /\ v[2] >= 0
  \/ v[1] = "uint"
  \/ v[1] = "real" /\ v[2] >= 0 /\ v[2] < 2 * (LargestUIntMax + 1) /\ HasWhole(v[2])

IsIntegral(v) == IsLargestInt(v) \/ IsLargestUInt(v)
IsNumeric(v) == v[1] = "real" \/ IsIntegral(v)

(* What a conversion can give: nothing if it throws.                       *)
IntegerOf(v, range) ==
  CASE v[1] = "real" -> IF Whole(v[2]) \in range THEN {Whole(v[2])} ELSE range
    [] v[1] = "bool" -> {IF v[2] THEN 1 ELSE 0}
    [] OTHER -> {v[2]}

(* Faulty: a real number need not be in the range.                         *)
AsIntegerUnchecked(v, fits, min, max, range) ==
  IF \/ v[1] \in {"int", "uint"} /\ fits
     \/ v[1] \in {"real", "null", "bool"}
  THEN IntegerOf(v, range) ELSE {}

(* asInt, asUInt, asInt64, asUInt64: an integer must fit, a real number be *)
(* between the limits as doubles.  If that lets one pass that the type has *)
(* not, any may come out.                                                  *)
AsInteger(v, fits, min, max, range) ==
  IF \/ v[1] \in {"int", "uint"} /\ fits
     \/ v[1] = "real" /\ v[2] >= 2 * min /\ v[2] <= 2 * max
     \/ v[1] \in {"null", "bool"}
  THEN IntegerOf(v, range) ELSE {}

AsInt(v) == AsInteger(v, IsInt(v), IntMin, IntMax, IntMin .. IntMax)
AsUInt(v) == AsInteger(v, IsUInt(v), 0, UIntMax, 0 .. UIntMax)
AsLargestInt(v) ==
  AsInteger(v, IsLargestInt(v), LargestIntMin, LargestIntMax + 1, LargestIntMin .. LargestIntMax)
AsLargestUInt(v) ==
  AsInteger(v, IsLargestUInt(v), 0, LargestUIntMax + 1, 0 .. LargestUIntMax)

(* asDouble, in halves; asBool.                                            *)
AsDouble(v) ==
  CASE v[1] \in {"int", "uint"} -> {2 * v[2]}
    [] v[1] \in {"real", "null"} -> {v[2]}
    [] v[1] = "bool" -> {IF v[2] THEN 2 ELSE 0}
    [] OTHER -> {}

AsBool(v) ==
  CASE v[1] = "bool" -> {v[2]}
    [] v[1] \in {"null", "int", "uint", "real"} -> {v[2] # 0}
    [] OTHER -> {}

(* asString: the text of a number or Boolean is named by the value.        *)
AsString(v) ==
  CASE v[1] = "null" \/ (v[1] = "string" /\ v[2] = NoString) -> {<<"string", 0>>}
    [] v[1] \in {"array", "object"} -> {}
    [] OTHER -> {v}

IsConvertibleTo(v, type) ==
  CASE type = "null" -> \/ IsNumeric(v) /\ AsDouble(v) = {0}
                        \/ v[1] = "bool" /\ ~v[2]
                        \/ v[1] = "string" /\ AsString(v) = {<<"string", 0>>}
                        \/ v[1] \in {"array", "object"} /\ v[2] = NoEntries
                        \/ v[1] = "null"
    [] type = "int" -> \/ IsInt(v) \/ v[1] \in {"bool", "null"}
                       \/ v[1] = "real" /\ v[2] >= 2 * IntMin /\ v[2] <= 2 * IntMax
    [] type = "uint" -> \/ IsUInt(v) \/ v[1] \in {"bool", "null"}
                        \/ v[1] = "real" /\ v[2] >= 0 /\ v[2] <= 2 * UIntMax
    [] type \in {"real", "bool"} -> IsNumeric(v) \/ v[1] \in {"bool", "null"}
    [] type = "string" -> IsNumeric(v) \/ v[1] \in {"bool", "string", "null"}
    [] type \in {"array", "object"} -> v[1] \in {type, "null"}
-----------------------------------------------------------------------------
(* Arrays and objects.                                                     *)

(* size: of an array the highest index + 1.                                *)
Size(v) ==
  CASE v[1] = "array" -> IF v[2] = NoEntries THEN 0 ELSE Last(KeysOf(v[2])) + 1
    [] v[1] = "object" -> Cardinality(DOMAIN v[2])
    [] OTHER -> 0

IsEmpty(v) == v[1] \in {"null", "array", "object"} /\ Size(v) = 0

Clear(v) == IF v[1] \in {"null", "array", "object"} THEN NewValue(v[1]) ELSE Thrown

(* f with g's values where g has any.                                      *)
Over(f, k, x) == [n \in DOMAIN f \cup {k} |-> IF n = k THEN x ELSE f[n]]

(* operator[] and resolveReference: an entry that is missing is made and   *)
(* is null, and so is a map of what was null.                              *)
Resolved(type, v, k) ==
  CASE v[1] = "null" -> <<type, Over(NoEntries, k, Null)>>
    [] v[1] = type -> <<type, IF k \in DOMAIN v[2] THEN v[2] ELSE Over(v[2], k, Null)>>
    [] OTHER -> Thrown

(* What is found is assigned to.                                           *)
Assigned(type, v, k, x) ==
  LET r == Resolved(type, v, k)
  IN  IF r = Thrown THEN r ELSE <<type, Over(r[2], k, x)>>

AppendValue(v, x) == Assigned("array", v, Size(v), x)

(* operator[] const, isMember, get.                                        *)
HasEntry(v, k) == v[1] # "null" /\ k \in DOMAIN v[2]
Entry(v, k) == IF HasEntry(v, k) THEN v[2][k] ELSE Null

(* resize erases what is too much, and asserts that the size is right,     *)
(* which it is unless the entry before has never been made.                *)
Resize(v, n) ==
  LET a == IF v[1] = "null" THEN NewValue("array") ELSE v
      kept == <<"array", [i \in {j \in DOMAIN a[2] : j < n} |-> a[2][i]]>>
  IN  CASE a[1] # "array" -> Thrown
        [] a[1] = "array" /\ n = 0 -> Clear(a)
        [] a[1] = "array" /\ n > Size(a) -> Resolved("array", a, n - 1)
        [] OTHER -> IF Size(kept) = n THEN kept ELSE Aborted

RemoveMember(v, name) ==
  CASE v[1] = "null" -> v
    [] v[1] = "object" -> <<"object", [n \in DOMAIN v[2] \ {name} |-> v[2][n]]>>
    [] OTHER -> Thrown

MemberNames(v) == IF v[1] = "null" THEN <<>> ELSE KeysOf(v[2])

(* Calls, one after the other.                                             *)
Applied(v, call) ==
  CASE v \in {Thrown, Aborted} -> v
    [] call[1] = "set" -> Assigned("array", v, call[2], call[3])
    [] call[1] = "at" -> Resolved("array", v, call[2])
    [] call[1] = "append" -> AppendValue(v, call[3])
    [] call[1] = "resize" -> Resize(v, call[2])
    [] call[1] = "member" -> Assigned("object", v, call[2], call[3])
    [] call[1] = "remove" -> RemoveMember(v, call[2])
    [] call[1] = "clear" -> Clear(v)

AfterCalls(calls) == FoldLeft(Applied, Null, calls)
-----------------------------------------------------------------------------
(* Properties.                                                             *)

(* Exactly one of less, equal and greater, and one order for three.        *)
OrderAgrees(v, w, x) ==
  /\ Equal(v, w) <=> ~Less(v, w) /\ ~Less(w, v)
  /\ ~(Less(v, w) /\ Less(w, v))
  /\ Less(v, w) /\ Less(w, x) => Less(v, x)

(* What is said to be convertible is converted, and nothing else; a number *)
(* becomes its whole part or throws, except that a real number just beyond *)
(* the largest integers gets by; and what is convertible to null is what a *)
(* value of its type begins as, for arrays and objects the empty ones.     *)
ConversionsAgree(v) ==
  /\ IsConvertibleTo(v, "int") <=> AsInt(v) # {}
  /\ IsConvertibleTo(v, "uint") <=> AsUInt(v) # {}
  /\ IsConvertibleTo(v, "real") <=> AsDouble(v) # {}
  /\ IsConvertibleTo(v, "bool") <=> AsBool(v) # {}
  /\ IsConvertibleTo(v, "string") <=> AsString(v) # {}
  /\ IsConvertibleTo(v, "null") <=>
       v \in {NewValue(ValueTypes[i]) : i \in DOMAIN ValueTypes} \cup {<<"string", 0>>}
  /\ v[1] \in {"null", "array", "object"} => (IsEmpty(v) <=> IsConvertibleTo(v, "null"))
  /\ \A result \in {AsInt(v), AsUInt(v), AsLargestInt(v), AsLargestUInt(v)} :
       \/ result \subseteq {Whole(h) : h \in AsDouble(v)}
       \/ v \in {<<"real", 2 * (LargestIntMax + 1)>>, <<"real", 2 * (LargestUIntMax + 1)>>}

(* What an array or object is for: a sequence, with null where nothing was *)
(* put, and a map.  "none" is neither yet.                                 *)
Cut(s, n) == [i \in 1 .. n |-> IF i <= Len(s) THEN s[i] ELSE Null]
Padded(s, n) == Cut(s, Max({n, Len(s)}))

Expected(seq, call) ==
  CASE call[1] = "set" -> [Padded(seq, call[2] + 1) EXCEPT ![call[2] + 1] = call[3]]
    [] call[1] = "at" -> Padded(seq, call[2] + 1)
    [] call[1] = "append" -> Append(seq, call[3])
    [] call[1] = "resize" -> Cut(seq, call[2])
    [] call[1] = "clear" -> <<>>

ArrayCalls == {"set", "at", "append", "resize"}

(* Calls on an array make it the sequence they are documented to make it,  *)
(* unless resize met an entry that was never made; calls on an object the  *)
(* map; and a value is one or the other.                                   *)
CallsAgree(calls) ==
  LET v == AfterCalls(calls)
      mixed == \E i, j \in DOMAIN calls :
                 /\ calls[i][1] \in ArrayCalls
                 /\ calls[j][1] = "member" \/ (calls[j][1] = "remove" /\ i < j)
      stays(n, i) == \A j \in i + 1 .. Len(calls) :
                       /\ calls[j][1] # "clear"
                       /\ calls[j][1] = "remove" => calls[j][2] # n
  IN  /\ v = Thrown => mixed
      /\ v = Aborted => \E i \in DOMAIN calls : calls[i][1] = "resize"
      /\ v \notin {Thrown, Aborted} => ~mixed
      /\ v[1] = "array" =>
           FoldLeft(Expected, <<>>, SelectSeq(calls, LAMBDA c : c[1] # "remove"))
             = [i \in 1 .. Size(v) |-> Entry(v, i - 1)]
      /\ v[1] = "object" =>
           ToSet(MemberNames(v)) = {calls[i][2] : i \in {j \in DOMAIN calls :
                            calls[j][1] = "member" /\ stays(calls[j][2], j)}}
=============================================================================
