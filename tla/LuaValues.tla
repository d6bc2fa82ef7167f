------------------------------ MODULE LuaValues ------------------------------
(***************************************************************************)
(* Values between Lua and deai (plugins/lua/lua.c): di_lua_pushvariant one  *)
(* way, di_lua_type_to_di with its test for arrays the other way, in a      *)
(* build with Lua 5.3, whose numbers are integers or floats, and in one     *)
(* with LuaJIT, Lua 5.1 or 5.2, whose numbers are all doubles (compat.c).   *)
(* A value of deai is [type, v, items] and one of Lua [type, v, table,      *)
(* meta]; a table is a function on its keys, where key 0 stands for all     *)
(* keys that are not integers from 1 on.  Elements are scalars, and a table *)
(* is at a positive index of the stack, as arguments and assigned values    *)
(* are: di_lua_checkarray pushes its keys above it.                         *)
(***************************************************************************)
EXTENDS Integers, Sequences, FiniteSets

CONSTANTS
    IntHalf,        \* half of the values of an integer, 2^63 in the code
    NarrowHalf,     \* the same of an integer of the types nint and nuint, 2^31
    ExactInt,       \* integers up to this one are doubles, 2^53
    Number,         \* the integers that are tried, also as doubles
    Payload,        \* what other values hold; as a double, one that is no integer
    NULL,           \* the pointer of an empty string, or of no object
    MaxKey,         \* the largest integer key of a table
    MaxLength       \* the longest array or tuple

ASSUME ValuesAssumption ==
    /\ {IntHalf, NarrowHalf, ExactInt, MaxKey, MaxLength} \subseteq Nat
    /\ IntHalf > 0 /\ NarrowHalf > 0 /\ 2 * NarrowHalf <= IntHalf
    /\ Number \subseteq Int /\ Payload \cap (-IntHalf)..(IntHalf - 1) = {}
    /\ NULL \notin Payload

VARIABLES
    lua53,      \* whether the numbers of the Lua built with have integers among them
    origin,     \* the value of deai that was pushed, or Unset
    onStack,    \* the value on the stack of Lua
    result,     \* the value that was taken from there
    at, elem,   \* the loop of di_lua_checkarray: the keys seen, and their type
    vpc         \* "di", "lua", "check" or "back"

valueVars == <<lua53, origin, onStack, result, at, elem, vpc>>

IntMax == IntHalf - 1
LuaIntegers == (-IntHalf)..IntMax
\* The bits of a uint64_t as a lua_Integer
AsLuaInteger(n) == IF n > IntMax THEN n - 2 * IntHalf ELSE n

Scalar(t, n) == [type |-> t, v |-> n, items |-> <<>>]
Lua(t, n) == [type |-> t, v |-> n, table |-> <<>>, meta |-> FALSE]
Nil == Scalar("nil", 0)
LuaNil == Lua("nil", 0)
Unset == Scalar("unset", 0)
\* With -ENOTSUP
Unsupported == Scalar("nil", 1)

\* An integer as a double: one that no double is equal to is rounded, the largest
\* one to a double that is no lua_Integer.
AsDouble(n) ==
    IF n \in (-ExactInt)..ExactInt \/ n % 2 = 0 THEN n
    ELSE IF n % 4 = 1 THEN n - 1 ELSE n + 1

----------------------------------------------------------------------------
(* di_lua_pushvariant *)

\* lua_pushinteger
PushInteger(n, is53) == IF is53 THEN Lua("integer", n) ELSE Lua("number", AsDouble(n))

\* NULL is nil to Lua, an empty string without memory too.
PushScalar(x, is53) ==
    CASE x.type \in {"string", "object", "pointer"} /\ x.v = NULL -> LuaNil
      [] x.type \in {"nint", "int", "nuint", "uint"} -> PushInteger(AsLuaInteger(x.v), is53)
      [] x.type = "float" -> Lua(IF is53 THEN "float" ELSE "number", x.v)
      [] x.type = "pointer" /\ x.v # NULL -> Lua("other", x.v)
      [] x.type \in {"string", "literal"} /\ x.v # NULL -> Lua("string", x.v)
      [] x.type = "bool" -> Lua("boolean", x.v)
      [] x.type = "object" /\ x.v # NULL -> Lua("proxy", x.v)
      [] x.type = "weak" -> Lua("weak proxy", x.v)
      [] x.type = "nil" -> LuaNil

\* An element that is nil leaves no key behind.
TableOf(items, is53) ==
    LET pushed == [k \in DOMAIN items |-> PushScalar(items[k], is53)]
    IN  [k \in {j \in DOMAIN items : pushed[j] # LuaNil} |-> pushed[k]]

\* The elements of an empty array may be of any type (v = 0).
Pushed(x, is53) ==
    IF x.type \notin {"array", "tuple"} THEN PushScalar(x, is53)
    ELSE IF x.type = "array" /\ x.v = 0 THEN LuaNil
    ELSE [type |-> "table", v |-> 0, table |-> TableOf(x.items, is53), meta |-> FALSE]

PushValue ==
    /\ vpc = "di" /\ vpc' = "lua"
    /\ onStack' = Pushed(origin, lua53)
    /\ UNCHANGED <<lua53, origin, result, at, elem>>

----------------------------------------------------------------------------
(* di_lua_type_to_di *)

\* Every kind of proxy is taken for one of an object; threads, pointers and other
\* userdata are not supported.  Without integers of its own (compat.c), a number is one
\* if a lua_Integer is equal to it.
ScalarToDi(l) ==
    CASE l.type = "boolean" -> Scalar("bool", l.v)
      [] l.type = "integer" -> Scalar("int", l.v)
      [] l.type = "float" -> Scalar("float", l.v)
      [] l.type = "number" -> Scalar(IF l.v \in LuaIntegers THEN "int" ELSE "float", l.v)
      [] l.type = "string" -> Scalar("string", l.v)
      [] l.type \in {"proxy", "weak proxy", "function"} -> Scalar("object", l.v)
      [] l.type = "nil" -> Nil
      [] l.type = "other" -> Unsupported

At(l, i) == IF i \in DOMAIN l.table THEN ScalarToDi(l.table[i]) ELSE Nil

TableObject == Scalar("object", 0)

\* di_lua_table_to_array; what is not of type t is made a double.
Element(x, t) == IF x.type = t THEN x ELSE Scalar("float", AsDouble(x.v))
TableToArray(l, n, t) ==
    [type |-> "array", v |-> 1, items |-> [i \in 1..n |-> Element(At(l, i), t)]]

Take(x) == result' = x /\ vpc' = "back" /\ UNCHANGED <<lua53, origin, onStack, at, elem>>

TakeScalar == vpc = "lua" /\ onStack.type # "table" /\ Take(ScalarToDi(onStack))

----------------------------------------------------------------------------
(* di_lua_checkarray: one integer key is looked up for each key the table has *)

IsTable == vpc = "lua" /\ onStack.type = "table"
Keys == DOMAIN onStack.table

TakeEmpty == IsTable /\ Keys = {} /\ Take(IF onStack.meta THEN TableObject ELSE Nil)

CheckFirst ==
    LET t == At(onStack, 1).type IN
    /\ IsTable /\ Keys # {}
    /\ IF t = "nil" THEN Take(TableObject)
       ELSE vpc' = "check" /\ at' = 1 /\ elem' = t /\ UNCHANGED <<lua53, origin, onStack, result>>

Join(e, t) == IF e = t THEN e ELSE IF {e, t} = {"int", "float"} THEN "float" ELSE "none"

\* Mutant: the keys are looked at up to the first one that is missing.
CheckNextToHole ==
    LET t == At(onStack, at + 1).type
        e == Join(elem, t)
    IN
    /\ vpc = "check" /\ at < Cardinality(Keys)
    /\ IF t = "nil" THEN Take(TableToArray(onStack, at, elem))
       ELSE IF e = "none" THEN Take(TableObject)
       ELSE at' = at + 1 /\ elem' = e /\ UNCHANGED <<lua53, origin, onStack, result, vpc>>

CheckNext ==
    LET e == Join(elem, At(onStack, at + 1).type) IN
    /\ vpc = "check" /\ at < Cardinality(Keys)
    /\ IF e = "none" THEN Take(TableObject)
       ELSE at' = at + 1 /\ elem' = e /\ UNCHANGED <<lua53, origin, onStack, result, vpc>>

TakeTable ==
    /\ vpc = "check" /\ at = Cardinality(Keys)
    /\ Take(IF onStack.meta THEN TableObject ELSE TableToArray(onStack, at, elem))

----------------------------------------------------------------------------

Float == Payload \cup {n \in Number : AsDouble(n) = n}
DiScalar ==
    [type : {"int"}, v : Number \cap LuaIntegers, items : {<<>>}]
    \cup [type : {"nint"}, v : Number \cap (-NarrowHalf)..(NarrowHalf - 1), items : {<<>>}]
    \cup [type : {"nuint"}, v : Number \cap 0..(2 * NarrowHalf - 1), items : {<<>>}]
    \cup [type : {"uint"}, v : Number \cap 0..(2 * IntHalf - 1), items : {<<>>}]
    \cup [type : {"float"}, v : Float, items : {<<>>}]
    \cup [type : {"literal", "bool", "weak"}, v : Payload, items : {<<>>}]
    \cup [type : {"string", "object", "pointer"}, v : Payload \cup {NULL}, items : {<<>>}]
    \cup {Nil}
Uniform(s) == \A i, j \in DOMAIN s : s[i].type = s[j].type
SeqsOf(S) == UNION {[1..n -> S] : n \in 0..MaxLength}
DiArray ==
    [type : {"array"}, v : {1}, items : {s \in SeqsOf(DiScalar \ {Nil}) : Uniform(s)}]
    \cup [type : {"array"}, v : {0}, items : {<<>>}]
DiTuple == [type : {"tuple"}, v : {0}, items : SeqsOf(DiScalar)]

LuaNumber(is53) ==
    IF is53 THEN [type : {"integer"}, v : Number \cap LuaIntegers, table : {<<>>}, meta : {FALSE}]
                 \cup [type : {"float"}, v : Float, table : {<<>>}, meta : {FALSE}]
    ELSE [type : {"number"}, v : Float, table : {<<>>}, meta : {FALSE}]
LuaScalar(is53) ==
    LuaNumber(is53)
    \cup [type : {"string", "boolean", "proxy", "weak proxy", "function", "other"},
          v : Payload, table : {<<>>}, meta : {FALSE}]
LuaTable(is53) ==
    [type : {"table"}, v : {0}, meta : BOOLEAN,
     table : UNION {[D -> LuaScalar(is53)] : D \in SUBSET (0..MaxKey)}]

ValuesInit ==
    /\ lua53 \in BOOLEAN
    /\ result = Unset /\ at = 0 /\ elem = "none"
    /\ \/ vpc = "di" /\ origin \in DiScalar \cup DiArray \cup DiTuple /\ onStack = LuaNil
       \/ vpc = "lua" /\ origin = Unset /\ onStack \in LuaTable(lua53) \cup LuaScalar(lua53)

ValuesNext == PushValue \/ TakeScalar \/ TakeEmpty \/ CheckFirst \/ CheckNext \/ TakeTable

ValuesSpec == ValuesInit /\ [][ValuesNext]_valueVars
----------------------------------------------------------------------------
IsInt(x) == x.type \in {"nint", "int", "nuint", "uint"}
Faithful(x, is53) ==
    /\ x.type \notin {"weak", "pointer", "nil"}
    /\ x.type \in {"string", "object"} => x.v # NULL
    /\ IsInt(x) => x.v <= IntMax /\ (is53 \/ x.v \in (-ExactInt)..ExactInt)

\* The type that Lua has for a value of type t, as one of deai
LuaTypeOf(t) ==
    IF t \in {"nint", "nuint", "uint"} THEN "int" ELSE IF t = "literal" THEN "string" ELSE t

\* The type that values vs of type t come back as: doubles, if Lua has nothing else, as
\* integers if all of them are.
ReadAs(t, vs, is53) ==
    IF t = "float" /\ ~is53 /\ vs \subseteq LuaIntegers THEN "int" ELSE LuaTypeOf(t)
ValuesOf(s) == {s[i].v : i \in DOMAIN s}

\* A value that deai gives to Lua and gets back is the same one, as the type
\* that Lua has for it; an array or a tuple of values of one type comes back
\* as an array of them, an empty one as nil.  With LuaJIT, Lua 5.1 or 5.2, a double
\* that is an integer comes back as one.  Left out are integers that a lua_Integer,
\* or there a double, does not hold, weak references, which come back as objects,
\* and pointers and NULL, which come back as nil.
RoundTrip ==
    vpc = "back" /\ origin # Unset =>
        IF origin.type \in {"array", "tuple"}
        THEN (\A i \in DOMAIN origin.items : Faithful(origin.items[i], lua53)) /\ Uniform(origin.items) =>
                IF origin.items = <<>> THEN result = Nil
                ELSE /\ result.type = "array" /\ DOMAIN result.items = DOMAIN origin.items
                     /\ \A i \in DOMAIN origin.items :
                            /\ result.items[i].v = origin.items[i].v
                            /\ result.items[i].type = ReadAs(origin.items[1].type, ValuesOf(origin.items), lua53)
        ELSE Faithful(origin, lua53) =>
                result.v = origin.v /\ result.type = ReadAs(origin.type, {origin.v}, lua53)

\* The type of a key's value, where all numbers are of one type
Kind(l, i) == IF At(l, i).type = "float" THEN "int" ELSE At(l, i).type

\* A table without metatable is an array if its keys are 1..n and its values are
\* of one type.
IsArray(l) ==
    /\ ~l.meta /\ DOMAIN l.table # {}
    /\ DOMAIN l.table = 1..Cardinality(DOMAIN l.table)
    /\ \A i \in DOMAIN l.table : Kind(l, i) # "nil" /\ Kind(l, i) = Kind(l, 1)

\* What is found in a table is in the array, of its own type or, if that has
\* doubles, as the double it is; only an integer that no double is equal to
\* may have changed.
Kept(x, y) ==
    \/ y.type = x.type /\ y.v = x.v
    \/ /\ x.type = "int" /\ y.type = "float"
       /\ x.v \in (-ExactInt)..ExactInt => y.v = x.v

\* A table becomes an array if and only if it is one; then all that it holds is
\* kept.  Every other table that is not empty becomes an object.
TablesExact ==
    vpc = "back" /\ onStack.type = "table" =>
        /\ IsArray(onStack) <=> result.type = "array"
        /\ IsArray(onStack) => /\ DOMAIN result.items = Keys
                               /\ \A i \in Keys : Kept(At(onStack, i), result.items[i])
        /\ (Keys # {} \/ onStack.meta) /\ ~IsArray(onStack) => result.type = "object"

\* Values pass between deai and Lua in both directions as these say.
ValuesExact == RoundTrip /\ TablesExact
=============================================================================
