----------------------------- MODULE XinputProps -----------------------------
(***************************************************************************)
(* The properties of an input device (plugins/xorg/xinput.c): reading in    *)
(* two requests, and setting by what the first request says of type and     *)
(* format, while other clients change the property and the device may be    *)
(* unplugged.  Numbers are multiples of the last digit of a double.         *)
(***************************************************************************)
EXTENDS Integers, SequencesExt

CONSTANTS
    Format,         \* the formats, in bytes per item
    Modulus,        \* the numbers an item of a format can hold
    ExactFloat,     \* numbers up to this one are floats, 2^24
    Number,         \* numbers scripts and other clients use
    MaxItems,       \* bound on the items of a property
    MaxSets         \* bound on the changes of the property

\* Formats are of 8, 16 or 32 bits.
ASSUME PropsAssumption ==
    /\ Format \subseteq {1, 2, 4} /\ Modulus \in [{1, 2, 4} -> Nat \ {0}]
    /\ Number \subseteq Int /\ ExactFloat \in Nat /\ MaxItems \in Nat /\ MaxSets \in Nat

VARIABLES
    server,     \* the property: type ("none", "gone" with the device), format, items,
                \* and what a script asked for
    getter,     \* get_prop: phase, and the size of the first reply
    setter,     \* set_prop: phase, type and format of the reply, the array
    reading,        \* the last result of get_prop
    changesLeft

propVars == <<server, getter, setter, reading, changesLeft>>

NoProp == [type |-> "none", format |-> 1, items |-> <<>>, asked |-> <<>>]
NotGetting == [phase |-> "none", bytes |-> 0]
NotSetting == [phase |-> "none", type |-> "none", format |-> 1, elem |-> "none", arr |-> <<>>]
NoResult == [kind |-> "bottom", values |-> <<>>, of |-> NoProp, grown |-> FALSE]

NoDevice == [NoProp EXCEPT !.type = "gone"]

Unsigned(v, f) == v % Modulus[f]

\* The float next to a number
AsFloat(v) ==
    IF v \in (-ExactFloat)..ExactFloat \/ v % 2 = 0 THEN v
    ELSE IF v % 4 = 1 THEN v - 1 ELSE v + 1

\* *(int8_t *)dst = i64 and the like, or *(float *)dst = f
Store(v, type, f) == IF type = "float" THEN AsFloat(v) ELSE Unsigned(v, f)

PropsInit ==
    /\ server = NoProp /\ getter = NotGetting /\ setter = NotSetting
    /\ reading = NoResult /\ changesLeft = MaxSets

\* The X server, or another client; items are kept as unsigned numbers or as floats.
\* Strings are of bytes: anything else fails an assertion of get_prop.
OtherSets(type, f, items) ==
    /\ changesLeft > 0 /\ changesLeft' = changesLeft - 1 /\ server.type # "gone"
    /\ type = "string" => f = 1
    /\ server' = [type |-> type, format |-> f, items |-> [i \in DOMAIN items |-> Store(items[i], type, f)],
                  asked |-> <<>>]
    /\ UNCHANGED <<getter, setter, reading>>

\* The property, or the device with all of them.
OtherDeletes ==
    /\ changesLeft > 0 /\ changesLeft' = changesLeft - 1 /\ server.type # "gone"
    /\ server' \in {NoProp, NoDevice}
    /\ UNCHANGED <<getter, setter, reading>>

----------------------------------------------------------------------------
(* di_xorg_xinput_set_prop *)

Idle == getter.phase = "none" /\ setter.phase = "none"

\* Floats and atoms are of 32 bits.
BadFormat(p) == p.type \in {"float", "atom"} /\ p.format # 4

\* The first request: a property that is not there is silently ignored.  There is no
\* reply for a device that is not there, and NULL is read.
SetProp(elem, arr) ==
    /\ Idle /\ changesLeft > 0 /\ changesLeft' = changesLeft - 1
    /\ setter' = IF server.type = "gone" THEN [NotSetting EXCEPT !.phase = "crash"]
                 ELSE IF server.type = "none" \/ BadFormat(server) THEN NotSetting
                 ELSE [phase |-> "change", type |-> server.type, format |-> server.format,
                       elem |-> elem, arr |-> arr]
    /\ UNCHANGED <<server, getter, reading>>

Accepts(type, elem) ==
    \/ type \in {"integer", "cardinal"} /\ elem = "int"
    \/ type = "float" /\ elem \in {"int", "float"}
    \/ type = "atom" /\ elem = "string"

\* A number for a property of another type is stored nowhere: the request is
\* made from memory that was not set.
Uninitialised(type, elem) == type \in {"string", "other"} /\ elem \in {"int", "float"}

\* The change is requested when every element was taken; its error is only logged.
ChangeProp ==
    /\ setter.phase = "change"
    /\ setter' = NotSetting
    /\ \/ server.type = "gone" /\ UNCHANGED server
       \/ /\ server.type # "gone"
          /\ setter.arr = <<>> \/ Accepts(setter.type, setter.elem)
          /\ server' = [type |-> setter.type, format |-> setter.format,
                        items |-> [i \in DOMAIN setter.arr |-> Store(setter.arr[i], setter.type, setter.format)],
                        asked |-> setter.arr]
       \/ /\ server.type # "gone" /\ setter.arr # <<>> /\ Uninitialised(setter.type, setter.elem)
          /\ \E v \in SeqOf({Unsigned(n, setter.format) : n \in Number}, MaxItems) :
                /\ Len(v) = Len(setter.arr)
                /\ server' = [type |-> setter.type, format |-> setter.format, items |-> v, asked |-> <<>>]
       \/ /\ setter.arr # <<>>
          /\ ~Accepts(setter.type, setter.elem) /\ ~Uninitialised(setter.type, setter.elem)
          /\ UNCHANGED server
    /\ UNCHANGED <<getter, reading, changesLeft>>

----------------------------------------------------------------------------
(* di_xorg_xinput_get_prop *)

Bytes(p) == Len(p.items) * p.format

\* The first request asks for no data and learns the size.
GetSize ==
    /\ Idle
    /\ getter' = IF server.type = "gone" THEN [NotGetting EXCEPT !.phase = "crash"]
                 ELSE IF server.type = "none" THEN NotGetting
                 ELSE [phase |-> "value", bytes |-> Bytes(server)]
    /\ reading' = IF server.type = "none" THEN NoResult ELSE reading
    /\ UNCHANGED <<server, setter, changesLeft>>

\* Mutant: the length in units, rounded down.
AskedUnits(bytes) == bytes \div 4

\* The length of the second request, which the server takes in units of 4 bytes
AskedLength(bytes) == bytes

Received(p, bytes) ==
    LET most == (4 * AskedLength(bytes)) \div p.format IN
    IF Len(p.items) <= most THEN p.items ELSE SubSeq(p.items, 1, most)

\* One item is unpacked; a string is one value.
Kind(p, items) ==
    CASE p.type = "none" -> "bottom"
      [] p.type = "other" \/ BadFormat(p) -> "error"
      [] p.type = "string" -> "string"
      [] OTHER -> IF Len(items) = 1 THEN "single" ELSE "array"

\* What follows the reply in memory
Junk == SeqOf({Unsigned(n, 1) : n \in Number}, 1)

\* di_string_dup takes bytes up to the first NUL, in the reply or after it.
Text(items) ==
    {SubSeq(items, 1, n) : n \in {m \in 0..(Len(items) - 1) :
                                    items[m + 1] = 0 /\ \A i \in 1..m : items[i] # 0}}
    \cup {items \o w : w \in {j \in Junk : \A i \in DOMAIN items : items[i] # 0}}

Values(kind, items) ==
    CASE kind = "string" -> Text(items)
      [] kind \in {"single", "array"} -> {items}
      [] OTHER -> {<<>>}

GetValue ==
    /\ getter.phase = "value"
    /\ IF server.type = "gone" THEN getter' = [NotGetting EXCEPT !.phase = "crash"] /\ UNCHANGED reading
       ELSE LET items == Received(server, getter.bytes)
                kind == Kind(server, items)
            IN  /\ \E v \in Values(kind, items) :
                       reading' = [kind |-> kind, of |-> server, values |-> v,
                                   grown |-> Bytes(server) > 4 * getter.bytes]
                /\ getter' = NotGetting
    /\ UNCHANGED <<server, setter, changesLeft>>

PropsNext ==
    \/ \E t \in {"integer", "cardinal", "float", "atom", "string", "other"}, f \in Format,
          s \in SeqOf(Number, MaxItems) : OtherSets(t, f, s)
    \/ OtherDeletes
    \/ \E e \in {"int", "float", "string", "literal", "object"}, s \in SeqOf(Number, MaxItems) : SetProp(e, s)
    \/ ChangeProp \/ GetSize \/ GetValue

PropsSpec == PropsInit /\ [][PropsNext]_propVars
----------------------------------------------------------------------------
\* What the items of a property can hold
Holds(p, v) ==
    IF p.type = "float" THEN v \in (-ExactFloat)..ExactFloat ELSE v \in 0..(Modulus[p.format] - 1)

\* What a script set is read, item by item, if the items of the property can hold it:
\* a negative integer is read as the unsigned number with its bits, and a number of
\* more digits than a float has as the float next to it.
ReadsWhatWasSet ==
    reading.of.asked # <<>> /\ ~reading.grown =>
        /\ Len(reading.values) = Len(reading.of.asked)
        /\ \A i \in DOMAIN reading.values :
              Holds(reading.of, reading.of.asked[i]) => reading.values[i] = reading.of.asked[i]

\* The value that is read is one the property had, whole, and not a mixture of
\* what it was at the two requests, unless it grew to more than four times its
\* size between them.  A string is read up to a NUL in it; one without is followed by
\* whatever the memory after the reply holds.
ReadsWhole ==
    ~reading.grown =>
        LET all == reading.of.items
            n == Len(reading.values)
        IN  /\ reading.kind \in {"single", "array"} => reading.values = all
            /\ reading.kind = "string" =>
                  /\ \A i \in 1..n : i <= Len(all) => reading.values[i] = all[i] /\ all[i] # 0
                  /\ n < Len(all) => all[n + 1] = 0

\* Properties of input devices are read as they were set, and whole.
PropsExact == ReadsWhatWasSet /\ ReadsWhole
=============================================================================
