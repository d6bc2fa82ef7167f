------------------------------ MODULE Convert ------------------------------
(***************************************************************************)
(* The conversions between values of different types (include/utils.h).     *)
(* Integers keep their widths and C's rules for comparing them.  The other  *)
(* values are opaque, one of each type.                                     *)
(***************************************************************************)
EXTENDS Integers

CONSTANTS
    NarrowHalf,     \* half of the values of a narrow integer, 2^31 in the code
    WideHalf        \* half of the values of a wide one, 2^63 in the code

ASSUME ConvertAssumption ==
    /\ NarrowHalf \in Nat /\ WideHalf \in Nat
    /\ 0 < NarrowHalf /\ 2 * NarrowHalf <= WideHalf

IntType == {"nint", "nuint", "int", "uint"}
Type == IntType \cup {"nil", "float", "literal", "string", "object", "weak",
                      "pointer", "array", "variant"}

IsInteger(t) == t \in IntType
Signed(t) == t \in {"nint", "int"}
Half(t) == IF t \in {"nint", "nuint"} THEN NarrowHalf ELSE WideHalf

MinOf(t) == IF Signed(t) THEN -Half(t) ELSE 0
MaxOf(t) == IF Signed(t) THEN Half(t) - 1 ELSE 2 * Half(t) - 1

\* The value x as an integer of type t.
Wrap(x, t) == ((x - MinOf(t)) % (2 * Half(t))) + MinOf(t)

\* The type in which C compares two integers: the wider one, and of two of the
\* same width the unsigned one.
Common(s, t) ==
    IF Half(s) # Half(t) THEN (IF Half(s) > Half(t) THEN s ELSE t)
    ELSE IF Signed(s) THEN t ELSE s

Less(x, s, y, t) == Wrap(x, Common(s, t)) < Wrap(y, Common(s, t))

\* The limits have the type of the destination, but 0, which is an int.
LowerType(t) == IF Signed(t) THEN t ELSE "nint"

Value(t) == IF IsInteger(t) THEN [type : {t}, v : MinOf(t)..MaxOf(t)]
            ELSE [type : {t}, v : {t}]

\* Variants are unpacked level by level; here they hold one value.
Variant == [type : {"variant"},
            v : UNION {Value(t) : t \in {"nint", "uint", "literal", "object", "nil"}}]
AnyValue == Variant \cup UNION {Value(t) : t \in Type \ {"variant"}}

Failed == [ok |-> FALSE, cloned |-> FALSE, out |-> [type |-> "nil", v |-> "nil"]]
Borrowed(v) == [ok |-> TRUE, cloned |-> FALSE, out |-> v]
Cloned(v) == [ok |-> TRUE, cloned |-> TRUE, out |-> v]

----------------------------------------------------------------------------

\* Mutant: only the upper bound is compared.
IntegerConversionUnchecked(in, outty) ==
    IF Less(MaxOf(outty), outty, in.v, in.type) THEN Failed
    ELSE Borrowed([type |-> outty, v |-> Wrap(in.v, outty)])

IntegerConversion(in, outty) ==
    IF Less(MaxOf(outty), outty, in.v, in.type) \/ Less(in.v, in.type, MinOf(outty), LowerType(outty))
    THEN Failed
    ELSE Borrowed([type |-> outty, v |-> Wrap(in.v, outty)])

FlatConversion(in, outty, borrowing) ==
    IF in.type = outty THEN Borrowed(in)
    ELSE IF outty = "variant" THEN Cloned([type |-> "variant", v |-> in])
    ELSE IF in.type = "literal" /\ outty = "string"
         THEN IF borrowing THEN Borrowed([type |-> "string", v |-> "literal"])
              ELSE Cloned([type |-> "string", v |-> "literal"])
    ELSE IF outty = "nil" THEN Borrowed([type |-> "nil", v |-> "nil"])
    ELSE IF IsInteger(in.type) /\ IsInteger(outty) THEN IntegerConversion(in, outty)
    ELSE IF IsInteger(in.type) /\ outty = "float" THEN Borrowed([type |-> "float", v |-> in.v])
    ELSE Failed

\* A variant is not put in another one, only given as it is.
TypeConversion(in, outty, borrowing) ==
    IF in.type = "variant" /\ outty \notin {"variant", "nil"}
    THEN FlatConversion(in.v, outty, borrowing)
    ELSE FlatConversion(in, outty, borrowing)

----------------------------------------------------------------------------
(* One conversion after the other, so that TLC checks them all. *)

VARIABLE probe

ConvertInit == probe \in [in : AnyValue, outty : {"nil"}]
ConvertNext == \E t \in Type : t # probe.outty /\ probe' = [probe EXCEPT !.outty = t]
ConvertSpec == ConvertInit /\ [][ConvertNext]_probe

Unpacked(val) == IF val.type = "variant" THEN val.v ELSE val
BothIntegers == IsInteger(Unpacked(probe.in).type) /\ IsInteger(probe.outty)
Result == TypeConversion(probe.in, probe.outty, TRUE)

\* A conversion of integers that succeeds preserves the value, whatever the
\* widths and signs: what does not fit is refused (integer_conversion).
ConversionSound ==
    BothIntegers /\ Result.ok => Result.out.v = Unpacked(probe.in).v

\* A conversion between types of integers succeeds if the value fits: the
\* comment at callable.c:69 says that conversion between all types of integers
\* is allowed as long as there is no overflow.
ConversionComplete ==
    BothIntegers /\ Unpacked(probe.in).v \in MinOf(probe.outty)..MaxOf(probe.outty)
        => Result.ok

\* The same for every pair but unsigned to signed.
ConversionCompleteButSigned ==
    (Signed(Unpacked(probe.in).type) \/ ~Signed(probe.outty)
        \/ Half(probe.outty) > Half(Unpacked(probe.in).type))
        => ConversionComplete

\* Conversions of integers keep every value that they do not refuse, and
\* refuse a value that fits only on the way from an unsigned type to a signed
\* one.
ConversionExact == ConversionSound /\ ConversionCompleteButSigned
=============================================================================
