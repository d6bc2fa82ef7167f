------------------------------ MODULE Callable ------------------------------
(***************************************************************************)
(* Closures and calls through them (callable.c): creation with captured     *)
(* values, the conversion of the arguments of a call, the foreign function  *)
(* and the release of what the conversions cloned; and the typed getters of *)
(* object.c, which convert a value that they own.                           *)
(***************************************************************************)
EXTENDS Convert, Sequences, FiniteSets

CONSTANTS
    MaxNargs,       \* MAX_NARGS
    Param,          \* the types used for parameters, results and captures
    Argument        \* the values used as arguments

ASSUME CallableAssumption ==
    MaxNargs \in Nat /\ Param \subseteq Type /\ Argument \subseteq AnyValue

VARIABLES
    closure,    \* its references, captured values and parameters; "none"
    call,       \* the running call, or the last one
    clones,     \* values that conversions made and nobody has freed yet
    got         \* what a typed getter converted, and the pieces of memory that its
                \* caller owns of it and that are alive, or NotGot

callVars == <<closure, call, clones, got>>

NoClosure == [refs |-> 0, user |-> FALSE, caps |-> 0, atypes |-> <<>>]
NoCall == [pc |-> "idle", args |-> <<>>, fnats |-> <<>>, xargs |-> <<>>,
           cloned |-> <<>>, rc |-> 0, error |-> FALSE]
NotGot == [in |-> [type |-> "nil", v |-> "nil"], outty |-> "nil",
           ok |-> FALSE, cloned |-> FALSE, owned |-> 0, live |-> 0]

CallableInit ==
    /\ closure = NoClosure
    /\ call = NoCall
    /\ clones = 0
    /\ got = NotGot

SizeOf(t) == IF t = "nil" THEN 0 ELSE 1

\* The pieces of memory or references that a value owns: a variant its box and
\* what the value in it owns.
Owned(t) == IF t \in {"string", "object", "weak", "array"} THEN 1 ELSE 0
Pieces(v) == IF v.type = "variant" THEN 1 + Owned(v.v.type) ELSE Owned(v.type)

----------------------------------------------------------------------------
(* Closures *)

\* di_create_closure, by di_add_method too: types without a size are refused
CreateClosure(n, atypes) ==
    /\ closure = NoClosure /\ call.pc = "idle"
    /\ n + Len(atypes) <= MaxNargs
    /\ \A i \in 1..Len(atypes) : SizeOf(atypes[i]) # 0
    /\ closure' = [refs |-> 1, user |-> TRUE, caps |-> n, atypes |-> atypes]
    /\ got' = NotGot
    /\ UNCHANGED <<call, clones>>

\* free_closure with the last reference
Dropped(c) == IF c.refs = 1 THEN NoClosure ELSE [c EXCEPT !.refs = @ - 1]

\* User code gives up its reference, also from inside the function.
DropClosure ==
    /\ closure.user
    /\ call.pc \in {"idle", "function"}
    /\ closure' = Dropped([closure EXCEPT !.user = FALSE])
    /\ UNCHANGED <<call, clones, got>>

----------------------------------------------------------------------------
(* A call *)

\* di_callx: the call has a reference of its own to the closure
StartCall(args) ==
    /\ call.pc = "idle" /\ closure.user
    /\ Len(args) = Len(closure.atypes)
    /\ closure' = [closure EXCEPT !.refs = 2]
    /\ call' = [NoCall EXCEPT !.pc = "convert", !.args = args,
                            !.fnats = closure.atypes]
    /\ UNCHANGED <<clones, got>>

\* The defaults that stand in for nil.
NilDefault(t) ==
    CASE t = "object" -> Cloned([type |-> t, v |-> "new object"])
      [] t = "weak" -> Borrowed([type |-> t, v |-> "dead_weak_ref"])
      [] t \in {"pointer", "array"} -> Borrowed([type |-> t, v |-> "empty"])
      [] OTHER -> Failed

Converted(in, t) ==
    LET r == TypeConversion(in, t, TRUE) IN
    IF ~r.ok /\ in.type = "nil" THEN NilDefault(t) ELSE r

\* One turn of the loop of _di_typed_trampoline.
ConvertArgument ==
    LET i == Len(call.xargs) + 1
        r == Converted(call.args[i], call.fnats[i])
    IN
    /\ call.pc = "convert" /\ i <= Len(call.args)
    /\ IF r.ok
       THEN call' = [call EXCEPT !.xargs = Append(@, r.out), !.cloned = Append(@, r.cloned)]
       ELSE call' = [call EXCEPT !.rc = 1, !.pc = "out"]
    /\ clones' = IF r.ok /\ r.cloned THEN clones + 1 ELSE clones
    /\ UNCHANGED <<closure, got>>

CallFunction ==
    /\ call.pc = "convert" /\ Len(call.xargs) = Len(call.args)
    /\ call' = [call EXCEPT !.pc = "function"]
    /\ UNCHANGED <<closure, clones, got>>

\* The function returns or throws; the error is printed and forgotten.
FunctionReturns(error) ==
    /\ call.pc = "function"
    /\ call' = [call EXCEPT !.pc = "out", !.error = error]
    /\ UNCHANGED <<closure, clones, got>>

\* Mutant: what was cloned is freed only after a call that succeeded.
CleanUpSuccessOnly ==
    /\ call.pc = "out"
    /\ clones' = IF call.rc = 0
                 THEN clones - Cardinality({i \in 1..Len(call.cloned) : call.cloned[i]})
                 ELSE clones
    /\ closure' = Dropped(closure)
    /\ call' = NoCall
    /\ UNCHANGED got

\* The end of _di_typed_trampoline, and of di_call_internal.
CleanUp ==
    /\ call.pc = "out"
    /\ clones' = clones - Cardinality({i \in 1..Len(call.cloned) : call.cloned[i]})
    /\ closure' = Dropped(closure)
    /\ call' = NoCall
    /\ UNCHANGED got

----------------------------------------------------------------------------
(* di_getxt and di_rawgetxt *)

\* Mutant: the copy is not freed when it cannot be converted.
GetTypedKeeps(in, outty) ==
    LET r == TypeConversion(in, outty, FALSE) IN
    /\ call.pc = "idle" /\ closure = NoClosure
    /\ got' = [in |-> in, outty |-> outty, ok |-> r.ok, cloned |-> r.cloned,
               owned |-> IF r.ok THEN Pieces(r.out) ELSE 0,
               live |-> IF r.cloned THEN Pieces(r.out) ELSE Pieces(in)]
    /\ UNCHANGED <<closure, call, clones>>

\* in is the copy that the getter made (a variant only if the member is one: what
\* a handler returned was flattened).  It is freed when it was cloned or could not
\* be converted, and otherwise not: out may be the value in it.
GetTyped(in, outty) ==
    LET r == TypeConversion(in, outty, FALSE) IN
    /\ call.pc = "idle" /\ closure = NoClosure
    /\ got' = [in |-> in, outty |-> outty, ok |-> r.ok, cloned |-> r.cloned,
               owned |-> IF r.ok THEN Pieces(r.out) ELSE 0,
               live |-> IF r.cloned THEN Pieces(r.out)
                        ELSE IF r.ok THEN Pieces(in) ELSE 0]
    /\ UNCHANGED <<closure, call, clones>>

----------------------------------------------------------------------------
ArgumentList(n) == [1..n -> Argument]
TypeList(n) == [1..n -> Param]

CallableNext ==
    \/ \E n, k \in 0..MaxNargs : \E ts \in TypeList(k) : CreateClosure(n, ts)
    \/ DropClosure
    \/ \E args \in ArgumentList(Len(closure.atypes)) : StartCall(args)
    \/ ConvertArgument \/ CallFunction \/ CleanUp
    \/ \E error \in BOOLEAN : FunctionReturns(error)
    \/ \E in \in Argument, t \in Param : GetTyped(in, t)

CallableSpec == CallableInit /\ [][CallableNext]_callVars

----------------------------------------------------------------------------
\* A call frees exactly what the conversions of its arguments cloned, whether
\* the function was called, threw, or an argument could not be converted.
ClonesFreed == call.pc = "idle" => clones = 0

\* The function is called with one value of the right type for each parameter,
\* equal to the argument where the conversion keeps the value.
ArgumentsFaithful ==
    call.pc = "function" =>
        \A i \in 1..Len(call.args) :
            LET a == Unpacked(call.args[i])
                x == call.xargs[i]
            IN /\ x.type = call.fnats[i]
               /\ IsInteger(a.type) /\ IsInteger(x.type) => x.v = a.v
               /\ a.type = "nil" /\ x.type = "object" => call.cloned[i]

\* The closure and the values it captured stay until a running call has ended,
\* although the function may drop the closure.
CapturesLive == call.pc # "idle" => closure.refs > 0

\* What a typed getter leaves without an owner: all of a value that was asked for as
\* nil, and the box of a variant whose value was handed out as it is
\* (object.c:256-262, utils.h:158-161).
Strayed(in, outty, cloned) ==
    IF outty = "nil" THEN Pieces(in)
    ELSE IF in.type = "variant" /\ outty # "variant" /\ ~cloned THEN 1 ELSE 0

\* A typed getter leaves its caller the only owner of one value: the copy it made was
\* handed over or freed.  A failed one leaves nothing, and a successful one leaks
\* exactly in the two cases of Strayed.
GetterOwnsOne ==
    /\ ~got.ok => got.live = 0
    /\ got.ok => got.live = got.owned + Strayed(got.in, got.outty, got.cloned)

\* What a call is given reaches the function, and every copy made on the way
\* is owned by somebody and freed once, but for what typed getters leak.
CallsFaithful == ClonesFreed /\ ArgumentsFaithful /\ CapturesLive /\ GetterOwnsOne
=============================================================================
