------------------------------ MODULE Members ------------------------------
(***************************************************************************)
(* Member dispatch (object.c): di_setx, di_getx, di_remove_member and       *)
(* di_callx on the members of one object, with the handlers __get, __set    *)
(* and __delete and their specialised forms.  Handlers and the destructors  *)
(* of replaced values are user code that dispatches again in the middle of  *)
(* the operation: frames is the C call stack, and one action is one stretch *)
(* of C between two call-outs.  Code that uses a value that was freed, or a *)
(* number as an object, ends the behaviour: frames ends with Crashed, and   *)
(* no action is possible.                                                   *)
(*                                                                         *)
(* A name is a pair of a prefix and a base: <<"", "a">> is a, <<"__get",    *)
(* "a">> is __get_a and <<"__get", "">> is the generic __get.  The base     *)
(* "__i" is an internal name.                                              *)
(***************************************************************************)
EXTENDS Naturals, FiniteSets, Sequences

CONSTANTS
    Method,         \* objects that can be called
    Inert,          \* objects that cannot
    MemberName,     \* the names in use
    MaxMembers,     \* bound on the number of members
    MaxNested,       \* bound on nested calls
    MaxLeak,        \* bound on leaked references to one object
    Plain           \* values that are not objects, each of a type of its own

Nothing == "none"
ObjectValue == Method \cup Inert
MemberValue == ObjectValue \cup Plain
Prefix == {"__get", "__set", "__delete"}

\* No member has the empty name: its handlers would be called like the generic
\* ones.
ASSUME MembersAssumption ==
    /\ IsFiniteSet(MemberName)
    /\ MemberName \subseteq ({""} \cup Prefix) \X STRING
    /\ <<"", "">> \notin MemberName
    /\ Method \cap Inert = {} /\ Plain \cap ObjectValue = {}
    /\ MemberValue \cap {Nothing, "freed", "garbage"} = {} /\ "object" \notin Plain
    /\ {MaxMembers, MaxNested, MaxLeak} \subseteq Nat

Absent == [type |-> Nothing, data |-> Nothing]

TypeOf(v) == IF v \in ObjectValue THEN "object" ELSE v

VARIABLES
    table,      \* the members: Absent or [type, data]
    count,      \* ref_count of each object; 0: destroyed
    var,        \* objects to which user code holds a reference
    leaked,     \* references that nobody will give back
    frames,     \* the call stack, innermost call last
    done        \* the operation that returned last

memberVars == <<table, count, var, leaked, frames, done>>

NoName == <<>>
NoFrame == [op |-> Nothing, name |-> NoName, val |-> Nothing, pfx |-> Nothing, pc |-> Nothing,
            method |-> Nothing, calls |-> <<>>, want |-> NoName, rc |-> 0]

MembersInit ==
    /\ table = [n \in MemberName |-> Absent]
    /\ count = [o \in ObjectValue |-> 1]
    /\ var = ObjectValue
    /\ leaked = [o \in ObjectValue |-> 0]
    /\ frames = <<>>
    /\ done = NoFrame

Cur == frames[Len(frames)]
Outer == SubSeq(frames, 1, Len(frames) - 1)
Goto(fr) == Append(Outer, fr)

\* The calls under way, without the destructors that they run.
Depth == Cardinality({i \in 1..Len(frames) : frames[i].op # "dtor"})

\* User code runs from the main loop, in a handler and in a destructor.
CodeRuns == frames # <<>> => Cur.pc \in {"handler", "dtor"}

\* di_setx has freed the value of n and is about to write the new one.
Replacing(n) == \E i \in 1..Len(frames) : frames[i].pc = "write" /\ frames[i].name = n

Crashed == [NoFrame EXCEPT !.op = "crash", !.pc = "crash"]
Crash ==
    /\ frames' = Append(frames, Crashed)
    /\ UNCHANGED <<table, count, var, leaked>> /\ done' = NoFrame

IsInternal(n) == n[1] # "" \/ n[2] = "__i"
Has(n) == n \in MemberName /\ table[n] # Absent

----------------------------------------------------------------------------
(* References.  Dropping the last one runs the destructor. *)

Held(v) == IF v \in ObjectValue THEN [count EXCEPT ![v] = @ + 1] ELSE count

DtorOf(o) == [NoFrame EXCEPT !.op = "dtor", !.val = o, !.pc = "dtor"]

\* ReleaseValue of v by the call that goes on with the stack fs.
ReleaseValue(v, fs) ==
    /\ count' = IF v \in ObjectValue THEN [count EXCEPT ![v] = @ - 1] ELSE count
    /\ frames' = IF v \in ObjectValue /\ count[v] = 1 THEN Append(fs, DtorOf(v)) ELSE fs

DtorReturns ==
    /\ frames # <<>> /\ Cur.op = "dtor"
    /\ frames' = Outer
    /\ UNCHANGED <<table, count, var, leaked>> /\ done' = NoFrame

----------------------------------------------------------------------------
(* Adding members *)

\* The prefix of deleters is compared and cut off with the length of the one
\* of setters: what is left of __delete___i does not look like an internal name.
CheckNewMember(n) ==
    /\ ~Has(n)
    /\ ~(n[1] \in {"__get", "__set"} /\ n[2] = "__i")

\* di_add_member_clone by user code
AddMember(n, v) ==
    /\ CodeRuns
    /\ CheckNewMember(n)
    /\ Cardinality({k \in MemberName : table[k] # Absent}) < MaxMembers
    /\ v \in ObjectValue => v \in var
    /\ table' = [table EXCEPT ![n] = [type |-> TypeOf(v), data |-> v]]
    /\ count' = Held(v)
    /\ UNCHANGED <<var, leaked, frames>> /\ done' = NoFrame

\* di_rawgetx or di_getx of an object member; the copy is kept
RawGetX(n) ==
    /\ CodeRuns /\ Has(n)
    /\ table[n].data \in ObjectValue \ var
    /\ var' = var \cup {table[n].data}
    /\ count' = Held(table[n].data)
    /\ UNCHANGED <<table, leaked, frames>> /\ done' = NoFrame

\* User code gives its reference up, unless a running call has borrowed it.
DropReference(o) ==
    /\ CodeRuns /\ o \in var
    /\ \A i \in 1..Len(frames) : frames[i].val # o
    /\ var' = var \ {o}
    /\ ReleaseValue(o, frames)
    /\ UNCHANGED <<table, leaked>> /\ done' = NoFrame

----------------------------------------------------------------------------
(* The operations *)

Specific(n, p) == <<p, n[2]>>
Generic(p) == <<p, "">>

CallableMember(n) == Has(n) /\ table[n].data \in Method

\* The handlers in the order in which an operation looks for them, and the
\* first of them that can be called when the operation starts.
Order(op, n) ==
    IF IsInternal(n) THEN <<>>
    ELSE CASE op = "set" -> <<Specific(n, "__set"), Generic("__set"),
                              Specific(n, "__delete"), Generic("__delete")>>
           [] op = "get" -> <<Specific(n, "__get"), Generic("__get")>>
           [] OTHER -> <<Specific(n, "__delete"), Generic("__delete")>>

Wanted(op, n) ==
    LET hits == {i \in 1..Len(Order(op, n)) : CallableMember(Order(op, n)[i])} IN
    IF hits = {} THEN NoName ELSE Order(op, n)[CHOOSE i \in hits : \A j \in hits : i <= j]

Start(op, n, v, p) ==
    /\ CodeRuns /\ Depth < MaxNested
    /\ n[1] = ""
    /\ frames' = Append(frames, [NoFrame EXCEPT !.op = op, !.name = n, !.val = v,
                                                !.pfx = p, !.pc = "look",
                                                !.want = Wanted(op, n)])
    /\ UNCHANGED <<table, count, var, leaked>> /\ done' = NoFrame

SetX(n, v) ==
    /\ v \in ObjectValue => v \in var
    /\ Start("set", n, v, "__set")

\* di_getx of a member that does not exist; its rc stands for what the getter
\* reports and for a result that is no value. The value itself goes to user code.
GetX(n) == ~Has(n) /\ Start("get", n, Nothing, "__get")

RemoveMember(n) == Start("remove", n, Nothing, "__delete")

\* di_callx of a member that exists. Of one that does not, it is GetX and then a
\* call of the result, which is no member.
CallX(n) ==
    /\ CodeRuns /\ Depth < MaxNested
    /\ n[1] = "" /\ CallableMember(n)
    /\ count' = Held(table[n].data)
    /\ frames' = Append(frames, [NoFrame EXCEPT !.op = "call", !.name = n, !.pc = "handler",
                                                !.method = table[n].data])
    /\ UNCHANGED <<table, var, leaked>> /\ done' = NoFrame

\* The same of an object that cannot be called: -EINVAL, and the reference that
\* was got is lost.
CallInert(n) ==
    /\ CodeRuns
    /\ n[1] = "" /\ Has(n) /\ table[n].data \in Inert
    /\ leaked[table[n].data] < MaxLeak
    /\ count' = Held(table[n].data)
    /\ leaked' = [leaked EXCEPT ![table[n].data] = @ + 1]
    /\ UNCHANGED <<table, var, frames>> /\ done' = NoFrame

\* di_rawgetx, di_getx, di_callx and di_remove_member_raw of the member that a
\* di_setx around this code is replacing take or drop a reference to a value
\* that is being destroyed.
TouchReplaced(n) == CodeRuns /\ Replacing(n) /\ Crash

Return(rc) ==
    /\ frames' = Outer
    /\ done' = [Cur EXCEPT !.rc = rc, !.pc = "returned"]

----------------------------------------------------------------------------
(* call_handler_with_fallback *)

\* Mutant: internal names have handlers too.
CandidatesAll == <<Specific(Cur.name, Cur.pfx), Generic(Cur.pfx)>>

Candidates == IF IsInternal(Cur.name) THEN <<>>
              ELSE <<Specific(Cur.name, Cur.pfx), Generic(Cur.pfx)>>

\* di_rawcallxn of the i-th candidate calls it; the ones before were absent or
\* could not be called.
Calls(i) ==
    /\ i \in 1..Len(Candidates)
    /\ CallableMember(Candidates[i])
    /\ \A j \in 1..(i - 1) : ~CallableMember(Candidates[j])

\* di_call_internal keeps the reference it was given when the method cannot be
\* called: one is lost for each candidate that is such an object.
Lost(o, upto) ==
    IF o \notin Inert THEN 0
    ELSE Cardinality({i \in 1..upto : Has(Candidates[i]) /\ table[Candidates[i]].data = o})

Leaks(upto) ==
    /\ \A o \in Inert : leaked[o] + Lost(o, upto) <= MaxLeak
    /\ leaked' = [o \in ObjectValue |-> leaked[o] + Lost(o, upto)]

Arguments(i) == (IF i = 1 THEN <<>> ELSE <<"name">>)
                \o (IF Cur.pfx = "__set" THEN <<"value">> ELSE <<>>)

CallHandler ==
    /\ frames # <<>> /\ Cur.pc = "look"
    /\ \E i \in 1..2 :
        LET h == table[Candidates[i]].data IN
        /\ Calls(i)
        /\ Leaks(i - 1)
        /\ count' = [o \in ObjectValue |-> count[o] + (IF o = h THEN 1 ELSE 0)
                                      + leaked'[o] - leaked[o]]
        /\ frames' = Goto([Cur EXCEPT !.pc = "handler", !.method = h,
                              !.calls = Append(@, <<Candidates[i], Arguments(i)>>)])
    /\ UNCHANGED <<table, var>> /\ done' = NoFrame

NotFoundGoto ==
    CASE Cur.op = "set" /\ Cur.pfx = "__set" -> [Cur EXCEPT !.pfx = "__delete"]
      [] Cur.op = "get" -> [Cur EXCEPT !.pc = "return", !.rc = 1]
      [] OTHER -> [Cur EXCEPT !.pc = "store"]

NoHandler ==
    /\ frames # <<>> /\ Cur.pc = "look"
    /\ \A i \in 1..2 : ~Calls(i)
    /\ Leaks(Len(Candidates))
    /\ count' = [o \in ObjectValue |-> count[o] + leaked'[o] - leaked[o]]
    /\ frames' = Goto(NotFoundGoto)
    /\ UNCHANGED <<table, var>> /\ done' = NoFrame

\* Mutant: a set is over when the deleter returns, and nothing is stored.
MemberHandlerReturnsAtOnce(rc) ==
    /\ frames # <<>> /\ Cur.pc = "handler"
    /\ ReleaseValue(Cur.method, Goto([Cur EXCEPT !.method = Nothing, !.rc = rc, !.pc = "return"]))
    /\ UNCHANGED <<table, var, leaked>> /\ done' = NoFrame

\* The handler returns rc, and the reference to it is dropped.
MemberHandlerReturns(rc) ==
    /\ frames # <<>> /\ Cur.pc = "handler"
    /\ ReleaseValue(Cur.method,
               Goto([Cur EXCEPT !.method = Nothing, !.rc = rc,
                     !.pc = IF Cur.op = "set" /\ Cur.pfx = "__delete" /\ rc = 0
                            THEN "store" ELSE "return"]))
    /\ UNCHANGED <<table, var, leaked>> /\ done' = NoFrame

Returns ==
    /\ frames # <<>> /\ Cur.pc = "return"
    /\ Return(Cur.rc)
    /\ UNCHANGED <<table, count, var, leaked>>

----------------------------------------------------------------------------
(* The end of di_setx and of di_remove_member *)

\* The old value is freed while the member stays in the table.
SetFree ==
    /\ frames # <<>> /\ Cur.pc = "store" /\ Cur.op = "set"
    /\ Has(Cur.name) /\ ~Replacing(Cur.name)
    /\ ReleaseValue(table[Cur.name].data, Goto([Cur EXCEPT !.pc = "write"]))
    /\ table' = [table EXCEPT ![Cur.name].data = "freed"]
    /\ UNCHANGED <<var, leaked>> /\ done' = NoFrame

\* It is the old value of a di_setx around this call, which already freed it.
FreeReplaced == frames # <<>> /\ Cur.pc = "store" /\ Replacing(Cur.name) /\ Crash

\* The new value is copied as one of the type that the member has and keeps: what
\* has another type is not that value any more.
SetWrite ==
    /\ frames # <<>> /\ Cur.pc = "write"
    /\ table[Cur.name].type = "object" => Cur.val \in ObjectValue
    /\ table' = [table EXCEPT ![Cur.name].data =
                    IF table[Cur.name].type = TypeOf(Cur.val) THEN Cur.val ELSE "garbage"]
    /\ count' = IF table[Cur.name].type = "object" THEN Held(Cur.val) ELSE count
    /\ Return(0)
    /\ UNCHANGED <<var, leaked>>

\* di_copy_value takes a reference to what is not an object.
WriteAsObject ==
    /\ frames # <<>> /\ Cur.pc = "write"
    /\ table[Cur.name].type = "object" /\ Cur.val \notin ObjectValue
    /\ Crash

SetAdd ==
    /\ frames # <<>> /\ Cur.pc = "store" /\ Cur.op = "set"
    /\ ~Has(Cur.name)
    /\ Cardinality({k \in MemberName : table[k] # Absent}) < MaxMembers
    /\ table' = [table EXCEPT ![Cur.name] = [type |-> TypeOf(Cur.val), data |-> Cur.val]]
    /\ count' = Held(Cur.val)
    /\ Return(0)
    /\ UNCHANGED <<var, leaked>>

RemoveRaw ==
    /\ frames # <<>> /\ Cur.pc = "store" /\ Cur.op = "remove"
    /\ ~Replacing(Cur.name)
    /\ IF Has(Cur.name)
       THEN /\ table' = [table EXCEPT ![Cur.name] = Absent]
            /\ ReleaseValue(table[Cur.name].data, Goto([Cur EXCEPT !.pc = "return"]))
       ELSE /\ frames' = Goto([Cur EXCEPT !.pc = "return", !.rc = 1])
            /\ UNCHANGED <<table, count>>
    /\ UNCHANGED <<var, leaked>> /\ done' = NoFrame

\* di_remove_member_raw by user code, of handlers too
RemoveRawByUser(n) ==
    /\ CodeRuns /\ Has(n) /\ ~Replacing(n)
    /\ table' = [table EXCEPT ![n] = Absent]
    /\ ReleaseValue(table[n].data, frames)
    /\ UNCHANGED <<var, leaked>> /\ done' = NoFrame

----------------------------------------------------------------------------
CallStep ==
    \/ DtorReturns \/ CallHandler \/ NoHandler \/ Returns
    \/ SetFree \/ FreeReplaced \/ SetWrite \/ WriteAsObject \/ SetAdd \/ RemoveRaw
    \/ \E rc \in {0, 1} : MemberHandlerReturns(rc)

User ==
    \/ \E n \in MemberName, v \in MemberValue : AddMember(n, v) \/ SetX(n, v)
    \/ \E n \in MemberName : \/ RawGetX(n) \/ GetX(n) \/ RemoveMember(n)
                       \/ CallX(n) \/ CallInert(n) \/ RemoveRawByUser(n) \/ TouchReplaced(n)
    \/ \E o \in ObjectValue : DropReference(o)

MembersNext == CallStep \/ User
MembersSpec == MembersInit /\ [][MembersNext]_memberVars

----------------------------------------------------------------------------
(* Properties *)

\* The reference counts are the references that members, user code and running
\* calls hold, and the ones that were lost; a handler that removes or replaces
\* itself in the middle of its call still has the reference of di_rawcallxn.
CountsExact ==
    \A o \in ObjectValue :
        count[o] = Cardinality({n \in MemberName : Has(n) /\ table[n].data = o})
                   + (IF o \in var THEN 1 ELSE 0)
                   + Cardinality({i \in 1..Len(frames) : frames[i].method = o})
                   + leaked[o]

\* An operation calls exactly the first handler that was there when it began,
\* the generic one with the name as an additional argument, and none for an
\* internal name (call_handler_with_fallback).
CallsOf(want) ==
    IF want = NoName THEN <<>>
    ELSE <<<<want, (IF want[2] = "" THEN <<"name">> ELSE <<>>)
                   \o (IF want[1] = "__set" THEN <<"value">> ELSE <<>>)>>>>
DispatchFaithful == done.calls = CallsOf(done.want)

\* A member refers to a value that was freed exactly while a di_setx that is
\* under way replaces it (object.c:173-176), so that only the destructors which
\* that call runs can meet it; and a member that holds objects never holds
\* anything else, whatever types it was set to.
MembersSound ==
    \A n \in MemberName :
        /\ table[n].data = "freed" <=> Replacing(n)
        /\ table[n].type = "object" => table[n].data \in ObjectValue \cup {"freed"}

\* A di_setx that no setter took and that reports success has added the member,
\* or changed it to the value it was given if that has the type that the member
\* had; a member of another type keeps its type, and its value is not the one it
\* was given (object.c:175-176), where object.h:253 has "Change the value of member".
SetStored ==
    LET old == table[done'.name].type
        v == done'.val
    IN  done'.op = "set" /\ done'.rc = 0
            /\ (\A i \in 1..Len(done'.calls) : done'.calls[i][1][1] # "__set")
        => table'[done'.name] = CASE old \in {Nothing, TypeOf(v)} -> [type |-> TypeOf(v), data |-> v]
                                  [] OTHER -> [type |-> old, data |-> "garbage"]
SetStores == [][done' # done => SetStored]_memberVars

\* Handlers are found, called and released as they should be, and no member
\* refers to what is gone.
HandlersExact == CountsExact /\ DispatchFaithful /\ MembersSound
=============================================================================
