--------------------------- MODULE MembersProofs ---------------------------
(***************************************************************************)
(* Proofs about member dispatch, for any finite set of names, any values    *)
(* and any depth of nested calls.                                           *)
(***************************************************************************)
EXTENDS Members, Integers, TLAPS, FiniteSetTheorems, SequenceTheorems

-----------------------------------------------------------------------------
(* The inductive invariant *)

Base == {n[2] : n \in MemberName} \cup {""}
Handler == Prefix \X Base
Entry == [type : {"object"}, data : ObjectValue \cup {"freed"}]
         \cup [type : Plain, data : Plain \cup {"freed", "garbage"}]
Ops == {"set", "get", "remove"}

FrameSet ==
    [op : Ops \cup {"call", "dtor", "crash"}, name : MemberName \cup {NoName}, val : MemberValue \cup {Nothing},
     pfx : Prefix \cup {Nothing},
     pc : {"look", "handler", "dtor", "store", "write", "return", "crash"},
     method : Method \cup {Nothing}, calls : {CallsOf(w) : w \in Handler \cup {NoName}},
     want : Handler \cup {NoName}, rc : {0, 1}]

\* The prefixes that an operation looks for.
PrefixesOf(op) == CASE op = "set" -> {"__set", "__delete"}
                    [] op = "get" -> {"__get"}
                    [] OTHER -> {"__delete"}

\* What a frame knows: a handler is held exactly while it runs; once the look-up
\* is over the calls are those of the handler that was wanted; a handler runs
\* only if one was wanted, under the prefix that was being looked for; and a set
\* that returns with success without having stored was taken by a setter.
FrameOK(f) ==
    /\ f \in FrameSet
    /\ f.pc = "handler" <=> f.method # Nothing
    /\ f.pc = "dtor" <=> f.op = "dtor"
    /\ f.pc = "crash" <=> f.op = "crash"
    /\ f.op = "call" => f.pc \in {"handler", "return"}
    /\ f.op \in {"call", "dtor"} => f.want = NoName
    /\ f.op \in Ops => f.name \in MemberName /\ f.name[1] = "" /\ f.pfx \in PrefixesOf(f.op)
    /\ f.op = "set" => f.val \in MemberValue
    /\ f.pc = "write" => f.op = "set"
    /\ f.pc = "store" => f.op \in {"set", "remove"}
    /\ f.calls = IF f.pc = "look" THEN <<>> ELSE CallsOf(f.want)
    /\ (f.op \in Ops /\ f.pc = "handler") => f.want # NoName /\ f.want[1] = f.pfx
    /\ (f.op = "set" /\ f.pc = "return" /\ f.rc = 0)
           => f.want # NoName /\ f.want[1] = "__set"

\* A name whose handlers under prefix p cannot be called.
Unhandled(n, p) == ~CallableMember(Specific(n, p)) /\ ~CallableMember(Generic(p))

\* The frames of the stack fs: the one that is looking for its handler is the
\* innermost, and a member that a di_setx is replacing stays in the table t, as
\* the calls inside that try to set or to remove it crash.
StackOK(fs, t) ==
    /\ fs \in Seq(FrameSet)
    /\ \A i \in 1..Len(fs) :
           /\ FrameOK(fs[i])
           /\ fs[i].pc = "look" => i = Len(fs)
           /\ fs[i].pc = "write" => t[fs[i].name] # Absent /\ t[fs[i].name].data = "freed"
    /\ \A i, j \in 1..Len(fs) :
           (i < j /\ fs[i].pc = "write" /\ fs[j].pc = "write") => fs[j].name # fs[i].name

\* Nobody is replacing name n in the calls of fs.
Untouched(fs, n) == \A i \in 1..Len(fs) : fs[i].pc = "write" => fs[i].name # n

\* What was freed is being replaced.
FreedOK(fs, t) == \A n \in MemberName : t[n].data = "freed" => ~Untouched(fs, n)

\* The handler that the look-up wants is still the first one; the setters were
\* looked for before.
LookOK ==
    (frames # <<>> /\ Cur.pc = "look") =>
        /\ Cur.want = Wanted(Cur.op, Cur.name)
        /\ (Cur.op = "set" /\ Cur.pfx = "__delete")
               => IsInternal(Cur.name) \/ Unhandled(Cur.name, "__set")

\* The references to o from the members and from the running calls.
InTable(t, o) == Cardinality({n \in MemberName : t[n].data = o})
InFrames(fs, o) == Cardinality({i \in 1..Len(fs) : fs[i].method = o})
Is(x, o) == IF x = o THEN 1 ELSE 0
In(o, S) == IF o \in S THEN 1 ELSE 0

Counted ==
    \A o \in ObjectValue :
        count[o] = InTable(table, o) + In(o, var) + InFrames(frames, o) + leaked[o]

TypeInv ==
    /\ table \in [MemberName -> Entry \cup {Absent}]
    /\ count \in [ObjectValue -> Int]
    /\ var \subseteq ObjectValue
    /\ leaked \in [ObjectValue -> Nat]

Inv ==
    /\ TypeInv /\ StackOK(frames, table) /\ FreedOK(frames, table)
    /\ LookOK /\ Counted /\ DispatchFaithful

-----------------------------------------------------------------------------
(* Counting *)

\* What is replaced at one name changes the references from the table by that.
LEMMA InTableSet ==
    ASSUME NEW t \in [MemberName -> Entry \cup {Absent}], NEW n \in MemberName, NEW e,
           NEW o \in ObjectValue
    PROVE  /\ InTable(t, o) \in Nat
           /\ InTable([t EXCEPT ![n] = e], o)
                  = InTable(t, o) - Is(t[n].data, o) + Is(e.data, o)
<1> DEFINE S == {k \in MemberName : t[k].data = o}
           u == [t EXCEPT ![n] = e]
           T == {k \in MemberName : u[k].data = o}
           R == S \ {n}
<1>1. IsFiniteSet(S) /\ IsFiniteSet(R)
  BY MembersAssumption, FS_Subset
<1>2. u[n] = e /\ \A k \in MemberName : k # n => u[k] = t[k]
  OBVIOUS
<1>3. T = IF e.data = o THEN R \cup {n} ELSE R
  BY <1>2
<1>4. S = IF t[n].data = o THEN R \cup {n} ELSE R
  OBVIOUS
<1>5. n \notin R
  OBVIOUS
<1> HIDE DEF R, S, T, u
<1>6. Cardinality(R) \in Nat /\ Cardinality(R \cup {n}) = Cardinality(R) + 1
  BY <1>1, <1>5, FS_AddElement, FS_CardinalityType
<1>7. Cardinality(S) = Cardinality(R) + Is(t[n].data, o)
  BY <1>4, <1>6 DEF Is, In
<1>8. Cardinality(T) = Cardinality(R) + Is(e.data, o)
  BY <1>3, <1>6 DEF Is, In
<1>9. InTable(t, o) = Cardinality(S) /\ InTable(u, o) = Cardinality(T)
  BY DEF InTable, S, T
<1>10. Is(t[n].data, o) \in {0, 1} /\ Is(e.data, o) \in {0, 1}
  BY DEF Is, In
<1> HIDE DEF Is, In
<1>11. QED
  BY <1>6, <1>7, <1>8, <1>9, <1>10 DEF u

\* The reference of a frame that is pushed is added to those of the stack.
LEMMA InFramesPush ==
    ASSUME NEW fs \in Seq(FrameSet), NEW fr \in FrameSet, NEW o \in ObjectValue
    PROVE  /\ InFrames(fs, o) \in Nat
           /\ InFrames(Append(fs, fr), o) = InFrames(fs, o) + Is(fr.method, o)
<1> DEFINE k == Len(fs) + 1
           gs == Append(fs, fr)
           S == {i \in 1..Len(fs) : fs[i].method = o}
           T == {i \in 1..Len(gs) : gs[i].method = o}
<1>1. Len(gs) = k /\ gs[k] = fr /\ Len(fs) \in Nat /\ \A i \in 1..Len(fs) : gs[i] = fs[i]
  OBVIOUS
<1>2. IsFiniteSet(S) /\ k \notin S
  <2>1. IsFiniteSet(1..Len(fs))
    BY <1>1, FS_Interval
  <2>2. IsFiniteSet(S)
    BY <2>1, FS_Subset
  <2>3. QED
    BY <1>1, <2>2
<1>3. 1..k = 1..Len(fs) \cup {k}
  BY <1>1
<1> HIDE DEF gs
<1>4. T = IF fr.method = o THEN S \cup {k} ELSE S
  BY <1>1, <1>3
<1> HIDE DEF S, T
<1>5. Cardinality(S) \in Nat /\ Cardinality(S \cup {k}) = Cardinality(S) + 1
  BY <1>2, FS_AddElement, FS_CardinalityType
<1>6. Cardinality(T) = Cardinality(S) + Is(fr.method, o)
  BY <1>4, <1>5 DEF Is, In
<1>7. QED
  BY <1>5, <1>6 DEF InFrames, S, T, gs

\* The frames below the innermost one.
LEMMA OuterFrames ==
    ASSUME frames \in Seq(FrameSet), frames # <<>>
    PROVE  /\ Outer \in Seq(FrameSet) /\ Len(Outer) = Len(frames) - 1
           /\ \A i \in 1..Len(Outer) : Outer[i] = frames[i]
           /\ Cur \in FrameSet /\ Cur = frames[Len(frames)] /\ Len(frames) \in Nat \ {0}
           /\ frames = Append(Outer, Cur)
<1> DEFINE k == Len(frames) - 1
<1>1. k \in Nat /\ Len(frames) \in Nat \ {0} /\ Outer = SubSeq(frames, 1, k)
      /\ \A i \in 1..k : frames[i] \in FrameSet
  BY DEF Outer
<1>2. Cur \in FrameSet /\ Cur = frames[Len(frames)]
  BY DEF Cur
<1> HIDE DEF k
<1>3. /\ Outer \in Seq(FrameSet)
      /\ Len(Outer) = IF 1 <= k THEN k - 1 + 1 ELSE 0
      /\ \A i \in 1..(k - 1 + 1) : Outer[i] = frames[1 + i - 1]
  BY <1>1, SubSeqProperties
<1>4. k - 1 + 1 = k /\ \A i \in 1..k : 1 + i - 1 = i
  BY <1>1
<1>5. Len(Outer) = k /\ \A i \in 1..k : Outer[i] = frames[i]
  BY <1>1, <1>3, <1>4
<1>6. frames = Append(Outer, Cur)
  BY <1>1, <1>2, <1>3, <1>5 DEF k
<1>7. QED
  BY <1>1, <1>2, <1>3, <1>5, <1>6 DEF k

\* The references of the stack without its innermost frame, and with another one.
LEMMA InFramesOuter ==
    ASSUME frames \in Seq(FrameSet), frames # <<>>, NEW o \in ObjectValue
    PROVE  /\ InFrames(Outer, o) \in Nat /\ InFrames(frames, o) \in Nat
           /\ InFrames(Outer, o) = InFrames(frames, o) - Is(Cur.method, o)
           /\ \A fr \in FrameSet :
                  InFrames(Goto(fr), o) = InFrames(frames, o) - Is(Cur.method, o) + Is(fr.method, o)
<1>1. Outer \in Seq(FrameSet) /\ Cur \in FrameSet /\ frames = Append(Outer, Cur)
  BY OuterFrames
<1>2. InFrames(Outer, o) \in Nat /\ InFrames(frames, o) = InFrames(Outer, o) + Is(Cur.method, o)
  BY <1>1, InFramesPush
<1>3. \A fr \in FrameSet : InFrames(Goto(fr), o) = InFrames(Outer, o) + Is(fr.method, o)
  BY <1>1, InFramesPush DEF Goto
<1>4. Is(Cur.method, o) \in {0, 1} /\ \A fr : Is(fr.method, o) \in {0, 1}
  BY DEF Is, In
<1> HIDE DEF Is, In
<1>5. QED
  BY <1>2, <1>3, <1>4

-----------------------------------------------------------------------------
(* The stack *)

NoLook(fs) == \A i \in 1..Len(fs) : fs[i].pc # "look"

\* A frame may be pushed on frames that are not looking for a handler, if it does
\* not touch what they replace.
LEMMA PushOK ==
    ASSUME NEW fs, NEW t, StackOK(fs, t), NoLook(fs), NEW fr, FrameOK(fr),
           fr.pc = "write" => t[fr.name] # Absent /\ t[fr.name].data = "freed",
           fr.pc = "write" => Untouched(fs, fr.name)
    PROVE  StackOK(Append(fs, fr), t)
<1> DEFINE k == Len(fs) + 1
           gs == Append(fs, fr)
<1>1. fr \in FrameSet /\ fs \in Seq(FrameSet) /\ Len(fs) \in Nat
  <2>1. fr \in FrameSet
    BY DEF FrameOK
  <2>2. fs \in Seq(FrameSet)
    BY DEF StackOK
  <2>3. QED
    BY <2>1, <2>2
<1>2. /\ gs \in Seq(FrameSet) /\ Len(gs) = k /\ gs[k] = fr
      /\ \A i \in 1..Len(fs) : gs[i] = fs[i] /\ i < k
      /\ 1..k = 1..Len(fs) \cup {k}
  BY <1>1
<1> HIDE DEF gs
<1>3. \A i \in 1..Len(gs) :
          /\ FrameOK(gs[i])
          /\ gs[i].pc = "look" => i = Len(gs)
          /\ gs[i].pc = "write" => t[gs[i].name] # Absent /\ t[gs[i].name].data = "freed"
  <2>1. ASSUME NEW i \in 1..Len(fs)
        PROVE  /\ FrameOK(gs[i]) /\ gs[i].pc # "look"
               /\ gs[i].pc = "write" => t[gs[i].name] # Absent /\ t[gs[i].name].data = "freed"
    BY <1>2 DEF StackOK, NoLook
  <2>2. QED
    BY <1>2, <2>1
<1>4. ASSUME NEW i \in 1..Len(gs), NEW j \in 1..Len(gs), i < j, gs[i].pc = "write",
             gs[j].pc = "write"
      PROVE  gs[j].name # gs[i].name
  <2>1. i \in 1..Len(fs) /\ (j = k \/ j \in 1..Len(fs))
    BY <1>1, <1>2, <1>4
  <2>2. QED
    BY <1>2, <1>4, <2>1 DEF StackOK, Untouched
<1>5. QED
  BY <1>2, <1>3, <1>4 DEF StackOK, gs

\* The frames below the innermost one are not looking for a handler, and do not
\* replace what that one sets or removes.
LEMMA OuterOK ==
    ASSUME NEW t, StackOK(frames, t), frames # <<>>
    PROVE  /\ StackOK(Outer, t) /\ NoLook(Outer)
           /\ FrameOK(Cur)
           /\ Cur.pc = "write" => t[Cur.name] # Absent /\ t[Cur.name].data = "freed"
           /\ Cur.pc = "write" => Untouched(Outer, Cur.name)
<1> DEFINE k == Len(frames)
<1>1. frames \in Seq(FrameSet)
  BY DEF StackOK
<1>2. /\ Outer \in Seq(FrameSet) /\ Len(Outer) = k - 1 /\ k \in Nat \ {0} /\ k \in 1..k
      /\ \A i \in 1..Len(Outer) : Outer[i] = frames[i] /\ i \in 1..k /\ i < k
      /\ Cur = frames[k]
  BY <1>1, OuterFrames
<1>3. FrameOK(Cur) /\ (Cur.pc = "write" => t[Cur.name] # Absent /\ t[Cur.name].data = "freed")
  BY <1>2 DEF StackOK
<1>4. \A i \in 1..Len(Outer) :
          /\ FrameOK(Outer[i]) /\ Outer[i].pc # "look"
          /\ Outer[i].pc = "write" => t[Outer[i].name] # Absent /\ t[Outer[i].name].data = "freed"
  BY <1>2 DEF StackOK
<1>5. Cur.pc = "write" => Untouched(Outer, Cur.name)
  <2>1. ASSUME Cur.pc = "write", NEW i \in 1..Len(Outer), Outer[i].pc = "write"
        PROVE  Outer[i].name # Cur.name
    <3>1. i \in 1..k /\ k \in 1..k /\ i < k /\ frames[i].pc = "write" /\ frames[k].pc = "write"
      BY <1>2, <2>1
    <3>2. frames[k].name # frames[i].name
      BY <3>1 DEF StackOK
    <3>3. QED
      BY <1>2, <2>1, <3>2
  <2>2. QED
    BY <2>1 DEF Untouched
<1>6. \A i, j \in 1..Len(Outer) :
          (i < j /\ Outer[i].pc = "write" /\ Outer[j].pc = "write")
              => Outer[j].name # Outer[i].name
  <2>1. ASSUME NEW i \in 1..Len(Outer), NEW j \in 1..Len(Outer),
               i < j, Outer[i].pc = "write", Outer[j].pc = "write"
        PROVE  Outer[j].name # Outer[i].name
    <3>1. /\ i \in 1..k /\ j \in 1..k /\ i < j
          /\ Outer[i] = frames[i] /\ Outer[j] = frames[j]
      BY <1>2, <2>1
    <3>2. frames[i].pc = "write" /\ frames[j].pc = "write"
      BY <2>1, <3>1
    <3>3. frames[j].name # frames[i].name
      BY <3>1, <3>2 DEF StackOK
    <3>4. QED
      BY <3>1, <3>3
  <2>2. QED
    BY <2>1
<1>7. QED
  BY <1>2, <1>3, <1>4, <1>5, <1>6 DEF StackOK, NoLook

\* The innermost frame goes on.
LEMMA GotoOK ==
    ASSUME NEW t, StackOK(frames, t), frames # <<>>, NEW fr, FrameOK(fr),
           fr.pc # "write"
    PROVE  StackOK(Goto(fr), t)
BY OuterOK, PushOK DEF Goto

\* The frame of a destructor.
LEMMA DtorOK ==
    ASSUME NEW o \in ObjectValue
    PROVE  FrameOK(DtorOf(o)) /\ DtorOf(o).op = "dtor" /\ DtorOf(o).pc = "dtor" /\ DtorOf(o).method = Nothing
<1> DEFINE d == DtorOf(o)
<1> DEFINE E == <<>>
           Calls1 == {CallsOf(w) : w \in Handler \cup {NoName}}
<1>1. E = CallsOf(NoName) /\ E \in Calls1
  BY DEF CallsOf
<1>2. NoFrame = [op |-> Nothing, name |-> NoName, val |-> Nothing, pfx |-> Nothing, pc |-> Nothing,
                 method |-> Nothing, calls |-> E, want |-> NoName, rc |-> 0]
  BY DEF NoFrame
<1> HIDE DEF E, Calls1
<1>3. d \in [op : {"dtor"}, name : {NoName}, val : {o}, pfx : {Nothing}, pc : {"dtor"},
             method : {Nothing}, calls : {E}, want : {NoName}, rc : {0}]
  BY <1>2 DEF DtorOf
<1> HIDE DEF d
<1>4. d \in FrameSet
  BY <1>1, <1>3 DEF FrameSet, MemberValue, Calls1
<1>5. QED
  BY <1>1, <1>3, <1>4 DEF FrameOK, Ops, d

\* The table may change where nobody is replacing.
LEMMA TableOK ==
    ASSUME NEW fs, NEW t \in [MemberName -> Entry \cup {Absent}], NEW u, StackOK(fs, t), NEW n \in MemberName,
           Untouched(fs, n), \A m \in MemberName : m # n => u[m] = t[m]
    PROVE  StackOK(fs, u)
<1>1. ASSUME NEW i \in 1..Len(fs), fs[i].pc = "write"
      PROVE  u[fs[i].name] = t[fs[i].name]
  <2>1. fs[i].name \in MemberName /\ fs[i].name # n
    BY <1>1 DEF StackOK, FrameOK, Untouched, Ops
  <2>2. QED
    BY <2>1
<1>2. QED
  BY <1>1 DEF StackOK

\* Who replaces n when a frame is pushed.
LEMMA UntouchedPush ==
    ASSUME NEW fs \in Seq(FrameSet), NEW fr \in FrameSet, NEW n
    PROVE  Untouched(Append(fs, fr), n) <=> Untouched(fs, n) /\ (fr.pc = "write" => fr.name # n)
<1> DEFINE k == Len(fs) + 1
           gs == Append(fs, fr)
<1>1. Len(gs) = k /\ gs[k] = fr /\ Len(fs) \in Nat /\ \A i \in 1..Len(fs) : gs[i] = fs[i]
  OBVIOUS
<1>2. 1..k = 1..Len(fs) \cup {k}
  BY <1>1
<1> HIDE DEF gs
<1>3. Untouched(gs, n) <=> Untouched(fs, n) /\ (fr.pc = "write" => fr.name # n)
  BY <1>1, <1>2 DEF Untouched
<1>4. QED
  BY <1>3 DEF gs

\* A frame that is pushed hides nothing.
LEMMA FreedPush ==
    ASSUME NEW fs \in Seq(FrameSet), NEW fr \in FrameSet, NEW t, FreedOK(fs, t)
    PROVE  FreedOK(Append(fs, fr), t)
BY UntouchedPush DEF FreedOK

\* The table may change to what was not freed.
LEMMA FreedTable ==
    ASSUME NEW fs, NEW t, NEW u, NEW n, FreedOK(fs, t),
           \A m \in MemberName : m # n => u[m] = t[m], u[n].data # "freed"
    PROVE  FreedOK(fs, u)
BY DEF FreedOK

\* Without the innermost frame, when that one replaces n, which is replaced.
LEMMA FreedOuterBut ==
    ASSUME Inv, frames # <<>>, NEW n, Cur.pc = "write" => Cur.name = n,
           NEW u, \A m \in MemberName : m # n => u[m] = table[m], u[n].data # "freed"
    PROVE  FreedOK(Outer, u)
<1>1. frames \in Seq(FrameSet) /\ FreedOK(frames, table)
  BY DEF Inv, StackOK
<1>2. Outer \in Seq(FrameSet) /\ Cur \in FrameSet /\ frames = Append(Outer, Cur)
  BY <1>1, OuterFrames
<1>3. ASSUME NEW m \in MemberName, u[m].data = "freed" PROVE ~Untouched(Outer, m)
  <2>1. m # n /\ table[m].data = "freed"
    BY <1>3
  <2>2. ~Untouched(frames, m)
    BY <1>1, <2>1 DEF FreedOK
  <2>3. Untouched(frames, m) <=> Untouched(Outer, m) /\ (Cur.pc = "write" => Cur.name # m)
    BY <1>2, UntouchedPush
  <2>4. QED
    BY <2>1, <2>2, <2>3
<1>4. QED
  BY <1>3 DEF FreedOK

\* Without the innermost frame, when that one replaces nothing, and with another.
LEMMA FreedOuter ==
    ASSUME Inv, frames # <<>>, Cur.pc # "write"
    PROVE  FreedOK(Outer, table) /\ \A fr \in FrameSet : FreedOK(Goto(fr), table)
<1>1. frames \in Seq(FrameSet) /\ FreedOK(frames, table)
  BY DEF Inv, StackOK
<1>2. Outer \in Seq(FrameSet) /\ Cur \in FrameSet /\ frames = Append(Outer, Cur)
  BY <1>1, OuterFrames
<1>3. \A m : Untouched(frames, m) <=> Untouched(Outer, m)
  BY <1>2, UntouchedPush
<1>4. FreedOK(Outer, table)
  BY <1>1, <1>3 DEF FreedOK
<1>5. QED
  BY <1>2, <1>4, FreedPush DEF Goto

\* Nobody else replaces what is not being replaced.
LEMMA NotReplacing ==
    ASSUME Inv, NEW n, ~Replacing(n)
    PROVE  Untouched(frames, n) /\ (frames # <<>> => Untouched(Outer, n))
<1>1. Untouched(frames, n)
  BY DEF Replacing, Untouched
<1>2. ASSUME frames # <<>> PROVE Untouched(Outer, n)
  <2>1. frames \in Seq(FrameSet)
    BY DEF Inv, StackOK
  <2>2. Outer \in Seq(FrameSet) /\ Cur \in FrameSet /\ frames = Append(Outer, Cur)
    BY <1>2, <2>1, OuterFrames
  <2>3. QED
    BY <1>1, <2>2, UntouchedPush
<1>3. QED
  BY <1>1, <1>2

\* A release keeps the stack sound and counts right: what was counted for v is
\* no longer there.
LEMMA ReleaseOK ==
    ASSUME TypeInv, NEW v, NEW fs, NEW t, StackOK(fs, t), NoLook(fs), ReleaseValue(v, fs)
    PROVE  /\ StackOK(frames', t) /\ NoLook(frames')
           /\ FreedOK(fs, t) => FreedOK(frames', t)
           /\ count' \in [ObjectValue -> Int]
           /\ \A o \in ObjectValue : /\ count'[o] = count[o] - Is(v, o)
                                     /\ InFrames(frames', o) = InFrames(fs, o)
<1>1. fs \in Seq(FrameSet)
  BY DEF StackOK
<1>2. /\ count' \in [ObjectValue -> Int]
      /\ \A o \in ObjectValue : count'[o] = count[o] - Is(v, o)
  BY DEF ReleaseValue, TypeInv, Is, In
<1>3. CASE frames' = fs
  BY <1>2, <1>3
<1>4. CASE v \in ObjectValue /\ frames' = Append(fs, DtorOf(v))
  <2> DEFINE d == DtorOf(v)
  <2>1. FrameOK(d) /\ d.op = "dtor" /\ d.pc = "dtor" /\ d.method = Nothing
    BY <1>4, DtorOK
  <2> HIDE DEF d
  <2>2. d \in FrameSet
    BY <2>1 DEF FrameOK
  <2>3. StackOK(Append(fs, d), t)
    BY <2>1, PushOK
  <2>4. NoLook(Append(fs, d))
    BY <1>1, <2>1, <2>2 DEF NoLook
  <2>5. ASSUME NEW o \in ObjectValue PROVE InFrames(Append(fs, d), o) = InFrames(fs, o)
    <3>1. Nothing # o
      BY MembersAssumption DEF MemberValue
    <3>2. InFrames(fs, o) \in Nat /\ InFrames(Append(fs, d), o) = InFrames(fs, o) + Is(d.method, o)
      BY <1>1, <2>2, InFramesPush
    <3>3. Is(d.method, o) = 0
      BY <2>1, <3>1 DEF Is, In
    <3>4. QED
      BY <3>2, <3>3
  <2>6. FreedOK(fs, t) => FreedOK(Append(fs, d), t)
    BY <1>1, <2>2, FreedPush
  <2>7. QED
    BY <1>2, <1>4, <2>3, <2>4, <2>5, <2>6 DEF d
<1>5. QED
  BY <1>3, <1>4 DEF ReleaseValue

-----------------------------------------------------------------------------
(* User code *)

\* User code runs when no look-up is under way.
LEMMA UserNoLook ==
    ASSUME NEW t, StackOK(frames, t), CodeRuns
    PROVE  NoLook(frames)
<1>1. frames \in Seq(FrameSet)
  BY DEF StackOK
<1>2. ASSUME NEW i \in 1..Len(frames), frames[i].pc = "look" PROVE FALSE
  <2>1. i = Len(frames) /\ frames # <<>>
    BY <1>1, <1>2 DEF StackOK
  <2>2. QED
    BY <1>2, <2>1 DEF CodeRuns, Cur
<1>3. QED
  BY <1>2 DEF NoLook

\* A new reference is counted.
LEMMA HeldOK ==
    ASSUME TypeInv, NEW v
    PROVE  /\ Held(v) \in [ObjectValue -> Int]
           /\ \A o \in ObjectValue : Held(v)[o] = count[o] + Is(v, o)
BY DEF TypeInv, Held, Is, In

\* A counter of one reference is 0 or 1.
LEMMA OneInt == /\ \A x, o : Is(x, o) \in {0, 1}
               /\ \A o, S : In(o, S) \in {0, 1}
BY DEF Is, In

\* No object is the content of a member that is absent or being replaced.
LEMMA NotData ==
    ASSUME NEW o \in ObjectValue
    PROVE  Nothing # o /\ "freed" # o /\ "garbage" # o /\ Absent.data # o
BY MembersAssumption DEF MemberValue, Absent

\* The entry of a value.
LEMMA ValueEntry ==
    ASSUME NEW v \in MemberValue
    PROVE  /\ [type |-> TypeOf(v), data |-> v] \in Entry
           /\ [type |-> TypeOf(v), data |-> v] # Absent
           /\ [type |-> TypeOf(v), data |-> v].data = v
<1>1. CASE v \in ObjectValue
  <2>1. TypeOf(v) = "object" /\ v # Nothing
    BY <1>1, MembersAssumption DEF TypeOf
  <2>2. QED
    BY <1>1, <2>1 DEF Entry, Absent
<1>2. CASE v \notin ObjectValue
  <2>1. TypeOf(v) = v /\ v \in Plain /\ v # Nothing
    BY <1>2, MembersAssumption DEF TypeOf, MemberValue
  <2>2. QED
    BY <2>1 DEF Entry, Absent
<1>3. QED
  BY <1>1, <1>2

\* Nobody is replacing a member that is absent.
LEMMA AbsentUntouched ==
    ASSUME NEW fs, NEW t, StackOK(fs, t), NEW n, t[n] = Absent
    PROVE  Untouched(fs, n)
BY DEF StackOK, Untouched

\* The parts of the invariant, for a step after which no look-up is under way.
LEMMA Assemble ==
    ASSUME TypeInv', StackOK(frames', table'), FreedOK(frames', table'), NoLook(frames'), Counted',
           DispatchFaithful'
    PROVE  Inv'
<1>1. LookOK'
  <2>1. SUFFICES ASSUME frames' # <<>>, frames'[Len(frames')].pc = "look" PROVE FALSE
    BY DEF LookOK, Cur
  <2>2. frames' \in Seq(FrameSet)
    BY DEF StackOK
  <2>3. Len(frames') \in 1..Len(frames')
    BY <2>1, <2>2
  <2>4. QED
    BY <2>1, <2>3 DEF NoLook
<1>2. QED
  BY <1>1 DEF Inv

\* What has not returned is no matter of dispatch.
LEMMA NothingDone ==
    ASSUME done' = NoFrame
    PROVE  DispatchFaithful'
<1>1. NoFrame.calls = <<>> /\ NoFrame.want = NoName
  BY DEF NoFrame
<1>2. CallsOf(NoName) = <<>>
  BY DEF CallsOf
<1>3. QED
  BY <1>1, <1>2 DEF DispatchFaithful

\* One entry of the table changes.
LEMMA TableChange ==
    ASSUME TypeInv, NEW n \in MemberName, NEW e \in Entry \cup {Absent}, table' = [table EXCEPT ![n] = e]
    PROVE  /\ table' \in [MemberName -> Entry \cup {Absent}]
           /\ table'[n] = e /\ \A m \in MemberName : m # n => table'[m] = table[m]
           /\ \A o \in ObjectValue :
                  /\ InTable(table, o) \in Nat
                  /\ InTable(table', o) = InTable(table, o) - Is(table[n].data, o) + Is(e.data, o)
<1>1. table \in [MemberName -> Entry \cup {Absent}]
  BY DEF TypeInv
<1>2. ASSUME NEW o \in ObjectValue
      PROVE  /\ InTable(table, o) \in Nat
             /\ InTable([table EXCEPT ![n] = e], o)
                    = InTable(table, o) - Is(table[n].data, o) + Is(e.data, o)
  BY <1>1, InTableSet
<1>3. QED
  BY <1>1, <1>2

\* What the counts are made of.
LEMMA CountParts ==
    ASSUME Inv, NEW o \in ObjectValue
    PROVE  /\ count[o] = InTable(table, o) + In(o, var) + InFrames(frames, o) + leaked[o]
           /\ In(o, var) \in Int /\ InFrames(frames, o) \in Int /\ leaked[o] \in Int
           /\ InTable(table, o) \in Nat
           /\ \A x : Is(x, o) \in Int
           /\ Is(Nothing, o) = 0 /\ Is("freed", o) = 0 /\ Is("garbage", o) = 0
           /\ Is(Absent.data, o) = 0
<1>1. frames \in Seq(FrameSet)
  BY DEF Inv, StackOK
<1>2. DtorOf(o) \in FrameSet
  BY DtorOK DEF FrameOK
<1>3. InFrames(frames, o) \in Nat
  BY <1>1, <1>2, InFramesPush
<1>4. InTable(table, o) \in Nat
  <2>1. IsFiniteSet({n \in MemberName : table[n].data = o})
    BY MembersAssumption, FS_Subset
  <2>2. QED
    BY <2>1, FS_CardinalityType DEF InTable
<1>5. Is(Nothing, o) = 0 /\ Is("freed", o) = 0 /\ Is("garbage", o) = 0 /\ Is(Absent.data, o) = 0
  BY NotData DEF Is, In
<1>6. QED
  BY <1>3, <1>4, <1>5, OneInt DEF Inv, TypeInv, Counted

\* di_add_member_clone
LEMMA AddMemberInv ==
    ASSUME Inv, NEW n \in MemberName, NEW v \in MemberValue, AddMember(n, v)
    PROVE  Inv'
<1> DEFINE e == [type |-> TypeOf(v), data |-> v]
<1>1. table \in [MemberName -> Entry \cup {Absent}] /\ table[n] = Absent /\ StackOK(frames, table) /\ TypeInv
  BY DEF Inv, TypeInv, AddMember, CheckNewMember, Has
<1>2. e \in Entry /\ e.data = v /\ table' = [table EXCEPT ![n] = e]
  BY ValueEntry DEF AddMember
<1> HIDE DEF e
<1>3. TypeInv'
  BY <1>1, <1>2, HeldOK DEF TypeInv, AddMember
<1>4. StackOK(frames', table')
  <2>1. Untouched(frames, n)
    BY <1>1, AbsentUntouched
  <2>2. \A m \in MemberName : m # n => table'[m] = table[m]
    BY <1>1, <1>2, TableChange
  <2>3. StackOK(frames, table')
    BY <1>1, <2>1, <2>2, TableOK
  <2>4. QED
    BY <2>3 DEF AddMember
<1>5. ASSUME NEW o \in ObjectValue
      PROVE  count'[o] = InTable(table', o) + In(o, var') + InFrames(frames', o) + leaked'[o]
  <2>1. InTable(table', o) = InTable(table, o) - Is(Absent.data, o) + Is(v, o)
    BY <1>1, <1>2, TableChange
  <2>2. count'[o] = count[o] + Is(v, o)
    BY <1>1, HeldOK DEF AddMember
  <2>3. var' = var /\ frames' = frames /\ leaked' = leaked
    BY DEF AddMember
  <2>4. QED
    BY <2>1, <2>2, <2>3, CountParts
<1>6. NoLook(frames')
  BY <1>1, UserNoLook DEF AddMember
<1>7. DispatchFaithful'
  BY NothingDone DEF AddMember
<1>8. FreedOK(frames', table')
  <2>1. v # "freed" /\ FreedOK(frames, table) /\ table'[n] = e
        /\ \A m \in MemberName : m # n => table'[m] = table[m]
    BY <1>1, <1>2, MembersAssumption, TableChange DEF Inv
  <2>2. table'[n].data # "freed"
    BY <1>2, <2>1
  <2>3. FreedOK(frames, table')
    BY <2>1, <2>2, FreedTable
  <2>4. QED
    BY <2>3 DEF AddMember
<1>9. QED
  BY <1>3, <1>4, <1>5, <1>6, <1>7, <1>8, Assemble DEF Counted

\* di_rawgetx
LEMMA RawGetXInv ==
    ASSUME Inv, NEW n \in MemberName, RawGetX(n)
    PROVE  Inv'
<1> DEFINE v == table[n].data
<1>1. StackOK(frames, table) /\ TypeInv /\ v \in ObjectValue /\ v \notin var
  BY DEF Inv, RawGetX
<1>2. table' = table /\ frames' = frames /\ leaked' = leaked /\ var' = var \cup {v} /\ count' = Held(v)
  BY DEF RawGetX
<1> HIDE DEF v
<1>3. TypeInv'
  BY <1>1, <1>2, HeldOK DEF TypeInv
<1>4. ASSUME NEW o \in ObjectValue
      PROVE  count'[o] = InTable(table', o) + In(o, var') + InFrames(frames', o) + leaked'[o]
  <2>1. count'[o] = count[o] + Is(v, o)
    BY <1>1, <1>2, HeldOK
  <2>2. In(o, var') = In(o, var) + Is(v, o)
    BY <1>1, <1>2 DEF Is, In
  <2>3. QED
    BY <1>2, <2>1, <2>2, CountParts
<1>5. NoLook(frames')
  BY <1>1, <1>2, UserNoLook DEF RawGetX
<1>6. DispatchFaithful'
  BY NothingDone DEF RawGetX
<1>7. FreedOK(frames', table')
  BY <1>2 DEF Inv
<1>8. QED
  BY <1>1, <1>2, <1>3, <1>4, <1>5, <1>6, <1>7, Assemble DEF Counted

\* User code gives a reference up.
LEMMA DropReferenceInv ==
    ASSUME Inv, NEW v \in ObjectValue, DropReference(v)
    PROVE  Inv'
<1>1. StackOK(frames, table) /\ TypeInv /\ v \in var /\ NoLook(frames)
  BY UserNoLook DEF Inv, DropReference
<1>2. table' = table /\ leaked' = leaked /\ var' = var \ {v} /\ ReleaseValue(v, frames)
  BY DEF DropReference
<1>3. /\ StackOK(frames', table) /\ NoLook(frames')
      /\ FreedOK(frames, table) => FreedOK(frames', table)
      /\ count' \in [ObjectValue -> Int]
      /\ \A o \in ObjectValue : /\ count'[o] = count[o] - Is(v, o)
                                /\ InFrames(frames', o) = InFrames(frames, o)
  BY <1>1, <1>2, ReleaseOK
<1>4. TypeInv'
  BY <1>1, <1>2, <1>3 DEF TypeInv
<1>5. ASSUME NEW o \in ObjectValue
      PROVE  count'[o] = InTable(table', o) + In(o, var') + InFrames(frames', o) + leaked'[o]
  <2>1. In(o, var') = In(o, var) - Is(v, o)
    BY <1>1, <1>2 DEF Is, In
  <2>2. QED
    BY <1>2, <1>3, <2>1, CountParts
<1>6. DispatchFaithful'
  BY NothingDone DEF DropReference
<1>7. FreedOK(frames', table')
  BY <1>2, <1>3 DEF Inv
<1>8. QED
  BY <1>2, <1>3, <1>4, <1>5, <1>6, <1>7, Assemble DEF Counted

\* di_remove_member_raw
LEMMA RemoveRawByUserInv ==
    ASSUME Inv, NEW n \in MemberName, RemoveRawByUser(n)
    PROVE  Inv'
<1> DEFINE v == table[n].data
<1>1. StackOK(frames, table) /\ TypeInv /\ NoLook(frames)
  BY UserNoLook DEF Inv, RemoveRawByUser
<1>2. table' = [table EXCEPT ![n] = Absent] /\ leaked' = leaked /\ var' = var /\ ReleaseValue(v, frames)
  BY DEF RemoveRawByUser
<1>3. Untouched(frames, n)
  BY NotReplacing DEF RemoveRawByUser
<1>4. StackOK(frames, table') /\ table' \in [MemberName -> Entry \cup {Absent}]
  BY <1>1, <1>2, <1>3, TableOK, TableChange DEF TypeInv
<1> FreedOK(frames, table')
  <2>1. Absent.data # "freed" /\ FreedOK(frames, table) /\ table'[n] = Absent
        /\ \A m \in MemberName : m # n => table'[m] = table[m]
    BY <1>1, <1>2, TableChange DEF Inv, Absent, Nothing
  <2>2. QED
    BY <2>1, FreedTable
<1>5. \A o \in ObjectValue : InTable(table', o) = InTable(table, o) - Is(v, o) + Is(Absent.data, o)
  BY <1>1, <1>2, TableChange
<1> HIDE DEF v
<1>6. /\ StackOK(frames', table') /\ NoLook(frames') /\ FreedOK(frames', table')
      /\ count' \in [ObjectValue -> Int]
      /\ \A o \in ObjectValue : /\ count'[o] = count[o] - Is(v, o)
                                /\ InFrames(frames', o) = InFrames(frames, o)
  BY <1>1, <1>2, <1>4, ReleaseOK
<1>7. TypeInv'
  BY <1>1, <1>2, <1>4, <1>6 DEF TypeInv
<1>8. ASSUME NEW o \in ObjectValue
      PROVE  count'[o] = InTable(table', o) + In(o, var') + InFrames(frames', o) + leaked'[o]
  <2>1. InTable(table', o) = InTable(table, o) - Is(v, o) + Is(Absent.data, o)
    BY <1>5
  <2>2. count'[o] = count[o] - Is(v, o) /\ InFrames(frames', o) = InFrames(frames, o)
    BY <1>6
  <2>3. QED
    BY <1>2, <2>1, <2>2, CountParts
<1>9. DispatchFaithful'
  BY NothingDone DEF RemoveRawByUser
<1>10. QED
  BY <1>6, <1>7, <1>8, <1>9, Assemble DEF Counted

-----------------------------------------------------------------------------
(* Which handler is wanted *)

\* A pair is not the absence of a name.
LEMMA PairIsName == \A x, y : <<x, y>> # NoName
<1> TAKE x, y
<1>1. Len(<<x, y>>) = 2 /\ Len(<<>>) = 0
  OBVIOUS
<1>2. QED
  BY <1>1 DEF NoName

\* The parts of a pair.
LEMMA PairParts ==
    ASSUME NEW A, NEW B, NEW n \in A \X B
    PROVE  n = <<n[1], n[2]>> /\ n[1] \in A /\ n[2] \in B
OBVIOUS

\* A name is a pair, and a plain one is not empty.
LEMMA NameShape ==
    ASSUME NEW n \in MemberName
    PROVE  /\ n[1] \in {""} \cup Prefix
           /\ n[1] = "" => n[2] # ""
           /\ n # NoName
<1>1. n \in ({""} \cup Prefix) \X STRING
  BY MembersAssumption
<1>2. n = <<n[1], n[2]>> /\ n[2] \in STRING /\ n[1] \in {""} \cup Prefix
  BY <1>1, PairParts
<1>3. n[1] = "" => n[2] # ""
  BY <1>2, MembersAssumption
<1>4. n # NoName
  BY <1>2, PairIsName
<1>5. QED
  BY <1>2, <1>3, <1>4

\* The handlers under a prefix.
LEMMA HandlerShape ==
    ASSUME NEW n \in MemberName, NEW p \in Prefix
    PROVE  /\ Specific(n, p) \in Handler /\ Generic(p) \in Handler
           /\ Specific(n, p)[1] = p /\ Generic(p)[1] = p
           /\ Specific(n, p)[2] = n[2] /\ Generic(p)[2] = ""
           /\ Specific(n, p) # NoName /\ Generic(p) # NoName
<1>2. Specific(n, p) # NoName /\ Generic(p) # NoName
  BY PairIsName DEF Specific, Generic
<1>3. \A x : <<p, x>>[1] = p /\ <<p, x>>[2] = x
  OBVIOUS
<1>4. n[2] \in Base /\ "" \in Base
  BY DEF Base
<1>5. \A x \in Base : <<p, x>> \in Handler
  BY DEF Handler
<1>6. QED
  BY <1>2, <1>3, <1>4, <1>5 DEF Specific, Generic

\* What an operation wants is the first handler of its order.
LEMMA WantedFirst ==
    ASSUME NEW op, NEW n, NEW k \in Nat \ {0}, Len(Order(op, n)) = k, NEW i \in 1..k,
           CallableMember(Order(op, n)[i]),
           \A j \in 1..k : j < i => ~CallableMember(Order(op, n)[j])
    PROVE  Wanted(op, n) = Order(op, n)[i]
<1> DEFINE hits == {j \in 1..k : CallableMember(Order(op, n)[j])}
           c == CHOOSE j \in hits : \A l \in hits : j <= l
<1>1. i \in hits /\ \A l \in hits : i <= l
  OBVIOUS
<1>2. c \in hits /\ \A l \in hits : c <= l
  BY <1>1
<1>3. c = i
  BY <1>1, <1>2
<1>4. Wanted(op, n) = IF hits = {} THEN NoName ELSE Order(op, n)[c]
  BY DEF Wanted
<1>5. QED
  BY <1>1, <1>3, <1>4

\* Nothing is wanted when no handler of the order can be called.
LEMMA WantedNone ==
    ASSUME NEW op, NEW n, \A j \in 1..Len(Order(op, n)) : ~CallableMember(Order(op, n)[j])
    PROVE  Wanted(op, n) = NoName
BY DEF Wanted

\* What is wanted is a handler.
LEMMA WantedShape ==
    ASSUME NEW op \in Ops, NEW n \in MemberName
    PROVE  Wanted(op, n) \in Handler \cup {NoName}
<1> DEFINE hits == {j \in 1..Len(Order(op, n)) : CallableMember(Order(op, n)[j])}
           c == CHOOSE j \in hits : \A l \in hits : j <= l
<1>1. \A p \in Prefix : Specific(n, p) \in Handler /\ Generic(p) \in Handler
  BY HandlerShape
<1>2. \A j \in 1..Len(Order(op, n)) : Order(op, n)[j] \in Handler
  BY <1>1 DEF Order, Ops, Prefix
<1>3. Len(Order(op, n)) \in Nat
  BY DEF Order, Ops
<1>4. CASE hits = {}
  BY <1>4 DEF Wanted
<1>5. CASE hits # {}
  <2>1. \E j \in hits : \A l \in hits : j <= l
    <3>1. hits \subseteq 1..4
      BY DEF Order, Ops
    <3>2. QED
      BY <1>5, <3>1
  <2>2. c \in hits
    BY <2>1
  <2>3. Wanted(op, n) = Order(op, n)[c]
    BY <1>5 DEF Wanted
  <2>4. QED
    BY <1>2, <2>2, <2>3
<1>6. QED
  BY <1>4, <1>5

\* The first handler under the prefix being looked for is the one that is wanted,
\* the setters having been looked for before the deleters.
LEMMA WantedFound ==
    ASSUME NEW op \in Ops, NEW n \in MemberName, ~IsInternal(n), NEW p \in PrefixesOf(op),
           (op = "set" /\ p = "__delete") => Unhandled(n, "__set")
    PROVE  /\ CallableMember(Specific(n, p)) => Wanted(op, n) = Specific(n, p)
           /\ (~CallableMember(Specific(n, p)) /\ CallableMember(Generic(p)))
                  => Wanted(op, n) = Generic(p)
<1> DEFINE s == Specific(n, p)
           g == Generic(p)
<1>1. CASE op = "set"
  <2> DEFINE a == Specific(n, "__set")
             b == Generic("__set")
             c == Specific(n, "__delete")
             d == Generic("__delete")
  <2>1. Order(op, n) = <<a, b, c, d>>
    BY <1>1 DEF Order
  <2> HIDE DEF a, b, c, d
  <2>2. /\ Len(Order(op, n)) = 4 /\ Order(op, n)[1] = a /\ Order(op, n)[2] = b
        /\ Order(op, n)[3] = c /\ Order(op, n)[4] = d
    BY <2>1
  <2>3. CASE p = "__set"
    <3>1. s = a /\ g = b
      BY <2>3 DEF a, b
    <3>2. CallableMember(a) => Wanted(op, n) = a
      <4>1. SUFFICES ASSUME CallableMember(a) PROVE Wanted(op, n) = a
        OBVIOUS
      <4>2. \A j \in 1..4 : j < 1 => ~CallableMember(Order(op, n)[j])
        OBVIOUS
      <4>3. CallableMember(Order(op, n)[1]) /\ 1 \in 1..4 /\ 4 \in Nat \ {0}
        BY <2>2, <4>1
      <4>4. Wanted(op, n) = Order(op, n)[1]
        BY <2>2, <4>2, <4>3, WantedFirst
      <4>5. QED
        BY <2>2, <4>4
    <3>3. ~CallableMember(a) /\ CallableMember(b) => Wanted(op, n) = b
      <4>1. SUFFICES ASSUME ~CallableMember(a), CallableMember(b) PROVE Wanted(op, n) = b
        OBVIOUS
      <4>2. \A j \in 1..4 : j < 2 => ~CallableMember(Order(op, n)[j])
        BY <2>2, <4>1
      <4>3. CallableMember(Order(op, n)[2]) /\ 2 \in 1..4 /\ 4 \in Nat \ {0}
        BY <2>2, <4>1
      <4>4. Wanted(op, n) = Order(op, n)[2]
        BY <2>2, <4>2, <4>3, WantedFirst
      <4>5. QED
        BY <2>2, <4>4
    <3>4. QED
      BY <3>1, <3>2, <3>3
  <2>4. CASE p = "__delete"
    <3>1. s = c /\ g = d /\ ~CallableMember(a) /\ ~CallableMember(b)
      BY <1>1, <2>4 DEF a, b, c, d, Unhandled
    <3>2. CallableMember(c) => Wanted(op, n) = c
      <4>1. SUFFICES ASSUME CallableMember(c) PROVE Wanted(op, n) = c
        OBVIOUS
      <4>2. \A j \in 1..4 : j < 3 => ~CallableMember(Order(op, n)[j])
        BY <2>2, <3>1
      <4>3. CallableMember(Order(op, n)[3]) /\ 3 \in 1..4 /\ 4 \in Nat \ {0}
        BY <2>2, <4>1
      <4>4. Wanted(op, n) = Order(op, n)[3]
        BY <2>2, <4>2, <4>3, WantedFirst
      <4>5. QED
        BY <2>2, <4>4
    <3>3. ~CallableMember(c) /\ CallableMember(d) => Wanted(op, n) = d
      <4>1. SUFFICES ASSUME ~CallableMember(c), CallableMember(d) PROVE Wanted(op, n) = d
        OBVIOUS
      <4>2. \A j \in 1..4 : j < 4 => ~CallableMember(Order(op, n)[j])
        BY <2>2, <3>1, <4>1
      <4>3. CallableMember(Order(op, n)[4]) /\ 4 \in 1..4 /\ 4 \in Nat \ {0}
        BY <2>2, <4>1
      <4>4. Wanted(op, n) = Order(op, n)[4]
        BY <2>2, <4>2, <4>3, WantedFirst
      <4>5. QED
        BY <2>2, <4>4
    <3>4. QED
      BY <3>1, <3>2, <3>3
  <2>5. QED
    BY <1>1, <2>3, <2>4 DEF PrefixesOf
<1>2. CASE op # "set"
  <2>1. Order(op, n) = <<s, g>>
    BY <1>2 DEF Order, PrefixesOf, Ops
  <2> HIDE DEF s, g
  <2>2. Len(Order(op, n)) = 2 /\ Order(op, n)[1] = s /\ Order(op, n)[2] = g
    BY <2>1
  <2>3. CallableMember(s) => Wanted(op, n) = s
    <3>1. SUFFICES ASSUME CallableMember(s) PROVE Wanted(op, n) = s
      OBVIOUS
    <3>2. \A j \in 1..2 : j < 1 => ~CallableMember(Order(op, n)[j])
      OBVIOUS
    <3>3. CallableMember(Order(op, n)[1]) /\ 1 \in 1..2 /\ 2 \in Nat \ {0}
      BY <2>2, <3>1
    <3>4. Wanted(op, n) = Order(op, n)[1]
      BY <2>2, <3>2, <3>3, WantedFirst
    <3>5. QED
      BY <2>2, <3>4
  <2>4. ~CallableMember(s) /\ CallableMember(g) => Wanted(op, n) = g
    <3>1. SUFFICES ASSUME ~CallableMember(s), CallableMember(g) PROVE Wanted(op, n) = g
      OBVIOUS
    <3>2. \A j \in 1..2 : j < 2 => ~CallableMember(Order(op, n)[j])
      BY <2>2, <3>1
    <3>3. CallableMember(Order(op, n)[2]) /\ 2 \in 1..2 /\ 2 \in Nat \ {0}
      BY <2>2, <3>1
    <3>4. Wanted(op, n) = Order(op, n)[2]
      BY <2>2, <3>2, <3>3, WantedFirst
    <3>5. QED
      BY <2>2, <3>4
  <2>5. QED
    BY <2>3, <2>4 DEF s, g
<1>3. QED
  BY <1>1, <1>2

\* If there is no handler under the last prefix either, none is wanted.
LEMMA WantedMissing ==
    ASSUME NEW op \in Ops, NEW n \in MemberName, NEW p \in PrefixesOf(op),
           IsInternal(n) \/ Unhandled(n, p),
           op = "set" => /\ p = "__delete"
                         /\ IsInternal(n) \/ Unhandled(n, "__set")
    PROVE  Wanted(op, n) = NoName
<1>1. ASSUME NEW j \in 1..Len(Order(op, n)) PROVE ~CallableMember(Order(op, n)[j])
  <2>1. CASE IsInternal(n)
    BY <2>1 DEF Order
  <2>2. CASE ~IsInternal(n) /\ op = "set"
    <3>1. Order(op, n) = <<Specific(n, "__set"), Generic("__set"),
                           Specific(n, "__delete"), Generic("__delete")>>
      BY <2>2 DEF Order
    <3>2. QED
      BY <2>2, <3>1 DEF Unhandled
  <2>3. CASE ~IsInternal(n) /\ op # "set"
    <3>1. Order(op, n) = <<Specific(n, p), Generic(p)>>
      BY <2>3 DEF Order, PrefixesOf, Ops
    <3>2. QED
      BY <2>3, <3>1 DEF Unhandled
  <2>4. QED
    BY <2>1, <2>2, <2>3
<1>2. QED
  BY <1>1, WantedNone

-----------------------------------------------------------------------------
(* Calls begin *)

\* What is wanted depends on the table only.
LEMMA WantedSame ==
    ASSUME table' = table, NEW op, NEW n
    PROVE  /\ Wanted(op, n)' = Wanted(op, n)
           /\ CallableMember(n)' <=> CallableMember(n)
<1> DEFINE hits == {i \in 1..Len(Order(op, n)) : CallableMember(Order(op, n)[i])}
           First(H) == IF H = {} THEN NoName
                       ELSE Order(op, n)[CHOOSE i \in H : \A j \in H : i <= j]
<1>1. \A m : CallableMember(m)' <=> CallableMember(m)
  BY DEF CallableMember, Has
<1>2. hits' = hits
  BY <1>1
<1>3. Wanted(op, n) = First(hits) /\ Wanted(op, n)' = First(hits')
  BY Zenon DEF Wanted
<1> HIDE DEF hits, First
<1>4. QED
  BY <1>1, <1>2, <1>3

\* The parts of the invariant, for a step after which the innermost frame looks
\* for a handler.
LEMMA AssembleLook ==
    ASSUME TypeInv', StackOK(frames', table'), FreedOK(frames', table'), Counted', DispatchFaithful',
           table' = table,
           NEW fs \in Seq(FrameSet), NEW fr \in FrameSet, frames' = Append(fs, fr),
           fr.want = Wanted(fr.op, fr.name),
           (fr.op = "set" /\ fr.pfx = "__delete")
               => IsInternal(fr.name) \/ Unhandled(fr.name, "__set")
    PROVE  Inv'
<1>1. Cur' = fr
  BY DEF Cur
<1>2. Wanted(fr.op, fr.name)' = Wanted(fr.op, fr.name)
  BY WantedSame
<1>3. Unhandled(fr.name, "__set")' <=> Unhandled(fr.name, "__set")
  BY WantedSame DEF Unhandled
<1>4. LookOK'
  BY <1>1, <1>2, <1>3 DEF LookOK, IsInternal
<1>5. QED
  BY <1>4 DEF Inv

\* A call begins: the frame of the operation looks for its handler.
LEMMA StartInv ==
    ASSUME Inv, NEW op \in Ops, NEW n \in MemberName, NEW v \in MemberValue \cup {Nothing}, NEW p \in Prefix,
           p \in PrefixesOf(op), op = "set" => v \in MemberValue /\ p = "__set",
           Start(op, n, v, p)
    PROVE  Inv'
<1> DEFINE E == <<>>
           w == Wanted(op, n)
           fr == [NoFrame EXCEPT !.op = op, !.name = n, !.val = v, !.pfx = p, !.pc = "look",
                                 !.want = w]
           Calls1 == {CallsOf(x) : x \in Handler \cup {NoName}}
<1>1. StackOK(frames, table) /\ TypeInv /\ NoLook(frames) /\ frames \in Seq(FrameSet)
  BY UserNoLook DEF Inv, Start, StackOK
<1>2. E = CallsOf(NoName) /\ E \in Calls1
  BY DEF CallsOf
<1>3. NoFrame = [op |-> Nothing, name |-> NoName, val |-> Nothing, pfx |-> Nothing, pc |-> Nothing,
                 method |-> Nothing, calls |-> E, want |-> NoName, rc |-> 0]
  BY DEF NoFrame
<1>4. w \in Handler \cup {NoName}
  BY WantedShape
<1>5. frames' = Append(frames, fr)
  BY DEF Start
<1> HIDE DEF E, w, Calls1
<1>6. fr \in [op : {op}, name : {n}, val : {v}, pfx : {p}, pc : {"look"},
              method : {Nothing}, calls : {E}, want : {w}, rc : {0}]
  BY <1>3
<1> HIDE DEF fr
<1>7. fr \in FrameSet
  BY <1>2, <1>4, <1>6 DEF FrameSet, Calls1, Prefix
<1>8. FrameOK(fr)
  <2>1. n[1] = ""
    BY DEF Start
  <2>2. fr.calls = <<>>
    BY <1>6 DEF E
  <2>3. QED
    BY <1>6, <1>7, <2>1, <2>2 DEF FrameOK, Ops
<1>9. StackOK(frames', table')
  <2>1. StackOK(Append(frames, fr), table)
    BY <1>1, <1>6, <1>8, PushOK
  <2>2. QED
    BY <1>5, <2>1 DEF Start
<1>10. table' = table /\ count' = count /\ var' = var /\ leaked' = leaked
  BY DEF Start
<1>11. TypeInv'
  BY <1>1, <1>10 DEF TypeInv
<1>12. ASSUME NEW o \in ObjectValue
       PROVE  count'[o] = InTable(table', o) + In(o, var') + InFrames(frames', o) + leaked'[o]
  <2>1. InFrames(frames', o) = InFrames(frames, o) + Is(Nothing, o)
    BY <1>1, <1>5, <1>6, <1>7, InFramesPush
  <2>2. QED
    BY <1>10, <2>1, CountParts
<1>13. DispatchFaithful'
  BY NothingDone DEF Start
<1>14. fr.want = Wanted(fr.op, fr.name) /\ ~(fr.op = "set" /\ fr.pfx = "__delete")
  BY <1>6 DEF w
<1>15. FreedOK(frames', table')
  BY <1>1, <1>5, <1>7, <1>10, FreedPush DEF Inv
<1>16. QED
  BY <1>15, <1>1, <1>5, <1>7, <1>9, <1>10, <1>11, <1>12, <1>13, <1>14, AssembleLook DEF Counted

\* di_callx of a member
LEMMA CallXInv ==
    ASSUME Inv, NEW n \in MemberName, CallX(n)
    PROVE  Inv'
<1> DEFINE E == <<>>
           h == table[n].data
           fr == [NoFrame EXCEPT !.op = "call", !.name = n, !.pc = "handler", !.method = h]
           Calls1 == {CallsOf(x) : x \in Handler \cup {NoName}}
<1>1. StackOK(frames, table) /\ TypeInv /\ NoLook(frames) /\ frames \in Seq(FrameSet)
  BY UserNoLook DEF Inv, CallX, StackOK
<1>2. E = CallsOf(NoName) /\ E \in Calls1
  BY DEF CallsOf
<1>3. NoFrame = [op |-> Nothing, name |-> NoName, val |-> Nothing, pfx |-> Nothing, pc |-> Nothing,
                 method |-> Nothing, calls |-> E, want |-> NoName, rc |-> 0]
  BY DEF NoFrame
<1>4. h \in Method /\ frames' = Append(frames, fr) /\ table' = table /\ var' = var /\ leaked' = leaked
      /\ count' = Held(h)
  BY DEF CallX, CallableMember
<1> HIDE DEF E, h, Calls1
<1>5. fr \in [op : {"call"}, name : {n}, val : {Nothing}, pfx : {Nothing}, pc : {"handler"},
              method : {h}, calls : {E}, want : {NoName}, rc : {0}]
  BY <1>3
<1> HIDE DEF fr
<1>6. fr \in FrameSet
  BY <1>2, <1>4, <1>5 DEF FrameSet, Calls1
<1>7. h # Nothing
  BY <1>4, MembersAssumption DEF MemberValue, ObjectValue
<1>8. FrameOK(fr)
  BY <1>2, <1>5, <1>6, <1>7 DEF FrameOK, Ops
<1>9. StackOK(frames', table')
  BY <1>1, <1>4, <1>5, <1>8, PushOK
<1>10. TypeInv'
  BY <1>1, <1>4, HeldOK DEF TypeInv
<1>11. NoLook(frames')
  BY <1>1, <1>4, <1>5, <1>6 DEF NoLook
<1>12. ASSUME NEW o \in ObjectValue
       PROVE  count'[o] = InTable(table', o) + In(o, var') + InFrames(frames', o) + leaked'[o]
  <2>1. InFrames(frames', o) = InFrames(frames, o) + Is(h, o)
    BY <1>1, <1>4, <1>5, <1>6, InFramesPush
  <2>2. count'[o] = count[o] + Is(h, o)
    BY <1>1, <1>4, HeldOK
  <2>3. QED
    BY <1>4, <2>1, <2>2, CountParts
<1>13. DispatchFaithful'
  BY NothingDone DEF CallX
<1>14. FreedOK(frames', table')
  BY <1>1, <1>4, <1>6, FreedPush DEF Inv
<1>15. QED
  BY <1>14, <1>9, <1>10, <1>11, <1>12, <1>13, Assemble DEF Counted

\* di_callx of what cannot be called
LEMMA CallInertInv ==
    ASSUME Inv, NEW n \in MemberName, CallInert(n)
    PROVE  Inv'
<1> DEFINE v == table[n].data
<1>1. StackOK(frames, table) /\ TypeInv /\ v \in ObjectValue
  BY DEF Inv, CallInert, ObjectValue
<1>2. table' = table /\ frames' = frames /\ var' = var /\ count' = Held(v)
      /\ leaked' = [leaked EXCEPT ![v] = @ + 1]
  BY DEF CallInert
<1> HIDE DEF v
<1>3. TypeInv'
  BY <1>1, <1>2, HeldOK DEF TypeInv
<1>4. ASSUME NEW o \in ObjectValue
      PROVE  count'[o] = InTable(table', o) + In(o, var') + InFrames(frames', o) + leaked'[o]
  <2>1. count'[o] = count[o] + Is(v, o)
    BY <1>1, <1>2, HeldOK
  <2>2. leaked'[o] = leaked[o] + Is(v, o)
    BY <1>1, <1>2 DEF Is, TypeInv
  <2>3. QED
    BY <1>2, <2>1, <2>2, CountParts
<1>5. NoLook(frames')
  BY <1>1, <1>2, UserNoLook DEF CallInert
<1>6. DispatchFaithful'
  BY NothingDone DEF CallInert
<1>7. FreedOK(frames', table')
  BY <1>2 DEF Inv
<1>8. QED
  BY <1>1, <1>2, <1>3, <1>4, <1>5, <1>6, <1>7, Assemble DEF Counted

\* The program crashes where no look-up is under way.
LEMMA CrashInv ==
    ASSUME Inv, NoLook(frames), Crash
    PROVE  Inv'
<1> DEFINE E == <<>>
           fr == Crashed
           Calls1 == {CallsOf(x) : x \in Handler \cup {NoName}}
<1>1. StackOK(frames, table) /\ TypeInv /\ frames \in Seq(FrameSet)
  BY DEF Inv, StackOK
<1>2. E = CallsOf(NoName) /\ E \in Calls1
  BY DEF CallsOf
<1>3. NoFrame = [op |-> Nothing, name |-> NoName, val |-> Nothing, pfx |-> Nothing, pc |-> Nothing,
                 method |-> Nothing, calls |-> E, want |-> NoName, rc |-> 0]
  BY DEF NoFrame
<1>4. frames' = Append(frames, fr) /\ table' = table /\ var' = var /\ leaked' = leaked /\ count' = count
  BY DEF Crash
<1> HIDE DEF E, Calls1
<1>5. fr \in [op : {"crash"}, name : {NoName}, val : {Nothing}, pfx : {Nothing}, pc : {"crash"},
              method : {Nothing}, calls : {E}, want : {NoName}, rc : {0}]
  BY <1>3 DEF Crashed
<1> HIDE DEF fr
<1>6. fr \in FrameSet
  BY <1>2, <1>5 DEF FrameSet, Calls1
<1>7. FrameOK(fr)
  BY <1>2, <1>5, <1>6 DEF FrameOK, Ops
<1>8. StackOK(frames', table')
  BY <1>1, <1>4, <1>5, <1>7, PushOK
<1>9. TypeInv'
  BY <1>1, <1>4 DEF TypeInv
<1>10. NoLook(frames')
  BY <1>1, <1>4, <1>5, <1>6 DEF NoLook
<1>11. ASSUME NEW o \in ObjectValue
       PROVE  count'[o] = InTable(table', o) + In(o, var') + InFrames(frames', o) + leaked'[o]
  <2>1. InFrames(frames', o) = InFrames(frames, o) + Is(Nothing, o)
    BY <1>1, <1>4, <1>5, <1>6, InFramesPush
  <2>2. QED
    BY <1>4, <2>1, CountParts
<1>12. DispatchFaithful'
  BY NothingDone DEF Crash
<1>13. FreedOK(frames', table')
  BY <1>1, <1>4, <1>6, FreedPush DEF Inv
<1>14. QED
  BY <1>8, <1>9, <1>10, <1>11, <1>12, <1>13, Assemble DEF Counted

\* User code keeps the invariant.
LEMMA UserInv ==
    ASSUME Inv, User
    PROVE  Inv'
<1>1. ASSUME NEW n \in MemberName, TouchReplaced(n) PROVE Inv'
  BY <1>1, UserNoLook, CrashInv DEF TouchReplaced, Inv
<1>2. ASSUME NEW n \in MemberName, NEW v \in MemberValue, SetX(n, v) PROVE Inv'
  BY <1>2, StartInv DEF SetX, Ops, Prefix, PrefixesOf
<1>3. ASSUME NEW n \in MemberName, GetX(n) PROVE Inv'
  BY <1>3, StartInv DEF GetX, Ops, Prefix, PrefixesOf
<1>4. ASSUME NEW n \in MemberName, RemoveMember(n) PROVE Inv'
  BY <1>4, StartInv DEF RemoveMember, Ops, Prefix, PrefixesOf
<1>5. QED
  BY <1>1, <1>2, <1>3, <1>4, CallInertInv, AddMemberInv, RawGetXInv, CallXInv, RemoveRawByUserInv, DropReferenceInv
     DEF User

-----------------------------------------------------------------------------
(* Steps of the innermost call *)

\* What is known of the innermost frame.
LEMMA TopOK ==
    ASSUME Inv, frames # <<>>
    PROVE  /\ TypeInv /\ StackOK(frames, table) /\ frames \in Seq(FrameSet)
           /\ StackOK(Outer, table) /\ NoLook(Outer) /\ Outer \in Seq(FrameSet)
           /\ FrameOK(Cur) /\ Cur \in FrameSet
           /\ Cur.pc = "write" => table[Cur.name] # Absent /\ table[Cur.name].data = "freed"
           /\ Cur.pc = "write" => Untouched(Outer, Cur.name)
<1>1. TypeInv /\ StackOK(frames, table)
  BY DEF Inv
<1>2. frames \in Seq(FrameSet)
  BY <1>1 DEF StackOK
<1>3. StackOK(Outer, table)
  BY <1>1, OuterOK
<1>4. Outer \in Seq(FrameSet)
  BY <1>3 DEF StackOK
<1>5. FrameOK(Cur)
  BY <1>1, OuterOK
<1>6. Cur \in FrameSet
  BY <1>5 DEF FrameOK
<1>7. QED
  BY <1>1, <1>2, <1>3, <1>4, <1>5, <1>6, OuterOK

\* A stack whose innermost frame does not look for a handler.
LEMMA GotoNoLook ==
    ASSUME Inv, frames # <<>>, NEW fr \in FrameSet, fr.pc # "look"
    PROVE  NoLook(Goto(fr))
<1>1. NoLook(Outer) /\ Outer \in Seq(FrameSet)
  BY TopOK
<1>2. QED
  BY <1>1 DEF Goto, NoLook

\* A destructor returns.
LEMMA DtorReturnsInv ==
    ASSUME Inv, DtorReturns
    PROVE  Inv'
<1>1. frames # <<>> /\ Cur.op = "dtor" /\ frames' = Outer /\ table' = table /\ count' = count
      /\ var' = var /\ leaked' = leaked
  BY DEF DtorReturns
<1>2. Cur.method = Nothing /\ Cur.pc # "write"
  BY <1>1, TopOK DEF FrameOK
<1>3. TypeInv' /\ StackOK(frames', table') /\ NoLook(frames')
  BY <1>1, TopOK DEF TypeInv
<1>4. ASSUME NEW o \in ObjectValue
      PROVE  count'[o] = InTable(table', o) + In(o, var') + InFrames(frames', o) + leaked'[o]
  <2>1. InFrames(frames', o) = InFrames(frames, o) - Is(Nothing, o)
    BY <1>1, <1>2, TopOK, InFramesOuter
  <2>2. QED
    BY <1>1, <2>1, CountParts
<1>5. DispatchFaithful'
  BY NothingDone DEF DtorReturns
<1>6. FreedOK(frames', table')
  BY <1>1, <1>2, FreedOuter
<1>7. QED
  BY <1>6, <1>3, <1>4, <1>5, Assemble DEF Counted

\* The operation that returns has called what it wanted.
LEMMA ReturnDone ==
    ASSUME Inv, frames # <<>>, Cur.pc # "look", NEW rc \in {0, 1}, Return(rc)
    PROVE  /\ DispatchFaithful'
           /\ done'.op = Cur.op /\ done'.rc = rc /\ done'.name = Cur.name /\ done'.val = Cur.val
           /\ done'.calls = CallsOf(Cur.want)
<1>1. Cur \in FrameSet /\ Cur.calls = CallsOf(Cur.want)
  BY TopOK DEF FrameOK
<1>2. done' = [Cur EXCEPT !.rc = rc, !.pc = "returned"]
  BY DEF Return
<1>3. /\ done'.calls = Cur.calls /\ done'.want = Cur.want /\ done'.op = Cur.op
      /\ done'.name = Cur.name /\ done'.val = Cur.val /\ done'.rc = rc
  BY <1>1, <1>2 DEF FrameSet
<1>4. DispatchFaithful'
  BY <1>1, <1>3 DEF DispatchFaithful
<1>5. QED
  BY <1>1, <1>3, <1>4

\* A call returns.
LEMMA ReturnsInv ==
    ASSUME Inv, Returns
    PROVE  Inv'
<1>1. frames # <<>> /\ Cur.pc = "return" /\ frames' = Outer /\ table' = table /\ count' = count
      /\ var' = var /\ leaked' = leaked /\ Return(Cur.rc)
  BY DEF Returns, Return
<1>2. Cur.method = Nothing /\ Cur.rc \in {0, 1}
  BY <1>1, TopOK DEF FrameOK, FrameSet
<1>3. TypeInv' /\ StackOK(frames', table') /\ NoLook(frames')
  BY <1>1, TopOK DEF TypeInv
<1>4. ASSUME NEW o \in ObjectValue
      PROVE  count'[o] = InTable(table', o) + In(o, var') + InFrames(frames', o) + leaked'[o]
  <2>1. InFrames(frames', o) = InFrames(frames, o) - Is(Nothing, o)
    BY <1>1, <1>2, TopOK, InFramesOuter
  <2>2. QED
    BY <1>1, <2>1, CountParts
<1>5. DispatchFaithful'
  BY <1>1, <1>2, ReturnDone
<1>6. FreedOK(frames', table')
  BY <1>1, FreedOuter
<1>7. QED
  BY <1>6, <1>3, <1>4, <1>5, Assemble DEF Counted

\* References that are lost are counted among the lost ones.
LEMMA LeaksOK ==
    ASSUME TypeInv, NEW upto \in Nat, Leaks(upto)
    PROVE  leaked' \in [ObjectValue -> Nat]
<1>1. ASSUME NEW o PROVE Lost(o, upto) \in Nat
  <2>1. IsFiniteSet(1..upto)
    BY FS_Interval
  <2>2. IsFiniteSet({i \in 1..upto : Has(Candidates[i]) /\ table[Candidates[i]].data = o})
    BY <2>1, FS_Subset
  <2>3. QED
    BY <2>2, FS_CardinalityType DEF Lost
<1>2. QED
  BY <1>1 DEF TypeInv, Leaks

\* The frame of a look-up.
LEMMA LookFrame ==
    ASSUME Inv, frames # <<>>, Cur.pc = "look"
    PROVE  /\ Cur.op \in Ops /\ Cur.name \in MemberName /\ Cur.name[1] = "" /\ Cur.pfx \in PrefixesOf(Cur.op)
           /\ Cur.pfx \in Prefix /\ Cur.method = Nothing /\ Cur.calls = <<>>
           /\ Cur.want = Wanted(Cur.op, Cur.name)
           /\ (Cur.op = "set" /\ Cur.pfx = "__delete")
                  => IsInternal(Cur.name) \/ Unhandled(Cur.name, "__set")
<1>1. FrameOK(Cur) /\ Cur \in FrameSet
  BY TopOK
<1>2. Cur.op \in Ops
  BY <1>1 DEF FrameOK, FrameSet
<1>3. Cur.name \in MemberName /\ Cur.name[1] = "" /\ Cur.pfx \in PrefixesOf(Cur.op) /\ Cur.method = Nothing
      /\ Cur.calls = <<>>
  BY <1>1, <1>2 DEF FrameOK
<1>4. Cur.pfx \in Prefix
  BY <1>2, <1>3 DEF PrefixesOf, Prefix, Ops
<1>5. QED
  BY <1>2, <1>3, <1>4 DEF Inv, LookOK

\* The handler that is found is the one that is wanted, and it is called with the
\* arguments it should have.
LEMMA FoundIsWanted ==
    ASSUME Inv, frames # <<>>, Cur.pc = "look", NEW i \in 1..2, Calls(i)
    PROVE  /\ Candidates[i] = Cur.want /\ Cur.want \in Handler /\ Cur.want # NoName
           /\ Cur.want[1] = Cur.pfx /\ table[Cur.want].data \in Method
           /\ <<<<Candidates[i], Arguments(i)>>>> = CallsOf(Cur.want)
<1> DEFINE s == Specific(Cur.name, Cur.pfx)
           g == Generic(Cur.pfx)
<1>1. ~IsInternal(Cur.name)
  BY DEF Calls, Candidates
<1>2. Candidates = <<s, g>>
  BY <1>1 DEF Candidates
<1> HIDE DEF s, g
<1>3. Candidates[1] = s /\ Candidates[2] = g
  BY <1>2
<1>4. /\ CallableMember(s) => Cur.want = s
      /\ (~CallableMember(s) /\ CallableMember(g)) => Cur.want = g
  BY <1>1, LookFrame, WantedFound DEF s, g
<1>5. CallableMember(Candidates[i]) /\ (i = 2 => ~CallableMember(s))
  BY <1>3 DEF Calls
<1>6. Candidates[i] = Cur.want
  BY <1>3, <1>4, <1>5
<1>7. table[Cur.want].data \in Method
  BY <1>5, <1>6 DEF CallableMember
<1>8. Cur.want \in Handler /\ Cur.want # NoName /\ Cur.want[1] = Cur.pfx
      /\ Cur.want[2] = IF i = 1 THEN Cur.name[2] ELSE ""
  <2>1. Cur.name \in MemberName /\ Cur.pfx \in Prefix
    BY LookFrame
  <2>2. /\ s \in Handler /\ g \in Handler /\ s # NoName /\ g # NoName
        /\ s[1] = Cur.pfx /\ g[1] = Cur.pfx /\ s[2] = Cur.name[2] /\ g[2] = ""
    BY <2>1, HandlerShape DEF s, g
  <2>3. Cur.want = IF i = 1 THEN s ELSE g
    BY <1>3, <1>6
  <2>4. QED
    BY <2>2, <2>3
<1>9. (Cur.want[2] = "") <=> (i # 1)
  BY <1>8, LookFrame, NameShape
<1>10. Arguments(i) = (IF Cur.want[2] = "" THEN <<"name">> ELSE <<>>)
                       \o (IF Cur.want[1] = "__set" THEN <<"value">> ELSE <<>>)
  BY <1>8, <1>9 DEF Arguments
<1>11. <<<<Cur.want, Arguments(i)>>>> = CallsOf(Cur.want)
  BY <1>8, <1>10 DEF CallsOf
<1>12. QED
  BY <1>6, <1>7, <1>8, <1>11

\* The handler is called.
LEMMA CallHandlerInv ==
    ASSUME Inv, CallHandler
    PROVE  Inv'
<1>1. frames # <<>> /\ Cur.pc = "look" /\ table' = table /\ var' = var /\ done' = NoFrame
  BY DEF CallHandler
<1>2. PICK i \in 1..2 :
          /\ Calls(i) /\ Leaks(i - 1)
          /\ count' = [o \in ObjectValue |-> count[o] + (IF o = table[Candidates[i]].data THEN 1 ELSE 0)
                                       + leaked'[o] - leaked[o]]
          /\ frames' = Goto([Cur EXCEPT !.pc = "handler", !.method = table[Candidates[i]].data,
                              !.calls = Append(Cur.calls, <<Candidates[i], Arguments(i)>>)])
  BY DEF CallHandler
<1> DEFINE h == table[Candidates[i]].data
           cs == Append(Cur.calls, <<Candidates[i], Arguments(i)>>)
           fr == [Cur EXCEPT !.pc = "handler", !.method = h, !.calls = cs]
<1>3. /\ Candidates[i] = Cur.want /\ Cur.want \in Handler /\ Cur.want # NoName
      /\ Cur.want[1] = Cur.pfx /\ h \in Method
      /\ <<<<Candidates[i], Arguments(i)>>>> = CallsOf(Cur.want)
  BY <1>1, <1>2, FoundIsWanted
<1>4. /\ Cur.op \in Ops /\ Cur.name \in MemberName /\ Cur.name[1] = "" /\ Cur.pfx \in PrefixesOf(Cur.op)
      /\ Cur.calls = <<>> /\ Cur.method = Nothing /\ Cur \in FrameSet
      /\ Cur.op = "set" => Cur.val \in MemberValue
  BY <1>1, LookFrame, TopOK DEF FrameOK
<1>5. cs = CallsOf(Cur.want)
  <2>1. \A x : Append(<<>>, x) = <<x>>
    OBVIOUS
  <2>2. QED
    BY <1>3, <1>4, <2>1
<1>6. h # Nothing
  BY <1>3, MembersAssumption DEF MemberValue, ObjectValue
<1>7. frames' = Goto(fr)
  BY <1>2
<1> HIDE DEF h, cs
<1>8. /\ fr \in FrameSet /\ fr.op = Cur.op /\ fr.name = Cur.name /\ fr.val = Cur.val
      /\ fr.pfx = Cur.pfx /\ fr.pc = "handler" /\ fr.method = h /\ fr.calls = CallsOf(Cur.want)
      /\ fr.want = Cur.want /\ fr.rc = Cur.rc
  BY <1>3, <1>4, <1>5 DEF FrameSet
<1> HIDE DEF fr
<1>9. FrameOK(fr)
  BY <1>3, <1>4, <1>6, <1>8 DEF FrameOK, Ops
<1>10. StackOK(frames', table')
  BY <1>1, <1>7, <1>8, <1>9, TopOK, GotoOK
<1>11. NoLook(frames')
  BY <1>1, <1>7, <1>8, GotoNoLook
<1>12. TypeInv'
  <2>1. TypeInv /\ leaked' \in [ObjectValue -> Nat]
    <3>1. i - 1 \in Nat
      OBVIOUS
    <3>2. QED
      BY <1>1, <1>2, <3>1, TopOK, LeaksOK
  <2>2. count' \in [ObjectValue -> Int]
    BY <1>2, <2>1 DEF TypeInv
  <2>3. QED
    BY <1>1, <2>1, <2>2 DEF TypeInv
<1>13. ASSUME NEW o \in ObjectValue
       PROVE  count'[o] = InTable(table', o) + In(o, var') + InFrames(frames', o) + leaked'[o]
  <2>1. InFrames(frames', o) = InFrames(frames, o) - Is(Nothing, o) + Is(h, o)
    BY <1>1, <1>4, <1>7, <1>8, TopOK, InFramesOuter
  <2>2. count'[o] = count[o] + Is(h, o) + leaked'[o] - leaked[o]
    BY <1>2 DEF Is, h
  <2>3. leaked'[o] \in Int
    BY <1>12 DEF TypeInv
  <2>4. /\ count[o] = InTable(table, o) + In(o, var) + InFrames(frames, o) + leaked[o]
        /\ In(o, var) \in Int /\ InFrames(frames, o) \in Int /\ leaked[o] \in Int
        /\ InTable(table, o) \in Nat /\ Is(h, o) \in Int /\ Is(Nothing, o) = 0
    BY CountParts
  <2>5. table' = table /\ var' = var
    BY <1>1
  <2>6. QED
    BY ONLY <2>1, <2>2, <2>3, <2>4, <2>5
<1>14. FreedOK(frames', table')
  BY <1>1, <1>7, <1>8, FreedOuter
<1>15. QED
  BY <1>14, <1>1, <1>10, <1>11, <1>12, <1>13, NothingDone, Assemble DEF Counted

\* No handler under the prefix: the next prefix is tried, or the call goes on
\* without one.
LEMMA NoHandlerInv ==
    ASSUME Inv, NoHandler
    PROVE  Inv'
<1>1. frames # <<>> /\ Cur.pc = "look" /\ table' = table /\ var' = var /\ done' = NoFrame
      /\ Leaks(Len(Candidates)) /\ frames' = Goto(NotFoundGoto)
      /\ count' = [o \in ObjectValue |-> count[o] + leaked'[o] - leaked[o]]
  BY DEF NoHandler
<1>2. /\ Cur.op \in Ops /\ Cur.name \in MemberName /\ Cur.name[1] = "" /\ Cur.pfx \in PrefixesOf(Cur.op)
      /\ Cur.calls = <<>> /\ Cur.method = Nothing /\ Cur \in FrameSet
      /\ Cur.op = "set" => Cur.val \in MemberValue
      /\ Cur.want = Wanted(Cur.op, Cur.name)
  BY <1>1, LookFrame, TopOK DEF FrameOK
<1>3. IsInternal(Cur.name) \/ Unhandled(Cur.name, Cur.pfx)
  <2>1. SUFFICES ASSUME ~IsInternal(Cur.name) PROVE Unhandled(Cur.name, Cur.pfx)
    OBVIOUS
  <2> DEFINE s == Specific(Cur.name, Cur.pfx)
             g == Generic(Cur.pfx)
  <2>2. Candidates = <<s, g>>
    BY <2>1 DEF Candidates
  <2> HIDE DEF s, g
  <2>3. Len(Candidates) = 2 /\ Candidates[1] = s /\ Candidates[2] = g
    BY <2>2
  <2>4. ~Calls(1) /\ ~Calls(2)
    BY DEF NoHandler
  <2>5. ~CallableMember(s)
    BY <2>3, <2>4 DEF Calls
  <2>6. ~CallableMember(g)
    BY <2>3, <2>4, <2>5 DEF Calls
  <2>7. QED
    BY <2>5, <2>6 DEF Unhandled, s, g
<1>4. TypeInv'
  <2>1. TypeInv /\ leaked' \in [ObjectValue -> Nat]
    <3>1. Len(Candidates) \in Nat
      BY DEF Candidates
    <3>2. QED
      BY <1>1, <3>1, TopOK, LeaksOK
  <2>2. count' \in [ObjectValue -> Int]
    BY <1>1, <2>1 DEF TypeInv
  <2>3. QED
    BY <1>1, <2>1, <2>2 DEF TypeInv
<1>5. ASSUME NEW fr \in FrameSet, frames' = Goto(fr), fr.method = Nothing PROVE Counted'
  <2>1. ASSUME NEW o \in ObjectValue
        PROVE  count'[o] = InTable(table', o) + In(o, var') + InFrames(frames', o) + leaked'[o]
    <3>1. InFrames(frames', o) = InFrames(frames, o) - Is(Nothing, o) + Is(Nothing, o)
      BY <1>1, <1>2, <1>5, TopOK, InFramesOuter
    <3>2. count'[o] = count[o] + leaked'[o] - leaked[o]
      BY <1>1
    <3>3. leaked'[o] \in Int
      BY <1>4 DEF TypeInv
    <3>4. QED
      BY <1>1, <3>1, <3>2, <3>3, CountParts
  <2>2. QED
    BY <2>1 DEF Counted
<1>6. DispatchFaithful' /\ \A fr \in FrameSet : frames' = Goto(fr) => FreedOK(frames', table')
  BY <1>1, NothingDone, FreedOuter
<1>7. CASE Cur.op = "set" /\ Cur.pfx = "__set"
  <2> DEFINE fr == [Cur EXCEPT !.pfx = "__delete"]
  <2>1. frames' = Goto(fr)
    BY <1>1, <1>7 DEF NotFoundGoto
  <2>2. /\ fr \in FrameSet /\ fr.op = Cur.op /\ fr.name = Cur.name /\ fr.val = Cur.val
        /\ fr.pfx = "__delete" /\ fr.pc = "look" /\ fr.method = Nothing /\ fr.calls = <<>>
        /\ fr.want = Cur.want
    BY <1>1, <1>2 DEF FrameSet, Prefix
  <2> HIDE DEF fr
  <2>3. FrameOK(fr)
    BY <1>2, <1>7, <2>2 DEF FrameOK, Ops, PrefixesOf
  <2>4. StackOK(frames', table')
    BY <1>1, <2>1, <2>2, <2>3, TopOK, GotoOK
  <2>5. fr.want = Wanted(fr.op, fr.name)
        /\ (IsInternal(fr.name) \/ Unhandled(fr.name, "__set"))
    BY <1>2, <1>3, <1>7, <2>2
  <2>6. Outer \in Seq(FrameSet) /\ frames' = Append(Outer, fr)
    BY <1>1, <2>1, TopOK DEF Goto
  <2>7. Counted'
    BY <1>5, <2>1, <2>2
  <2>8. FreedOK(frames', table')
    BY <1>6, <2>1, <2>2
  <2>9. QED
    BY <1>1, <1>4, <1>6, <2>2, <2>4, <2>5, <2>6, <2>7, <2>8, AssembleLook
<1>8. ASSUME ~(Cur.op = "set" /\ Cur.pfx = "__set") PROVE Cur.want = NoName
  <2>1. Cur.op = "set" => Cur.pfx = "__delete" /\ (IsInternal(Cur.name) \/ Unhandled(Cur.name, "__set"))
    BY <1>1, <1>2, <1>8, LookFrame DEF PrefixesOf
  <2>2. QED
    BY <1>2, <1>3, <2>1, WantedMissing
<1>9. CallsOf(NoName) = <<>>
  BY DEF CallsOf
<1>10. CASE Cur.op = "get"
  <2> DEFINE fr == [Cur EXCEPT !.pc = "return", !.rc = 1]
  <2>1. frames' = Goto(fr)
    BY <1>1, <1>10 DEF NotFoundGoto
  <2>2. /\ fr \in FrameSet /\ fr.op = Cur.op /\ fr.name = Cur.name /\ fr.val = Cur.val
        /\ fr.pfx = Cur.pfx /\ fr.pc = "return" /\ fr.method = Nothing /\ fr.calls = <<>>
        /\ fr.want = Cur.want
    BY <1>2 DEF FrameSet
  <2> HIDE DEF fr
  <2>3. FrameOK(fr)
    BY <1>2, <1>8, <1>9, <1>10, <2>2 DEF FrameOK, Ops
  <2>4. StackOK(frames', table')
    BY <1>1, <2>1, <2>2, <2>3, TopOK, GotoOK
  <2>5. NoLook(frames')
    BY <1>1, <2>1, <2>2, GotoNoLook
  <2>6. QED
    BY <1>4, <1>5, <1>6, <2>1, <2>2, <2>4, <2>5, Assemble
<1>11. CASE Cur.op # "get" /\ ~(Cur.op = "set" /\ Cur.pfx = "__set")
  <2> DEFINE fr == [Cur EXCEPT !.pc = "store"]
  <2>1. frames' = Goto(fr)
    BY <1>1, <1>11 DEF NotFoundGoto
  <2>2. /\ fr \in FrameSet /\ fr.op = Cur.op /\ fr.name = Cur.name /\ fr.val = Cur.val
        /\ fr.pfx = Cur.pfx /\ fr.pc = "store" /\ fr.method = Nothing /\ fr.calls = <<>>
        /\ fr.want = Cur.want
    BY <1>2 DEF FrameSet
  <2> HIDE DEF fr
  <2>3. FrameOK(fr)
    BY <1>2, <1>8, <1>9, <1>11, <2>2 DEF FrameOK, Ops
  <2>4. StackOK(frames', table')
    BY <1>1, <2>1, <2>2, <2>3, TopOK, GotoOK
  <2>5. NoLook(frames')
    BY <1>1, <2>1, <2>2, GotoNoLook
  <2>6. QED
    BY <1>4, <1>5, <1>6, <2>1, <2>2, <2>4, <2>5, Assemble
<1>12. QED
  BY <1>7, <1>10, <1>11

\* The handler returns, and its reference is dropped.
LEMMA MemberHandlerReturnsInv ==
    ASSUME Inv, NEW rc \in {0, 1}, MemberHandlerReturns(rc)
    PROVE  Inv'
<1> DEFINE pc1 == IF Cur.op = "set" /\ Cur.pfx = "__delete" /\ rc = 0 THEN "store" ELSE "return"
           fr == [Cur EXCEPT !.method = Nothing, !.rc = rc, !.pc = pc1]
<1>1. frames # <<>> /\ Cur.pc = "handler" /\ table' = table /\ var' = var /\ leaked' = leaked
      /\ done' = NoFrame /\ ReleaseValue(Cur.method, Goto(fr))
  BY DEF MemberHandlerReturns
<1>2. FrameOK(Cur) /\ Cur \in FrameSet
  BY <1>1, TopOK
<1>3. pc1 \in {"store", "return"} /\ (pc1 = "store" => Cur.op = "set")
      /\ (pc1 = "return" /\ Cur.op = "set" /\ rc = 0 => Cur.pfx # "__delete")
  OBVIOUS
<1> HIDE DEF pc1
<1>4. /\ fr \in FrameSet /\ fr.op = Cur.op /\ fr.name = Cur.name /\ fr.val = Cur.val
      /\ fr.pfx = Cur.pfx /\ fr.pc = pc1 /\ fr.method = Nothing /\ fr.calls = Cur.calls
      /\ fr.want = Cur.want /\ fr.rc = rc
  <2>1. Cur \in FrameSet /\ pc1 \in {"store", "return"} /\ rc \in {0, 1}
    BY <1>2, <1>3
  <2>2. fr \in FrameSet
    BY ONLY <2>1 DEF FrameSet, fr
  <2>3. fr.op = Cur.op /\ fr.name = Cur.name /\ fr.val = Cur.val /\ fr.pfx = Cur.pfx
    BY ONLY <2>1 DEF FrameSet, fr
  <2>4. fr.pc = pc1 /\ fr.method = Nothing /\ fr.calls = Cur.calls /\ fr.want = Cur.want /\ fr.rc = rc
    BY ONLY <2>1 DEF FrameSet, fr
  <2>5. QED
    BY <2>2, <2>3, <2>4
<1> HIDE DEF fr
<1>5. FrameOK(fr)
  <2>1. Cur.op = "set" => Cur.pfx \in {"__set", "__delete"}
    BY <1>2 DEF FrameOK, Ops, PrefixesOf
  <2>2. QED
    BY <1>1, <1>2, <1>3, <1>4, <2>1 DEF FrameOK, Ops
<1>6. StackOK(Goto(fr), table) /\ NoLook(Goto(fr)) /\ TypeInv
  BY <1>1, <1>3, <1>4, <1>5, TopOK, GotoOK, GotoNoLook
<1> FreedOK(Goto(fr), table)
  BY <1>1, <1>4, FreedOuter
<1>7. /\ StackOK(frames', table) /\ NoLook(frames') /\ FreedOK(frames', table)
      /\ count' \in [ObjectValue -> Int]
      /\ \A o \in ObjectValue : /\ count'[o] = count[o] - Is(Cur.method, o)
                                /\ InFrames(frames', o) = InFrames(Goto(fr), o)
  BY <1>1, <1>6, ReleaseOK
<1>8. TypeInv'
  BY <1>1, <1>6, <1>7 DEF TypeInv
<1>9. ASSUME NEW o \in ObjectValue
      PROVE  count'[o] = InTable(table', o) + In(o, var') + InFrames(frames', o) + leaked'[o]
  <2>1. InFrames(frames', o) = InFrames(frames, o) - Is(Cur.method, o) + Is(Nothing, o)
    BY <1>1, <1>4, <1>7, TopOK, InFramesOuter
  <2>2. count'[o] = count[o] - Is(Cur.method, o)
    BY <1>7
  <2>3. QED
    BY <1>1, <2>1, <2>2, CountParts
<1>10. QED
  BY <1>1, <1>7, <1>8, <1>9, NothingDone, Assemble DEF Counted

\* The frame at the end of di_setx or of di_remove_member.
LEMMA StoreFrame ==
    ASSUME Inv, frames # <<>>, Cur.pc \in {"store", "write"}
    PROVE  /\ Cur.op \in {"set", "remove"} /\ Cur.name \in MemberName /\ Cur.method = Nothing
           /\ Cur.calls = CallsOf(Cur.want) /\ Cur.pfx \in PrefixesOf(Cur.op) /\ Cur.name[1] = ""
           /\ (Cur.pc = "write" \/ ~Has(Cur.name) \/ ~Replacing(Cur.name)) => Untouched(Outer, Cur.name)
           /\ (Cur.op = "set" => Cur.val \in MemberValue)
           /\ (Cur.pc = "write" => Cur.op = "set")
           /\ table[Cur.name] \in Entry \cup {Absent}
           /\ Has(Cur.name) <=> table[Cur.name] # Absent
<1>1. FrameOK(Cur) /\ Cur \in FrameSet /\ TypeInv
  BY TopOK
<1>2. Cur.op \in {"set", "remove"} /\ Cur.name \in MemberName
  BY <1>1 DEF FrameOK, Ops
<1>3. Cur.pc = "write" => Untouched(Outer, Cur.name)
  BY TopOK
<1>4. ~Replacing(Cur.name) => Untouched(Outer, Cur.name)
  BY NotReplacing
<1>5. ~Has(Cur.name) => Untouched(Outer, Cur.name)
  BY <1>2, TopOK, AbsentUntouched DEF Has
<1>6. QED
  BY <1>1, <1>2, <1>3, <1>4, <1>5 DEF FrameOK, Ops, TypeInv, Has

\* The old value of the member is freed.
LEMMA SetFreeInv ==
    ASSUME Inv, SetFree
    PROVE  Inv'
<1> DEFINE n == Cur.name
           v == table[n].data
           old == table[n]
           e == [old EXCEPT !.data = "freed"]
           fr == [Cur EXCEPT !.pc = "write"]
<1>1. frames # <<>> /\ Cur.pc = "store" /\ Cur.op = "set" /\ Has(n) /\ ~Replacing(n) /\ var' = var /\ leaked' = leaked
      /\ done' = NoFrame /\ ReleaseValue(v, Goto(fr)) /\ table' = [table EXCEPT ![n].data = "freed"]
  BY DEF SetFree
<1>2. /\ n \in MemberName /\ Cur.method = Nothing /\ Cur.calls = CallsOf(Cur.want) /\ Cur.name[1] = ""
      /\ Cur.pfx \in PrefixesOf(Cur.op) /\ Untouched(Outer, n) /\ Cur.val \in MemberValue
      /\ old \in Entry /\ FrameOK(Cur) /\ Cur \in FrameSet /\ TypeInv
      /\ StackOK(Outer, table) /\ NoLook(Outer) /\ Outer \in Seq(FrameSet)
  BY <1>1, StoreFrame, TopOK
<1>3. table' = [table EXCEPT ![n] = e]
  BY <1>1
<1> HIDE DEF n, old
<1>4. e \in Entry /\ e.data = "freed" /\ e # Absent
  <2>1. e \in Entry /\ e.data = "freed"
    <3>1. CASE old \in [type : {"object"}, data : ObjectValue \cup {"freed"}]
      BY <3>1 DEF Entry
    <3>2. CASE old \in [type : Plain, data : Plain \cup {"freed", "garbage"}]
      BY <3>2 DEF Entry
    <3>3. QED
      BY <1>2, <3>1, <3>2 DEF Entry
  <2>2. Absent.data # "freed"
    BY DEF Absent, Nothing
  <2>3. QED
    BY <2>1, <2>2
<1> HIDE DEF e, v
<1>5. /\ table' \in [MemberName -> Entry \cup {Absent}]
      /\ table'[n] = e /\ \A m \in MemberName : m # n => table'[m] = table[m]
      /\ \A o \in ObjectValue : InTable(table', o) = InTable(table, o) - Is(v, o) + Is("freed", o)
  <2>1. /\ table' \in [MemberName -> Entry \cup {Absent}]
        /\ table'[n] = e /\ \A m \in MemberName : m # n => table'[m] = table[m]
        /\ \A o \in ObjectValue :
               InTable(table', o) = InTable(table, o) - Is(table[n].data, o) + Is(e.data, o)
    <3>1. TypeInv /\ n \in MemberName /\ e \in Entry \cup {Absent}
      BY <1>2, <1>4
    <3>2. QED
      BY <1>3, <3>1, TableChange
  <2>2. QED
    BY <1>4, <2>1 DEF v
<1>6. /\ fr \in FrameSet /\ fr.op = Cur.op /\ fr.name = n /\ fr.val = Cur.val
      /\ fr.pfx = Cur.pfx /\ fr.pc = "write" /\ fr.method = Nothing /\ fr.calls = Cur.calls
      /\ fr.want = Cur.want
  BY <1>2 DEF FrameSet, n
<1> HIDE DEF fr
<1>7. FrameOK(fr)
  BY <1>1, <1>2, <1>6 DEF FrameOK, Ops, n
<1>8. StackOK(Outer, table')
  BY <1>2, <1>5, TableOK DEF TypeInv
<1>9. StackOK(Goto(fr), table')
  BY <1>2, <1>4, <1>5, <1>6, <1>7, <1>8, PushOK DEF Goto
<1>10. NoLook(Goto(fr))
  BY <1>1, <1>6, GotoNoLook
<1> FreedOK(Goto(fr), table')
  <2>1. FreedOK(Outer, table) /\ \A m : Untouched(Goto(fr), m) <=> Untouched(Outer, m) /\ n # m
    BY <1>1, <1>2, <1>6, FreedOuter, UntouchedPush DEF Goto
  <2>2. QED
    BY <1>5, <2>1 DEF FreedOK
<1>11. /\ StackOK(frames', table') /\ NoLook(frames') /\ FreedOK(frames', table')
       /\ count' \in [ObjectValue -> Int]
       /\ \A o \in ObjectValue : /\ count'[o] = count[o] - Is(v, o)
                                 /\ InFrames(frames', o) = InFrames(Goto(fr), o)
  BY <1>1, <1>2, <1>9, <1>10, ReleaseOK
<1>12. TypeInv'
  BY <1>1, <1>2, <1>5, <1>11 DEF TypeInv
<1>13. ASSUME NEW o \in ObjectValue
       PROVE  count'[o] = InTable(table', o) + In(o, var') + InFrames(frames', o) + leaked'[o]
  <2>1. InFrames(frames', o) = InFrames(frames, o) - Is(Nothing, o) + Is(Nothing, o)
    BY <1>1, <1>2, <1>6, <1>11, TopOK, InFramesOuter
  <2>2. count'[o] = count[o] - Is(v, o)
    BY <1>11
  <2>3. InTable(table', o) = InTable(table, o) - Is(v, o) + Is("freed", o)
    BY <1>5
  <2>4. /\ count[o] = InTable(table, o) + In(o, var) + InFrames(frames, o) + leaked[o]
        /\ In(o, var) \in Int /\ InFrames(frames, o) \in Int /\ leaked[o] \in Int
        /\ InTable(table, o) \in Nat /\ Is(v, o) \in Int
        /\ Is(Nothing, o) = 0 /\ Is("freed", o) = 0
    BY CountParts
  <2>5. var' = var /\ leaked' = leaked
    BY <1>1
  <2>6. QED
    BY ONLY <2>1, <2>2, <2>3, <2>4, <2>5
<1>14. QED
  BY <1>1, <1>11, <1>12, <1>13, NothingDone, Assemble DEF Counted

\* The entry of the member that a di_setx writes or adds is e, to which it holds
\* a reference, and the call returns.
LEMMA SetEnds ==
    ASSUME Inv, frames # <<>>, Cur.pc \in {"store", "write"}, Cur.pc = "write" \/ ~Has(Cur.name),
           NEW e \in Entry, e.data # "freed",
           table' = [table EXCEPT ![Cur.name] = e], Return(0),
           \A o \in ObjectValue : Is(table[Cur.name].data, o) = 0,
           count' \in [ObjectValue -> Int],
           \A o \in ObjectValue : count'[o] = count[o] + Is(e.data, o),
           var' = var, leaked' = leaked
    PROVE  Inv'
<1> DEFINE n == Cur.name
<1>1. /\ n \in MemberName /\ Cur.method = Nothing /\ Untouched(Outer, n) /\ TypeInv
      /\ StackOK(Outer, table) /\ NoLook(Outer) /\ frames' = Outer
  BY StoreFrame, TopOK DEF Return
<1>2. /\ table' \in [MemberName -> Entry \cup {Absent}]
      /\ \A m \in MemberName : m # n => table'[m] = table[m]
      /\ \A o \in ObjectValue : InTable(table', o) = InTable(table, o) - Is(table[n].data, o) + Is(e.data, o)
  <2>1. TypeInv /\ n \in MemberName /\ e \in Entry \cup {Absent} /\ table' = [table EXCEPT ![n] = e]
    BY <1>1
  <2>2. QED
    BY ONLY <2>1, TableChange
<1> HIDE DEF n
<1>3. StackOK(frames', table')
  <2>1. table \in [MemberName -> Entry \cup {Absent}]
    BY <1>1 DEF TypeInv
  <2>2. n \in MemberName /\ Untouched(Outer, n) /\ StackOK(Outer, table)
    BY <1>1
  <2>3. StackOK(Outer, table')
    BY ONLY <1>2, <2>1, <2>2, TableOK
  <2>4. QED
    BY <1>1, <2>3
<1>4. TypeInv'
  BY <1>1, <1>2 DEF TypeInv
<1>5. ASSUME NEW o \in ObjectValue
      PROVE  count'[o] = InTable(table', o) + In(o, var') + InFrames(frames', o) + leaked'[o]
  <2>1. InFrames(frames', o) = InFrames(frames, o) - Is(Nothing, o)
    BY <1>1, TopOK, InFramesOuter
  <2>2. InTable(table', o) = InTable(table, o) - Is(table[n].data, o) + Is(e.data, o)
    BY <1>2
  <2>3. count'[o] = count[o] + Is(e.data, o) /\ Is(table[n].data, o) = 0
    BY DEF n
  <2>4. /\ count[o] = InTable(table, o) + In(o, var) + InFrames(frames, o) + leaked[o]
        /\ In(o, var) \in Int /\ InFrames(frames, o) \in Int /\ leaked[o] \in Int
        /\ InTable(table, o) \in Nat /\ Is(e.data, o) \in Int
        /\ Is(Nothing, o) = 0 /\ Is("freed", o) = 0
    BY CountParts
  <2>5. var' = var /\ leaked' = leaked
    OBVIOUS
  <2>6. QED
    BY ONLY <2>1, <2>2, <2>3, <2>4, <2>5
<1>6. DispatchFaithful'
  BY ReturnDone
<1>7. FreedOK(frames', table')
  <2>1. table'[n].data # "freed" /\ (Cur.pc = "write" => Cur.name = n)
    BY <1>1 DEF TypeInv, n
  <2>2. FreedOK(Outer, table')
    <3>1. Inv /\ frames # <<>> /\ \A m \in MemberName : m # n => table'[m] = table[m]
      BY <1>2
    <3>2. QED
      BY ONLY <2>1, <3>1, FreedOuterBut
  <2>3. QED
    BY <1>1, <2>2
<1>8. QED
  BY <1>7, <1>1, <1>3, <1>4, <1>5, <1>6, Assemble DEF Counted

\* The new value is written.
LEMMA SetWriteInv ==
    ASSUME Inv, SetWrite
    PROVE  Inv'
<1> DEFINE n == Cur.name
           old == table[n]
           d == IF old.type = TypeOf(Cur.val) THEN Cur.val ELSE "garbage"
           e == [old EXCEPT !.data = d]
<1>1. frames # <<>> /\ Cur.pc = "write" /\ var' = var /\ leaked' = leaked /\ Return(0)
  BY DEF SetWrite
<1>2. /\ n \in MemberName /\ Cur.val \in MemberValue /\ Has(n) /\ old \in Entry /\ old.data = "freed" /\ TypeInv
  BY <1>1, StoreFrame, TopOK
<1>3. /\ table' = [table EXCEPT ![n] = e]
      /\ count' = IF old.type = "object" THEN Held(Cur.val) ELSE count
  BY <1>2 DEF SetWrite
<1> HIDE DEF n, old
<1>4. /\ e \in Entry /\ e.data = d /\ d # "freed"
      /\ old.type = "object" => d = Cur.val
      /\ old.type # "object" => d \notin ObjectValue
  <2>1. CASE old.type = "object"
    <3>1. Cur.val \in ObjectValue /\ d = Cur.val
      BY <1>1, <2>1 DEF SetWrite, TypeOf, old, n
    <3>2. old \in [type : {"object"}, data : ObjectValue \cup {"freed"}]
      BY <1>2, <2>1, MembersAssumption DEF Entry
    <3>3. e \in [type : {"object"}, data : ObjectValue \cup {"freed"}] /\ e.data = d
      BY <3>1, <3>2
    <3>4. d # "freed"
      BY <3>1, NotData
    <3>5. QED
      BY <2>1, <3>1, <3>3, <3>4 DEF Entry
  <2>2. CASE old.type # "object"
    <3>1. old \in [type : Plain, data : Plain \cup {"freed", "garbage"}]
      BY <1>2, <2>2 DEF Entry
    <3>2. d \in Plain \cup {"garbage"}
      <4>1. CASE Cur.val \in ObjectValue
        BY <2>2, <4>1 DEF TypeOf
      <4>2. CASE Cur.val \notin ObjectValue
        BY <1>2, <4>2 DEF MemberValue
      <4>3. QED
        BY <4>1, <4>2
    <3>3. e \in [type : Plain, data : Plain \cup {"freed", "garbage"}] /\ e.data = d
      BY <3>1, <3>2
    <3>4. d # "freed" /\ d \notin ObjectValue
      BY <3>2, MembersAssumption DEF MemberValue
    <3>5. QED
      BY <2>2, <3>3, <3>4 DEF Entry
  <2>3. QED
    BY <2>1, <2>2
<1> HIDE DEF d, e
<1>5. count' \in [ObjectValue -> Int] /\ \A o \in ObjectValue : count'[o] = count[o] + Is(d, o)
  <2>1. CASE old.type = "object"
    <3>1. count' = Held(Cur.val) /\ d = Cur.val
      BY <1>3, <1>4, <2>1
    <3>2. /\ Held(Cur.val) \in [ObjectValue -> Int]
          /\ \A o \in ObjectValue : Held(Cur.val)[o] = count[o] + Is(Cur.val, o)
      BY <1>2, HeldOK
    <3>3. QED
      BY <3>1, <3>2
  <2>2. CASE old.type # "object"
    <3>1. count' = count
      BY <1>3, <2>2
    <3>2. \A o \in ObjectValue : Is(d, o) = 0
      BY <1>4, <2>2 DEF Is
    <3>3. \A o \in ObjectValue : count[o] \in Int
      BY <1>2 DEF TypeInv
    <3>4. QED
      BY <1>2, <3>1, <3>2, <3>3 DEF TypeInv
  <2>3. QED
    BY <2>1, <2>2
<1>7. \A o \in ObjectValue : Is(table[Cur.name].data, o) = 0
  BY <1>2, NotData DEF Is, old, n
<1>8. table' = [table EXCEPT ![Cur.name] = e]
  BY <1>3 DEF n
<1>9. \A o \in ObjectValue : count'[o] = count[o] + Is(e.data, o)
  BY <1>4, <1>5
<1>10. QED
  BY <1>1, <1>4, <1>5, <1>7, <1>8, <1>9, SetEnds

\* The member is added.
LEMMA SetAddInv ==
    ASSUME Inv, SetAdd
    PROVE  Inv'
<1> DEFINE e == [type |-> TypeOf(Cur.val), data |-> Cur.val]
<1>1. frames # <<>> /\ Cur.pc = "store" /\ Cur.op = "set" /\ ~Has(Cur.name) /\ var' = var
      /\ leaked' = leaked /\ Return(0) /\ table' = [table EXCEPT ![Cur.name] = e]
      /\ count' = Held(Cur.val)
  BY DEF SetAdd
<1>2. Cur.name \in MemberName /\ Cur.val \in MemberValue /\ table[Cur.name] = Absent /\ TypeInv
  BY <1>1, StoreFrame, TopOK
<1>3. e \in Entry /\ e.data = Cur.val /\ e.data # "freed"
  BY <1>2, ValueEntry, MembersAssumption
<1> HIDE DEF e
<1>4. count' \in [ObjectValue -> Int] /\ \A o \in ObjectValue : count'[o] = count[o] + Is(e.data, o)
  BY <1>1, <1>2, <1>3, HeldOK
<1>5. \A o \in ObjectValue : Is(table[Cur.name].data, o) = 0
  BY <1>2, NotData DEF Is
<1>6. QED
  BY <1>1, <1>3, <1>4, <1>5, SetEnds

\* The member is taken out of the table and its value released.
LEMMA RemoveRawInv ==
    ASSUME Inv, RemoveRaw
    PROVE  Inv'
<1>1. frames # <<>> /\ Cur.pc = "store" /\ Cur.op = "remove" /\ ~Replacing(Cur.name) /\ var' = var /\ leaked' = leaked
      /\ done' = NoFrame
  BY DEF RemoveRaw
<1>2. /\ Cur.name \in MemberName /\ Cur.method = Nothing /\ Cur.calls = CallsOf(Cur.want)
      /\ Cur.name[1] = "" /\ Cur.pfx \in PrefixesOf(Cur.op) /\ Untouched(Outer, Cur.name)
      /\ FrameOK(Cur) /\ Cur \in FrameSet /\ TypeInv /\ StackOK(frames, table)
      /\ StackOK(Outer, table) /\ NoLook(Outer)
  BY <1>1, StoreFrame, TopOK
<1>3. ASSUME NEW r \in {0, 1}, NEW fr \in FrameSet, fr.op = Cur.op, fr.name = Cur.name,
             fr.val = Cur.val, fr.pfx = Cur.pfx, fr.pc = "return", fr.method = Nothing,
             fr.calls = Cur.calls, fr.want = Cur.want
      PROVE  FrameOK(fr)
  BY <1>1, <1>2, <1>3 DEF FrameOK, Ops
<1>4. CASE Has(Cur.name)
  <2> DEFINE n == Cur.name
             v == table[n].data
             fr == [Cur EXCEPT !.pc = "return"]
  <2>1. table' = [table EXCEPT ![n] = Absent] /\ ReleaseValue(v, Goto(fr))
    BY <1>4 DEF RemoveRaw
  <2>2. /\ fr \in FrameSet /\ fr.op = Cur.op /\ fr.name = Cur.name /\ fr.val = Cur.val
        /\ fr.pfx = Cur.pfx /\ fr.pc = "return" /\ fr.method = Nothing /\ fr.calls = Cur.calls
        /\ fr.want = Cur.want
    BY <1>2 DEF FrameSet
  <2> HIDE DEF fr
  <2>3. FrameOK(fr)
    BY <1>3, <2>2
  <2>4. n \in MemberName /\ Untouched(Outer, n) /\ TypeInv
    BY <1>2
  <2> HIDE DEF n
  <2>5. /\ table' \in [MemberName -> Entry \cup {Absent}]
        /\ \A m \in MemberName : m # n => table'[m] = table[m]
        /\ \A o \in ObjectValue : InTable(table', o) = InTable(table, o) - Is(v, o) + Is(Absent.data, o)
    BY <2>1, <2>4, TableChange
  <2> HIDE DEF v
  <2>6. StackOK(Outer, table')
    <3>1. table \in [MemberName -> Entry \cup {Absent}] /\ StackOK(Outer, table)
      BY <1>2 DEF TypeInv
    <3>2. QED
      BY ONLY <2>4, <2>5, <3>1, TableOK
  <2>7. StackOK(Goto(fr), table')
    <3>1. fr.pc # "write"
      BY <2>2
    <3>2. StackOK(Append(Outer, fr), table')
      BY ONLY <1>2, <2>2, <2>3, <2>6, <3>1, PushOK
    <3>3. QED
      BY <3>2 DEF Goto
  <2>8. NoLook(Goto(fr))
    BY <1>1, <2>2, GotoNoLook
  <2> FreedOK(Goto(fr), table')
    <3>1. Cur.pc # "write" /\ Absent.data # "freed" /\ table'[n] = Absent
      BY <1>1, <2>1, <2>4, TableChange DEF Absent, Nothing
    <3>2. FreedOK(Outer, table')
      BY <1>1, <2>5, <3>1, FreedOuterBut
    <3>3. QED
      BY <1>1, <2>2, <3>2, TopOK, FreedPush DEF Goto
  <2>9. /\ StackOK(frames', table') /\ NoLook(frames') /\ FreedOK(frames', table')
        /\ count' \in [ObjectValue -> Int]
        /\ \A o \in ObjectValue : /\ count'[o] = count[o] - Is(v, o)
                                  /\ InFrames(frames', o) = InFrames(Goto(fr), o)
    BY <2>1, <2>4, <2>7, <2>8, ReleaseOK
  <2>10. TypeInv'
    BY <1>1, <2>4, <2>5, <2>9 DEF TypeInv
  <2>11. ASSUME NEW o \in ObjectValue
         PROVE  count'[o] = InTable(table', o) + In(o, var') + InFrames(frames', o) + leaked'[o]
    <3>1. InFrames(frames', o) = InFrames(frames, o) - Is(Nothing, o) + Is(Nothing, o)
      BY <1>1, <1>2, <2>2, <2>9, TopOK, InFramesOuter
    <3>2. count'[o] = count[o] - Is(v, o)
      BY <2>9
    <3>3. InTable(table', o) = InTable(table, o) - Is(v, o) + Is(Absent.data, o)
      BY <2>5
    <3>4. /\ count[o] = InTable(table, o) + In(o, var) + InFrames(frames, o) + leaked[o]
          /\ In(o, var) \in Int /\ InFrames(frames, o) \in Int /\ leaked[o] \in Int
          /\ InTable(table, o) \in Nat /\ Is(v, o) \in Int
          /\ Is(Nothing, o) = 0 /\ Is(Absent.data, o) = 0
      BY CountParts
    <3>5. var' = var /\ leaked' = leaked
      BY <1>1
    <3>6. QED
      BY ONLY <3>1, <3>2, <3>3, <3>4, <3>5
  <2>12. QED
    BY <1>1, <2>9, <2>10, <2>11, NothingDone, Assemble DEF Counted
<1>5. CASE ~Has(Cur.name)
  <2> DEFINE fr == [Cur EXCEPT !.pc = "return", !.rc = 1]
  <2>1. table' = table /\ count' = count /\ frames' = Goto(fr)
    BY <1>5 DEF RemoveRaw
  <2>2. /\ fr \in FrameSet /\ fr.op = Cur.op /\ fr.name = Cur.name /\ fr.val = Cur.val
        /\ fr.pfx = Cur.pfx /\ fr.pc = "return" /\ fr.method = Nothing /\ fr.calls = Cur.calls
        /\ fr.want = Cur.want
    BY <1>2 DEF FrameSet
  <2> HIDE DEF fr
  <2>3. FrameOK(fr)
    BY <1>3, <2>2
  <2>4. StackOK(frames', table')
    BY <1>1, <1>2, <2>1, <2>2, <2>3, GotoOK
  <2>5. NoLook(frames')
    BY <1>1, <2>1, <2>2, GotoNoLook
  <2>6. TypeInv'
    BY <1>1, <1>2, <2>1 DEF TypeInv
  <2>7. ASSUME NEW o \in ObjectValue
        PROVE  count'[o] = InTable(table', o) + In(o, var') + InFrames(frames', o) + leaked'[o]
    <3>1. InFrames(frames', o) = InFrames(frames, o) - Is(Nothing, o) + Is(Nothing, o)
      BY <1>1, <1>2, <2>1, <2>2, TopOK, InFramesOuter
    <3>2. QED
      BY <1>1, <2>1, <3>1, CountParts
  <2>8. FreedOK(frames', table')
    BY <1>1, <2>1, <2>2, FreedOuter
  <2>9. QED
    BY <1>1, <2>8, <2>4, <2>5, <2>6, <2>7, NothingDone, Assemble DEF Counted
<1>6. QED
  BY <1>4, <1>5

-----------------------------------------------------------------------------
(* The theorems *)

\* A call that is no look-up crashes.
LEMMA StepCrashInv ==
    ASSUME Inv, FreeReplaced \/ WriteAsObject
    PROVE  Inv'
<1>1. frames # <<>> /\ Cur.pc # "look" /\ Crash
  BY DEF FreeReplaced, WriteAsObject
<1>2. frames \in Seq(FrameSet) /\ NoLook(Outer)
  BY <1>1, TopOK
<1>3. NoLook(frames)
  <2>1. Outer \in Seq(FrameSet) /\ Cur \in FrameSet /\ frames = Append(Outer, Cur)
    BY <1>1, <1>2, OuterFrames
  <2>2. NoLook(Append(Outer, Cur))
    BY <1>1, <1>2, <2>1 DEF NoLook
  <2>3. QED
    BY <2>1, <2>2
<1>4. QED
  BY <1>1, <1>3, CrashInv

\* No step leaves the invariant.
LEMMA NextInv ==
    ASSUME Inv, [MembersNext]_memberVars
    PROVE  Inv'
<1>1. CASE CallStep
  BY <1>1, DtorReturnsInv, CallHandlerInv, NoHandlerInv, ReturnsInv, SetFreeInv, SetWriteInv,
     SetAddInv, RemoveRawInv, MemberHandlerReturnsInv, StepCrashInv DEF CallStep
<1>2. CASE User
  BY <1>2, UserInv
<1>3. CASE UNCHANGED memberVars
  <2>1. /\ table' = table /\ count' = count /\ var' = var /\ leaked' = leaked
        /\ frames' = frames /\ done' = done
    BY <1>3 DEF memberVars
  <2>2. TypeInv' /\ StackOK(frames', table') /\ FreedOK(frames', table') /\ Counted' /\ DispatchFaithful'
    BY <2>1 DEF Inv, TypeInv, Counted, DispatchFaithful
  <2>3. \A op, n : Wanted(op, n)' = Wanted(op, n)
    BY <2>1, WantedSame
  <2>4. \A n, p : Unhandled(n, p)' <=> Unhandled(n, p)
    BY <2>1, WantedSame DEF Unhandled
  <2>5. LookOK'
    BY <2>1, <2>3, <2>4 DEF Inv, LookOK, Cur, IsInternal
  <2>6. QED
    BY <2>2, <2>5 DEF Inv
<1>4. QED
  BY <1>1, <1>2, <1>3 DEF MembersNext

\* The invariant holds at the start.
LEMMA InitInv ==
    ASSUME MembersInit
    PROVE  Inv
<1>1. TypeInv
  BY DEF MembersInit, TypeInv
<1>2. StackOK(frames, table) /\ frames = <<>> /\ Len(frames) = 0
  BY DEF MembersInit, StackOK
<1>3. LookOK
  BY <1>2 DEF LookOK
<1>4. ASSUME NEW o \in ObjectValue
      PROVE  count[o] = InTable(table, o) + In(o, var) + InFrames(frames, o) + leaked[o]
  <2>1. Absent.data # o
    BY NotData
  <2>2. {n \in MemberName : table[n].data = o} = {}
    BY <2>1 DEF MembersInit
  <2>3. {i \in 1..Len(frames) : frames[i].method = o} = {}
    BY <1>2
  <2>4. InTable(table, o) = 0 /\ InFrames(frames, o) = 0
    BY <2>2, <2>3, FS_EmptySet DEF InTable, InFrames
  <2>5. count[o] = 1 /\ In(o, var) = 1 /\ leaked[o] = 0
    BY DEF MembersInit, In
  <2>6. QED
    BY <2>4, <2>5
<1>5. DispatchFaithful
  <2>1. NoFrame.calls = <<>> /\ NoFrame.want = NoName
    BY DEF NoFrame
  <2>2. CallsOf(NoName) = <<>>
    BY DEF CallsOf
  <2>3. QED
    BY <2>1, <2>2 DEF MembersInit, DispatchFaithful
<1>6. FreedOK(frames, table)
  BY DEF MembersInit, FreedOK, Absent, Nothing
<1>7. QED
  BY <1>6, <1>1, <1>2, <1>3, <1>4, <1>5 DEF Inv, Counted

\* The invariant counts what CountsExact counts.
LEMMA InvExact ==
    ASSUME Inv
    PROVE  HandlersExact
<1>1. ASSUME NEW o \in ObjectValue
      PROVE  count[o] = Cardinality({n \in MemberName : Has(n) /\ table[n].data = o})
                        + (IF o \in var THEN 1 ELSE 0)
                        + Cardinality({i \in 1..Len(frames) : frames[i].method = o})
                        + leaked[o]
  <2>1. Absent.data # o
    BY NotData
  <2>2. {n \in MemberName : Has(n) /\ table[n].data = o} = {n \in MemberName : table[n].data = o}
    BY <2>1 DEF Has
  <2>3. count[o] = InTable(table, o) + In(o, var) + InFrames(frames, o) + leaked[o]
    BY DEF Inv, Counted
  <2>4. QED
    BY <2>2, <2>3 DEF InTable, InFrames, In
<1>2. MembersSound
  <2>1. TypeInv /\ StackOK(frames, table) /\ FreedOK(frames, table)
    BY DEF Inv
  <2>2. SUFFICES ASSUME NEW n \in MemberName
                 PROVE  /\ table[n].data = "freed" <=> Replacing(n)
                        /\ table[n].type = "object" => table[n].data \in ObjectValue \cup {"freed"}
    BY DEF MembersSound
  <2>3. table[n].data = "freed" => Replacing(n)
    BY <2>1 DEF FreedOK, Untouched, Replacing
  <2>4. Replacing(n) => table[n].data = "freed"
    BY <2>1 DEF StackOK, Replacing
  <2>5. table[n] \in Entry \cup {Absent}
    BY <2>1 DEF TypeInv
  <2>6. table[n].type = "object" => table[n].data \in ObjectValue \cup {"freed"}
    <3>1. CASE table[n] = Absent
      BY <3>1 DEF Absent, Nothing
    <3>2. CASE table[n] \in [type : {"object"}, data : ObjectValue \cup {"freed"}]
      BY <3>2
    <3>3. CASE table[n] \in [type : Plain, data : Plain \cup {"freed", "garbage"}]
      BY <3>3, MembersAssumption
    <3>4. QED
      BY <2>5, <3>1, <3>2, <3>3 DEF Entry
  <2>7. QED
    BY <2>3, <2>4, <2>6
<1>3. QED
  BY <1>1, <1>2 DEF HandlersExact, CountsExact, Inv

\* Dispatch on the members of an object, for any names, values and depth of
\* calls, up to where the program crashes: the reference counts are what members,
\* user code and running calls hold and what was lost; each operation has called
\* the first handler that was there when it began, with its arguments, and
\* nothing else; and only a member that a running di_setx replaces refers to what
\* was freed.
THEOREM HandlersAlwaysExact == MembersSpec => []HandlersExact
<1>1. MembersInit => Inv
  BY InitInv
<1>2. Inv /\ [MembersNext]_memberVars => Inv'
  BY NextInv
<1>3. Inv => HandlersExact
  BY InvExact
<1>4. QED
  BY <1>1, <1>2, <1>3, PTL DEF MembersSpec

\* Only a di_setx that ends reports something of a set.
LEMMA SetStoredOK ==
    ASSUME Inv, Inv', MembersNext
    PROVE  SetStored
<1>1. CASE done' = NoFrame
  <2>1. NoFrame.op = Nothing
    BY DEF NoFrame
  <2>2. QED
    BY <1>1, <2>1 DEF SetStored, Nothing
<1>2. CASE Returns
  <2>1. frames # <<>> /\ Cur.pc = "return" /\ Return(Cur.rc)
    BY <1>2 DEF Returns
  <2>2. FrameOK(Cur) /\ Cur \in FrameSet
    BY <2>1, TopOK
  <2>3. Cur.rc \in {0, 1}
    BY <2>2 DEF FrameSet
  <2>4. done'.op = Cur.op /\ done'.rc = Cur.rc /\ done'.calls = CallsOf(Cur.want)
    BY <2>1, <2>3, ReturnDone
  <2>5. SUFFICES ASSUME Cur.op = "set", Cur.rc = 0
                 PROVE  \E i \in 1..Len(done'.calls) : done'.calls[i][1][1] = "__set"
    BY <2>4 DEF SetStored
  <2>6. Cur.want # NoName /\ Cur.want[1] = "__set"
    BY <2>1, <2>2, <2>5 DEF FrameOK
  <2> DEFINE w == Cur.want
             args == (IF w[2] = "" THEN <<"name">> ELSE <<>>)
                     \o (IF w[1] = "__set" THEN <<"value">> ELSE <<>>)
  <2>7. done'.calls = <<<<w, args>>>>
    BY <2>4, <2>6 DEF CallsOf
  <2> HIDE DEF w, args
  <2>8. Len(done'.calls) = 1 /\ done'.calls[1] = <<w, args>> /\ <<w, args>>[1] = w
    BY <2>7
  <2>9. done'.calls[1][1][1] = "__set"
    BY <2>6, <2>8 DEF w
  <2>10. QED
    BY <2>8, <2>9
<1>3. CASE SetAdd
  <2>1. frames # <<>> /\ Cur.pc = "store" /\ Cur.op = "set" /\ Return(0)
        /\ table' = [table EXCEPT ![Cur.name] = [type |-> TypeOf(Cur.val), data |-> Cur.val]]
    BY <1>3 DEF SetAdd
  <2>2. done'.name = Cur.name /\ done'.val = Cur.val
    BY <2>1, ReturnDone
  <2>3. Cur.name \in MemberName /\ table \in [MemberName -> Entry \cup {Absent}]
        /\ table[Cur.name] = Absent
    BY <1>3, <2>1, StoreFrame DEF Inv, TypeInv, SetAdd
  <2>4. table[Cur.name].type = Nothing
    BY <2>3 DEF Absent
  <2>5. QED
    BY <2>1, <2>2, <2>3, <2>4 DEF SetStored
<1>4. CASE SetWrite
  <2> DEFINE n == Cur.name
             old == table[n]
             d == IF old.type = TypeOf(Cur.val) THEN Cur.val ELSE "garbage"
             e == [old EXCEPT !.data = d]
  <2>1. frames # <<>> /\ Cur.pc = "write" /\ Return(0)
    BY <1>4 DEF SetWrite
  <2>2. done'.name = n /\ done'.val = Cur.val
    BY <2>1, ReturnDone
  <2>3. /\ n \in MemberName /\ Cur.val \in MemberValue /\ Has(n) /\ old \in Entry
        /\ table \in [MemberName -> Entry \cup {Absent}]
    BY <2>1, StoreFrame, TopOK DEF TypeInv
  <2>4. table' = [table EXCEPT ![n] = e]
    BY <1>4, <2>3 DEF SetWrite
  <2>5. old.type # Nothing
    BY <2>3, MembersAssumption DEF Entry, Nothing, MemberValue
  <2>6. e = [type |-> old.type, data |-> d]
    BY <2>3 DEF Entry
  <2>7. table'[n] = [type |-> old.type, data |-> d]
    BY <2>3, <2>4, <2>6
  <2>8. QED
    BY <2>2, <2>5, <2>7 DEF SetStored
<1>5. QED
  BY <1>1, <1>2, <1>3, <1>4 DEF MembersNext, CallStep, User, DtorReturns, CallHandler, NoHandler, SetFree,
     RemoveRaw, MemberHandlerReturns, FreeReplaced, WriteAsObject, Crash, TouchReplaced, CallInert, AddMember, SetX, RawGetX, GetX, RemoveMember, CallX,
     RemoveRawByUser, DropReference, Start

\* A di_setx, for any names, values and depth of calls, which reports success and
\* which no setter took: the member is the value that was given, whatever the
\* deleter and the destructor of the old value did, unless it held a value of
\* another type before, which type it keeps.
THEOREM SetsStore == MembersSpec => SetStores
<1>1. MembersInit => Inv
  BY InitInv
<1>2. Inv /\ [MembersNext]_memberVars => Inv'
  BY NextInv
<1>3. Inv /\ Inv' /\ [MembersNext]_memberVars => [done' # done => SetStored]_memberVars
  BY SetStoredOK DEF memberVars
<1>4. QED
  BY <1>1, <1>2, <1>3, PTL DEF MembersSpec, SetStores
=============================================================================
