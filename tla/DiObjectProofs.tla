--------------------------- MODULE DiObjectProofs ---------------------------
(***************************************************************************)
(* Proofs about DiObject, for any finite sets of objects, names and        *)
(* variables, any stack bound, and whatever user code is allowed to do.    *)
(***************************************************************************)
EXTENDS DiObject, TLAPS, FiniteSetTheorems, SequenceTheorems

ObjectOrNull == Object \cup {Null}
RefMap == [Cell -> ObjectOrNull]

\* The number of cells that refer to o in the reference map f.
Count(f, o) == Cardinality({c \in Cell : f[c] = o})

-----------------------------------------------------------------------------
(* Cells and counting *)

\* There are finitely many cells, so references can be counted.
LEMMA CellFinite == IsFiniteSet(Cell)
<1>1. IsFiniteSet(VarCell)
  <2> DEFINE f == [s \in Slot |-> Var(s)]
  <2>1. f \in Surjection(Slot, VarCell)
    BY DEF Surjection, VarCell
  <2>2. QED
    BY <2>1, ConstantsAssumption, FS_Surjection
<1>2. IsFiniteSet(MemCell)
  <2> DEFINE f == [p \in Object \X Name |-> Mem(p[1], p[2])]
  <2>1. IsFiniteSet(Object \X Name)
    BY ConstantsAssumption, FS_Product
  <2>2. f \in [Object \X Name -> MemCell]
    BY DEF MemCell
  <2>3. ASSUME NEW c \in MemCell
        PROVE  \E p \in Object \X Name : f[p] = c
    <3>1. PICK o \in Object, n \in Name : c = Mem(o, n)
      BY DEF MemCell
    <3>2. f[<<o, n>>] = c
      BY <3>1
    <3>3. QED
      BY <3>2
  <2>4. f \in Surjection(Object \X Name, MemCell)
    BY <2>2, <2>3 DEF Surjection
  <2>5. QED
    BY <2>1, <2>4, FS_Surjection
<1>3. IsFiniteSet(FrmCell)
  <2> DEFINE f == [d \in 1..MaxDepth |-> Frm(d)]
  <2>1. IsFiniteSet(1..MaxDepth)
    BY ConstantsAssumption, FS_Interval
  <2>2. f \in Surjection(1..MaxDepth, FrmCell)
    BY DEF Surjection, FrmCell
  <2>3. QED
    BY <2>1, <2>2, FS_Surjection
<1>4. QED
  BY <1>1, <1>2, <1>3, FS_Union DEF Cell

\* Membership and distinctness of the three kinds of cells.
LEMMA Cells ==
    /\ \A s \in Slot : Var(s) \in Cell
    /\ \A o \in Object, n \in Name : Mem(o, n) \in Cell
    /\ \A d \in 1..MaxDepth : Frm(d) \in Cell
    /\ \A d, e : Frm(d) = Frm(e) => d = e
    /\ \A d, s : Frm(d) # Var(s)
    /\ \A d, o, n : Frm(d) # Mem(o, n)
BY DEF Cell, VarCell, MemCell, FrmCell, Var, Mem, Frm

\* The cells referring to o form a finite set, hence a natural count.
LEMMA CountNat ==
    ASSUME NEW f, NEW o
    PROVE  /\ IsFiniteSet({c \in Cell : f[c] = o})
           /\ Count(f, o) \in Nat
<1>1. IsFiniteSet({c \in Cell : f[c] = o})
  BY CellFinite, FS_Subset
<1>2. QED
  BY <1>1, FS_CardinalityType DEF Count

\* A cell that refers to x makes the count of x positive.
LEMMA CountPositive ==
    ASSUME NEW f, NEW c \in Cell
    PROVE  Count(f, f[c]) > 0
<1>1. {d \in Cell : f[d] = f[c]} # {}
  OBVIOUS
<1> DEFINE S == {d \in Cell : f[d] = f[c]}
<1>2. IsFiniteSet(S)
  BY CountNat
<1> HIDE DEF S
<1>4. Cardinality(S) # 0
  BY <1>1, <1>2, FS_EmptySet DEF S
<1>5. Count(f, f[c]) = Cardinality(S)
  BY DEF S, Count
<1>6. Count(f, f[c]) \in Nat
  BY CountNat
<1>7. QED
  BY <1>4, <1>5, <1>6

\* A positive count has a witness.
LEMMA CountWitness ==
    ASSUME NEW f, NEW o, Count(f, o) > 0
    PROVE  \E c \in Cell : f[c] = o
<1>1. SUFFICES ASSUME \A c \in Cell : f[c] # o PROVE FALSE
  OBVIOUS
<1>2. {c \in Cell : f[c] = o} = {}
  BY <1>1
<1>3. QED
  BY <1>2, FS_EmptySet DEF Count

\* Storing a reference in an empty cell adds one to the count of its object.
LEMMA CountSet ==
    ASSUME NEW f \in RefMap, NEW c \in Cell, NEW x \in Object, f[c] = Null,
           NEW o \in Object
    PROVE  Count([f EXCEPT ![c] = x], o)
               = IF o = x THEN Count(f, o) + 1 ELSE Count(f, o)
<1> DEFINE g == [f EXCEPT ![c] = x]
           S == {d \in Cell : f[d] = o}
           T == {d \in Cell : g[d] = o}
<1>1. c \notin S
  BY ConstantsAssumption
<1>2. CASE o = x
  <2>1. T = S \cup {c}
    BY <1>2 DEF RefMap
  <2>2. Cardinality(T) = Cardinality(S) + 1
    <3>1. IsFiniteSet(S)
      BY CountNat
    <3> HIDE DEF S
    <3>2. QED
      BY <1>1, <2>1, <3>1, FS_AddElement, FS_CardinalityType
  <2>3. QED
    BY <1>2, <2>2 DEF Count
<1>3. CASE o # x
  <2>1. T = S
    BY <1>3, <1>1 DEF RefMap
  <2>2. QED
    BY <1>3, <2>1 DEF Count
<1>4. QED
  BY <1>2, <1>3

\* Emptying a cell takes one from the count of the object it referred to.
LEMMA CountClear ==
    ASSUME NEW f \in RefMap, NEW c \in Cell, NEW o \in Object, f[c] # Null
    PROVE  Count([f EXCEPT ![c] = Null], o)
               = IF o = f[c] THEN Count(f, o) - 1 ELSE Count(f, o)
<1> DEFINE g == [f EXCEPT ![c] = Null]
           S == {d \in Cell : f[d] = o}
           T == {d \in Cell : g[d] = o}
<1>1. CASE o = f[c]
  <2>1. T = S \ {c} /\ c \in S
    BY <1>1, ConstantsAssumption DEF RefMap
  <2>2. Cardinality(T) = Cardinality(S) - 1
    <3>1. IsFiniteSet(S)
      BY CountNat
    <3> HIDE DEF S
    <3>2. QED
      BY <2>1, <3>1, FS_RemoveElement
  <2>3. QED
    BY <1>1, <2>2 DEF Count
<1>2. CASE o # f[c]
  <2>1. T = S
    BY <1>2, ConstantsAssumption DEF RefMap
  <2>2. QED
    BY <1>2, <2>1 DEF Count
<1>3. QED
  BY <1>1, <1>2

\* Moving a reference to an empty cell, or back to the same cell, changes no
\* count.
LEMMA CountMove ==
    ASSUME NEW f \in RefMap, NEW c \in Cell, NEW e \in Cell, NEW o \in Object,
           f[c] # Null, e = c \/ f[e] = Null
    PROVE  Count([f EXCEPT ![c] = Null, ![e] = f[c]], o) = Count(f, o)
<1> DEFINE g == [f EXCEPT ![c] = Null]
<1>1. g \in RefMap /\ g[e] = Null
  BY DEF RefMap, ObjectOrNull
<1>2. f[c] \in Object
  BY DEF RefMap, ObjectOrNull
<1>3. Count([g EXCEPT ![e] = f[c]], o)
          = IF o = f[c] THEN Count(g, o) + 1 ELSE Count(g, o)
  <2> DEFINE x == f[c]
  <2>1. x \in Object
    BY <1>2
  <2> HIDE DEF g, x
  <2>2. Count([g EXCEPT ![e] = x], o) = IF o = x THEN Count(g, o) + 1 ELSE Count(g, o)
    BY <1>1, <2>1, CountSet
  <2>3. QED
    BY <2>2 DEF x
<1>4. Count(g, o) = IF o = f[c] THEN Count(f, o) - 1 ELSE Count(f, o)
  BY CountClear
<1>5. Count(f, o) \in Nat
  BY CountNat
<1>6. [f EXCEPT ![c] = Null, ![e] = f[c]] = [g EXCEPT ![e] = f[c]]
  BY DEF RefMap
<1>7. QED
  BY <1>3, <1>4, <1>5, <1>6

-----------------------------------------------------------------------------
(* The inductive invariant *)

HeapType ==
    /\ mem \in [Object -> {"unused", "live", "freed"}]
    /\ refCount \in [Object -> Nat]
    /\ weakCount \in [Object -> Nat]
    /\ destroyed \in [Object -> BOOLEAN]
    /\ own \in RefMap
    /\ weak \in RefMap

\* A struct with a positive weak count has not been freed.
CountedIsLive == \A o \in Object : weakCount[o] > 0 => mem[o] = "live"

\* The heap part: the counters are exact, and so no held pointer dangles.
HeapInv == HeapType /\ RefCountExact /\ WeakCountExact /\ CountedIsLive

\* The stack part: a frame holds the reference it took, cells of frames that do
\* not exist are empty, and destroy frames belong to distinct destroyed objects.
StackInv ==
    /\ dtor \in [Object -> BOOLEAN]
    /\ stack \in Seq(Frame)
    /\ Len(stack) <= MaxDepth
    /\ \A d \in 1..MaxDepth :
           /\ d > Len(stack) => own[Frm(d)] = Null
           /\ weak[Frm(d)] = Null
    /\ DestroyOnce

IInv == HeapInv /\ StackInv

\* An owned object has a positive strong count.
LEMMA OwnedCounted ==
    ASSUME HeapInv, NEW c \in Cell, own[c] # Null
    PROVE  own[c] \in Object /\ refCount[own[c]] > 0
<1>1. own[c] \in Object
  BY DEF HeapInv, HeapType, RefMap, ObjectOrNull
<1>2. Count(own, own[c]) > 0
  BY CountPositive
<1>3. QED
  BY <1>1, <1>2 DEF HeapInv, RefCountExact, Count

\* A weakly referenced object has a positive weak count.
LEMMA WeaklyOwnedCounted ==
    ASSUME HeapInv, NEW c \in Cell, weak[c] # Null
    PROVE  weak[c] \in Object /\ weakCount[weak[c]] > 0
<1>1. weak[c] \in Object
  BY DEF HeapInv, HeapType, RefMap, ObjectOrNull
<1>2. Count(weak, weak[c]) > 0 /\ Count(weak, weak[c]) \in Nat
  BY CountPositive, CountNat
<1>3. weakCount[weak[c]]
          = Count(weak, weak[c]) + (IF refCount[weak[c]] > 0 THEN 1 ELSE 0)
  BY <1>1 DEF HeapInv, WeakCountExact, Count
<1>4. QED
  BY <1>1, <1>2, <1>3

\* An object with a positive strong count has a positive weak count too: the
\* implicit weak reference.
LEMMA StrongImpliesWeak ==
    ASSUME HeapInv, NEW o \in Object, refCount[o] > 0
    PROVE  weakCount[o] > 0
<1>1. weakCount[o] = Count(weak, o) + 1
  BY DEF HeapInv, WeakCountExact, Count
<1>2. Count(weak, o) \in Nat
  BY CountNat
<1>3. QED
  BY <1>1, <1>2

\* Pointers are live because they are counted.
LEMMA HeapInvPointersLive ==
    ASSUME HeapInv
    PROVE  PointersLive
<1>1. ASSUME NEW c \in Cell, own[c] # Null
      PROVE  mem[own[c]] = "live"
  BY <1>1, OwnedCounted, StrongImpliesWeak DEF HeapInv, CountedIsLive
<1>2. ASSUME NEW c \in Cell, weak[c] # Null
      PROVE  mem[weak[c]] = "live"
  BY <1>2, WeaklyOwnedCounted DEF HeapInv, CountedIsLive
<1>3. QED
  BY <1>1, <1>2 DEF PointersLive

-----------------------------------------------------------------------------
(* The primitives preserve the heap part *)

\* di_ref_object keeps the counts exact, for an object that is owned.
LEMMA RefObjectHeap ==
    ASSUME HeapInv, NEW o \in Object, NEW c \in Cell, own[c] = Null,
           refCount[o] > 0, RefObject(o, c)
    PROVE  HeapInv'
<1>1. HeapType'
  BY DEF HeapInv, HeapType, RefObject, RefMap, ObjectOrNull
<1>2. ASSUME NEW p \in Object
      PROVE  refCount'[p] = Count(own', p)
  <2>1. Count(own', p) = IF p = o THEN Count(own, p) + 1 ELSE Count(own, p)
    BY CountSet DEF HeapInv, HeapType, RefObject
  <2>2. refCount[p] = Count(own, p)
    BY DEF HeapInv, RefCountExact, Count
  <2>3. QED
    BY <2>1, <2>2 DEF HeapInv, HeapType, RefObject
<1>3. RefCountExact'
  BY <1>2 DEF RefCountExact, Count
<1>4. WeakCountExact'
  <2>1. ASSUME NEW p \in Object PROVE (refCount'[p] > 0) <=> (refCount[p] > 0)
    BY DEF HeapInv, HeapType, RefObject
  <2>2. QED
    BY <2>1 DEF HeapInv, WeakCountExact, RefObject
<1>5. CountedIsLive'
  BY DEF HeapInv, CountedIsLive, RefObject
<1>6. QED
  BY <1>1, <1>3, <1>4, <1>5 DEF HeapInv

\* di_weakly_ref_object keeps the counts exact, for an object that is not freed.
LEMMA WeaklyRefObjectHeap ==
    ASSUME HeapInv, NEW o \in Object, NEW c \in Cell, weak[c] = Null,
           weakCount[o] > 0, WeaklyRefObject(o, c)
    PROVE  HeapInv'
<1>1. HeapType'
  BY DEF HeapInv, HeapType, WeaklyRefObject, RefMap, ObjectOrNull
<1>2. RefCountExact'
  BY DEF HeapInv, RefCountExact, WeaklyRefObject
<1>3. ASSUME NEW p \in Object
      PROVE  weakCount'[p] = Count(weak', p) + (IF refCount'[p] > 0 THEN 1 ELSE 0)
  <2>1. Count(weak', p) = IF p = o THEN Count(weak, p) + 1 ELSE Count(weak, p)
    BY CountSet DEF HeapInv, HeapType, WeaklyRefObject
  <2>2. weakCount[p] = Count(weak, p) + (IF refCount[p] > 0 THEN 1 ELSE 0)
    BY DEF HeapInv, WeakCountExact, Count
  <2>3. Count(weak, p) \in Nat
    BY CountNat
  <2>4. QED
    BY <2>1, <2>2, <2>3 DEF HeapInv, HeapType, WeaklyRefObject
<1>4. WeakCountExact'
  BY <1>3 DEF WeakCountExact, Count
<1>5. CountedIsLive'
  BY DEF HeapInv, HeapType, CountedIsLive, WeaklyRefObject
<1>6. QED
  BY <1>1, <1>2, <1>4, <1>5 DEF HeapInv

\* di_drop_weak_ref keeps the counts exact.
LEMMA DropWeakRefHeap ==
    ASSUME HeapInv, NEW c \in Cell, weak[c] # Null, DropWeakRef(c), own' = own
    PROVE  HeapInv'
<1> DEFINE o == weak[c]
<1>0. o \in Object /\ weakCount[o] > 0
  BY WeaklyOwnedCounted
<1>1. HeapType'
  BY <1>0 DEF HeapInv, HeapType, DropWeakRef, DecrementWeakRefCount, RefMap, ObjectOrNull
<1>2. RefCountExact'
  BY DEF HeapInv, RefCountExact, DropWeakRef
<1>3. ASSUME NEW p \in Object
      PROVE  weakCount'[p] = Count(weak', p) + (IF refCount'[p] > 0 THEN 1 ELSE 0)
  <2>1. Count(weak', p) = IF p = o THEN Count(weak, p) - 1 ELSE Count(weak, p)
    BY CountClear DEF HeapInv, HeapType, DropWeakRef
  <2>2. weakCount[p] = Count(weak, p) + (IF refCount[p] > 0 THEN 1 ELSE 0)
    BY DEF HeapInv, WeakCountExact, Count
  <2>3. Count(weak, p) \in Nat
    BY CountNat
  <2>4. weakCount'[p] = IF p = o THEN weakCount[p] - 1 ELSE weakCount[p]
    BY <1>0 DEF HeapInv, HeapType, DropWeakRef, DecrementWeakRefCount
  <2>5. refCount' = refCount
    BY DEF DropWeakRef
  <2>6. QED
    BY <2>1, <2>2, <2>3, <2>4, <2>5
<1>4. WeakCountExact'
  BY <1>3 DEF WeakCountExact, Count
<1>5. CountedIsLive'
  BY <1>0 DEF HeapInv, HeapType, CountedIsLive, DropWeakRef, DecrementWeakRefCount
<1>6. QED
  BY <1>1, <1>2, <1>4, <1>5 DEF HeapInv

\* di_unref_object keeps the counts exact, including when it starts the
\* destruction of the object.
LEMMA UnrefObjectHeap ==
    ASSUME HeapInv, NEW c \in Cell, own[c] # Null, NEW stk, Len(stk) \in Nat,
           Len(stk) < MaxDepth =>
               (Frm(Len(stk) + 1) = c \/ own[Frm(Len(stk) + 1)] = Null),
           UnrefObject(c, stk), weak' = weak
    PROVE  HeapInv'
<1> DEFINE o == own[c]
<1>0. o \in Object /\ refCount[o] > 0 /\ weakCount[o] > 0
  BY OwnedCounted, StrongImpliesWeak
<1>1. ASSUME NEW p \in Object
      PROVE  Count([own EXCEPT ![c] = Null], p)
                 = IF p = o THEN refCount[p] - 1 ELSE refCount[p]
  <2>1. refCount[p] = Count(own, p)
    BY DEF HeapInv, RefCountExact, Count
  <2>2. own \in RefMap
    BY DEF HeapInv, HeapType
  <2>3. Count([own EXCEPT ![c] = Null], p)
            = IF p = own[c] THEN Count(own, p) - 1 ELSE Count(own, p)
    BY <2>2, CountClear
  <2>4. QED
    BY <2>1, <2>3
<1>2. CASE refCount[o] # 1 /\ UNCHANGED <<mem, weakCount, destroyed>>
           /\ refCount' = [refCount EXCEPT ![o] = @ - 1]
           /\ own' = [own EXCEPT ![c] = Null]
  <2>1. HeapType'
    BY <1>0, <1>2 DEF HeapInv, HeapType, RefMap, ObjectOrNull
  <2>2. RefCountExact'
    BY <1>1, <1>2 DEF HeapInv, HeapType, RefCountExact, Count
  <2>3. ASSUME NEW p \in Object PROVE (refCount'[p] > 0) <=> (refCount[p] > 0)
    BY <1>0, <1>2 DEF HeapInv, HeapType
  <2>4. WeakCountExact'
    BY <1>2, <2>3 DEF HeapInv, WeakCountExact
  <2>5. QED
    BY <1>2, <2>1, <2>2, <2>4 DEF HeapInv, CountedIsLive
<1>3. CASE refCount[o] = 1 /\ refCount' = [refCount EXCEPT ![o] = 0]
           /\ own' = [own EXCEPT ![c] = Null] /\ UNCHANGED destroyed
           /\ DecrementWeakRefCount(o)
  <2>1. HeapType'
    BY <1>0, <1>3 DEF HeapInv, HeapType, RefMap, ObjectOrNull, DecrementWeakRefCount
  <2>2. RefCountExact'
    BY <1>1, <1>3 DEF HeapInv, HeapType, RefCountExact, Count
  <2>3. ASSUME NEW p \in Object
        PROVE  weakCount'[p] = Count(weak', p) + (IF refCount'[p] > 0 THEN 1 ELSE 0)
    <3>1. weakCount[p] = Count(weak, p) + (IF refCount[p] > 0 THEN 1 ELSE 0)
      BY DEF HeapInv, WeakCountExact, Count
    <3>2. Count(weak, p) \in Nat
      BY CountNat
    <3>3. /\ weakCount'[p] = IF p = o THEN weakCount[p] - 1 ELSE weakCount[p]
          /\ refCount'[p] = IF p = o THEN 0 ELSE refCount[p]
      BY <1>3 DEF HeapInv, HeapType, DecrementWeakRefCount
    <3>4. QED
      BY <1>3, <3>1, <3>2, <3>3
  <2>4. WeakCountExact'
    BY <2>3 DEF WeakCountExact, Count
  <2>5. CountedIsLive'
    BY <1>0, <1>3 DEF HeapInv, HeapType, CountedIsLive, DecrementWeakRefCount
  <2>6. QED
    BY <2>1, <2>2, <2>4, <2>5 DEF HeapInv
<1>4. CASE DestroyObject(o, c, stk)
  <2> DEFINE e == Frm(Len(stk) + 1)
  <2>1. e \in Cell /\ (e = c \/ own[e] = Null)
    BY <1>4, Cells, ConstantsAssumption DEF DestroyObject
  <2>2. own' = [own EXCEPT ![c] = Null, ![e] = own[c]]
    BY <1>4 DEF DestroyObject
  <2>3. HeapType'
    BY <1>0, <1>4, <2>1, <2>2 DEF HeapInv, HeapType, RefMap, ObjectOrNull, DestroyObject
  <2>4. ASSUME NEW p \in Object PROVE Count(own', p) = Count(own, p)
    <3>1. own \in RefMap
      BY DEF HeapInv, HeapType
    <3> HIDE DEF e
    <3>2. Count([own EXCEPT ![c] = Null, ![e] = own[c]], p) = Count(own, p)
      BY <2>1, <3>1, CountMove
    <3>3. QED
      BY <2>2, <3>2
  <2>5. RefCountExact'
    BY <1>4, <2>4 DEF HeapInv, RefCountExact, Count, DestroyObject
  <2>6. QED
    BY <1>4, <2>3, <2>5 DEF HeapInv, WeakCountExact, CountedIsLive, DestroyObject
<1>5. QED
  BY <1>2, <1>3, <1>4 DEF UnrefObject

-----------------------------------------------------------------------------
(* The stack *)

\* stk is a stack that a call may run on when it releases the reference of cell
\* c: the present stack, its top frame advanced, or the top frame (which owned
\* c) popped.
CallStack(stk, c) ==
    /\ stk \in Seq(Frame)
    /\ Len(stk) <= Len(stack)
    /\ \A d \in 1..Len(stk) :
           /\ stk[d].obj = stack[d].obj
           /\ stk[d].op = stack[d].op
           /\ Frm(d) # c
    /\ \A d \in 1..MaxDepth : d > Len(stk) => (Frm(d) = c \/ own[Frm(d)] = Null)

\* The object of a frame is an object.
LEMMA FrameObject == \A f \in Frame : f.obj \in Object
BY DEF Frame

\* Advancing the top frame changes neither its object nor its operation.
LEMMA SetTopStack ==
    ASSUME StackInv, stack # <<>>, NEW c \in VarCell \cup MemCell,
           NEW pc \in {"enter", "dtor", "loop"}, NEW n \in Name \cup {Null}
    PROVE  /\ CallStack(SetTop(pc, n), c)
           /\ Len(SetTop(pc, n)) = Len(stack)
<1> DEFINE stk == SetTop(pc, n)
           top == [stack[Len(stack)] EXCEPT !.pc = pc, !.next = n]
<1>1. stack \in Seq(Frame) /\ Len(stack) \in 1..MaxDepth
  BY ConstantsAssumption DEF StackInv
<1>2. stack[Len(stack)] \in Frame
  BY <1>1
<1>3. top \in Frame /\ top.obj = stack[Len(stack)].obj /\ top.op = stack[Len(stack)].op
  BY <1>2 DEF Frame
<1>4. stk = [stack EXCEPT ![Len(stack)] = top]
  BY DEF SetTop
<1> HIDE DEF stk, top
<1>5. stk \in Seq(Frame) /\ Len(stk) = Len(stack)
  BY <1>1, <1>3, <1>4
<1>6. ASSUME NEW d \in 1..Len(stk)
      PROVE  stk[d].obj = stack[d].obj /\ stk[d].op = stack[d].op /\ Frm(d) # c
  <2>1. Frm(d) # c
    BY Cells DEF VarCell, MemCell
  <2>2. stk[d] = IF d = Len(stack) THEN top ELSE stack[d]
    BY <1>1, <1>4, <1>5
  <2>3. QED
    BY <1>3, <2>1, <2>2
<1>7. QED
  BY <1>1, <1>5, <1>6 DEF CallStack, StackInv, stk

\* A prefix of a sequence.
LEMMA Prefix ==
    ASSUME NEW S, NEW q \in Seq(S), NEW k \in Nat, k <= Len(q)
    PROVE  /\ SubSeq(q, 1, k) \in Seq(S)
           /\ Len(SubSeq(q, 1, k)) = k
           /\ \A i \in 1..k : SubSeq(q, 1, k)[i] = q[i]
<1>1. \A i \in 1..k : q[i] \in S
  OBVIOUS
<1>2. /\ SubSeq(q, 1, k) \in Seq(S)
      /\ Len(SubSeq(q, 1, k)) = IF 1 <= k THEN k - 1 + 1 ELSE 0
      /\ \A i \in 1..(k - 1 + 1) : SubSeq(q, 1, k)[i] = q[1 + i - 1]
  BY <1>1, SubSeqProperties
<1> DEFINE p == SubSeq(q, 1, k)
<1> HIDE DEF p
<1>3. k - 1 + 1 = k /\ \A i \in 1..k : 1 + i - 1 = i
  OBVIOUS
<1>4. Len(p) = k
  BY <1>2, <1>3 DEF p
<1>5. QED
  BY <1>2, <1>3, <1>4 DEF p

\* Popping the top frame leaves the frames below it.
LEMMA PoppedStack ==
    ASSUME StackInv, stack # <<>>
    PROVE  CallStack(Popped, Frm(Len(stack))) /\ Len(Popped) = Len(stack) - 1
<1>1. stack \in Seq(Frame) /\ Len(stack) \in 1..MaxDepth
  BY ConstantsAssumption DEF StackInv
<1>2. /\ Popped \in Seq(Frame) /\ Len(Popped) = Len(stack) - 1
      /\ \A d \in 1..Len(Popped) : Popped[d] = stack[d]
  <2> DEFINE k == Len(stack) - 1
  <2>1. k \in Nat /\ k <= Len(stack)
    BY <1>1
  <2>2. Popped = SubSeq(stack, 1, k)
    BY DEF Popped
  <2> HIDE DEF k
  <2>3. QED
    BY <1>1, <2>1, <2>2, Prefix DEF k
<1>3. \A d \in 1..Len(Popped) : Frm(d) # Frm(Len(stack))
  BY <1>1, <1>2, Cells
<1>4. \A d \in 1..MaxDepth : d > Len(Popped) => (d = Len(stack) \/ d > Len(stack))
  BY <1>1, <1>2
<1>5. QED
  BY <1>1, <1>2, <1>3, <1>4 DEF CallStack, StackInv

\* The present stack, for a cell that belongs to no frame.
LEMMA SameStack ==
    ASSUME StackInv, NEW c \in VarCell \cup MemCell
    PROVE  CallStack(stack, c)
<1>1. \A d : Frm(d) # c
  BY Cells DEF VarCell, MemCell
<1>2. QED
  BY <1>1 DEF CallStack, StackInv

\* A step that leaves own and weak of the frames alone, and replaces the stack
\* by one with the same objects and operations, keeps the stack part.
LEMMA StackKept ==
    ASSUME StackInv, NEW c \in Cell, CallStack(stack', c),
           dtor' \in [Object -> BOOLEAN],
           \A o \in Object : destroyed[o] => destroyed'[o],
           \A d \in 1..MaxDepth : weak'[Frm(d)] = Null,
           \A d \in 1..Len(stack') : own'[Frm(d)] = own[Frm(d)],
           \A d \in 1..MaxDepth : d > Len(stack') => own'[Frm(d)] = Null
    PROVE  StackInv'
<1>1. /\ stack' \in Seq(Frame) /\ Len(stack') <= Len(stack)
      /\ stack \in Seq(Frame) /\ Len(stack) <= MaxDepth
      /\ DOMAIN stack' = 1..Len(stack') /\ DOMAIN stack = 1..Len(stack)
  BY DEF CallStack, StackInv
<1>2. Len(stack') <= MaxDepth
  BY <1>1, ConstantsAssumption
<1>3. \A d \in DOMAIN stack' :
          /\ d \in DOMAIN stack
          /\ stack'[d].obj = stack[d].obj /\ stack'[d].op = stack[d].op
          /\ stack[d].obj \in Object
  BY <1>1, FrameObject DEF CallStack
<1>4. DestroyOnce'
  BY <1>1, <1>3 DEF StackInv, DestroyOnce
<1>5. QED
  BY <1>1, <1>2, <1>4 DEF StackInv

\* di_unref_object keeps the stack part: if it starts a destruction, the object
\* was not being destroyed by any frame.
LEMMA UnrefObjectStack ==
    ASSUME HeapInv, StackInv, NEW c \in Cell, own[c] # Null,
           NEW stk, CallStack(stk, c), UnrefObject(c, stk),
           weak' = weak, dtor' = dtor
    PROVE  StackInv'
<1> DEFINE o == own[c]
<1>1. /\ stk \in Seq(Frame) /\ Len(stk) <= Len(stack) /\ Len(stack) <= MaxDepth
      /\ stack \in Seq(Frame) /\ Len(stk) \in Nat /\ Len(stack) \in Nat
      /\ DOMAIN stk = 1..Len(stk) /\ DOMAIN stack = 1..Len(stack)
  BY DEF CallStack, StackInv
<1>2. o \in Object /\ own \in RefMap /\ destroyed \in [Object -> BOOLEAN]
  BY OwnedCounted DEF HeapInv, HeapType
<1>3. \A d \in 1..MaxDepth : Frm(d) \in Cell
  BY Cells
<1>4. CASE own' = [own EXCEPT ![c] = Null] /\ stack' = stk /\ destroyed' = destroyed
  <2>1. \A d \in 1..Len(stk) : own'[Frm(d)] = own[Frm(d)]
    BY <1>1, <1>2, <1>3, <1>4, ConstantsAssumption DEF CallStack, RefMap
  <2>2. \A d \in 1..MaxDepth : d > Len(stk) => own'[Frm(d)] = Null
    BY <1>2, <1>3, <1>4 DEF CallStack, RefMap
  <2>3. QED
    BY <1>4, <2>1, <2>2, StackKept DEF StackInv
<1>5. CASE ~destroyed[o] /\ DestroyObject(o, c, stk)
  <2> DEFINE k == Len(stk) + 1
             fr == Enter("destroy", o)
  <2>1. k \in 1..MaxDepth /\ Frm(k) \in Cell
    BY <1>1, <1>3, <1>5, ConstantsAssumption DEF DestroyObject
  <2>2. fr \in Frame /\ fr.obj = o /\ fr.op = "destroy"
    BY <1>2 DEF Enter, Frame
  <2>3. stack' = Append(stk, fr)
    BY <1>5 DEF DestroyObject
  <2> HIDE DEF fr
  <2>4. /\ stack' \in Seq(Frame) /\ Len(stack') = k /\ stack'[k] = fr
        /\ \A d \in 1..Len(stk) : stack'[d] = stk[d]
    BY <1>1, <2>2, <2>3
  <2>5. own' = [own EXCEPT ![c] = Null, ![Frm(k)] = o]
    BY <1>5 DEF DestroyObject
  <2>6. own'[Frm(k)] = o
    BY <1>2, <2>1, <2>5 DEF RefMap
  <2>7. \A d \in 1..Len(stk) : own'[Frm(d)] = own[Frm(d)]
    <3>1. SUFFICES ASSUME NEW d \in 1..Len(stk) PROVE own'[Frm(d)] = own[Frm(d)]
      OBVIOUS
    <3>2. Frm(d) # c /\ Frm(d) # Frm(k) /\ Frm(d) \in Cell
      BY <1>1, <1>3, Cells, ConstantsAssumption DEF CallStack
    <3>3. QED
      BY <1>2, <2>5, <3>2 DEF RefMap
  <2>8. \A d \in 1..MaxDepth : d > k => own'[Frm(d)] = Null
    <3>1. SUFFICES ASSUME NEW d \in 1..MaxDepth, d > k PROVE own'[Frm(d)] = Null
      OBVIOUS
    <3>2. Frm(d) # Frm(k) /\ Frm(d) \in Cell
      BY <1>3, <3>1, Cells
    <3>3. Frm(d) = c \/ own[Frm(d)] = Null
      BY <1>1, <3>1 DEF CallStack
    <3>4. QED
      BY <1>2, <2>5, <3>2, <3>3 DEF RefMap
  <2>9. destroyed' = [destroyed EXCEPT ![o] = TRUE]
    BY <1>5 DEF DestroyObject
  <2>10. \A d \in 1..Len(stk) :
            /\ own'[Frm(d)] = stack'[d].obj
            /\ stack'[d].obj \in Object
            /\ stack'[d].op = "destroy" => destroyed[stack'[d].obj]
    <3>1. SUFFICES ASSUME NEW d \in 1..Len(stk)
                   PROVE  /\ own'[Frm(d)] = stack'[d].obj
                          /\ stack'[d].obj \in Object
                          /\ stack'[d].op = "destroy" => destroyed[stack'[d].obj]
      OBVIOUS
    <3>2. stack'[d].obj = stack[d].obj /\ stack'[d].op = stack[d].op
      BY <2>4 DEF CallStack
    <3>3. d \in DOMAIN stack /\ stack[d] \in Frame
      BY <1>1
    <3>4. own[Frm(d)] = stack[d].obj
          /\ (stack[d].op = "destroy" => destroyed[stack[d].obj])
      BY <3>3 DEF StackInv, DestroyOnce
    <3>5. QED
      BY <2>7, <3>2, <3>3, <3>4, FrameObject
  <2>11. \A d, e \in 1..Len(stk) :
            (stack'[d].op = "destroy" /\ stack'[e].op = "destroy" /\ d # e)
                => stack'[d].obj # stack'[e].obj
    BY <1>1, <2>4 DEF CallStack, StackInv, DestroyOnce
  <2>12. DOMAIN stack' = 1..Len(stk) \cup {k}
    BY <1>1, <2>4
  <2>13. \A d \in DOMAIN stack' :
             own'[Frm(d)] = stack'[d].obj
             /\ (stack'[d].op = "destroy" => destroyed'[stack'[d].obj])
    BY <1>2, <2>2, <2>4, <2>6, <2>9, <2>10, <2>12
  <2>14. \A d, e \in DOMAIN stack' :
            (stack'[d].op = "destroy" /\ stack'[e].op = "destroy" /\ d # e)
                => stack'[d].obj # stack'[e].obj
    BY <1>5, <2>2, <2>4, <2>10, <2>11, <2>12
  <2>15. DestroyOnce'
    BY <2>13, <2>14 DEF DestroyOnce
  <2>16. QED
    BY <2>1, <2>4, <2>8, <2>15 DEF StackInv
<1>6. QED
  BY <1>4, <1>5 DEF UnrefObject

-----------------------------------------------------------------------------
(* The invariant is inductive *)

\* di_unref_object keeps the whole invariant.
LEMMA UnrefObjectInv ==
    ASSUME IInv, NEW c \in Cell, own[c] # Null, NEW stk, CallStack(stk, c),
           UnrefObject(c, stk), weak' = weak, dtor' = dtor
    PROVE  IInv'
<1>1. Len(stk) \in Nat
  BY DEF CallStack
<1>2. Len(stk) < MaxDepth =>
          (Frm(Len(stk) + 1) = c \/ own[Frm(Len(stk) + 1)] = Null)
  BY <1>1, ConstantsAssumption DEF CallStack
<1>3. HeapInv'
  BY <1>1, <1>2, UnrefObjectHeap DEF IInv
<1>4. StackInv'
  BY UnrefObjectStack DEF IInv
<1>5. QED
  BY <1>3, <1>4 DEF IInv

\* di_free_value of a variable or of a member keeps the whole invariant.
LEMMA FreeValueInv ==
    ASSUME IInv, NEW c \in VarCell \cup MemCell, NEW stk, CallStack(stk, c),
           Len(stk) = Len(stack), FreeValue(c, stk), dtor' = dtor
    PROVE  IInv'
<1>1. c \in Cell
  BY DEF Cell
<1>2. CASE own[c] # Null /\ UnrefObject(c, stk) /\ weak' = weak
  BY <1>1, <1>2, UnrefObjectInv
<1>3. CASE weak[c] # Null /\ DropWeakRef(c) /\ stack' = stk /\ own' = own
  <2>1. HeapInv'
    BY <1>1, <1>3, DropWeakRefHeap DEF IInv
  <2>2. \A d \in 1..MaxDepth : weak'[Frm(d)] = Null
    <3>1. weak \in RefMap
      BY DEF IInv, HeapInv, HeapType
    <3>2. QED
      BY <1>1, <1>3, <3>1, Cells DEF DropWeakRef, IInv, StackInv, RefMap
  <2>3. destroyed' = destroyed
    BY <1>3 DEF DropWeakRef
  <2>4. StackInv'
    BY <1>1, <1>3, <2>2, <2>3, StackKept DEF IInv, StackInv
  <2>5. QED
    BY <2>1, <2>4 DEF IInv
<1>4. QED
  BY <1>2, <1>3 DEF FreeValue

\* A new strong or weak reference in an empty variable or member keeps the
\* whole invariant.
LEMMA NewRefInv ==
    ASSUME IInv, NEW c \in VarCell \cup MemCell, Vacant(c), NEW o \in Object,
           \/ refCount[o] > 0 /\ RefObject(o, c)
           \/ weakCount[o] > 0 /\ WeaklyRefObject(o, c),
           stack' = stack, dtor' = dtor
    PROVE  IInv'
<1>1. c \in Cell /\ \A d : Frm(d) # c
  BY Cells DEF Cell, VarCell, MemCell
<1>2. HeapInv'
  BY <1>1, RefObjectHeap, WeaklyRefObjectHeap DEF IInv, Vacant
<1>3. own \in RefMap /\ weak \in RefMap
  BY DEF IInv, HeapInv, HeapType
<1>4. \A d \in 1..MaxDepth : /\ own'[Frm(d)] = own[Frm(d)]
                              /\ weak'[Frm(d)] = weak[Frm(d)]
  BY <1>1, <1>3, Cells DEF RefObject, WeaklyRefObject, RefMap
<1>5. destroyed' = destroyed
  BY DEF RefObject, WeaklyRefObject
<1>6. CallStack(stack', c)
  BY SameStack DEF IInv
<1>7. \A d \in 1..Len(stack) : d \in 1..MaxDepth
  BY ConstantsAssumption DEF IInv, StackInv
<1>8. StackInv'
  BY <1>1, <1>4, <1>5, <1>6, <1>7, StackKept DEF IInv, StackInv
<1>9. QED
  BY <1>2, <1>8 DEF IInv

\* di_copy_value into an empty variable or member keeps the whole invariant.
LEMMA CopyValueInv ==
    ASSUME IInv, NEW src \in Cell, NEW dst \in VarCell \cup MemCell, Vacant(dst),
           CopyValue(src, dst), stack' = stack, dtor' = dtor
    PROVE  IInv'
<1>1. CASE own[src] # Null /\ RefObject(own[src], dst)
  BY <1>1, OwnedCounted, NewRefInv DEF IInv
<1>2. CASE weak[src] # Null /\ WeaklyRefObject(weak[src], dst)
  BY <1>2, WeaklyOwnedCounted, NewRefInv DEF IInv
<1>3. QED
  BY <1>1, <1>2 DEF CopyValue

\* What user code can reach is referenced.
LEMMA AccessibleCounted ==
    ASSUME IInv, NEW o \in Object, Accessible(o)
    PROVE  refCount[o] > 0 /\ weakCount[o] > 0
<1>1. \E c \in Cell : own[c] = o
  <2>1. CASE \E s \in Slot : own[Var(s)] = o
    BY <2>1, Cells
  <2>2. CASE stack # <<>> /\ Top.obj = o
    <3>1. Len(stack) \in 1..MaxDepth /\ Len(stack) \in DOMAIN stack
      BY <2>2, ConstantsAssumption DEF IInv, StackInv
    <3>2. own[Frm(Len(stack))] = o
      BY <2>2, <3>1 DEF IInv, StackInv, DestroyOnce, Top
    <3>3. QED
      BY <3>1, <3>2, Cells
  <2>3. QED
    BY <2>1, <2>2 DEF Accessible
<1>2. QED
  BY <1>1, OwnedCounted, StrongImpliesWeak, ConstantsAssumption DEF IInv

\* The initial heap is empty and nothing runs.
LEMMA InitInv == Init => IInv
<1> SUFFICES ASSUME Init PROVE IInv
  OBVIOUS
<1>1. HeapType
  BY DEF Init, HeapType, RefMap, ObjectOrNull
<1>2. \A o \in Object : {c \in Cell : own[c] = o} = {} /\ {c \in Cell : weak[c] = o} = {}
  BY ConstantsAssumption DEF Init
<1>3. RefCountExact /\ WeakCountExact
  <2>1. \A o \in Object : refCount[o] = 0 /\ weakCount[o] = 0
    BY DEF Init
  <2>2. Cardinality({}) = 0
    BY FS_EmptySet
  <2>3. QED
    BY <1>2, <2>1, <2>2 DEF RefCountExact, WeakCountExact
<1>4. CountedIsLive
  BY DEF Init, CountedIsLive
<1>5. StackInv
  <2>1. stack \in Seq(Frame) /\ Len(stack) = 0 /\ DOMAIN stack = {}
    BY DEF Init
  <2>2. QED
    BY <2>1, Cells, ConstantsAssumption DEF Init, StackInv, DestroyOnce
<1>6. QED
  BY <1>1, <1>3, <1>4, <1>5 DEF IInv, HeapInv

\* Every step of user code and of a destruction keeps the invariant.
LEMMA NextInv == IInv /\ [Next]_vars => IInv'
<1> SUFFICES ASSUME IInv, [Next]_vars PROVE IInv'
  OBVIOUS
<1>1. ASSUME NEW o \in Object, NEW s \in Slot, NEW h \in BOOLEAN, NewObject(o, s, h)
      PROVE  IInv'
  <2> DEFINE c == Var(s)
  <2>0. c \in Cell /\ c \in VarCell /\ \A d : Frm(d) # c
    BY Cells DEF VarCell
  <2>1. own \in RefMap /\ weak \in RefMap
    BY DEF IInv, HeapInv, HeapType
  <2>2. weakCount[o] = 0 /\ refCount[o] = 0
    <3>1. weakCount[o] \in Nat /\ refCount[o] \in Nat /\ ~(weakCount[o] > 0)
      BY <1>1 DEF IInv, HeapInv, HeapType, CountedIsLive, NewObject
    <3>2. QED
      BY <3>1, StrongImpliesWeak DEF IInv
  <2>3. HeapType'
    BY <1>1, <2>0 DEF NewObject, IInv, HeapInv, HeapType, RefMap, ObjectOrNull
  <2>4. ASSUME NEW p \in Object PROVE refCount'[p] = Count(own', p)
    <3>1. Count(own', p) = IF p = o THEN Count(own, p) + 1 ELSE Count(own, p)
      BY <1>1, <2>0, <2>1, CountSet DEF NewObject, Vacant
    <3>2. refCount[p] = Count(own, p)
      BY DEF IInv, HeapInv, RefCountExact, Count
    <3>3. QED
      BY <1>1, <2>2, <3>1, <3>2 DEF NewObject, IInv, HeapInv, HeapType
  <2>5. RefCountExact'
    BY <2>4 DEF RefCountExact, Count
  <2>6. ASSUME NEW p \in Object
        PROVE  weakCount'[p] = Count(weak', p) + (IF refCount'[p] > 0 THEN 1 ELSE 0)
    <3>1. weakCount[p] = Count(weak, p) + (IF refCount[p] > 0 THEN 1 ELSE 0)
      BY DEF IInv, HeapInv, WeakCountExact, Count
    <3>2. Count(weak, p) \in Nat
      BY CountNat
    <3>3. weak' = weak
      BY <1>1 DEF NewObject
    <3>4. /\ weakCount'[p] = IF p = o THEN 1 ELSE weakCount[p]
          /\ refCount'[p] = IF p = o THEN 1 ELSE refCount[p]
      BY <1>1 DEF NewObject, IInv, HeapInv, HeapType
    <3>5. QED
      BY <2>2, <3>1, <3>2, <3>3, <3>4
  <2>7. WeakCountExact'
    BY <2>6 DEF WeakCountExact, Count
  <2>8. CountedIsLive'
    BY <1>1 DEF NewObject, IInv, HeapInv, HeapType, CountedIsLive
  <2>9. \A d \in 1..MaxDepth : own'[Frm(d)] = own[Frm(d)] /\ weak'[Frm(d)] = weak[Frm(d)]
    BY <1>1, <2>0, <2>1, Cells DEF NewObject, RefMap
  <2>10. CallStack(stack', c)
    BY <1>1, <2>0, SameStack DEF NewObject, IInv
  <2>11. \A d \in 1..Len(stack) : d \in 1..MaxDepth
    BY ConstantsAssumption DEF IInv, StackInv
  <2>12. dtor' \in [Object -> BOOLEAN] /\ destroyed' = destroyed /\ stack' = stack
    BY <1>1 DEF NewObject, IInv, StackInv
  <2>13. StackInv'
    BY <2>0, <2>9, <2>10, <2>11, <2>12, StackKept DEF IInv, StackInv
  <2>14. QED
    BY <2>3, <2>5, <2>7, <2>8, <2>13 DEF IInv, HeapInv
<1>2. ASSUME NEW o \in Object, NEW s \in Slot, TakeRef(o, s) \/ TakeWeakRef(o, s)
      PROVE  IInv'
  <2>1. Var(s) \in VarCell
    BY DEF VarCell
  <2>2. QED
    BY <1>2, <2>1, AccessibleCounted, NewRefInv DEF TakeRef, TakeWeakRef
<1>3. ASSUME NEW s \in Slot, NEW t \in Slot, UpgradeWeakRef(s, t) PROVE IInv'
  <2>1. Var(s) \in Cell /\ Var(t) \in VarCell
    BY Cells DEF VarCell
  <2>2. weak[Var(s)] \in Object
    BY <1>3, <2>1, WeaklyOwnedCounted DEF UpgradeWeakRef, IInv
  <2>3. QED
    BY <1>3, <2>1, <2>2, NewRefInv DEF UpgradeWeakRef
<1>4. ASSUME NEW s \in Slot, DropVariable(s) PROVE IInv'
  <2>1. Var(s) \in VarCell
    BY DEF VarCell
  <2>2. QED
    BY <1>4, <2>1, SameStack, FreeValueInv DEF DropVariable, IInv
<1>5. ASSUME NEW o \in Object, NEW n \in Name, NEW s \in Slot, AddMemberClone(o, n, s)
      PROVE  IInv'
  <2>1. Var(s) \in Cell /\ Mem(o, n) \in MemCell
    BY Cells DEF MemCell
  <2>2. QED
    BY <1>5, <2>1, CopyValueInv DEF AddMemberClone
<1>6. ASSUME NEW o \in Object, NEW n \in Name, NEW s \in Slot, AddMemberMove(o, n, s)
      PROVE  IInv'
  <2> DEFINE c == Var(s)
             m == Mem(o, n)
  <2>1. /\ c \in Cell /\ c \in VarCell /\ m \in Cell
        /\ \A d : Frm(d) # c /\ Frm(d) # m
    BY Cells DEF VarCell
  <2>2. CASE ~Vacant(m) /\ FreeValue(c, stack)
    BY <1>6, <2>1, <2>2, SameStack, FreeValueInv DEF AddMemberMove, IInv
  <2>3. CASE /\ Vacant(m)
             /\ own' = [own EXCEPT ![m] = own[c], ![c] = Null]
             /\ weak' = [weak EXCEPT ![m] = weak[c], ![c] = Null]
             /\ UNCHANGED <<counts, stack>>
    <3>1. own \in RefMap /\ weak \in RefMap /\ m # c
      BY <1>6, <2>3 DEF IInv, HeapInv, HeapType, AddMemberMove, Vacant
    <3>2. ASSUME NEW f \in RefMap, NEW g, f[m] = Null,
                 g = [f EXCEPT ![m] = f[c], ![c] = Null], NEW p \in Object
          PROVE  Count(g, p) = Count(f, p)
      <4>1. CASE f[c] = Null
        <5>1. g = f
          BY <2>1, <3>1, <3>2, <4>1 DEF RefMap
        <5>2. QED
          BY <5>1
      <4>2. CASE f[c] # Null
        <5>1. g = [f EXCEPT ![c] = Null, ![m] = f[c]]
          BY <2>1, <3>1, <3>2 DEF RefMap
        <5>2. Count([f EXCEPT ![c] = Null, ![m] = f[c]], p) = Count(f, p)
          <6>1. m \in Cell /\ c \in Cell /\ f \in RefMap /\ p \in Object /\ f[c] # Null /\ f[m] = Null
            BY <2>1, <3>2, <4>2
          <6> HIDE DEF c, m
          <6>2. QED
            BY ONLY <6>1, CountMove
        <5>3. QED
          BY <5>1, <5>2
      <4>3. QED
        BY <4>1, <4>2
    <3>3. \A p \in Object : Count(own', p) = Count(own, p) /\ Count(weak', p) = Count(weak, p)
      BY <2>3, <3>1, <3>2 DEF Vacant
    <3>4. HeapInv'
      <4>1. HeapType'
        BY <2>1, <2>3, <3>1 DEF IInv, HeapInv, HeapType, RefMap, ObjectOrNull, counts
      <4>2. RefCountExact' /\ WeakCountExact'
        BY <2>3, <3>3 DEF IInv, HeapInv, RefCountExact, WeakCountExact, Count, counts
      <4>3. QED
        BY <2>3, <4>1, <4>2 DEF IInv, HeapInv, CountedIsLive, counts
    <3>5. \A d \in 1..MaxDepth : own'[Frm(d)] = own[Frm(d)] /\ weak'[Frm(d)] = weak[Frm(d)]
      BY <2>1, <2>3, <3>1, Cells DEF RefMap
    <3>6. CallStack(stack', c)
      BY <2>1, <2>3, SameStack DEF IInv
    <3>7. \A d \in 1..Len(stack) : d \in 1..MaxDepth
      BY ConstantsAssumption DEF IInv, StackInv
    <3>8. dtor' = dtor /\ destroyed' = destroyed
      BY <1>6, <2>3 DEF AddMemberMove, counts
    <3>9. StackInv'
      BY <2>1, <2>3, <3>5, <3>6, <3>7, <3>8, StackKept DEF IInv, StackInv
    <3>10. QED
      BY <3>4, <3>9 DEF IInv
  <2>4. QED
    BY <1>6, <2>2, <2>3 DEF AddMemberMove
<1>7. ASSUME NEW o \in Object, NEW n \in Name, NEW s \in Slot, GetMember(o, n, s)
      PROVE  IInv'
  <2>1. Var(s) \in VarCell /\ Mem(o, n) \in Cell
    BY Cells DEF VarCell
  <2>2. QED
    BY <1>7, <2>1, CopyValueInv DEF GetMember
<1>8. ASSUME NEW o \in Object, NEW n \in Name, RemoveMemberRaw(o, n) PROVE IInv'
  <2>1. Mem(o, n) \in MemCell
    BY DEF MemCell
  <2>2. QED
    BY <1>8, <2>1, SameStack, FreeValueInv DEF RemoveMemberRaw, IInv
<1>9. ASSUME NEW o \in Object, FinalizeObject(o) PROVE IInv'
  <2> DEFINE k == Len(stack) + 1
             fr == Enter("finalize", o)
  <2>1. /\ stack \in Seq(Frame) /\ Len(stack) \in Nat /\ Len(stack) <= MaxDepth
        /\ DOMAIN stack = 1..Len(stack)
    BY DEF IInv, StackInv
  <2>2. k \in 1..MaxDepth /\ Frm(k) \in Cell /\ own[Frm(k)] = Null
    <3>1. Cardinality({x \in Object : ~destroyed[x]}) \in Nat
      BY ConstantsAssumption, FS_Subset, FS_CardinalityType
    <3>2. k \in 1..MaxDepth
      BY <1>9, <2>1, <3>1, ConstantsAssumption DEF FinalizeObject
    <3>3. QED
      BY <2>1, <3>2, Cells DEF IInv, StackInv
  <2>3. refCount[o] > 0
    BY <1>9, AccessibleCounted DEF FinalizeObject
  <2>4. HeapInv'
    BY <1>9, <2>2, <2>3, RefObjectHeap DEF FinalizeObject, IInv
  <2>5. fr \in Frame /\ fr.op # "destroy" /\ fr.obj = o
    BY DEF Enter, Frame
  <2>6. stack' = Append(stack, fr)
    BY <1>9 DEF FinalizeObject
  <2> HIDE DEF fr
  <2>7. /\ stack' \in Seq(Frame) /\ Len(stack') = k /\ stack'[k] = fr
        /\ DOMAIN stack' = 1..k
        /\ \A d \in 1..Len(stack) : stack'[d] = stack[d]
    BY <2>1, <2>5, <2>6
  <2>8. own \in RefMap
    BY DEF IInv, HeapInv, HeapType
  <2>9. /\ own' = [own EXCEPT ![Frm(k)] = o]
        /\ weak' = weak /\ destroyed' = destroyed /\ dtor' = dtor
    BY <1>9 DEF FinalizeObject, RefObject
  <2>10. \A d \in 1..MaxDepth : own'[Frm(d)] = IF d = k THEN o ELSE own[Frm(d)]
    BY <2>2, <2>8, <2>9, Cells DEF RefMap
  <2>11. \A d \in 1..k : d \in 1..MaxDepth /\ (d = k \/ d \in DOMAIN stack)
    BY <2>1, <2>2, ConstantsAssumption
  <2>12. DestroyOnce'
    BY <2>1, <2>5, <2>7, <2>9, <2>10, <2>11 DEF IInv, StackInv, DestroyOnce
  <2>13. StackInv'
    BY <2>1, <2>2, <2>7, <2>9, <2>10, <2>12 DEF IInv, StackInv
  <2>14. QED
    BY <2>4, <2>13 DEF IInv
<1>10. ASSUME CallDtor \/ StartRemoval PROVE IInv'
  <2>1. /\ stack # <<>> /\ UNCHANGED <<counts, own, weak>>
        /\ \E pc \in {"enter", "dtor", "loop"}, n \in Name \cup {Null} : stack' = SetTop(pc, n)
    BY <1>10 DEF CallDtor, StartRemoval, FirstOf, Present
  <2>2. HeapInv'
    BY <2>1 DEF IInv, HeapInv, HeapType, RefCountExact, WeakCountExact, CountedIsLive, counts
  <2>3. PICK pc \in {"enter", "dtor", "loop"}, n \in Name \cup {Null} : stack' = SetTop(pc, n)
    BY <2>1
  <2>4. Len(stack) \in 1..MaxDepth /\ Frm(Len(stack)) \in Cell /\ Top.obj \in Object
    <3>1. Len(stack) \in 1..MaxDepth /\ stack[Len(stack)] \in Frame
      BY <2>1, ConstantsAssumption DEF IInv, StackInv
    <3>2. QED
      BY <3>1, Cells, FrameObject DEF Top
  <2>5. dtor' \in [Object -> BOOLEAN]
    BY <1>10, <2>4 DEF CallDtor, StartRemoval, IInv, StackInv
  <2>6. DestroyOnce'
    <3>1. stack[Len(stack)] \in Frame /\ DOMAIN stack = 1..Len(stack) /\ Len(stack) \in 1..MaxDepth
      BY <2>4 DEF IInv, StackInv
    <3>2. DOMAIN stack' = DOMAIN stack
      BY <2>3 DEF SetTop
    <3>3. \A d \in DOMAIN stack : stack'[d].op = stack[d].op /\ stack'[d].obj = stack[d].obj
      BY <2>3, <3>1 DEF SetTop, Frame
    <3>4. QED
      BY <2>1, <3>2, <3>3 DEF IInv, StackInv, DestroyOnce, counts
  <2>7. stack' \in Seq(Frame) /\ Len(stack') = Len(stack)
    <3>1. [stack[Len(stack)] EXCEPT !.pc = pc, !.next = n] \in Frame
      <4>1. stack[Len(stack)] \in Frame
        BY <2>4 DEF IInv, StackInv
      <4>2. QED
        BY <4>1 DEF Frame
    <3>2. QED
      BY <2>3, <2>4, <3>1 DEF SetTop, IInv, StackInv
  <2>8. QED
    BY <2>1, <2>2, <2>5, <2>6, <2>7 DEF IInv, StackInv
<1>11. CASE RemoveNext
  <2>1. stack # <<>> /\ Top.next # Null /\ dtor' = dtor
    BY <1>11 DEF RemoveNext
  <2>2. stack[Len(stack)] \in Frame
    BY <2>1, ConstantsAssumption DEF IInv, StackInv
  <2>3. Top.obj \in Object /\ Top.next \in Name
    BY <2>1, <2>2 DEF Top, Frame
  <2>4. PICK n \in Name \cup {Null} : FreeValue(Mem(Top.obj, Top.next), SetTop("loop", n))
    BY <1>11 DEF RemoveNext, FirstOf, Present
  <2>5. Mem(Top.obj, Top.next) \in MemCell
    BY <2>3 DEF MemCell
  <2>6. QED
    BY <2>1, <2>4, <2>5, SetTopStack, FreeValueInv DEF IInv
<1>12. CASE Finish
  <2>1. stack # <<>> /\ dtor' = dtor /\ weak' = weak /\ UnrefObject(Frm(Len(stack)), Popped)
    BY <1>12 DEF Finish
  <2>2. Len(stack) \in 1..MaxDepth /\ Len(stack) \in DOMAIN stack /\ stack[Len(stack)] \in Frame
    BY <2>1, ConstantsAssumption DEF IInv, StackInv
  <2>3. own[Frm(Len(stack))] # Null /\ Frm(Len(stack)) \in Cell
    BY <2>2, Cells, FrameObject, ConstantsAssumption DEF IInv, StackInv, DestroyOnce
  <2>4. QED
    BY <2>1, <2>3, PoppedStack, UnrefObjectInv DEF IInv
<1>13. CASE UNCHANGED vars
  BY <1>13 DEF vars, IInv, HeapInv, StackInv, HeapType, RefCountExact, WeakCountExact,
               CountedIsLive, DestroyOnce
<1>14. QED
  BY <1>1, <1>2, <1>3, <1>4, <1>5, <1>6, <1>7, <1>8, <1>9, <1>10, <1>11, <1>12, <1>13
     DEF Next, FrameStep

-----------------------------------------------------------------------------
(* Theorems about the specification *)

\* What user code does not change, no step of the counters does.
LEMMA StepIsNext == [Step]_<<vars, liberties>> => [Next]_vars
BY DEF Step

\* IInv holds in every reachable state: the counters of di_ref_object,
\* di_unref_object and their weak counterparts are exact whatever nested
\* destructions user code sets off.
THEOREM Invariance == Spec => []IInv
BY InitInv, NextInv, StepIsNext, PTL DEF Spec

\* The state has its type in every reachable state; in particular no counter
\* ever becomes negative (the assert of di_unref_object never fails).
THEOREM TypeCorrect == Spec => []TypeOK
<1>1. IInv => TypeOK
  BY DEF IInv, HeapInv, HeapType, StackInv, TypeOK, RefMap, ObjectOrNull
<1>2. QED
  BY <1>1, Invariance, PTL

\* ref_count always equals the number of strong references held.
THEOREM StrongCountsExact == Spec => []RefCountExact
<1>1. IInv => RefCountExact
  BY DEF IInv, HeapInv
<1>2. QED
  BY <1>1, Invariance, PTL

\* weak_ref_count always equals the number of weak references held plus the
\* implicit one.
THEOREM WeakCountsExact == Spec => []WeakCountExact
<1>1. IInv => WeakCountExact
  BY DEF IInv, HeapInv
<1>2. QED
  BY <1>1, Invariance, PTL

\* No reference, strong or weak, ever points to freed memory.
THEOREM NoDanglingReference == Spec => []PointersLive
<1>1. IInv => PointersLive
  BY HeapInvPointersLive DEF IInv
<1>2. QED
  BY <1>1, Invariance, PTL

\* di_destroy_object never runs twice at the same time for an object, and every
\* frame holds a reference to its object.
THEOREM NeverDestroyedTwice == Spec => []DestroyOnce
<1>1. IInv => DestroyOnce
  BY DEF IInv, StackInv
<1>2. QED
  BY <1>1, Invariance, PTL

-----------------------------------------------------------------------------
(* DiObject implements ObjectLife *)

\* An object that was never allocated is not marked destroyed.
FreshUnmarked == \A o \in Object : mem[o] = "unused" => ~destroyed[o]

\* A step that leaves mem and destroyed alone keeps FreshUnmarked, and so does
\* the release of a reference, because the object it destroys is allocated.
LEMMA UnrefObjectFresh ==
    ASSUME IInv, FreshUnmarked, NEW c \in Cell, own[c] # Null, NEW stk,
           UnrefObject(c, stk)
    PROVE  FreshUnmarked'
<1> DEFINE o == own[c]
<1>1. o \in Object /\ mem[o] = "live"
  BY OwnedCounted, HeapInvPointersLive DEF IInv, PointersLive
<1>2. /\ mem \in [Object -> {"unused", "live", "freed"}]
      /\ destroyed \in [Object -> BOOLEAN]
  BY DEF IInv, HeapInv, HeapType
<1>3. QED
  BY <1>1, <1>2 DEF UnrefObject, DestroyObject, DecrementWeakRefCount, FreshUnmarked

\* The same for di_free_value.
LEMMA FreeValueFresh ==
    ASSUME IInv, FreshUnmarked, NEW c \in Cell, NEW stk, FreeValue(c, stk)
    PROVE  FreshUnmarked'
<1>1. CASE own[c] # Null /\ UnrefObject(c, stk)
  BY <1>1, UnrefObjectFresh
<1>2. CASE weak[c] # Null /\ DropWeakRef(c)
  <2>1. weak[c] \in Object
    BY <1>2, WeaklyOwnedCounted DEF IInv
  <2>2. mem \in [Object -> {"unused", "live", "freed"}]
    BY DEF IInv, HeapInv, HeapType
  <2>3. QED
    BY <1>2, <2>1, <2>2 DEF DropWeakRef, DecrementWeakRefCount, FreshUnmarked
<1>3. QED
  BY <1>1, <1>2 DEF FreeValue

\* FreshUnmarked is invariant.
LEMMA FreshInvariance == Spec => []FreshUnmarked
<1>1. Init => FreshUnmarked
  BY DEF Init, FreshUnmarked
<1>2. IInv /\ FreshUnmarked /\ [Next]_vars => FreshUnmarked'
  <2> SUFFICES ASSUME IInv, FreshUnmarked, [Next]_vars PROVE FreshUnmarked'
    OBVIOUS
  <2>1. CASE UNCHANGED <<mem, destroyed>>
    BY <2>1 DEF FreshUnmarked
  <2>2. ASSUME NEW o \in Object, NEW s \in Slot, NEW h \in BOOLEAN, NewObject(o, s, h)
        PROVE  FreshUnmarked'
    BY <2>2 DEF NewObject, FreshUnmarked, IInv, HeapInv, HeapType
  <2>3. ASSUME NEW c \in Cell, NEW stk, FreeValue(c, stk)
        PROVE  FreshUnmarked'
    BY <2>3, FreeValueFresh
  <2>4. ASSUME NEW s \in Slot, DropVariable(s) PROVE FreshUnmarked'
    BY <2>3, <2>4, Cells DEF DropVariable
  <2>5. ASSUME NEW o \in Object, NEW n \in Name, NEW s \in Slot, AddMemberMove(o, n, s)
        PROVE  FreshUnmarked'
    BY <2>1, <2>3, <2>5, Cells DEF AddMemberMove, counts
  <2>6. ASSUME NEW o \in Object, NEW n \in Name, RemoveMemberRaw(o, n)
        PROVE  FreshUnmarked'
    BY <2>3, <2>6, Cells DEF RemoveMemberRaw
  <2>7. CASE RemoveNext
    <3>1. stack[Len(stack)] \in Frame
      BY <2>7, ConstantsAssumption DEF RemoveNext, IInv, StackInv
    <3>2. Top.obj \in Object /\ Top.next \in Name
      BY <2>7, <3>1 DEF RemoveNext, Top, Frame
    <3>3. Mem(Top.obj, Top.next) \in Cell
      BY <3>2, Cells
    <3>4. QED
      BY <2>3, <2>7, <3>3 DEF RemoveNext
  <2>8. CASE Finish
    <3>1. Len(stack) \in 1..MaxDepth /\ Len(stack) \in DOMAIN stack /\ stack[Len(stack)] \in Frame
      BY <2>8, ConstantsAssumption DEF Finish, IInv, StackInv
    <3>2. own[Frm(Len(stack))] # Null /\ Frm(Len(stack)) \in Cell
      BY <3>1, Cells, FrameObject, ConstantsAssumption DEF IInv, StackInv, DestroyOnce
    <3>3. QED
      BY <2>8, <3>2, UnrefObjectFresh DEF Finish
  <2>9. QED
    BY <2>1, <2>2, <2>4, <2>5, <2>6, <2>7, <2>8
       DEF Next, FrameStep, vars, TakeRef, TakeWeakRef, UpgradeWeakRef, AddMemberClone,
           GetMember, CopyValue, RefObject, WeaklyRefObject, FinalizeObject, CallDtor,
           StartRemoval, counts
<1>3. QED
  BY <1>1, <1>2, Invariance, StepIsNext, PTL DEF Spec

\* The stages of life change pointwise.
LEMMA LifeUpdate ==
    ASSUME NEW o \in Object, NEW x,
           \A p \in Object : LifeOf'[p] = IF p = o THEN x ELSE LifeOf[p]
    PROVE  LifeOf' = [LifeOf EXCEPT ![o] = x]
<1>1. LifeOf = [p \in Object |-> LifeOf[p]]
  BY DEF LifeOf
<1>2. LifeOf' = [p \in Object |-> LifeOf'[p]]
  BY DEF LifeOf
<1>3. QED
  BY <1>1, <1>2

\* The stages of life depend on mem and destroyed only.
LEMMA LifeSame ==
    ASSUME UNCHANGED <<mem, destroyed>>
    PROVE  LifeOf' = LifeOf
BY DEF LifeOf

\* The count of an object tells whether another cell refers to it.
LEMMA CountElsewhere ==
    ASSUME NEW f, NEW c \in Cell
    PROVE  (Count(f, f[c]) # 1) <=> (\E d \in Cell \ {c} : f[d] = f[c])
<1> DEFINE S == {d \in Cell : f[d] = f[c]}
           T == {d \in Cell \ {c} : f[d] = f[c]}
<1>1. IsFiniteSet(S) /\ c \in S /\ T = S \ {c}
  BY CountNat
<1>2. (\E d \in Cell \ {c} : f[d] = f[c]) <=> T # {}
  OBVIOUS
<1>3. Count(f, f[c]) = Cardinality(S)
  BY DEF Count
<1> HIDE DEF S, T
<1>4. IsFiniteSet(T) /\ Cardinality(T) = Cardinality(S) - 1
  BY <1>1, FS_RemoveElement
<1>5. Cardinality(T) = 0 <=> T = {}
  BY <1>4, FS_EmptySet
<1>6. Cardinality(S) \in Nat
  BY <1>1, FS_CardinalityType
<1>7. QED
  BY <1>2, <1>3, <1>4, <1>5, <1>6

\* di_unref_object is the release of a reference, the start of the object's end,
\* or its abandonment.
LEMMA UnrefObjectLife ==
    ASSUME IInv, NEW c \in Cell, own[c] # Null, NEW stk, CallStack(stk, c),
           UnrefObject(c, stk), weak' = weak
    PROVE  Life!LifeNext
<1> DEFINE o == own[c]
<1>1. o \in Object /\ refCount[o] > 0 /\ weakCount[o] > 0 /\ mem[o] = "live"
  BY OwnedCounted, StrongImpliesWeak, HeapInvPointersLive DEF IInv, PointersLive
<1>2. /\ mem \in [Object -> {"unused", "live", "freed"}]
      /\ destroyed \in [Object -> BOOLEAN]
  BY DEF IInv, HeapInv, HeapType
<1>3. (refCount[o] # 1) <=> Life!OwnedElsewhere(o, c)
  <2>1. refCount[o] = Count(own, o)
    BY <1>1 DEF IInv, HeapInv, RefCountExact, Count
  <2>2. QED
    BY <2>1, CountElsewhere DEF Life!OwnedElsewhere
<1>4. CASE refCount[o] # 1 /\ own' = [own EXCEPT ![c] = Null]
           /\ UNCHANGED <<mem, destroyed>>
  <2>1. LifeOf' = LifeOf
    BY <1>4 DEF LifeOf, LifeStage
  <2>2. Life!Release(c)
    BY <1>3, <1>4, <2>1 DEF Life!Release
  <2>3. QED
    BY <2>2 DEF Life!LifeNext
<1>5. CASE refCount[o] = 1 /\ destroyed[o] /\ own' = [own EXCEPT ![c] = Null]
           /\ DecrementWeakRefCount(o) /\ UNCHANGED destroyed
  <2>1. LifeOf[o] = "ended"
    BY <1>1, <1>5 DEF LifeOf, LifeStage
  <2>2. weakCount[o] = Count(weak, o) + 1 /\ Count(weak, o) \in Nat
    <3>1. weakCount[o] = Count(weak, o) + 1
      BY <1>1, <1>5 DEF IInv, HeapInv, WeakCountExact, Count
    <3>2. QED
      BY <3>1, CountNat
  <2>3. (weakCount[o] = 1) <=> ~(\E d \in Cell : weak[d] = o)
    <3>1. ASSUME NEW d \in Cell, weak[d] = o PROVE Count(weak, o) > 0
      BY <3>1, CountPositive
    <3>2. QED
      BY <2>2, <3>1, CountWitness
  <2>4. mem' = IF weakCount[o] = 1 THEN [mem EXCEPT ![o] = "freed"] ELSE mem
    BY <1>5 DEF DecrementWeakRefCount
  <2>5. LifeOf' = IF \E d \in Cell : weak[d] = o
                    THEN LifeOf ELSE [LifeOf EXCEPT ![o] = "freed"]
    <3>1. CASE weakCount[o] = 1
      <4>1. \A p \in Object : LifeOf'[p] = IF p = o THEN "freed" ELSE LifeOf[p]
        BY <1>1, <1>2, <1>5, <2>4, <3>1 DEF LifeOf, LifeStage
      <4>2. LifeOf' = [LifeOf EXCEPT ![o] = "freed"]
        BY <1>1, <4>1, LifeUpdate
      <4>3. QED
        BY <2>3, <3>1, <4>2
    <3>2. CASE weakCount[o] # 1
      <4>1. LifeOf' = LifeOf
        BY <1>5, <2>4, <3>2, LifeSame
      <4>2. QED
        BY <2>3, <3>2, <4>1
    <3>3. QED
      BY <3>1, <3>2
  <2>6. Life!Abandon(c)
    BY <1>3, <1>5, <2>1, <2>5 DEF Life!Abandon
  <2>7. QED
    BY <2>6 DEF Life!LifeNext
<1>6. CASE refCount[o] = 1 /\ ~destroyed[o] /\ DestroyObject(o, c, stk)
  <2> DEFINE e == Frm(Len(stk) + 1)
  <2>1. Len(stk) + 1 \in 1..MaxDepth
    BY <1>6, ConstantsAssumption DEF DestroyObject, CallStack
  <2>2. e \in Cell /\ (c = e \/ Life!Free(e))
    BY <2>1, Cells DEF CallStack, IInv, StackInv, Life!Free
  <2>3. LifeOf[o] = "alive"
    BY <1>1, <1>6 DEF LifeOf, LifeStage
  <2>4. \A p \in Object : LifeOf'[p] = IF p = o THEN "ended" ELSE LifeOf[p]
    BY <1>1, <1>2, <1>6 DEF LifeOf, LifeStage, DestroyObject
  <2>5. LifeOf' = [LifeOf EXCEPT ![o] = "ended"]
    BY <1>1, <2>4, LifeUpdate
  <2>6. own' = [own EXCEPT ![c] = Null, ![e] = o]
    BY <1>6 DEF DestroyObject
  <2>7. Life!Expire(c, e)
    BY <1>3, <1>6, <2>2, <2>3, <2>5, <2>6 DEF Life!Expire
  <2>8. QED
    BY <2>2, <2>7 DEF Life!LifeNext
<1>7. QED
  BY <1>4, <1>5, <1>6 DEF UnrefObject

\* di_free_value releases the reference it is given.
LEMMA FreeValueLife ==
    ASSUME IInv, NEW c \in Cell, NEW stk, CallStack(stk, c), FreeValue(c, stk)
    PROVE  Life!LifeNext
<1>1. CASE own[c] # Null /\ UnrefObject(c, stk) /\ weak' = weak
  BY <1>1, UnrefObjectLife
<1>2. CASE weak[c] # Null /\ DropWeakRef(c) /\ own' = own
  <2> DEFINE o == weak[c]
  <2>1. o \in Object /\ mem[o] = "live"
    BY <1>2, WeaklyOwnedCounted, HeapInvPointersLive DEF IInv, PointersLive
  <2>2. /\ mem \in [Object -> {"unused", "live", "freed"}]
        /\ destroyed \in [Object -> BOOLEAN] /\ refCount[o] \in Nat
    BY <2>1 DEF IInv, HeapInv, HeapType
  <2>3. (refCount[o] > 0) <=> Life!Owned(o)
    <3>1. refCount[o] = Count(own, o)
      BY <2>1 DEF IInv, HeapInv, RefCountExact, Count
    <3>2. QED
      BY <3>1, CountWitness, CountPositive DEF Life!Owned
  <2>4. /\ weakCount[o] = Count(weak, o) + (IF refCount[o] > 0 THEN 1 ELSE 0)
        /\ Count(weak, o) \in Nat /\ Count(weak, o) > 0
    BY <2>1, CountNat, CountPositive DEF IInv, HeapInv, WeakCountExact, Count
  <2>5. (Count(weak, o) # 1) <=> Life!WeakElsewhere(o, c)
    BY CountElsewhere DEF Life!WeakElsewhere
  <2>6. (weakCount[o] = 1) <=> ~(Life!Owned(o) \/ Life!WeakElsewhere(o, c))
    BY <2>2, <2>3, <2>4, <2>5
  <2>7. /\ mem' = IF weakCount[o] = 1 THEN [mem EXCEPT ![o] = "freed"] ELSE mem
        /\ destroyed' = destroyed /\ weak' = [weak EXCEPT ![c] = Null]
    BY <1>2 DEF DropWeakRef, DecrementWeakRefCount
  <2>8. LifeOf' = IF Life!Owned(o) \/ Life!WeakElsewhere(o, c)
                    THEN LifeOf ELSE [LifeOf EXCEPT ![o] = "freed"]
    <3>1. CASE weakCount[o] = 1
      <4>1. \A p \in Object : LifeOf'[p] = IF p = o THEN "freed" ELSE LifeOf[p]
        BY <2>1, <2>2, <2>7, <3>1 DEF LifeOf, LifeStage
      <4>2. LifeOf' = [LifeOf EXCEPT ![o] = "freed"]
        BY <2>1, <4>1, LifeUpdate
      <4>3. QED
        BY <2>6, <3>1, <4>2
    <3>2. CASE weakCount[o] # 1
      <4>1. LifeOf' = LifeOf
        BY <2>7, <3>2, LifeSame
      <4>2. QED
        BY <2>6, <3>2, <4>1
    <3>3. QED
      BY <3>1, <3>2
  <2>9. Life!WeakRelease(c)
    BY <1>2, <2>7, <2>8 DEF Life!WeakRelease
  <2>10. QED
    BY <2>9 DEF Life!LifeNext
<1>3. QED
  BY <1>1, <1>2 DEF FreeValue

\* A new strong reference is an acquisition.
LEMMA RefObjectLife ==
    ASSUME IInv, NEW c \in Cell, Vacant(c), NEW o \in Object, refCount[o] > 0,
           RefObject(o, c)
    PROVE  Life!LifeNext
<1>1. Life!Owned(o)
  <2>1. Count(own, o) > 0
    BY DEF IInv, HeapInv, RefCountExact, Count
  <2>2. QED
    BY <2>1, CountWitness DEF Life!Owned
<1>2. LifeOf' = LifeOf
  BY DEF LifeOf, RefObject
<1>3. Life!Acquire(o, c)
  BY <1>1, <1>2 DEF Life!Acquire, Life!Free, RefObject, Vacant
<1>4. QED
  BY <1>3 DEF Life!LifeNext

\* A new weak reference to a referenced object is a weak acquisition.
LEMMA WeaklyRefObjectLife ==
    ASSUME NEW c \in Cell, Vacant(c), NEW o \in Object, WeaklyRefObject(o, c),
           (\E d \in Cell : own[d] = o) \/ (\E d \in Cell : weak[d] = o)
    PROVE  Life!LifeNext
<1>1. LifeOf' = LifeOf
  BY DEF LifeOf, WeaklyRefObject
<1>2. Life!WeakAcquire(o, c)
  BY <1>1 DEF Life!WeakAcquire, Life!Owned, Life!Free, WeaklyRefObject, Vacant
<1>3. QED
  BY <1>2 DEF Life!LifeNext

\* di_copy_value is an acquisition of the kind of its source.
LEMMA CopyValueLife ==
    ASSUME IInv, NEW src \in Cell, NEW dst \in Cell, Vacant(dst), CopyValue(src, dst)
    PROVE  Life!LifeNext
<1>1. CASE own[src] # Null /\ RefObject(own[src], dst)
  BY <1>1, OwnedCounted, RefObjectLife DEF IInv
<1>2. CASE weak[src] # Null /\ WeaklyRefObject(weak[src], dst)
  BY <1>2, WeaklyOwnedCounted, WeaklyRefObjectLife DEF IInv
<1>3. QED
  BY <1>1, <1>2 DEF CopyValue

\* Every step of DiObject is a step of ObjectLife or changes nothing it sees.
LEMMA StepLife ==
    IInv /\ FreshUnmarked /\ [Next]_vars => [Life!LifeNext]_(Life!lifeVars)
<1> SUFFICES ASSUME IInv, FreshUnmarked, Next
             PROVE  Life!LifeNext \/ UNCHANGED Life!lifeVars
  <2>1. CASE UNCHANGED vars
    BY <2>1 DEF vars, Life!lifeVars, LifeOf
  <2>2. QED
    BY <2>1
<1>1. ASSUME NEW o \in Object, NEW s \in Slot, NEW h \in BOOLEAN, NewObject(o, s, h)
      PROVE  Life!LifeNext
  <2>1. Var(s) \in Cell /\ Life!Free(Var(s)) /\ ~destroyed[o] /\ mem[o] = "unused"
    BY <1>1, Cells DEF NewObject, Vacant, Life!Free, FreshUnmarked
  <2>2. mem \in [Object -> {"unused", "live", "freed"}]
    BY DEF IInv, HeapInv, HeapType
  <2>3. LifeOf[o] = "unborn"
    BY <2>1 DEF LifeOf, LifeStage
  <2>4. \A p \in Object : LifeOf'[p] = IF p = o THEN "alive" ELSE LifeOf[p]
    BY <1>1, <2>1, <2>2 DEF LifeOf, LifeStage, NewObject
  <2>5. LifeOf' = [LifeOf EXCEPT ![o] = "alive"]
    BY <2>4, LifeUpdate
  <2>6. Life!Born(o, Var(s))
    BY <1>1, <2>1, <2>3, <2>5 DEF Life!Born, NewObject
  <2>7. QED
    BY <2>1, <2>6 DEF Life!LifeNext
<1>2. ASSUME NEW o \in Object, NEW s \in Slot, TakeRef(o, s) PROVE Life!LifeNext
  BY <1>2, Cells, AccessibleCounted, RefObjectLife DEF TakeRef
<1>3. ASSUME NEW o \in Object, NEW s \in Slot, TakeWeakRef(o, s) PROVE Life!LifeNext
  <2>1. refCount[o] > 0
    BY <1>3, AccessibleCounted DEF TakeWeakRef
  <2>2. Count(own, o) > 0
    BY <2>1 DEF IInv, HeapInv, RefCountExact, Count
  <2>3. \E d \in Cell : own[d] = o
    BY <2>2, CountWitness
  <2>4. QED
    BY <1>3, <2>3, Cells, WeaklyRefObjectLife DEF TakeWeakRef
<1>4. ASSUME NEW s \in Slot, NEW t \in Slot, UpgradeWeakRef(s, t) PROVE Life!LifeNext
  <2>1. Var(s) \in Cell /\ Var(t) \in Cell
    BY Cells
  <2>2. weak[Var(s)] \in Object
    BY <1>4, <2>1, WeaklyOwnedCounted DEF UpgradeWeakRef, IInv
  <2>3. QED
    BY <1>4, <2>1, <2>2, RefObjectLife DEF UpgradeWeakRef
<1>5. ASSUME NEW s \in Slot, DropVariable(s) PROVE Life!LifeNext
  <2>1. Var(s) \in VarCell /\ Var(s) \in Cell
    BY Cells DEF VarCell
  <2>2. QED
    BY <1>5, <2>1, SameStack, FreeValueLife DEF DropVariable, IInv
<1>6. ASSUME NEW o \in Object, NEW n \in Name, NEW s \in Slot, AddMemberClone(o, n, s)
      PROVE  Life!LifeNext
  BY <1>6, Cells, CopyValueLife DEF AddMemberClone
<1>7. ASSUME NEW o \in Object, NEW n \in Name, NEW s \in Slot, AddMemberMove(o, n, s)
      PROVE  Life!LifeNext
  <2> DEFINE c == Var(s)
             m == Mem(o, n)
  <2>1. c \in Cell /\ m \in Cell /\ c \in VarCell
    BY Cells DEF VarCell
  <2>2. CASE FreeValue(c, stack)
    BY <2>1, <2>2, SameStack, FreeValueLife DEF IInv
  <2>3. CASE /\ Vacant(m) /\ ~Vacant(c)
             /\ own' = [own EXCEPT ![m] = own[c], ![c] = Null]
             /\ weak' = [weak EXCEPT ![m] = weak[c], ![c] = Null]
             /\ UNCHANGED counts
    <3>1. LifeOf' = LifeOf
      BY <2>3 DEF LifeOf, counts
    <3>2. Life!Move(c, m)
      BY <2>3, <3>1 DEF Life!Move, Life!Free, Vacant
    <3>3. QED
      BY <2>1, <3>2 DEF Life!LifeNext
  <2>4. QED
    BY <1>7, <2>2, <2>3 DEF AddMemberMove
<1>8. ASSUME NEW o \in Object, NEW n \in Name, NEW s \in Slot, GetMember(o, n, s)
      PROVE  Life!LifeNext
  BY <1>8, Cells, CopyValueLife DEF GetMember
<1>9. ASSUME NEW o \in Object, NEW n \in Name, RemoveMemberRaw(o, n) PROVE Life!LifeNext
  <2>1. Mem(o, n) \in MemCell /\ Mem(o, n) \in Cell
    BY Cells DEF MemCell
  <2>2. QED
    BY <1>9, <2>1, SameStack, FreeValueLife DEF RemoveMemberRaw, IInv
<1>10. ASSUME NEW o \in Object, FinalizeObject(o) PROVE Life!LifeNext
  <2> DEFINE k == Len(stack) + 1
  <2>1. Len(stack) \in Nat /\ Cardinality({x \in Object : ~destroyed[x]}) \in Nat
    BY ConstantsAssumption, FS_Subset, FS_CardinalityType DEF IInv, StackInv
  <2>2. k \in 1..MaxDepth /\ k > Len(stack)
    BY <1>10, <2>1, ConstantsAssumption DEF FinalizeObject
  <2>3. Frm(k) \in Cell /\ Vacant(Frm(k))
    BY <2>2, Cells DEF IInv, StackInv, Vacant
  <2>4. refCount[o] > 0 /\ RefObject(o, Frm(k))
    BY <1>10, AccessibleCounted DEF FinalizeObject
  <2>5. QED
    BY <2>3, <2>4, RefObjectLife
<1>11. CASE CallDtor \/ StartRemoval
  <2>1. UNCHANGED <<mem, destroyed>> /\ UNCHANGED <<own, weak>>
    BY <1>11 DEF CallDtor, StartRemoval, counts
  <2>2. QED
    BY <2>1, LifeSame DEF Life!lifeVars
<1>12. CASE RemoveNext
  <2>1. stack # <<>> /\ stack[Len(stack)] \in Frame
    BY <1>12, ConstantsAssumption DEF RemoveNext, IInv, StackInv
  <2>2. Top.obj \in Object /\ Top.next \in Name
    BY <1>12, <2>1 DEF RemoveNext, Top, Frame
  <2>3. PICK n \in Name \cup {Null} : FreeValue(Mem(Top.obj, Top.next), SetTop("loop", n))
    BY <1>12 DEF RemoveNext, FirstOf, Present
  <2>4. Mem(Top.obj, Top.next) \in MemCell /\ Mem(Top.obj, Top.next) \in Cell
    BY <2>2, Cells DEF MemCell
  <2>5. QED
    BY <2>1, <2>3, <2>4, SetTopStack, FreeValueLife DEF IInv
<1>13. CASE Finish
  <2>1. Len(stack) \in 1..MaxDepth /\ Len(stack) \in DOMAIN stack /\ stack[Len(stack)] \in Frame
    BY <1>13, ConstantsAssumption DEF Finish, IInv, StackInv
  <2>2. own[Frm(Len(stack))] # Null /\ Frm(Len(stack)) \in Cell
    BY <2>1, Cells, FrameObject, ConstantsAssumption DEF IInv, StackInv, DestroyOnce
  <2>3. QED
    BY <1>13, <2>2, PoppedStack, UnrefObjectLife DEF Finish, IInv
<1>14. QED
  BY <1>1, <1>2, <1>3, <1>4, <1>5, <1>6, <1>7, <1>8, <1>9, <1>10, <1>11, <1>12, <1>13
     DEF Next, FrameStep

\* The initial states agree.
LEMMA InitLife == Init => Life!LifeInit
<1> SUFFICES ASSUME Init PROVE Life!LifeInit
  OBVIOUS
<1>1. \A o \in Object : LifeOf[o] = "unborn"
  BY DEF Init, LifeOf, LifeStage
<1>2. LifeOf = [o \in Object |-> "unborn"]
  BY <1>1 DEF LifeOf, LifeStage
<1>3. QED
  BY <1>2 DEF Init, Life!LifeInit

\* The reference counting of object.c implements reference tracking: an object
\* ends exactly when its last strong reference is released, and is freed exactly
\* when its last reference of either kind is.
THEOREM CountingImplementsLife == Spec => ImplementsLife
BY InitLife, StepLife, StepIsNext, Invariance, FreshInvariance, PTL
   DEF Spec, ImplementsLife, Life!LifeSpec

-----------------------------------------------------------------------------
(* Removal of members: without liberties the loop of _di_finalize_object is  *)
(* safe                                                                      *)

\* No cell: what the cell parameter of the definitions below is when no
\* reference is being released.
NoCell == Frm(0)

\* Member n of o is there, and is not the one that is being released.
Full(o, n, c) == Mem(o, n) # c /\ ~Vacant(Mem(o, n))

\* The object o has no members, but perhaps the one that is being released.
Emptied(o, c) == \A n \in Name : Mem(o, n) = c \/ Vacant(Mem(o, n))

\* A frame of the loop that has saved a member.
Saved(f) == f.pc = "loop" /\ f.next # Null

\* What the frames of the stack stk know when the reference in cell c is about
\* to be released: a saved member is there, the destructor of an object whose
\* frame got past its start is cleared, and a destroy frame at the end of its
\* loop has an object without members; of two frames of an object only the
\* inner one has a saved member.
FramesInv(stk, c) ==
    /\ \A d \in 1..Len(stk) :
           /\ Saved(stk[d]) => Full(stk[d].obj, stk[d].next, c)
           /\ stk[d].pc # "enter" => ~dtor[stk[d].obj]
           /\ (stk[d].op = "destroy" /\ stk[d].pc = "loop" /\ stk[d].next = Null)
                  => Emptied(stk[d].obj, c)
    /\ \A d, e \in 1..Len(stk) :
           (d < e /\ stk[d].obj = stk[e].obj) => ~Saved(stk[d])

\* An object that was destroyed, by no frame of stk, is empty.
DeadInv(stk, c) ==
    \A o \in Object :
        (destroyed[o] /\ \A d \in 1..Len(stk) : ~(stk[d].op = "destroy" /\ stk[d].obj = o))
            => ~dtor[o] /\ Emptied(o, c)

\* A cell holds one reference, strong or weak.
OneKind == \A c \in Cell : own[c] = Null \/ weak[c] = Null

RemovalInv == FramesInv(stack, NoCell) /\ DeadInv(stack, NoCell) /\ OneKind

\* No member is NoCell.
LEMMA NoCellMember == \A o, n : Mem(o, n) # NoCell
BY Cells DEF NoCell

\* The invariant says that removal is safe.
LEMMA RemovalInvSafe ==
    ASSUME IInv, RemovalInv
    PROVE  RemovalSafe
<1>1. DOMAIN stack = 1..Len(stack)
  BY DEF IInv, StackInv
<1>2. NextMemberValid
  BY <1>1 DEF RemovalInv, FramesInv, Saved, Full, NextMemberValid
<1>3. ASSUME NEW o \in Object, destroyed[o], ~Destroying(o)
      PROVE  ~dtor[o] /\ \A n \in Name : Vacant(Mem(o, n))
  <2>1. \A d \in 1..Len(stack) : ~(stack[d].op = "destroy" /\ stack[d].obj = o)
    BY <1>1, <1>3 DEF Destroying
  <2>2. ~dtor[o] /\ Emptied(o, NoCell)
    BY <1>3, <2>1 DEF RemovalInv, DeadInv
  <2>3. QED
    BY <2>2, NoCellMember DEF Emptied
<1>4. QED
  BY <1>2, <1>3 DEF RemovalSafe, DestroyedIsEmpty

\* An object whose only reference is in cell c is the object of no frame whose
\* reference is elsewhere.
LEMMA SoleReference ==
    ASSUME HeapInv, NEW c \in Cell, own[c] # Null, refCount[own[c]] = 1,
           NEW e \in Cell, e # c
    PROVE  own[e] # own[c]
<1> DEFINE o == own[c]
           g == [own EXCEPT ![c] = Null]
<1>1. o \in Object /\ own \in RefMap
  BY OwnedCounted DEF HeapInv, HeapType
<1>2. Count(own, o) = 1
  BY <1>1 DEF HeapInv, RefCountExact, Count
<1>3. Count(g, o) = 0
  BY <1>1, <1>2, CountClear
<1>4. SUFFICES ASSUME own[e] = o PROVE FALSE
  OBVIOUS
<1>5. g[e] = o
  BY <1>1, <1>4 DEF RefMap
<1> HIDE DEF g
<1>6. Count(g, o) > 0
  BY <1>5, CountPositive
<1>7. QED
  BY <1>3, <1>6

\* A step that keeps the stack, and fills at most members of objects that are
\* not destroyed, keeps the invariant.
LEMMA RemovalKept ==
    ASSUME IInv, RemovalInv, stack' = stack, destroyed' = destroyed, dtor' = dtor,
           \A o \in Object, n \in Name :
               /\ ~Vacant(Mem(o, n)) => ~Vacant(Mem(o, n))'
               /\ destroyed[o] /\ Vacant(Mem(o, n)) => Vacant(Mem(o, n))',
           OneKind'
    PROVE  RemovalInv'
<1>1. \A d \in 1..Len(stack) :
          /\ stack[d].obj \in Object /\ stack[d].next \in Name \cup {Null}
          /\ stack[d].op = "destroy" => destroyed[stack[d].obj]
  <2>1. ASSUME NEW d \in 1..Len(stack)
        PROVE  d \in DOMAIN stack /\ stack[d] \in Frame
    BY DEF IInv, StackInv
  <2>2. ASSUME NEW f \in Frame PROVE f.obj \in Object /\ f.next \in Name \cup {Null}
    BY DEF Frame
  <2>3. QED
    BY <2>1, <2>2 DEF IInv, StackInv, DestroyOnce
<1>2. ASSUME NEW d \in 1..Len(stack), Saved(stack[d])
      PROVE  Full(stack[d].obj, stack[d].next, NoCell)'
  <2>1. Full(stack[d].obj, stack[d].next, NoCell)
    BY <1>2 DEF RemovalInv, FramesInv
  <2>2. stack[d].next \in Name
    BY <1>1, <1>2 DEF Saved
  <2>3. ~Vacant(Mem(stack[d].obj, stack[d].next))'
    BY <1>1, <2>1, <2>2 DEF Full
  <2>4. QED
    BY <2>3, NoCellMember DEF Full, NoCell
<1>3. ASSUME NEW o \in Object, destroyed[o], Emptied(o, NoCell)
      PROVE  Emptied(o, NoCell)'
  BY <1>3, NoCellMember DEF Emptied, NoCell
<1>4. FramesInv(stack, NoCell)'
  BY <1>1, <1>2, <1>3 DEF RemovalInv, FramesInv, Saved
<1>5. DeadInv(stack, NoCell)'
  BY <1>3 DEF RemovalInv, DeadInv
<1>6. QED
  BY <1>4, <1>5 DEF RemovalInv

\* The release of the reference in cell c empties the cell and fills none of
\* the members.
LEMMA ReleaseEmpties ==
    ASSUME IInv, OneKind, NEW c \in Cell, NEW stk, CallStack(stk, c),
           \/ FreeValue(c, stk)
           \/ own[c] # Null /\ UnrefObject(c, stk) /\ weak' = weak
    PROVE  /\ OneKind'
           /\ \A o \in Object, n \in Name :
                  Vacant(Mem(o, n))' <=> (Mem(o, n) = c \/ Vacant(Mem(o, n)))
           /\ destroyed \in [Object -> BOOLEAN]
           /\ \/ stack' = stk /\ destroyed' = destroyed
              \/ /\ own[c] # Null /\ refCount[own[c]] = 1 /\ own[c] \in Object
                 /\ stack' = Append(stk, Enter("destroy", own[c]))
                 /\ destroyed' = [destroyed EXCEPT ![own[c]] = TRUE]
<1>1. own \in RefMap /\ weak \in RefMap /\ destroyed \in [Object -> BOOLEAN]
  BY DEF IInv, HeapInv, HeapType
<1>2. \A d \in 1..MaxDepth : weak[Frm(d)] = Null
  BY DEF IInv, StackInv
<1>3. CASE own[c] # Null /\ own' = [own EXCEPT ![c] = Null] /\ weak' = weak
           /\ stack' = stk /\ destroyed' = destroyed
  <2>1. weak[c] = Null
    BY <1>3 DEF OneKind
  <2>2. \A m \in Cell : own'[m] = (IF m = c THEN Null ELSE own[m]) /\ weak'[m] = weak[m]
    BY <1>1, <1>3 DEF RefMap
  <2>3. QED
    BY <1>1, <1>3, <2>1, <2>2, Cells DEF OneKind, Vacant
<1>4. CASE weak[c] # Null /\ weak' = [weak EXCEPT ![c] = Null] /\ own' = own
           /\ stack' = stk /\ destroyed' = destroyed
  <2>1. own[c] = Null
    BY <1>4 DEF OneKind
  <2>2. \A m \in Cell : weak'[m] = (IF m = c THEN Null ELSE weak[m]) /\ own'[m] = own[m]
    BY <1>1, <1>4 DEF RefMap
  <2>3. QED
    BY <1>1, <1>4, <2>1, <2>2, Cells DEF OneKind, Vacant
<1>5. CASE own[c] # Null /\ refCount[own[c]] = 1 /\ DestroyObject(own[c], c, stk)
           /\ weak' = weak
  <2> DEFINE k == Len(stk) + 1
  <2>1. weak[c] = Null /\ own[c] \in Object
    BY <1>5, OwnedCounted DEF OneKind, IInv
  <2>2. k \in 1..MaxDepth /\ Frm(k) \in Cell
    BY <1>5, Cells, ConstantsAssumption DEF DestroyObject, CallStack
  <2>3. own' = [own EXCEPT ![c] = Null, ![Frm(k)] = own[c]]
    BY <1>5 DEF DestroyObject
  <2>4. \A m \in Cell : own'[m] = (IF m = Frm(k) THEN own[c] ELSE IF m = c THEN Null ELSE own[m])
    BY <1>1, <2>2, <2>3 DEF RefMap
  <2>5. OneKind'
    BY <1>2, <1>5, <2>1, <2>2, <2>4 DEF OneKind
  <2>6. ASSUME NEW o \in Object, NEW n \in Name
        PROVE  Vacant(Mem(o, n))' <=> (Mem(o, n) = c \/ Vacant(Mem(o, n)))
    <3>1. Mem(o, n) \in Cell /\ Mem(o, n) # Frm(k)
      BY Cells
    <3>2. own'[Mem(o, n)] = (IF Mem(o, n) = c THEN Null ELSE own[Mem(o, n)])
      BY <2>4, <3>1
    <3>3. QED
      BY <1>5, <2>1, <3>2 DEF Vacant
  <2>7. QED
    BY <1>1, <1>5, <2>1, <2>5, <2>6 DEF DestroyObject
<1>6. QED
  BY <1>3, <1>4, <1>5 DEF FreeValue, UnrefObject, DropWeakRef

\* The release of a reference keeps the invariant, when the stack it returns to
\* knows of the member that is going.
LEMMA ReleaseRemoval ==
    ASSUME IInv, OneKind, NEW c \in Cell, NEW stk, CallStack(stk, c),
           \/ FreeValue(c, stk)
           \/ own[c] # Null /\ UnrefObject(c, stk) /\ weak' = weak,
           dtor' = dtor, FramesInv(stk, c), DeadInv(stk, c)
    PROVE  RemovalInv'
<1>1. \A d \in 1..Len(stk) :
          /\ stk[d].obj \in Object /\ stk[d].next \in Name \cup {Null}
          /\ Len(stk) \in Nat
  <2>1. ASSUME NEW d \in 1..Len(stk)
        PROVE  stk[d] \in Frame /\ Len(stk) \in Nat
    BY DEF CallStack
  <2>2. ASSUME NEW f \in Frame PROVE f.obj \in Object /\ f.next \in Name \cup {Null}
    BY DEF Frame
  <2>3. QED
    BY <2>1, <2>2
<1>2. ASSUME NEW o \in Object, NEW n \in Name, Full(o, n, c)
      PROVE  Full(o, n, NoCell)'
  BY <1>2, ReleaseEmpties, NoCellMember DEF Full, NoCell
<1>3. ASSUME NEW o \in Object, Emptied(o, c)
      PROVE  Emptied(o, NoCell)'
  BY <1>3, ReleaseEmpties DEF Emptied, NoCell
<1>4. ASSUME NEW d \in 1..Len(stk)
      PROVE  /\ Saved(stk[d]) => Full(stk[d].obj, stk[d].next, NoCell)'
             /\ stk[d].pc # "enter" => ~dtor'[stk[d].obj]
             /\ (stk[d].op = "destroy" /\ stk[d].pc = "loop" /\ stk[d].next = Null)
                    => Emptied(stk[d].obj, NoCell)'
  <2>1. Saved(stk[d]) => stk[d].next \in Name
    BY <1>1 DEF Saved
  <2>2. QED
    BY <1>1, <1>2, <1>3, <2>1 DEF FramesInv
<1>5. CASE stack' = stk /\ destroyed' = destroyed
  <2>1. FramesInv(stack, NoCell)'
    BY <1>4, <1>5 DEF FramesInv, Saved
  <2>2. DeadInv(stack, NoCell)'
    BY <1>3, <1>5 DEF DeadInv
  <2>3. QED
    BY <2>1, <2>2, ReleaseEmpties DEF RemovalInv
<1>6. CASE /\ own[c] # Null /\ refCount[own[c]] = 1 /\ own[c] \in Object
           /\ stack' = Append(stk, Enter("destroy", own[c]))
           /\ destroyed' = [destroyed EXCEPT ![own[c]] = TRUE]
  <2> DEFINE o == own[c]
             fr == Enter("destroy", o)
             k == Len(stk) + 1
  <2>1. fr.obj = o /\ fr.op = "destroy" /\ fr.pc = "enter" /\ ~Saved(fr) /\ fr \in Frame
    BY <1>6 DEF Enter, Saved, Frame
  <2> HIDE DEF fr
  <2>2. stk \in Seq(Frame) /\ Len(stk) \in Nat
    BY DEF CallStack
  <2>3. /\ Len(stack') = k /\ stack'[k] = fr
        /\ \A d \in 1..Len(stk) : stack'[d] = stk[d]
    BY <1>6, <2>1, <2>2 DEF fr
  <2>4. ASSUME NEW d \in 1..Len(stk) PROVE stk[d].obj # o
    <3>1. d \in 1..Len(stack) /\ Len(stack) <= MaxDepth /\ d \in DOMAIN stack /\ d \in 1..MaxDepth
      BY <2>2, ConstantsAssumption DEF CallStack, IInv, StackInv
    <3>2. stk[d].obj = stack[d].obj /\ Frm(d) # c
      BY DEF CallStack
    <3>3. own[Frm(d)] = stack[d].obj
      BY <3>1 DEF IInv, StackInv, DestroyOnce
    <3>4. own[Frm(d)] # own[c]
      BY <1>6, <3>1, <3>2, Cells, SoleReference DEF IInv
    <3>5. QED
      BY <3>2, <3>3, <3>4
  <2>5. 1..Len(stack') = 1..Len(stk) \cup {k} /\ \A d \in 1..Len(stk) : d < k
    BY <2>2, <2>3
  <2>6. \A d \in 1..Len(stack') :
            (/\ Saved(stack[d]) => Full(stack[d].obj, stack[d].next, NoCell)
             /\ stack[d].pc # "enter" => ~dtor[stack[d].obj]
             /\ (stack[d].op = "destroy" /\ stack[d].pc = "loop" /\ stack[d].next = Null)
                    => Emptied(stack[d].obj, NoCell))'
    BY <1>4, <2>1, <2>3, <2>5 DEF Saved
  <2>7. ASSUME NEW d \in 1..Len(stack'), NEW e \in 1..Len(stack'),
               d < e, stack'[d].obj = stack'[e].obj
        PROVE  ~Saved(stack'[d])
    <3>1. d \in 1..Len(stk)
      BY <2>2, <2>3, <2>7
    <3>2. CASE e = k
      BY <2>1, <2>3, <2>4, <2>7, <3>1, <3>2
    <3>3. CASE e \in 1..Len(stk)
      BY <2>3, <2>7, <3>1, <3>3 DEF FramesInv
    <3>4. QED
      BY <2>5, <3>2, <3>3
  <2>8. FramesInv(stack, NoCell)'
    BY <2>6, <2>7 DEF FramesInv, Saved
  <2>9. ASSUME NEW p \in Object, destroyed'[p],
               \A d \in 1..Len(stack') : ~(stack'[d].op = "destroy" /\ stack'[d].obj = p)
        PROVE  ~dtor'[p] /\ Emptied(p, NoCell)'
    <3>1. p # o
      BY <2>1, <2>3, <2>5, <2>9
    <3>2. destroyed[p]
      BY <1>6, <2>9, <3>1, ReleaseEmpties
    <3>3. \A d \in 1..Len(stk) : ~(stk[d].op = "destroy" /\ stk[d].obj = p)
      BY <2>3, <2>5, <2>9
    <3>4. ~dtor[p] /\ Emptied(p, c)
      BY <3>2, <3>3 DEF DeadInv
    <3>5. QED
      BY <1>3, <3>4
  <2>10. DeadInv(stack, NoCell)'
    BY <2>9 DEF DeadInv
  <2>11. QED
    BY <2>8, <2>10, ReleaseEmpties DEF RemovalInv
<1>7. QED
  BY <1>5, <1>6, ReleaseEmpties

\* The release of the reference in cell c, for which nothing is kept.
LEMMA ReleaseSame ==
    ASSUME IInv, RemovalInv, NEW c \in VarCell \cup MemCell, FreeValue(c, stack), dtor' = dtor,
           \A o \in Object, n \in Name : Mem(o, n) = c => ~Pending(o, n)
    PROVE  RemovalInv'
<1>1. c \in Cell /\ CallStack(stack, c)
  BY SameStack DEF Cell, IInv
<1>2. ASSUME NEW o \in Object, Emptied(o, NoCell) PROVE Emptied(o, c)
  BY <1>2, NoCellMember DEF Emptied
<1>3. ASSUME NEW d \in 1..Len(stack)
      PROVE  /\ d \in DOMAIN stack /\ stack[d].obj \in Object
             /\ Saved(stack[d]) => stack[d].next \in Name
  <2>1. d \in DOMAIN stack /\ stack[d] \in Frame
    BY DEF IInv, StackInv
  <2>2. QED
    BY <2>1 DEF Frame, Saved
<1>4. ASSUME NEW d \in 1..Len(stack), Saved(stack[d])
      PROVE  Full(stack[d].obj, stack[d].next, c)
  <2>1. Full(stack[d].obj, stack[d].next, NoCell)
    BY <1>4 DEF RemovalInv, FramesInv
  <2>2. Pending(stack[d].obj, stack[d].next)
    BY <1>3, <1>4 DEF Pending, Saved
  <2>3. QED
    BY <1>3, <1>4, <2>1, <2>2 DEF Full
<1>5. FramesInv(stack, c)
  BY <1>2, <1>3, <1>4 DEF RemovalInv, FramesInv
<1>6. DeadInv(stack, c)
  BY <1>2 DEF RemovalInv, DeadInv
<1>7. QED
  BY <1>1, <1>5, <1>6, ReleaseRemoval DEF RemovalInv

\* A reference stored in an empty variable, or in a member of an object that is
\* not destroyed, keeps the invariant.
LEMMA CopyRemoval ==
    ASSUME IInv, RemovalInv, NEW c \in Cell, Vacant(c),
           \/ \E o : RefObject(o, c) \/ WeaklyRefObject(o, c),
           stack' = stack, dtor' = dtor,
           \A o \in Object, n \in Name : Mem(o, n) = c => ~destroyed[o]
    PROVE  RemovalInv'
<1>1. own \in RefMap /\ weak \in RefMap
  BY DEF IInv, HeapInv, HeapType
<1>2. /\ \A m \in Cell : m # c => own'[m] = own[m] /\ weak'[m] = weak[m]
      /\ own'[c] = Null \/ weak'[c] = Null
  BY <1>1 DEF RefObject, WeaklyRefObject, RefMap, Vacant
<1>3. destroyed' = destroyed
  BY DEF RefObject, WeaklyRefObject
<1>4. OneKind'
  BY <1>2 DEF RemovalInv, OneKind
<1>5. QED
  BY <1>2, <1>3, <1>4, Cells, RemovalKept DEF Vacant

\* The top frame is replaced, and no reference is released.
LEMMA AdvanceRemoval ==
    ASSUME IInv, RemovalInv, stack # <<>>, NEW pc \in {"dtor", "loop"}, NEW n \in Name \cup {Null},
           stack' = SetTop(pc, n), own' = own, weak' = weak, destroyed' = destroyed,
           \A o \in Object : dtor'[o] => dtor[o], ~dtor'[Top.obj],
           pc = "loop" => n \in FirstOf(Present(Top.obj)),
           pc = "dtor" => n = Null
    PROVE  RemovalInv'
<1> DEFINE k == Len(stack)
           top == [stack[k] EXCEPT !.pc = pc, !.next = n]
<1>1. stack \in Seq(Frame) /\ k \in Nat /\ k > 0 /\ stack[k] \in Frame
  BY DEF IInv, StackInv
<1>2. top.pc = pc /\ top.next = n /\ top.obj = stack[k].obj /\ top.op = stack[k].op
      /\ stack[k].obj \in Object /\ top \in Frame
  BY <1>1 DEF Frame
<1>3. stack' = [stack EXCEPT ![k] = top]
  BY DEF SetTop
<1> HIDE DEF top
<1>4. /\ Len(stack') = k
      /\ stack'[k] = top
      /\ \A d \in 1..k : d # k => stack'[d] = stack[d]
  BY <1>1, <1>2, <1>3
<1>5. \A o, m, c : (Full(o, m, NoCell)' <=> Full(o, m, NoCell))
                   /\ (Emptied(o, NoCell)' <=> Emptied(o, NoCell))
  BY DEF Full, Emptied, Vacant, NoCell
<1>6. Saved(top) => Full(top.obj, top.next, NoCell)
  <2>1. SUFFICES ASSUME Saved(top) PROVE Full(top.obj, top.next, NoCell)
    OBVIOUS
  <2>2. n \in Present(Top.obj)
    BY <1>2, <2>1 DEF Saved, FirstOf
  <2>3. QED
    BY <1>2, <2>2, NoCellMember DEF Full, Present, Top
<1>7. (top.pc = "loop" /\ top.next = Null) => Emptied(top.obj, NoCell)
  <2>1. SUFFICES ASSUME pc = "loop", n = Null PROVE Emptied(top.obj, NoCell)
    BY <1>2
  <2>2. Present(Top.obj) = {}
    BY <2>1, ConstantsAssumption DEF FirstOf, Present
  <2>3. QED
    BY <1>2, <2>2 DEF Present, Emptied, Top
<1>8. ASSUME NEW d \in 1..k
      PROVE  (/\ Saved(stack[d]) => Full(stack[d].obj, stack[d].next, NoCell)
              /\ stack[d].pc # "enter" => ~dtor[stack[d].obj]
              /\ (stack[d].op = "destroy" /\ stack[d].pc = "loop" /\ stack[d].next = Null)
                     => Emptied(stack[d].obj, NoCell))'
  <2>1. CASE d = k
    BY <1>2, <1>4, <1>5, <1>6, <1>7, <2>1 DEF Saved, Top
  <2>2. CASE d # k
    <3>1. stack[d] \in Frame /\ stack[d].obj \in Object
      BY <1>1, FrameObject
    <3>2. QED
      BY <1>4, <1>5, <2>2, <3>1 DEF Saved, RemovalInv, FramesInv
  <2>3. QED
    BY <2>1, <2>2
<1>9. ASSUME NEW d \in 1..k, NEW e \in 1..k, d < e, stack'[d].obj = stack'[e].obj
      PROVE  ~Saved(stack'[d])
  <2>1. d # k /\ stack'[d] = stack[d]
    BY <1>1, <1>4, <1>9
  <2>2. stack'[e].obj = stack[e].obj
    BY <1>2, <1>4
  <2>3. QED
    BY <1>9, <2>1, <2>2 DEF RemovalInv, FramesInv
<1>10. FramesInv(stack, NoCell)'
  BY <1>4, <1>8, <1>9 DEF FramesInv, Saved
<1>11. ASSUME NEW p \in Object, destroyed[p],
              \A d \in 1..k : ~(stack'[d].op = "destroy" /\ stack'[d].obj = p)
       PROVE  ~dtor'[p] /\ Emptied(p, NoCell)'
  <2>1. ASSUME NEW d \in 1..k PROVE ~(stack[d].op = "destroy" /\ stack[d].obj = p)
    BY <1>2, <1>4, <1>11
  <2>2. ~dtor[p] /\ Emptied(p, NoCell)
    BY <1>11, <2>1 DEF RemovalInv, DeadInv
  <2>3. QED
    BY <1>5, <2>2
<1>12. DeadInv(stack, NoCell)'
  BY <1>4, <1>11 DEF DeadInv
<1>13. QED
  BY <1>10, <1>12 DEF RemovalInv, OneKind

\* One iteration of the loop keeps the invariant.
LEMMA RemoveNextRemoval ==
    ASSUME IInv, RemovalInv, RemoveNext
    PROVE  RemovalInv'
<1> DEFINE k == Len(stack)
           c == Mem(Top.obj, Top.next)
<1>1. stack \in Seq(Frame) /\ k \in Nat /\ k > 0 /\ stack[k] \in Frame /\ stack # <<>>
  BY DEF IInv, StackInv, RemoveNext
<1>2. Top = stack[k] /\ Top.obj \in Object /\ Top.next \in Name /\ Top.pc = "loop"
  BY <1>1 DEF RemoveNext, Top, Frame
<1>3. c \in MemCell /\ c \in Cell
  BY <1>2, Cells DEF MemCell
<1>4. PICK n \in FirstOf(Present(Top.obj) \ {Top.next}) : FreeValue(c, SetTop("loop", n))
  BY DEF RemoveNext
<1> DEFINE stk == SetTop("loop", n)
           top == [stack[k] EXCEPT !.pc = "loop", !.next = n]
<1>5. n \in Name \cup {Null}
  BY <1>4 DEF FirstOf, Present
<1>6. CallStack(stk, c) /\ Len(stk) = k
  BY <1>1, <1>3, <1>5, SetTopStack DEF IInv
<1>7. top.pc = "loop" /\ top.next = n /\ top.obj = Top.obj /\ top.op = stack[k].op /\ top \in Frame
  BY <1>1, <1>2, <1>5 DEF Frame
<1>8. stk = [stack EXCEPT ![k] = top]
  BY DEF SetTop
<1> HIDE DEF top, stk
<1>9. stk[k] = top /\ \A d \in 1..k : d # k => stk[d] = stack[d]
  BY <1>1, <1>7, <1>8
<1>10. ASSUME NEW d \in 1..k, d # k
       PROVE  /\ stack[d].obj \in Object /\ d < k
              /\ Saved(stack[d]) => stack[d].next \in Name
  <2>1. stack[d] \in Frame
    BY <1>1
  <2>2. QED
    BY <1>1, <1>10, <2>1 DEF Frame, Saved
<1>11. \A o, p \in Object, a, b \in Name : Mem(o, a) = Mem(p, b) => o = p /\ a = b
  BY DEF Mem
<1>12. ASSUME NEW o \in Object, Emptied(o, NoCell) PROVE Emptied(o, c)
  BY <1>12, NoCellMember DEF Emptied
<1>13. Saved(top) => Full(top.obj, top.next, c)
  <2>1. SUFFICES ASSUME Saved(top) PROVE Full(top.obj, top.next, c)
    OBVIOUS
  <2>2. n \in Present(Top.obj) \ {Top.next}
    BY <1>4, <1>7, <2>1 DEF Saved, FirstOf
  <2>3. n \in Name /\ ~Vacant(Mem(Top.obj, n)) /\ n # Top.next
    BY <2>2 DEF Present
  <2>4. Mem(Top.obj, n) # c
    BY <1>2, <1>11, <2>3
  <2>5. QED
    BY <1>7, <2>3, <2>4 DEF Full
<1>14. top.next = Null => Emptied(top.obj, c)
  <2>1. SUFFICES ASSUME n = Null PROVE Emptied(Top.obj, c)
    BY <1>7
  <2>2. Present(Top.obj) \ {Top.next} = {}
    BY <1>4, <2>1, ConstantsAssumption DEF FirstOf, Present
  <2>3. \A m \in Name : m = Top.next \/ Vacant(Mem(Top.obj, m))
    BY <2>2 DEF Present
  <2>4. QED
    BY <2>3 DEF Emptied
<1>15. ASSUME NEW d \in 1..k
       PROVE  /\ Saved(stk[d]) => Full(stk[d].obj, stk[d].next, c)
              /\ stk[d].pc # "enter" => ~dtor[stk[d].obj]
              /\ (stk[d].op = "destroy" /\ stk[d].pc = "loop" /\ stk[d].next = Null)
                     => Emptied(stk[d].obj, c)
  <2>1. CASE d = k
    <3>1. ~dtor[Top.obj]
      BY <1>1, <1>2 DEF RemovalInv, FramesInv
    <3>2. QED
      BY <1>7, <1>9, <1>13, <1>14, <2>1, <3>1
  <2>2. CASE d # k
    <3>1. Saved(stack[d]) => Full(stack[d].obj, stack[d].next, c)
      <4>1. SUFFICES ASSUME Saved(stack[d]) PROVE Full(stack[d].obj, stack[d].next, c)
        OBVIOUS
      <4>2. stack[d].obj # Top.obj
        BY <1>1, <1>2, <1>10, <2>2, <4>1 DEF RemovalInv, FramesInv
      <4>3. Mem(stack[d].obj, stack[d].next) # c
        BY <1>2, <1>10, <1>11, <2>2, <4>1, <4>2
      <4>4. QED
        BY <4>1, <4>3 DEF RemovalInv, FramesInv, Full
    <3>2. QED
      BY <1>9, <1>10, <1>12, <2>2, <3>1 DEF RemovalInv, FramesInv
  <2>3. QED
    BY <2>1, <2>2
<1>16. ASSUME NEW d \in 1..k, NEW e \in 1..k, d < e, stk[d].obj = stk[e].obj
       PROVE  ~Saved(stk[d])
  <2>1. d # k /\ stk[d] = stack[d]
    BY <1>1, <1>9, <1>16
  <2>2. stk[e].obj = stack[e].obj
    BY <1>2, <1>7, <1>9
  <2>3. QED
    BY <1>16, <2>1, <2>2 DEF RemovalInv, FramesInv
<1>17. FramesInv(stk, c)
  BY <1>6, <1>15, <1>16 DEF FramesInv
<1>18. DeadInv(stk, c)
  <2>1. SUFFICES ASSUME NEW p \in Object, destroyed[p],
                        \A d \in 1..k : ~(stk[d].op = "destroy" /\ stk[d].obj = p)
                 PROVE  ~dtor[p] /\ Emptied(p, c)
    BY <1>6 DEF DeadInv
  <2>2. ASSUME NEW d \in 1..k PROVE ~(stack[d].op = "destroy" /\ stack[d].obj = p)
    BY <1>2, <1>7, <1>9, <2>1
  <2>3. ~dtor[p] /\ Emptied(p, NoCell)
    BY <2>1, <2>2 DEF RemovalInv, DeadInv
  <2>4. QED
    BY <1>12, <2>3
<1>19. FreeValue(c, stk) /\ dtor' = dtor
  BY <1>4 DEF RemoveNext, stk
<1>20. QED
  BY <1>3, <1>6, <1>17, <1>18, <1>19, ReleaseRemoval DEF RemovalInv

\* The end of a destruction keeps the invariant: the loop has left no member.
LEMMA FinishRemoval ==
    ASSUME IInv, RemovalInv, Finish
    PROVE  RemovalInv'
<1> DEFINE k == Len(stack)
           c == Frm(k)
<1>1. stack \in Seq(Frame) /\ k \in 1..MaxDepth /\ stack[k] \in Frame /\ k \in DOMAIN stack
      /\ stack # <<>> /\ k \in Nat
  BY ConstantsAssumption DEF IInv, StackInv, Finish
<1>2. CallStack(Popped, c) /\ Len(Popped) = k - 1
  BY <1>1, PoppedStack DEF IInv
<1>3. own[c] = stack[k].obj /\ own[c] # Null /\ c \in Cell
  BY <1>1, Cells, FrameObject, ConstantsAssumption DEF IInv, StackInv, DestroyOnce
<1>4. \A d \in 1..(k - 1) : Popped[d] = stack[d] /\ d \in 1..k
  <2> DEFINE j == k - 1
  <2>1. j \in Nat /\ j <= k /\ Popped = SubSeq(stack, 1, j)
    BY <1>1 DEF Popped
  <2> HIDE DEF j
  <2>2. \A d \in 1..j : Popped[d] = stack[d]
    BY <1>1, <2>1, Prefix
  <2>3. QED
    BY <1>1, <2>2 DEF j
<1>5. \A o, n : Mem(o, n) # c /\ Mem(o, n) # NoCell
  BY Cells DEF NoCell
<1>6. \A o, n : (Full(o, n, c) <=> Full(o, n, NoCell)) /\ (Emptied(o, c) <=> Emptied(o, NoCell))
  BY <1>5 DEF Full, Emptied
<1>7. FramesInv(Popped, c)
  BY <1>2, <1>4, <1>6 DEF RemovalInv, FramesInv
<1>8. ASSUME NEW p \in Object, destroyed[p],
             \A d \in 1..(k - 1) : ~(Popped[d].op = "destroy" /\ Popped[d].obj = p)
      PROVE  ~dtor[p] /\ Emptied(p, c)
  <2>1. CASE stack[k].op = "destroy" /\ stack[k].obj = p
    BY <1>1, <1>6, <2>1 DEF RemovalInv, FramesInv, Finish, Top
  <2>2. CASE ~(stack[k].op = "destroy" /\ stack[k].obj = p)
    <3>1. ASSUME NEW d \in 1..k PROVE ~(stack[d].op = "destroy" /\ stack[d].obj = p)
      <4>1. d = k \/ d \in 1..(k - 1)
        BY <1>1
      <4>2. QED
        BY <1>4, <1>8, <2>2, <4>1
    <3>2. QED
      BY <1>6, <1>8, <3>1 DEF RemovalInv, DeadInv
  <2>3. QED
    BY <2>1, <2>2
<1>9. DeadInv(Popped, c)
  BY <1>2, <1>8 DEF DeadInv
<1>10. UnrefObject(c, Popped) /\ weak' = weak /\ dtor' = dtor
  BY DEF Finish
<1>11. QED
  BY <1>2, <1>3, <1>7, <1>9, <1>10, ReleaseRemoval DEF RemovalInv

\* A new object keeps the invariant: no frame works on it.
LEMMA NewObjectRemoval ==
    ASSUME IInv, FreshUnmarked, RemovalInv,
           NEW o \in Object, NEW s \in Slot, NEW h \in BOOLEAN, NewObject(o, s, h)
    PROVE  RemovalInv'
<1>1. own \in RefMap /\ weak \in RefMap /\ dtor \in [Object -> BOOLEAN]
  BY DEF IInv, HeapInv, HeapType, StackInv
<1>2. Var(s) \in Cell /\ \A p, n : Mem(p, n) # Var(s)
  BY Cells DEF Mem, Var
<1>3. \A m \in Cell : m # Var(s) => own'[m] = own[m]
  BY <1>1 DEF NewObject, RefMap
<1>4. weak' = weak /\ stack' = stack /\ destroyed' = destroyed
  BY DEF NewObject
<1>5. \A p \in Object : p # o => dtor'[p] = dtor[p]
  BY <1>1 DEF NewObject
<1>6. ~destroyed[o] /\ mem[o] = "unused"
  BY DEF NewObject, FreshUnmarked
<1>7. ASSUME NEW d \in 1..Len(stack)
      PROVE  stack[d].obj \in Object /\ stack[d].obj # o /\ (Saved(stack[d]) => stack[d].next \in Name)
  <2>1. d \in DOMAIN stack /\ stack[d] \in Frame /\ d \in 1..MaxDepth
    BY ConstantsAssumption DEF IInv, StackInv
  <2>2. own[Frm(d)] = stack[d].obj /\ stack[d].obj \in Object /\ (Saved(stack[d]) => stack[d].next \in Name)
    BY <2>1 DEF IInv, StackInv, DestroyOnce, Frame, Saved
  <2>3. mem[own[Frm(d)]] = "live"
    BY <2>1, <2>2, Cells, HeapInvPointersLive, ConstantsAssumption DEF IInv, PointersLive
  <2>4. QED
    BY <1>6, <2>2, <2>3
<1>8. \A p \in Object, n \in Name : Vacant(Mem(p, n))' <=> Vacant(Mem(p, n))
  BY <1>2, <1>3, <1>4, Cells DEF Vacant
<1>9. OneKind'
  BY <1>2, <1>3, <1>4 DEF RemovalInv, OneKind, NewObject, Vacant
<1>10. \A p \in Object, n \in Name : Full(p, n, NoCell)' <=> Full(p, n, NoCell)
  BY <1>8 DEF Full, NoCell
<1>11. \A p \in Object : Emptied(p, NoCell)' <=> Emptied(p, NoCell)
  BY <1>8 DEF Emptied, NoCell
<1>12. FramesInv(stack, NoCell)'
  BY <1>4, <1>5, <1>7, <1>10, <1>11 DEF RemovalInv, FramesInv, Saved
<1>13. DeadInv(stack, NoCell)'
  BY <1>4, <1>5, <1>6, <1>11 DEF RemovalInv, DeadInv
<1>14. QED
  BY <1>9, <1>12, <1>13 DEF RemovalInv

\* A call of di_finalize_object keeps the invariant, if it is not made while a
\* frame has a member of the object saved.
LEMMA FinalizeRemoval ==
    ASSUME IInv, RemovalInv, liberties = {}, NEW o \in Object, FinalizeObject(o)
    PROVE  RemovalInv'
<1> DEFINE k == Len(stack) + 1
           fr == Enter("finalize", o)
<1>1. fr.obj = o /\ fr.op = "finalize" /\ fr.pc = "enter" /\ ~Saved(fr) /\ fr \in Frame
  BY DEF Enter, Saved, Frame
<1>2. stack \in Seq(Frame) /\ Len(stack) \in Nat
  BY DEF IInv, StackInv
<1>3. stack' = Append(stack, fr)
  BY DEF FinalizeObject
<1> HIDE DEF fr
<1>4. /\ Len(stack') = k /\ stack'[k] = fr
      /\ \A d \in 1..Len(stack) : stack'[d] = stack[d]
      /\ 1..k = 1..Len(stack) \cup {k}
  BY <1>1, <1>2, <1>3
<1>5. Frm(k) \in Cell /\ k \in 1..MaxDepth /\ own[Frm(k)] = Null /\ weak[Frm(k)] = Null
  <2>1. Cardinality({x \in Object : ~destroyed[x]}) \in Nat
    BY ConstantsAssumption, FS_Subset, FS_CardinalityType
  <2>2. Len(stack) < MaxDepth
    BY <1>2, <2>1, ConstantsAssumption DEF FinalizeObject
  <2>3. k \in 1..MaxDepth
    BY <1>2, <2>2, ConstantsAssumption
  <2>4. QED
    BY <1>2, <2>3, Cells DEF IInv, StackInv
<1>6. own \in RefMap /\ own' = [own EXCEPT ![Frm(k)] = o] /\ weak' = weak /\ destroyed' = destroyed
      /\ dtor' = dtor
  BY DEF FinalizeObject, RefObject, IInv, HeapInv, HeapType
<1>7. \A m \in Cell : m # Frm(k) => own'[m] = own[m]
  BY <1>6 DEF RefMap
<1>8. OneKind'
  BY <1>5, <1>6, <1>7 DEF RemovalInv, OneKind
<1>9. \A p \in Object, n \in Name : Vacant(Mem(p, n))' <=> Vacant(Mem(p, n))
  BY <1>6, <1>7, Cells DEF Vacant
<1>10. \A p \in Object, n \in Name : Full(p, n, NoCell)' <=> Full(p, n, NoCell)
  BY <1>9 DEF Full, NoCell
<1>11. \A p \in Object : Emptied(p, NoCell)' <=> Emptied(p, NoCell)
  BY <1>9 DEF Emptied, NoCell
<1>12. ASSUME NEW d \in 1..Len(stack)
       PROVE  /\ d \in DOMAIN stack /\ stack[d].obj \in Object
              /\ Saved(stack[d]) => stack[d].next \in Name
  <2>1. stack[d] \in Frame
    BY <1>2
  <2>2. QED
    BY <1>2, <2>1 DEF Frame, Saved
<1>13. ASSUME NEW d \in 1..Len(stack), Saved(stack[d]) PROVE stack[d].obj # o
  <2>1. SUFFICES ASSUME stack[d].obj = o PROVE FALSE
    OBVIOUS
  <2>2. stack[d].next \in Name /\ Pending(o, stack[d].next)
    BY <1>12, <1>13, <2>1 DEF Pending, Saved
  <2>3. QED
    BY <2>2 DEF FinalizeObject, MayRemove
<1>14. \A d \in 1..k :
           (/\ Saved(stack[d]) => Full(stack[d].obj, stack[d].next, NoCell)
            /\ stack[d].pc # "enter" => ~dtor[stack[d].obj]
            /\ (stack[d].op = "destroy" /\ stack[d].pc = "loop" /\ stack[d].next = Null)
                   => Emptied(stack[d].obj, NoCell))'
  BY <1>1, <1>4, <1>6, <1>10, <1>11, <1>12 DEF Saved, RemovalInv, FramesInv
<1>15. ASSUME NEW d \in 1..k, NEW e \in 1..k, d < e, stack'[d].obj = stack'[e].obj
       PROVE  ~Saved(stack'[d])
  <2>1. d \in 1..Len(stack) /\ (e = k \/ e \in 1..Len(stack))
    BY <1>2, <1>15
  <2>2. QED
    BY <1>1, <1>4, <1>13, <1>15, <2>1 DEF RemovalInv, FramesInv
<1>16. FramesInv(stack, NoCell)'
  BY <1>4, <1>14, <1>15 DEF FramesInv, Saved
<1>17. ASSUME NEW p \in Object, destroyed[p],
              \A d \in 1..k : ~(stack'[d].op = "destroy" /\ stack'[d].obj = p)
       PROVE  ~dtor[p] /\ Emptied(p, NoCell)'
  BY <1>4, <1>11, <1>17 DEF RemovalInv, DeadInv
<1>18. DeadInv(stack, NoCell)'
  BY <1>4, <1>6, <1>17 DEF DeadInv
<1>19. QED
  BY <1>8, <1>16, <1>18 DEF RemovalInv

\* Initially there are no frames, no references and no destroyed objects.
LEMMA InitRemoval == Init => RemovalInv
<1> SUFFICES ASSUME Init PROVE RemovalInv
  OBVIOUS
<1>1. Len(stack) = 0 /\ \A o \in Object : ~destroyed[o]
  BY DEF Init
<1>2. OneKind
  BY DEF Init, OneKind
<1>3. QED
  BY <1>1, <1>2 DEF RemovalInv, FramesInv, DeadInv

\* Every step keeps the invariant, if destructors take no liberties.
LEMMA NextRemoval ==
    ASSUME IInv, FreshUnmarked, RemovalInv, liberties = {}, [Next]_vars
    PROVE  RemovalInv'
<1>1. CASE UNCHANGED vars
  BY <1>1, RemovalKept DEF vars, Vacant, RemovalInv, OneKind
<1>2. ASSUME NEW o \in Object, NEW s \in Slot, NEW h \in BOOLEAN, NewObject(o, s, h)
      PROVE  RemovalInv'
  BY <1>2, NewObjectRemoval
<1>4. ASSUME NEW s \in Slot
      PROVE  Var(s) \in Cell /\ Var(s) \in VarCell /\ \A o, n : Mem(o, n) # Var(s)
  BY Cells DEF VarCell, Var, Mem
<1>5. ASSUME NEW o \in Object, NEW n \in Name
      PROVE  Mem(o, n) \in Cell /\ Mem(o, n) \in MemCell
             /\ \A p, m : Mem(p, m) = Mem(o, n) => p = o /\ m = n
  BY Cells DEF MemCell, Mem
<1>6. ASSUME NEW o \in Object, NEW s \in Slot, TakeRef(o, s) \/ TakeWeakRef(o, s)
      PROVE  RemovalInv'
  BY <1>4, <1>6, CopyRemoval DEF TakeRef, TakeWeakRef
<1>7. ASSUME NEW s \in Slot, NEW t \in Slot, UpgradeWeakRef(s, t) PROVE RemovalInv'
  BY <1>4, <1>7, CopyRemoval DEF UpgradeWeakRef
<1>8. ASSUME NEW s \in Slot, DropVariable(s) PROVE RemovalInv'
  BY <1>4, <1>8, ReleaseSame DEF DropVariable
<1>9. ASSUME NEW o \in Object, NEW n \in Name, NEW s \in Slot, AddMemberClone(o, n, s)
      PROVE  RemovalInv'
  <2>1. \A p \in Object, m \in Name : Mem(p, m) = Mem(o, n) => ~destroyed[p]
    BY <1>5, <1>9 DEF AddMemberClone, MayAdd
  <2>2. QED
    BY <1>5, <1>9, <2>1, CopyRemoval DEF AddMemberClone, CopyValue
<1>10. ASSUME NEW o \in Object, NEW n \in Name, NEW s \in Slot, AddMemberMove(o, n, s)
       PROVE  RemovalInv'
  <2>1. CASE ~Vacant(Mem(o, n)) /\ FreeValue(Var(s), stack)
    BY <1>4, <1>10, <2>1, ReleaseSame DEF AddMemberMove
  <2>2. CASE /\ Vacant(Mem(o, n)) /\ UNCHANGED <<counts, stack>>
             /\ own' = [own EXCEPT ![Mem(o, n)] = own[Var(s)], ![Var(s)] = Null]
             /\ weak' = [weak EXCEPT ![Mem(o, n)] = weak[Var(s)], ![Var(s)] = Null]
    <3>1. own \in RefMap /\ weak \in RefMap
      BY DEF IInv, HeapInv, HeapType
    <3>2. \A m \in Cell :
              /\ own'[m] = (IF m = Var(s) THEN Null ELSE IF m = Mem(o, n) THEN own[Var(s)] ELSE own[m])
              /\ weak'[m] = (IF m = Var(s) THEN Null ELSE IF m = Mem(o, n) THEN weak[Var(s)] ELSE weak[m])
      BY <1>4, <1>5, <2>2, <3>1 DEF RefMap
    <3>3. OneKind'
      BY <1>4, <3>2 DEF RemovalInv, OneKind
    <3>4. ~destroyed[o] /\ destroyed' = destroyed /\ stack' = stack /\ dtor' = dtor
      BY <1>10, <2>2 DEF AddMemberMove, MayAdd, counts
    <3>5. ASSUME NEW p \in Object, NEW m \in Name, p # o \/ m # n
          PROVE  Vacant(Mem(p, m))' <=> Vacant(Mem(p, m))
      BY <1>4, <1>5, <3>2, <3>5 DEF Vacant
    <3>6. QED
      BY <2>2, <3>3, <3>4, <3>5, RemovalKept
  <2>3. QED
    BY <1>10, <2>1, <2>2 DEF AddMemberMove
<1>11. ASSUME NEW o \in Object, NEW n \in Name, NEW s \in Slot, GetMember(o, n, s)
       PROVE  RemovalInv'
  BY <1>4, <1>11, CopyRemoval DEF GetMember, CopyValue
<1>12. ASSUME NEW o \in Object, NEW n \in Name, RemoveMemberRaw(o, n)
       PROVE  RemovalInv'
  <2>1. ~Pending(o, n)
    BY <1>12 DEF RemoveMemberRaw, MayRemove
  <2>2. \A p \in Object, m \in Name : Mem(p, m) = Mem(o, n) => ~Pending(p, m)
    BY <1>5, <2>1
  <2>3. QED
    BY <1>5, <1>12, <2>2, ReleaseSame DEF RemoveMemberRaw
<1>13. ASSUME NEW o \in Object, FinalizeObject(o) PROVE RemovalInv'
  BY <1>13, FinalizeRemoval
<1>14. ASSUME stack # <<>>
       PROVE  /\ Top \in Frame /\ Top.obj \in Object /\ Top = stack[Len(stack)]
              /\ Len(stack) \in 1..Len(stack)
  <2>1. stack \in Seq(Frame) /\ Len(stack) \in 1..Len(stack)
    BY <1>14 DEF IInv, StackInv
  <2>2. QED
    BY <2>1, FrameObject DEF Top
<1>15. CASE CallDtor
  <2>1. dtor \in [Object -> BOOLEAN] /\ stack # <<>>
    BY <1>15 DEF IInv, StackInv, CallDtor
  <2>2. ~dtor'[Top.obj] /\ \A o \in Object : dtor'[o] => dtor[o]
    BY <1>14, <1>15, <2>1 DEF CallDtor
  <2>3. QED
    BY <1>15, <2>1, <2>2, AdvanceRemoval DEF CallDtor, counts
<1>16. CASE StartRemoval
  <2>1. ~dtor[Top.obj]
    BY <1>14, <1>16 DEF StartRemoval, RemovalInv, FramesInv
  <2>2. PICK n \in FirstOf(Present(Top.obj)) : stack' = SetTop("loop", n)
    BY <1>16 DEF StartRemoval
  <2>3. n \in Name \cup {Null}
    BY <2>2 DEF FirstOf, Present
  <2>4. QED
    BY <1>16, <2>1, <2>2, <2>3, AdvanceRemoval DEF StartRemoval, counts
<1>17. CASE RemoveNext
  BY <1>17, RemoveNextRemoval
<1>18. CASE Finish
  BY <1>18, FinishRemoval
<1>19. QED
  BY <1>1, <1>2, <1>6, <1>7, <1>8, <1>9, <1>10, <1>11, <1>12, <1>13, <1>15, <1>16, <1>17, <1>18
     DEF Next, FrameStep

\* If destructors leave the members under iteration alone, the member pointer
\* that _di_finalize_object has saved is valid whatever the nested destructions
\* do, and di_destroy_object leaves neither members nor a destructor behind.
THEOREM RemovalIsSafe == Spec => []RemovalSafe
<1> DEFINE Tame == liberties = {} => RemovalInv
<1>1. Init => Tame
  BY InitRemoval
<1>2. IInv /\ FreshUnmarked /\ Tame /\ [Step]_<<vars, liberties>> => Tame'
  <2> SUFFICES ASSUME IInv, FreshUnmarked, Tame, [Step]_<<vars, liberties>>, liberties' = {}
               PROVE  RemovalInv'
    OBVIOUS
  <2>1. liberties = {} /\ [Next]_vars
    BY DEF Step
  <2>2. QED
    BY <2>1, NextRemoval
<1>3. IInv /\ Tame => RemovalSafe
  BY RemovalInvSafe DEF RemovalSafe
<1>4. QED
  BY <1>1, <1>2, <1>3, Invariance, FreshInvariance, PTL DEF Spec
=============================================================================
