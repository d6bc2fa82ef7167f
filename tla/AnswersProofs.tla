---------------------------- MODULE AnswersProofs ----------------------------
(***************************************************************************)
(* Proofs about the parts that hand something over and get an answer: a     *)
(* child process (Spawn), a call over D-Bus (DBusCalls), the X server that  *)
(* is asked for another configuration (Randr), and a call of a closure,     *)
(* whose arguments and result are converted (Callable, Convert). They are   *)
(* for any number of characters, chunks, calls, signals, outputs, changes   *)
(* and arguments, and for any widths of the integers.                       *)
(***************************************************************************)
EXTENDS Spawn, DBusCalls, Randr, Callable, FiniteSetTheorems, SequenceTheorems, TLAPS

-----------------------------------------------------------------------------
(* Spawn *)

\* The running callback; what it has read does not matter here.
CallbackOK(c) ==
    /\ c = [who |-> c.who, str |-> c.str, data |-> c.data, pc |-> c.pc]
    /\ c.who \in {"none", "output", "sigchld"} /\ c.str \in Stream
    /\ c.who = "none" => c.pc = "idle"
    /\ c.who = "output" => c.pc \in {"read", "scan", "emit"}
    /\ c.who = "sigchld" => c.pc \in {"read", "scan", "emit", "flushed", "last", "exit"}

\* User code keeps an object that can still fire, or else its SIGCHLD handler runs;
\* callbacks run only for such an object, and its exit is announced by the last of them.
ChildInv ==
    /\ obj \in {"none", "alive", "cleaned", "freed"}
    /\ held \in BOOLEAN /\ exited \in BOOLEAN
    /\ CallbackOK(cb)
    /\ cb.who # "none" => obj = "alive"
    /\ obj = "alive" /\ cb.who # "sigchld" => held
    /\ held => obj \in {"alive", "cleaned"}
    /\ exited => obj \in {"cleaned", "freed"} \/ (cb.who = "sigchld" /\ cb.pc = "exit")
    /\ DeaiReleased

\* The object, its exit and its callback, of which a step changes the callback only, and
\* goes on with the same one.
LEMMA CallbackGoesOn ==
    ASSUME ChildInv, CallbackOK(cb'), cb'.who = cb.who, cb.pc \notin {"exit"},
           UNCHANGED <<obj, held, exited, deaiRefs>>
    PROVE  ChildInv'
BY DEF ChildInv, DeaiReleased

\* The step of a callback that changes where it is and what it has read.
LEMMA GoesTo ==
    ASSUME CallbackOK(cb), NEW d, NEW p, NEW s \in Stream,
           cb' = [who |-> cb.who, str |-> s, data |-> d, pc |-> p],
           cb.who = "output" => p \in {"read", "scan", "emit"},
           cb.who = "sigchld" => p \in {"read", "scan", "emit", "flushed", "last", "exit"},
           cb.who # "none"
    PROVE  CallbackOK(cb') /\ cb'.who = cb.who
BY DEF CallbackOK

\* The steps of output_handler and of sigchld_handler but for the last ones.
LEMMA CallbackInv ==
    ASSUME ChildInv,
           \/ Read \/ ScanRest \/ EmitReturns \/ SigchldFlush \/ SigchldNext
           \/ \E e \in 1..Len(cb.data) : ScanLine(e)
    PROVE  ChildInv'
<1>1. CallbackOK(cb)
  BY DEF ChildInv
<1>2. cb.who # "none" /\ cb.pc # "exit" /\ UNCHANGED <<obj, held, exited, deaiRefs>>
  BY <1>1 DEF CallbackOK, Read, ScanLine, ScanRest, EmitReturns, SigchldFlush, SigchldNext, Drained
<1>3. \E d, p, s : /\ cb' = [who |-> cb.who, str |-> s, data |-> d, pc |-> p] /\ s \in Stream
                   /\ cb.who = "output" => p \in {"read", "scan", "emit"}
                   /\ cb.who = "sigchld" => p \in {"read", "scan", "emit", "flushed", "last", "exit"}
  <2>0. cb = [who |-> cb.who, str |-> cb.str, data |-> cb.data, pc |-> cb.pc] /\ cb.str \in Stream
    BY <1>1 DEF CallbackOK
  <2>1. CASE Read
    <3> DEFINE n == IF Len(pipe[cb.str]) < BufSize THEN Len(pipe[cb.str]) ELSE BufSize
               d == SubSeq(pipe[cb.str], 1, n)
    <3>1. cb' = [cb EXCEPT !.data = d, !.pc = "scan"]
      BY <2>1 DEF Read
    <3> HIDE DEF d
    <3>2. cb' = [who |-> cb.who, str |-> cb.str, data |-> d, pc |-> "scan"]
      BY ONLY <2>0, <3>1
    <3> QED BY <2>0, <3>2
  <2>2. CASE \E e \in 1..Len(cb.data) : ScanLine(e)
    <3>0. PICK e \in 1..Len(cb.data) : ScanLine(e)
      BY <2>2
    <3> DEFINE d == SubSeq(cb.data, e + 1, Len(cb.data))
    <3>1. cb' = [cb EXCEPT !.data = d, !.pc = "emit"]
      BY <3>0 DEF ScanLine
    <3> HIDE DEF d
    <3>2. cb' = [who |-> cb.who, str |-> cb.str, data |-> d, pc |-> "emit"]
      BY ONLY <2>0, <3>1
    <3> QED BY <2>0, <3>2
  <2>3. CASE ScanRest
    <3> DEFINE d == <<>>
    <3>1. cb' = [cb EXCEPT !.data = d, !.pc = "read"]
      BY <2>3 DEF ScanRest
    <3> HIDE DEF d
    <3>2. cb' = [who |-> cb.who, str |-> cb.str, data |-> d, pc |-> "read"]
      BY ONLY <2>0, <3>1
    <3> QED BY <2>0, <3>2
  <2>4. CASE EmitReturns
    <3>1. cb' = [cb EXCEPT !.pc = "scan"]
      BY <2>4 DEF EmitReturns
    <3>2. cb' = [who |-> cb.who, str |-> cb.str, data |-> cb.data, pc |-> "scan"]
      BY ONLY <2>0, <3>1
    <3> QED BY <2>0, <3>2
  <2>5. CASE SigchldFlush
    <3>1. cb' = [cb EXCEPT !.pc = "flushed"] /\ cb.who = "sigchld"
      BY <2>5 DEF SigchldFlush, Drained
    <3>2. cb' = [who |-> cb.who, str |-> cb.str, data |-> cb.data, pc |-> "flushed"]
      BY ONLY <2>0, <3>1
    <3> QED BY <2>0, <3>1, <3>2
  <2>6. CASE SigchldNext
    <3>1. cb.who = "sigchld"
      BY <1>1, <2>6 DEF SigchldNext, Drained, CallbackOK
    <3>2. \/ cb' = [cb EXCEPT !.str = "stderr", !.pc = "read"]
          \/ cb' = [cb EXCEPT !.pc = "last"]
      BY <2>6 DEF SigchldNext, SigchldNextStream
    <3>3. \/ cb' = [who |-> cb.who, str |-> "stderr", data |-> cb.data, pc |-> "read"]
          \/ cb' = [who |-> cb.who, str |-> cb.str, data |-> cb.data, pc |-> "last"]
      BY ONLY <2>0, <3>2
    <3>4. "stderr" \in Stream
      BY DEF Stream
    <3> QED BY <2>0, <3>1, <3>3, <3>4
  <2> QED BY <2>1, <2>2, <2>3, <2>4, <2>5, <2>6
<1>4. CallbackOK(cb') /\ cb'.who = cb.who
  BY <1>1, <1>2, <1>3, GoesTo
<1> QED BY <1>2, <1>4, CallbackGoesOn

\* The exit is announced, and callbacks end.
LEMMA EndsInv ==
    ASSUME ChildInv, OutputEnds \/ SigchldEmitExit \/ SigchldEnds
    PROVE  ChildInv'
<1>1. CallbackOK(cb) /\ DeaiReleased
  BY DEF ChildInv
<1>2. CallbackOK(NoCb) /\ NoCb.who = "none"
  BY DEF CallbackOK, NoCb, Stream
<1>3. CASE OutputEnds
  BY <1>2, <1>3 DEF OutputEnds, ChildInv, DeaiReleased, CallbackOK
<1>4. CASE SigchldEmitExit
  <2>0. cb = [who |-> cb.who, str |-> cb.str, data |-> cb.data, pc |-> cb.pc] /\ cb.str \in Stream
        /\ cb.who = "sigchld"
    BY <1>1, <1>4 DEF CallbackOK, SigchldEmitExit
  <2>1. cb' = [cb EXCEPT !.pc = "exit"]
    BY <1>4 DEF SigchldEmitExit
  <2>2. cb' = [who |-> cb.who, str |-> cb.str, data |-> cb.data, pc |-> "exit"]
    BY ONLY <2>0, <2>1
  <2>3. CallbackOK(cb') /\ cb'.who = "sigchld" /\ cb'.pc = "exit"
    BY ONLY <2>0, <2>2 DEF CallbackOK
  <2> QED BY <1>4, <2>0, <2>3 DEF SigchldEmitExit, ChildInv, DeaiReleased
<1>5. CASE SigchldEnds
  BY <1>1, <1>2, <1>5 DEF SigchldEnds, ChildInv, DeaiReleased, CallbackOK
<1> QED BY <1>3, <1>4, <1>5

\* Every step of the child, of its callbacks and of user code keeps the invariant.
LEMMA ChildNextInv == ASSUME Liberties = {}, ChildInv, [Next]_vars PROVE ChildInv'
<1>1. CallbackOK(cb) /\ DeaiReleased
  BY DEF ChildInv
<1>2. ASSUME NEW ignore \in BOOLEAN, Run(ignore) PROVE ChildInv'
  BY <1>2 DEF Run, ChildInv, DeaiReleased
<1>3. CASE RunFails \/ Exit \/ UNCHANGED vars
  BY <1>3 DEF RunFails, Exit, vars, ChildInv, DeaiReleased
<1>4. ASSUME NEW s \in Stream, NEW c \in Char, Write(s, c) PROVE ChildInv'
  BY <1>4 DEF Write, ChildInv, DeaiReleased
<1>5. ASSUME NEW s \in Stream, StartOutput(s) PROVE ChildInv'
  <2>1. CallbackOK(cb') /\ cb'.who = "output" /\ cb.who = "none"
    BY <1>1, <1>5 DEF StartOutput, CallbackOK
  <2> QED BY <1>5, <2>1 DEF StartOutput, ChildInv, DeaiReleased
<1>6. CASE StartSigchld
  <2>1. CallbackOK(cb') /\ cb'.who = "sigchld" /\ cb.who = "none"
    BY <1>1, <1>6 DEF StartSigchld, CallbackOK, Stream
  <2> QED BY <1>6, <2>1 DEF StartSigchld, ChildInv, DeaiReleased
<1>7. CASE Callback
  BY <1>7, CallbackInv, EndsInv DEF Callback
<1>8. CASE Release
  <2>1. held /\ cb.who # "output" /\ cb' = cb /\ exited' = exited
    BY <1>8 DEF Release, MayRelease
  <2>2. ~held' /\ held' \in BOOLEAN
    BY <1>8 DEF Release
  <2>3. obj \in {"alive", "cleaned"} /\ exited \in BOOLEAN
        /\ (exited => obj = "cleaned" \/ (cb.who = "sigchld" /\ cb.pc = "exit"))
    BY <2>1 DEF ChildInv
  <2>4. CASE cb.who = "sigchld"
    <3>1. obj' = obj /\ deaiRefs' = deaiRefs
      BY <1>8, <2>4 DEF Release
    <3>2. obj = "alive"
      BY <2>4 DEF ChildInv
    <3> QED BY <1>1, <2>1, <2>2, <2>3, <2>4, <3>1, <3>2 DEF ChildInv, DeaiReleased
  <2>5. CASE cb.who # "sigchld"
    <3>1. obj' = "freed" /\ deaiRefs' = IF obj = "alive" THEN deaiRefs - 1 ELSE deaiRefs
      BY <1>8, <2>5 DEF Release, Destroy
    <3>2. cb.who = "none"
      BY <1>1, <2>1, <2>5 DEF CallbackOK
    <3>3. deaiRefs' = 0
      BY <1>1, <2>3, <3>1 DEF DeaiReleased
    <3> QED BY <1>1, <2>1, <2>2, <2>3, <3>1, <3>2, <3>3 DEF ChildInv, DeaiReleased
  <2> QED BY <2>4, <2>5
<1> QED BY <1>2, <1>3, <1>4, <1>5, <1>6, <1>7, <1>8 DEF Next


----------------------------------------------------------------------------
(* Where the output of a child is *)

\* What has been told of the text w of a stream, and what is on its way: in the
\* buffer (t), in the hands of the callback (d) and in the pipe (p).
Flow(w, p, t, d, ls) ==
    /\ FirstLines(ls, w, Len(ls))
    /\ PartOf(t, w, Told(ls))
    /\ PartOf(d, w, Told(ls) + Len(t))
    /\ PartOf(p, w, Told(ls) + Len(t) + Len(d))
    /\ Len(w) = Told(ls) + Len(t) + Len(d) + Len(p)

\* A line that was told.
Line == [at : Nat, text : Seq({"c"})]

\* The types of what is kept of a stream.
StreamTypes ==
    /\ process \in {"none", "running", "exited", "reaped"}
    /\ written \in [Stream -> Seq(Char)] /\ pipe \in [Stream -> Seq(Char)]
    /\ buf \in [Stream -> [nodes : Nat, text : Seq({"c"})]]
    /\ lines \in [Stream -> Seq(Line)]
    /\ final \in [Stream -> Nat] /\ \A s \in Stream : final[s] <= Len(written[s])
    /\ quiet \in BOOLEAN /\ leaked \in 0..MaxFailures /\ cb.data \in Seq(Char)

\* A callback is in the middle of a chunk of stream s.
Scanning(s) == cb.str = s /\ cb.pc \in {"scan", "emit"}

\* A stream that is open: the buffer has a node, perhaps an empty one, as soon as
\* something was read, but for a callback that has not come to its end.
OpenOK(s) ==
    /\ Flow(written[s], pipe[s], buf[s].text, Unread(s), lines[s])
    /\ buf[s].nodes = 0 => buf[s].text = <<>>
    /\ (buf[s].nodes = 0 /\ ~Scanning(s)) => Consumed(s) = 0
    /\ (buf[s].nodes > 0 \/ Scanning(s)) => Consumed(s) > 0

\* A stream that the SIGCHLD handler is done with.
ClosedOK(s) ==
    /\ Consumed(s) >= final[s]
    /\ AllPieces(lines[s], written[s], Consumed(s))

\* A stream of which there is nothing.
Fresh(s) == written[s] = <<>> /\ pipe[s] = <<>> /\ lines[s] = <<>> /\ buf[s].nodes = 0

\* Streams are open until the SIGCHLD handler is done with them; nothing was read
\* before the child ran or when its output is ignored, and the handler runs when
\* the child was reaped.
LinesInv ==
    /\ StreamTypes
    /\ cb.pc \notin {"scan", "emit"} => cb.data = <<>>
    /\ \A s \in Stream : (obj \in {"none", "alive"} /\ ~Closing(s)) => OpenOK(s)
    /\ \A s \in Stream : (Closing(s) \/ exited) => ClosedOK(s)
    /\ (obj = "none" \/ quiet) => \A s \in Stream : Fresh(s)
    /\ obj = "none" => process = "none"
    /\ quiet => cb.pc \in {"idle", "last", "exit"}
    /\ (cb.who = "sigchld" \/ exited) => process = "reaped"

\* Characters of an appended sequence.
LEMMA AppendChars ==
    ASSUME NEW S, NEW w \in Seq(S), NEW c \in S
    PROVE  /\ Append(w, c) \in Seq(S) /\ Len(Append(w, c)) = Len(w) + 1 /\ Len(w) \in Nat
           /\ \A i \in 1..Len(w) : Append(w, c)[i] = w[i]
           /\ Append(w, c)[Len(w) + 1] = c
OBVIOUS

\* Characters of two sequences put together.
LEMMA ConcatChars ==
    ASSUME NEW S, NEW t \in Seq(S), NEW d \in Seq(S)
    PROVE  /\ t \o d \in Seq(S) /\ Len(t \o d) = Len(t) + Len(d)
           /\ Len(t) \in Nat /\ Len(d) \in Nat
           /\ \A i \in 1..Len(t) : (t \o d)[i] = t[i]
           /\ \A i \in 1..Len(d) : (t \o d)[Len(t) + i] = d[i]
OBVIOUS

\* Characters at the beginning and of the rest of a sequence.
LEMMA CutChars ==
    ASSUME NEW S, NEW p \in Seq(S), NEW n \in 0..Len(p)
    PROVE  /\ SubSeq(p, 1, n) \in Seq(S) /\ Len(SubSeq(p, 1, n)) = n
           /\ \A i \in 1..n : SubSeq(p, 1, n)[i] = p[i]
           /\ SubSeq(p, n + 1, Len(p)) \in Seq(S) /\ Len(SubSeq(p, n + 1, Len(p))) = Len(p) - n
           /\ \A i \in 1..(Len(p) - n) : SubSeq(p, n + 1, Len(p))[i] = p[n + i]
<1>1. Len(p) \in Nat /\ n \in Nat /\ n <= Len(p) /\ p = [i \in 1..Len(p) |-> p[i]]
      /\ \A i \in 1..Len(p) : p[i] \in S
  OBVIOUS
<1>2. SubSeq(p, 1, n) = [i \in 1..n |-> p[i]]
  BY <1>1
<1>3. SubSeq(p, n + 1, Len(p)) = [i \in 1..(Len(p) - n) |-> p[n + i]]
  BY <1>1
<1>4. QED
  BY <1>1, <1>2, <1>3

\* The lines told end where they say.
LEMMA ToldType ==
    ASSUME NEW ls \in Seq(Line)
    PROVE  /\ Told(ls) \in Nat /\ (Told(ls) = 0 <=> ls = <<>>)
           /\ \A k \in 1..Len(ls) : /\ ls[k].at \in Nat /\ ls[k].text \in Seq({"c"})
                                    /\ Len(ls[k].text) \in Nat
<1>1. ASSUME NEW l \in Line PROVE l.at \in Nat /\ l.text \in Seq({"c"}) /\ Len(l.text) \in Nat
  BY <1>1 DEF Line
<1>2. Len(ls) \in Nat /\ \A k \in 1..Len(ls) : ls[k] \in Line
  OBVIOUS
<1>3. ls # <<>> => Len(ls) \in 1..Len(ls)
  BY <1>2
<1>4. QED
  BY <1>1, <1>2, <1>3 DEF Told

\* One more line.
LEMMA ToldAppend ==
    ASSUME NEW ls \in Seq(Line), NEW t \in Seq({"c"})
    PROVE  LET l == [at |-> Told(ls), text |-> t] IN
           /\ l \in Line /\ l.at = Told(ls) /\ l.text = t /\ Len(t) \in Nat
           /\ Append(ls, l) \in Seq(Line) /\ Append(ls, l) # <<>>
           /\ Len(Append(ls, l)) = Len(ls) + 1 /\ Len(ls) \in Nat
           /\ Append(ls, l)[Len(ls) + 1] = l
           /\ \A k \in 1..Len(ls) : Append(ls, l)[k] = ls[k]
           /\ Told(Append(ls, l)) = Told(ls) + Len(t) + 1
<1> DEFINE l == [at |-> Told(ls), text |-> t]
           m == Append(ls, l)
<1>1. l \in Line /\ l.at = Told(ls) /\ l.text = t /\ Len(t) \in Nat
  BY ToldType DEF Line
<1> HIDE DEF l
<1>2. m \in Seq(Line) /\ Len(m) = Len(ls) + 1 /\ Len(ls) \in Nat /\ m[Len(ls) + 1] = l
      /\ \A k \in 1..Len(ls) : m[k] = ls[k]
  BY <1>1
<1>3. m # <<>>
  BY <1>2
<1> HIDE DEF m
<1>4. Told(m) = Told(ls) + Len(t) + 1
  BY <1>1, <1>2, <1>3 DEF Told
<1>5. QED
  BY <1>1, <1>2, <1>3, <1>4 DEF l, m

\* What is written later changes nothing of what was.
LEMMA PartOfMore ==
    ASSUME NEW w \in Seq(Char), NEW c \in Char, NEW S, NEW t \in Seq(S), NEW at \in Nat,
           PartOf(t, w, at)
    PROVE  PartOf(t, Append(w, c), at)
<1> DEFINE v == Append(w, c)
<1>1. Len(v) = Len(w) + 1 /\ Len(w) \in Nat /\ \A i \in 1..Len(w) : v[i] = w[i]
  BY AppendChars
<1> HIDE DEF v
<1>2. Len(t) \in Nat
  OBVIOUS
<1>3. \A i \in 1..Len(t) : at + i \in 1..Len(w)
  BY <1>1, <1>2 DEF PartOf
<1>4. QED
  BY <1>1, <1>2, <1>3 DEF PartOf, v

\* Nor does it change the lines that were told.
LEMMA FirstLinesMore ==
    ASSUME NEW w \in Seq(Char), NEW c \in Char, NEW ls \in Seq(Line), NEW n,
           FirstLines(ls, w, n)
    PROVE  FirstLines(ls, Append(w, c), n)
<1> DEFINE v == Append(w, c)
<1>1. Len(v) = Len(w) + 1 /\ Len(w) \in Nat /\ \A i \in 1..Len(w) : v[i] = w[i]
  BY AppendChars
<1>2. \A k \in 1..Len(ls) : ls[k].at \in Nat /\ ls[k].text \in Seq({"c"}) /\ Len(ls[k].text) \in Nat
  BY ToldType
<1>3. ASSUME NEW k \in 1..Len(ls) PROVE PartOf(ls[k].text, v, ls[k].at)
  BY <1>2, PartOfMore DEF FirstLines
<1> HIDE DEF v
<1>4. ASSUME NEW k \in 1..Len(ls)
      PROVE  LET next == ls[k].at + Len(ls[k].text) + 1 IN
             k <= n => next <= Len(v) /\ v[next] = "nl"
  BY <1>1, <1>2 DEF FirstLines
<1>5. QED
  BY <1>3, <1>4 DEF FirstLines, v

\* A character is written to the pipe.
LEMMA FlowWrite ==
    ASSUME NEW w \in Seq(Char), NEW p \in Seq(Char), NEW t \in Seq({"c"}), NEW d \in Seq(Char),
           NEW ls \in Seq(Line), NEW c \in Char, Flow(w, p, t, d, ls)
    PROVE  Flow(Append(w, c), Append(p, c), t, d, ls)
<1> DEFINE v == Append(w, c)
           q == Append(p, c)
           a == Told(ls) + Len(t) + Len(d)
<1>1. /\ Len(v) = Len(w) + 1 /\ Len(w) \in Nat /\ v[Len(w) + 1] = c
      /\ Len(q) = Len(p) + 1 /\ Len(p) \in Nat /\ q[Len(p) + 1] = c
      /\ \A i \in 1..Len(p) : q[i] = p[i]
  BY AppendChars
<1>2. Told(ls) \in Nat /\ Len(t) \in Nat /\ Len(d) \in Nat /\ Told(ls) + Len(t) \in Nat /\ a \in Nat
  BY ToldType
<1>3. FirstLines(ls, v, Len(ls)) /\ PartOf(t, v, Told(ls)) /\ PartOf(d, v, Told(ls) + Len(t))
      /\ PartOf(p, v, a)
  BY <1>2, FirstLinesMore, PartOfMore DEF Flow
<1>4. Len(w) = a + Len(p)
  BY DEF Flow
<1> HIDE DEF v, q, a
<1>5. PartOf(q, v, a)
  <2>1. ASSUME NEW i \in 1..Len(q) PROVE q[i] = v[a + i]
    <3>1. CASE i \in 1..Len(p)
      BY <1>1, <1>3, <3>1 DEF PartOf
    <3>2. CASE i = Len(p) + 1
      BY <1>1, <1>2, <1>4, <3>2
    <3>3. QED
      BY <1>1, <3>1, <3>2
  <2>2. QED
    BY <1>1, <1>2, <1>4, <2>1 DEF PartOf
<1>6. Len(v) = a + Len(q)
  BY <1>1, <1>2, <1>4
<1>7. QED
  BY <1>3, <1>5, <1>6 DEF Flow, v, q, a

\* A chunk of n characters is read.
LEMMA FlowRead ==
    ASSUME NEW w \in Seq(Char), NEW p \in Seq(Char), NEW t \in Seq({"c"}),
           NEW ls \in Seq(Line), NEW n \in 0..Len(p), Flow(w, p, t, <<>>, ls)
    PROVE  Flow(w, SubSeq(p, n + 1, Len(p)), t, SubSeq(p, 1, n), ls)
<1> DEFINE q == SubSeq(p, n + 1, Len(p))
           d == SubSeq(p, 1, n)
           a == Told(ls) + Len(t)
<1>1. /\ Len(d) = n /\ \A i \in 1..n : d[i] = p[i]
      /\ Len(q) = Len(p) - n /\ \A i \in 1..Len(q) : q[i] = p[n + i]
  BY CutChars
<1>2. Told(ls) \in Nat /\ Len(t) \in Nat /\ a \in Nat /\ Len(p) \in Nat /\ n \in Nat /\ n <= Len(p)
      /\ Len(w) \in Nat
  BY ToldType
<1>3. FirstLines(ls, w, Len(ls)) /\ PartOf(t, w, Told(ls))
  BY DEF Flow
<1>4. Len(<<>>) = 0
  OBVIOUS
<1>5. PartOf(p, w, a) /\ Len(w) = a + Len(p)
  BY <1>2, <1>4 DEF Flow
<1> HIDE DEF q, d, a
<1>6. PartOf(d, w, a)
  <2>1. ASSUME NEW i \in 1..Len(d) PROVE d[i] = w[a + i]
    BY <1>1, <1>2, <1>5 DEF PartOf
  <2>2. a + Len(d) <= Len(w)
    BY <1>1, <1>2, <1>5
  <2>3. QED
    BY <2>1, <2>2 DEF PartOf
<1>7. PartOf(q, w, a + Len(d))
  <2>1. ASSUME NEW i \in 1..Len(q) PROVE q[i] = w[a + Len(d) + i]
    <3>1. n + i \in 1..Len(p) /\ a + (n + i) = a + Len(d) + i
      BY <1>1, <1>2
    <3>2. q[i] = p[n + i]
      BY <1>1
    <3>3. p[n + i] = w[a + (n + i)]
      BY <1>5, <3>1 DEF PartOf
    <3>4. QED
      BY <3>1, <3>2, <3>3
  <2>2. a + Len(d) + Len(q) <= Len(w)
    BY <1>1, <1>2, <1>5
  <2>3. QED
    BY <2>1, <2>2 DEF PartOf
<1>8. Len(w) = a + Len(d) + Len(q)
  BY <1>1, <1>2, <1>5
<1>9. QED
  BY <1>3, <1>6, <1>7, <1>8 DEF Flow, q, d, a

\* Two parts that follow one another are one part.
LEMMA PartOfConcat ==
    ASSUME NEW w \in Seq(Char), NEW S, NEW t \in Seq(S), NEW d \in Seq(S), NEW at \in Nat,
           PartOf(t, w, at), PartOf(d, w, at + Len(t))
    PROVE  PartOf(t \o d, w, at)
<1> DEFINE u == t \o d
<1>1. /\ Len(u) = Len(t) + Len(d) /\ Len(t) \in Nat /\ Len(d) \in Nat
      /\ \A i \in 1..Len(t) : u[i] = t[i]
      /\ \A i \in 1..Len(d) : u[Len(t) + i] = d[i]
  BY ConcatChars
<1>2. Len(w) \in Nat
  OBVIOUS
<1> HIDE DEF u
<1>3. ASSUME NEW i \in 1..Len(u) PROVE u[i] = w[at + i]
  <2>1. CASE i \in 1..Len(t)
    BY <1>1, <2>1 DEF PartOf
  <2>2. CASE i \notin 1..Len(t)
    <3> DEFINE j == i - Len(t)
    <3>1. j \in 1..Len(d) /\ i = Len(t) + j /\ at + Len(t) + j = at + i
      BY <1>1, <2>2
    <3> HIDE DEF j
    <3>2. u[i] = d[j] /\ d[j] = w[at + Len(t) + j]
      BY <1>1, <3>1 DEF PartOf
    <3>3. QED
      BY <3>1, <3>2
  <2>3. QED
    BY <2>1, <2>2
<1>4. at + Len(u) <= Len(w)
  BY <1>1, <1>2 DEF PartOf
<1>5. QED
  BY <1>3, <1>4 DEF PartOf, u

\* The rest of a chunk goes to the buffer.
LEMMA FlowRest ==
    ASSUME NEW w \in Seq(Char), NEW p \in Seq(Char), NEW t \in Seq({"c"}), NEW d \in Seq({"c"}),
           NEW ls \in Seq(Line), Flow(w, p, t, d, ls)
    PROVE  Flow(w, p, t \o d, <<>>, ls)
<1> DEFINE u == t \o d
           E == <<>>
<1>1. Len(u) = Len(t) + Len(d) /\ Len(t) \in Nat /\ Len(d) \in Nat /\ Told(ls) \in Nat
  BY ConcatChars, ToldType
<1>2. PartOf(u, w, Told(ls))
  BY <1>1, PartOfConcat DEF Flow
<1>3. Len(E) = 0 /\ Len(p) \in Nat /\ Len(w) \in Nat
  OBVIOUS
<1> HIDE DEF u, E
<1>4. PartOf(E, w, Told(ls) + Len(u))
  BY <1>1, <1>2, <1>3 DEF PartOf
<1>5. PartOf(p, w, Told(ls) + Len(u) + Len(E)) /\ Len(w) = Told(ls) + Len(u) + Len(E) + Len(p)
  BY <1>1, <1>3 DEF Flow
<1>6. FirstLines(ls, w, Len(ls))
  BY DEF Flow
<1>7. QED
  BY <1>2, <1>4, <1>5, <1>6 DEF Flow, u, E

\* The lines with one more.
LEMMA FirstLinesAppend ==
    ASSUME NEW w \in Seq(Char), NEW ls \in Seq(Line), NEW t \in Seq({"c"}),
           FirstLines(ls, w, Len(ls)), PartOf(t, w, Told(ls)), NEW n \in Nat,
           n > Len(ls) => /\ Told(ls) + Len(t) + 1 <= Len(w)
                          /\ w[Told(ls) + Len(t) + 1] = "nl"
    PROVE  FirstLines(Append(ls, [at |-> Told(ls), text |-> t]), w, n)
<1> DEFINE l == [at |-> Told(ls), text |-> t]
           m == Append(ls, l)
           End(k) == m[k].at + Len(m[k].text) + 1
<1>1. /\ l.at = Told(ls) /\ l.text = t /\ Len(m) = Len(ls) + 1 /\ Len(ls) \in Nat
      /\ m[Len(ls) + 1] = l /\ \A k \in 1..Len(ls) : m[k] = ls[k]
  BY ToldAppend
<1> HIDE DEF l, m
<1>2. ASSUME NEW k \in 1..Len(m)
      PROVE  /\ PartOf(m[k].text, w, m[k].at)
             /\ k = 1 => m[k].at = 0
             /\ k < Len(m) => m[k + 1].at = End(k)
             /\ k <= n => End(k) <= Len(w) /\ w[End(k)] = "nl"
  <2>1. CASE k \in 1..Len(ls)
    <3>1. m[k] = ls[k]
      BY <1>1, <2>1
    <3>2. /\ PartOf(ls[k].text, w, ls[k].at) /\ (k = 1 => ls[k].at = 0)
          /\ (k < Len(ls) => ls[k + 1].at = ls[k].at + Len(ls[k].text) + 1)
          /\ ls[k].at + Len(ls[k].text) + 1 <= Len(w) /\ w[ls[k].at + Len(ls[k].text) + 1] = "nl"
      BY <1>1, <2>1 DEF FirstLines
    <3>3. k < Len(ls) => m[k + 1] = ls[k + 1]
      BY <1>1, <2>1
    <3>4. k = Len(ls) => m[k + 1] = l /\ Told(ls) = ls[k].at + Len(ls[k].text) + 1
      <4>1. ASSUME k = Len(ls) PROVE ls # <<>>
        BY <2>1, <4>1
      <4>2. QED
        BY <1>1, <4>1 DEF Told
    <3>5. k < Len(m) => m[k + 1].at = End(k)
      BY <1>1, <2>1, <3>1, <3>2, <3>3, <3>4
    <3>6. QED
      BY <3>1, <3>2, <3>5
  <2>2. CASE k = Len(ls) + 1
    <3>1. m[k] = l /\ ~(k < Len(m))
      BY <1>1, <2>2
    <3>2. k = 1 => Told(ls) = 0
      BY <1>1, <2>2 DEF Told
    <3>3. QED
      BY <1>1, <2>2, <3>1, <3>2
  <2>3. QED
    BY <1>1, <2>1, <2>2
<1> HIDE DEF End
<1>3. QED
  BY <1>2 DEF FirstLines, End, l, m

\* A line is told, up to the first newline of the chunk at e.
LEMMA FlowLine ==
    ASSUME NEW w \in Seq(Char), NEW p \in Seq(Char), NEW t \in Seq({"c"}), NEW d \in Seq(Char),
           NEW ls \in Seq(Line), Flow(w, p, t, d, ls), NEW e \in 1..Len(d), d[e] = "nl",
           NEW x \in Seq({"c"}), x = SubSeq(d, 1, e - 1)
    PROVE  Flow(w, p, <<>>, SubSeq(d, e + 1, Len(d)),
                Append(ls, [at |-> Told(ls), text |-> t \o x]))
<1> DEFINE r == SubSeq(d, e + 1, Len(d))
           u == t \o x
           l == [at |-> Told(ls), text |-> u]
           m == Append(ls, l)
           E == <<>>
           a == Told(ls) + Len(t)
<1>1. Len(d) \in Nat /\ e \in Nat /\ e - 1 \in 0..Len(d) /\ e \in 0..Len(d) /\ e <= Len(d) /\ e >= 1
      /\ Len(w) \in Nat /\ Len(p) \in Nat
  OBVIOUS
<1>2. Len(x) = e - 1 /\ \A i \in 1..(e - 1) : x[i] = d[i]
  BY <1>1, CutChars
<1>3. Len(r) = Len(d) - e /\ \A i \in 1..(Len(d) - e) : r[i] = d[e + i]
  BY <1>1, CutChars
<1>4. Told(ls) \in Nat /\ Len(t) \in Nat /\ a \in Nat /\ u \in Seq({"c"}) /\ Len(u) = Len(t) + (e - 1)
  BY <1>2, ConcatChars, ToldType
<1>5. Told(m) = Told(ls) + Len(u) + 1 /\ Len(m) = Len(ls) + 1 /\ Len(ls) \in Nat
  BY <1>4, ToldAppend
<1>6. /\ FirstLines(ls, w, Len(ls)) /\ PartOf(t, w, Told(ls)) /\ PartOf(d, w, a)
      /\ PartOf(p, w, a + Len(d)) /\ Len(w) = a + Len(d) + Len(p)
  BY DEF Flow
<1>7. Len(E) = 0
  OBVIOUS
<1> HIDE DEF r, a, E
<1>8. PartOf(x, w, a)
  <2>1. ASSUME NEW i \in 1..Len(x) PROVE x[i] = w[a + i]
    BY <1>1, <1>2, <1>4, <1>6 DEF PartOf
  <2>2. a + Len(x) <= Len(w)
    BY <1>1, <1>2, <1>4, <1>6
  <2>3. QED
    BY <2>1, <2>2 DEF PartOf
<1>9. PartOf(u, w, Told(ls))
  BY <1>4, <1>6, <1>8, PartOfConcat DEF a
<1> HIDE DEF u
<1>10. Told(ls) + Len(u) + 1 = a + e
  BY <1>1, <1>4 DEF a
<1>11. Told(ls) + Len(u) + 1 <= Len(w) /\ w[Told(ls) + Len(u) + 1] = "nl"
  <2>1. a + e <= Len(w)
    BY <1>1, <1>4, <1>6
  <2>2. d[e] = w[a + e]
    BY <1>6 DEF PartOf
  <2>3. QED
    BY <1>10, <2>1, <2>2
<1>12. FirstLines(m, w, Len(m))
  <2> DEFINE n == Len(m)
  <2>1. n \in Nat
    BY <1>5
  <2> HIDE DEF n
  <2>2. FirstLines(m, w, n)
    BY ONLY w \in Seq(Char), ls \in Seq(Line), <1>4, <1>6, <1>9, <1>11, <2>1, FirstLinesAppend DEF m, l
  <2>3. QED
    BY <2>2 DEF n
<1> HIDE DEF m
<1>13. Told(m) = a + e
  BY <1>5, <1>10
<1>14. PartOf(E, w, Told(m))
  BY <1>7, <1>10, <1>11, <1>13, <1>1, <1>4 DEF PartOf
<1>15. PartOf(r, w, Told(m) + Len(E))
  <2>1. ASSUME NEW i \in 1..Len(r) PROVE r[i] = w[Told(m) + Len(E) + i]
    <3>1. e + i \in 1..Len(d) /\ a + (e + i) = Told(m) + Len(E) + i
      BY <1>1, <1>3, <1>4, <1>7, <1>13
    <3>2. r[i] = d[e + i]
      BY <1>3
    <3>3. d[e + i] = w[a + (e + i)]
      BY <1>6, <3>1 DEF PartOf
    <3>4. QED
      BY <3>1, <3>2, <3>3
  <2>2. Told(m) + Len(E) + Len(r) <= Len(w)
    BY <1>1, <1>3, <1>4, <1>6, <1>7, <1>13
  <2>3. QED
    BY <2>1, <2>2 DEF PartOf
<1>16. a + Len(d) = Told(m) + Len(E) + Len(r)
  BY <1>1, <1>3, <1>4, <1>7, <1>13
<1>17. PartOf(p, w, Told(m) + Len(E) + Len(r)) /\ Len(w) = Told(m) + Len(E) + Len(r) + Len(p)
  BY <1>6, <1>16
<1>18. QED
  BY <1>12, <1>14, <1>15, <1>17 DEF Flow, m, r, u, E

\* What is left in the buffer is the last line.
LEMMA FlowFlush ==
    ASSUME NEW w \in Seq(Char), NEW t \in Seq({"c"}), NEW ls \in Seq(Line),
           Flow(w, <<>>, t, <<>>, ls), Len(w) > 0
    PROVE  AllPieces(Append(ls, [at |-> Told(ls), text |-> t]), w, Len(w))
<1> DEFINE m == Append(ls, [at |-> Told(ls), text |-> t])
<1>1. Told(m) = Told(ls) + Len(t) + 1 /\ Len(m) = Len(ls) + 1 /\ Len(ls) \in Nat
  BY ToldAppend
<1>2. Len(<<>>) = 0 /\ Told(ls) \in Nat /\ Len(t) \in Nat /\ Len(w) \in Nat
  BY ToldType
<1>3. Len(w) = Told(ls) + Len(t) /\ FirstLines(ls, w, Len(ls)) /\ PartOf(t, w, Told(ls))
  BY <1>2 DEF Flow
<1>4. FirstLines(m, w, Len(ls))
  BY <1>1, <1>3, FirstLinesAppend
<1> HIDE DEF m
<1>5. Len(m) - 1 = Len(ls)
  BY <1>1
<1>6. QED
  BY <1>1, <1>2, <1>3, <1>4, <1>5 DEF AllPieces, m

\* Without output there are no lines.
LEMMA FlowNothing ==
    ASSUME NEW w \in Seq(Char), NEW ls \in Seq(Line), NEW t \in Seq({"c"}), NEW d \in Seq(Char),
           NEW p \in Seq(Char), Flow(w, p, t, d, ls), Len(w) - Len(p) = 0
    PROVE  AllPieces(ls, w, 0)
<1>1. Told(ls) \in Nat /\ Len(t) \in Nat /\ Len(w) \in Nat /\ Len(d) \in Nat /\ Len(p) \in Nat
  BY ToldType
<1>2. Len(w) = Told(ls) + Len(t) + Len(d) + Len(p) /\ Len(w) - Len(p) = 0
  BY DEF Flow
<1>3. Told(ls) = 0
  BY ONLY <1>1, <1>2
<1>4. QED
  BY <1>3, ToldType DEF AllPieces

\* What is written after the end is not among the pieces.
LEMMA PiecesMore ==
    ASSUME NEW w \in Seq(Char), NEW c \in Char, NEW ls \in Seq(Line), NEW n \in Nat,
           AllPieces(ls, w, n)
    PROVE  AllPieces(ls, Append(w, c), n)
BY FirstLinesMore DEF AllPieces

----------------------------------------------------------------------------
(* Steps and streams *)

\* What the invariants say of the running callback.
LEMMA CallbackParts ==
    ASSUME ChildInv, LinesInv
    PROVE  /\ CallbackOK(cb) /\ cb.str \in Stream /\ StreamTypes
           /\ cb = [who |-> cb.who, str |-> cb.str, data |-> cb.data, pc |-> cb.pc]
           /\ cb.pc \in {"read", "scan", "emit"} =>
                  /\ obj = "alive" /\ ~Closing(cb.str) /\ ~exited /\ ~quiet
                  /\ cb.who \in {"output", "sigchld"} /\ OpenOK(cb.str)
           /\ cb.pc \notin {"scan", "emit"} => cb.data = <<>>
<1>1. CallbackOK(cb) /\ StreamTypes
  BY DEF ChildInv, LinesInv
<1>2. cb.pc \in {"read", "scan", "emit"} =>
          obj = "alive" /\ ~Closing(cb.str) /\ ~exited /\ ~quiet /\ cb.who \in {"output", "sigchld"}
  BY DEF ChildInv, CallbackOK, Closing, LinesInv
<1>3. QED
  BY <1>1, <1>2 DEF CallbackOK, LinesInv

\* The parts of a stream have their types.
LEMMA PartTypes ==
    ASSUME StreamTypes, NEW s \in Stream
    PROVE  /\ written[s] \in Seq(Char) /\ pipe[s] \in Seq(Char) /\ lines[s] \in Seq(Line)
           /\ buf[s] \in [nodes : Nat, text : Seq({"c"})]
           /\ buf[s].nodes \in Nat /\ buf[s].text \in Seq({"c"})
           /\ Unread(s) \in Seq(Char) /\ final[s] \in Nat /\ final[s] <= Len(written[s])
           /\ Len(written[s]) \in Nat /\ Len(pipe[s]) \in Nat
BY DEF StreamTypes, Unread

\* A step that does not touch an open stream.
LEMMA SameOpen ==
    ASSUME NEW s \in Stream, OpenOK(s), written'[s] = written[s], pipe'[s] = pipe[s],
           buf'[s] = buf[s], lines'[s] = lines[s], Unread(s)' = Unread(s),
           Scanning(s)' <=> Scanning(s)
    PROVE  OpenOK(s)'
BY DEF OpenOK, Consumed

\* A step that does not touch a stream that was closed.
LEMMA SameClosed ==
    ASSUME NEW s \in Stream, ClosedOK(s), written'[s] = written[s], pipe'[s] = pipe[s],
           lines'[s] = lines[s], final'[s] = final[s]
    PROVE  ClosedOK(s)'
BY DEF ClosedOK, Consumed

\* A stream of which everything was read is closed when its buffer was told.
LEMMA ClosesFresh ==
    ASSUME StreamTypes, NEW s \in Stream, OpenOK(s), ~Scanning(s), pipe[s] = <<>>, buf[s].nodes = 0
    PROVE  ClosedOK(s)
<1>1. /\ written[s] \in Seq(Char) /\ pipe[s] \in Seq(Char) /\ lines[s] \in Seq(Line)
      /\ buf[s].text \in Seq({"c"}) /\ Unread(s) \in Seq(Char) /\ final[s] \in Nat
      /\ final[s] <= Len(written[s]) /\ Len(written[s]) \in Nat
  BY PartTypes
<1>2. Consumed(s) = 0 /\ Len(pipe[s]) = 0
  BY DEF OpenOK
<1>3. Len(written[s]) - Len(pipe[s]) = 0
  BY <1>2 DEF Consumed
<1>4. Consumed(s) >= final[s]
  BY <1>1, <1>2, <1>3
<1>5. AllPieces(lines[s], written[s], 0)
  BY <1>1, <1>3, FlowNothing DEF OpenOK
<1>6. QED
  BY <1>2, <1>4, <1>5 DEF ClosedOK

\* A stream without anything.
LEMMA FreshClosed ==
    ASSUME StreamTypes, NEW s \in Stream, Fresh(s)
    PROVE  ClosedOK(s)
<1>1. final[s] = 0 /\ Consumed(s) = 0
  <2>1. Len(written[s]) = 0 /\ Len(pipe[s]) = 0
    BY DEF Fresh
  <2>2. QED
    BY <2>1, PartTypes DEF Consumed
<1>2. QED
  BY <1>1 DEF ClosedOK, AllPieces, Fresh

\* di_spawn_run, failed or not
LEMMA RunLines ==
    ASSUME ChildInv, LinesInv, (\E ignore \in BOOLEAN : Run(ignore)) \/ RunFails
    PROVE  LinesInv'
<1>1. obj = "none" /\ UNCHANGED <<streams, final, exited, cb>>
  BY DEF Run, RunFails
<1>2. /\ written' = written /\ pipe' = pipe /\ buf' = buf /\ lines' = lines /\ final' = final
      /\ exited' = exited /\ cb' = cb
  BY <1>1 DEF streams
<1>3. cb.who = "none" /\ cb.pc = "idle" /\ ~exited
  BY <1>1 DEF ChildInv, CallbackOK
<1>4. /\ process' \in {"none", "running"} /\ quiet' \in BOOLEAN /\ leaked' \in 0..MaxFailures
      /\ obj' = "none" => process' = "none"
  <2>1. CASE \E ignore \in BOOLEAN : Run(ignore)
    BY <2>1 DEF Run, LinesInv, StreamTypes
  <2>2. CASE RunFails
    BY <1>1, <2>2, ConstantsAssumption DEF RunFails, LinesInv, StreamTypes
  <2>3. QED
    BY <2>1, <2>2
<1>5. StreamTypes'
  BY <1>2, <1>4 DEF LinesInv, StreamTypes
<1>6. ASSUME NEW s \in Stream PROVE OpenOK(s)' /\ Fresh(s)' /\ ~Closing(s)'
  <2>1. OpenOK(s) /\ Fresh(s) /\ ~Closing(s)
    BY <1>1, <1>3 DEF LinesInv, Closing
  <2>2. Unread(s)' = Unread(s) /\ (Scanning(s)' <=> Scanning(s))
    BY <1>2 DEF Unread, Scanning
  <2>3. OpenOK(s)'
    BY <1>2, <2>1, <2>2, SameOpen
  <2>4. QED
    BY <1>2, <1>3, <2>1, <2>3 DEF Fresh, Closing
<1>7. QED
  BY <1>2, <1>3, <1>4, <1>5, <1>6 DEF LinesInv

\* The child writes.
LEMMA WriteLines ==
    ASSUME ChildInv, LinesInv, NEW s \in Stream, NEW c \in Char, Write(s, c)
    PROVE  LinesInv'
<1>1. /\ process # "none" /\ ~quiet /\ quiet' = quiet /\ process' = process /\ buf' = buf /\ lines' = lines
      /\ final' = final /\ exited' = exited /\ cb' = cb /\ obj' = obj /\ leaked' = leaked
      /\ written' = [written EXCEPT ![s] = Append(written[s], c)]
      /\ pipe' = [pipe EXCEPT ![s] = Append(pipe[s], c)]
  BY DEF Write
<1>2. StreamTypes
  BY DEF LinesInv
<1>3. /\ written'[s] = Append(written[s], c) /\ pipe'[s] = Append(pipe[s], c)
      /\ \A x \in Stream : x # s => written'[x] = written[x] /\ pipe'[x] = pipe[x]
      /\ written' \in [Stream -> Seq(Char)] /\ pipe' \in [Stream -> Seq(Char)]
  BY <1>1, <1>2 DEF StreamTypes
<1>4. /\ Len(written'[s]) = Len(written[s]) + 1 /\ Len(pipe'[s]) = Len(pipe[s]) + 1
      /\ Len(written[s]) \in Nat /\ Len(pipe[s]) \in Nat /\ Consumed(s)' = Consumed(s)
  <2>1. /\ Len(written'[s]) = Len(written[s]) + 1 /\ Len(pipe'[s]) = Len(pipe[s]) + 1
        /\ Len(written[s]) \in Nat /\ Len(pipe[s]) \in Nat
    BY <1>2, <1>3, PartTypes, AppendChars
  <2>2. QED
    BY <2>1 DEF Consumed
<1>5. StreamTypes'
  <2>1. \A x \in Stream : final'[x] <= Len(written'[x])
    BY <1>1, <1>2, <1>3, <1>4, PartTypes
  <2>2. QED
    BY <1>1, <1>2, <1>3, <2>1 DEF StreamTypes
<1>6. \A x \in Stream : Unread(x)' = Unread(x) /\ (Scanning(x)' <=> Scanning(x))
                        /\ (Closing(x)' <=> Closing(x))
  BY <1>1 DEF Unread, Scanning, Closing
<1>7. ASSUME NEW x \in Stream, OpenOK(x) PROVE OpenOK(x)'
  <2>1. CASE x = s
    <3>1. Flow(Append(written[s], c), Append(pipe[s], c), buf[s].text, Unread(s), lines[s])
      BY <1>2, <1>7, <2>1, PartTypes, FlowWrite DEF OpenOK
    <3>2. Flow(written'[s], pipe'[s], buf'[s].text, Unread(s)', lines'[s])
      BY <1>1, <1>3, <1>6, <3>1
    <3>3. QED
      BY <1>1, <1>4, <1>6, <1>7, <2>1, <3>2 DEF OpenOK
  <2>2. CASE x # s
    BY <1>1, <1>3, <1>6, <1>7, <2>2, SameOpen
  <2>3. QED
    BY <2>1, <2>2
<1>8. ASSUME NEW x \in Stream, ClosedOK(x) PROVE ClosedOK(x)'
  <2>1. CASE x = s
    <3>1. Consumed(s) \in Nat
      <4>1. Consumed(s) \in Int
        BY <1>4 DEF Consumed
      <4>2. final[s] \in Nat /\ Consumed(s) >= final[s]
        BY <1>2, <1>8, <2>1, PartTypes DEF ClosedOK
      <4>3. QED
        BY <4>1, <4>2
    <3>2. AllPieces(lines[s], Append(written[s], c), Consumed(s))
      BY <1>2, <1>8, <2>1, <3>1, PartTypes, PiecesMore DEF ClosedOK
    <3>3. QED
      BY <1>1, <1>3, <1>4, <1>8, <2>1, <3>2 DEF ClosedOK
  <2>2. CASE x # s
    BY <1>1, <1>3, <1>8, <2>2, SameClosed
  <2>3. QED
    BY <2>1, <2>2
<1>9. obj # "none"
  BY <1>1 DEF LinesInv
<1>10. QED
  BY <1>1, <1>5, <1>6, <1>7, <1>8, <1>9 DEF LinesInv

\* The child exits, and callbacks begin and end.
LEMMA BeginLines ==
    ASSUME ChildInv, LinesInv,
           Exit \/ (\E s \in Stream : StartOutput(s)) \/ StartSigchld \/ OutputEnds
    PROVE  LinesInv'
<1>1. /\ written' = written /\ pipe' = pipe /\ buf' = buf /\ lines' = lines /\ quiet' = quiet
      /\ exited' = exited /\ obj' = obj /\ leaked' = leaked
  BY DEF Exit, StartOutput, StartSigchld, OutputEnds, streams
<1>2. StreamTypes /\ CallbackOK(cb) /\ (cb.pc \notin {"scan", "emit"} => cb.data = <<>>)
  BY CallbackParts
<1>3. CASE Exit
  <2>1. process = "running" /\ process' = "exited" /\ cb' = cb /\ obj # "none"
        /\ final' = [s \in Stream |-> Len(written[s])]
    BY <1>3 DEF Exit, LinesInv
  <2>2. cb.who # "sigchld" /\ ~exited
    BY <2>1 DEF LinesInv
  <2>3. \A s \in Stream : Unread(s)' = Unread(s) /\ (Scanning(s)' <=> Scanning(s)) /\ ~Closing(s)'
                          /\ ~Closing(s) /\ final'[s] = Len(written[s])
    BY <2>1, <2>2 DEF Unread, Scanning, Closing
  <2>4. StreamTypes'
    <3>1. \A s \in Stream : Len(written[s]) \in Nat
      BY <1>2, PartTypes
    <3>2. QED
      BY <1>1, <1>2, <2>1, <2>3, <3>1 DEF StreamTypes
  <2>5. ASSUME NEW s \in Stream, OpenOK(s) PROVE OpenOK(s)'
    BY <1>1, <2>3, <2>5, SameOpen
  <2>6. \A s \in Stream : Fresh(s)' <=> Fresh(s)
    BY <1>1 DEF Fresh
  <2>7. QED
    BY <1>1, <2>1, <2>2, <2>3, <2>4, <2>5, <2>6 DEF LinesInv
<1>4. CASE ~Exit
  <2>1. final' = final /\ obj = "alive" /\ cb.pc \in {"idle", "read"} /\ cb.data = <<>> /\ ~exited
    BY <1>2, <1>4 DEF StartOutput, StartSigchld, OutputEnds, ChildInv, CallbackOK
  <2>2. /\ cb'.data = <<>> /\ cb'.pc \in {"idle", "read", "last"}
        /\ cb'.pc = "last" => quiet
        /\ quiet => cb'.pc \in {"idle", "last"}
        /\ process' \in {process, "reaped"} /\ (cb'.who = "sigchld" => process' = "reaped")
        /\ cb'.pc = "last" \/ cb'.who # "sigchld" \/ cb'.str = "stdout"
    <3>1. CASE StartSigchld
      BY <3>1 DEF StartSigchld
    <3>2. CASE \E s \in Stream : StartOutput(s)
      BY <3>2 DEF StartOutput
    <3>3. CASE OutputEnds
      BY <3>3 DEF OutputEnds, NoCb
    <3>4. QED
      BY <1>4, <3>1, <3>2, <3>3
  <2>3. cb.who # "sigchld"
    BY <1>2, <1>4 DEF StartOutput, StartSigchld, OutputEnds, CallbackOK
  <2>4. \A s \in Stream : Unread(s)' = Unread(s) /\ ~Scanning(s)' /\ ~Scanning(s) /\ ~Closing(s)
                          /\ (Closing(s)' => quiet)
    BY <2>1, <2>2, <2>3 DEF Unread, Scanning, Closing
  <2>5. <<>> \in Seq(Char)
    OBVIOUS
  <2>6. StreamTypes'
    BY <1>1, <1>2, <2>1, <2>2, <2>5 DEF StreamTypes
  <2>7. ASSUME NEW s \in Stream PROVE OpenOK(s)'
    <3>1. OpenOK(s)
      BY <2>1, <2>4 DEF LinesInv
    <3>2. QED
      BY <1>1, <2>4, <3>1, SameOpen
  <2>8. ASSUME NEW s \in Stream, quiet PROVE Fresh(s)' /\ ClosedOK(s)'
    <3>1. Fresh(s)
      BY <2>8 DEF LinesInv
    <3>2. ClosedOK(s)
      BY <1>2, <3>1, FreshClosed
    <3>3. QED
      BY <1>1, <2>1, <3>1, <3>2, SameClosed DEF Fresh
  <2>9. QED
    BY <1>1, <2>1, <2>2, <2>4, <2>6, <2>7, <2>8 DEF LinesInv
<1>5. QED
  BY <1>3, <1>4

\* A string_buf is a number of nodes and a text.
LEMMA BufParts ==
    ASSUME NEW v \in Nat, NEW T, NEW u \in T, NEW r, r = [nodes |-> v, text |-> u]
    PROVE  r \in [nodes : Nat, text : T] /\ r.nodes = v /\ r.text = u
OBVIOUS

\* A step of a callback that touches only the stream it reads, which stays open.
LEMMA ScanStep ==
    ASSUME ChildInv, LinesInv, cb.pc \in {"read", "scan", "emit"}, StreamTypes',
           NEW s \in Stream, cb.str = s, OpenOK(s)', cb'.who = cb.who, cb'.str = cb.str, cb'.pc \in {"read", "scan", "emit"},
           cb'.pc = "read" => cb'.data = <<>>,
           written' = written, final' = final, exited' = exited, quiet' = quiet, obj' = obj,
           process' = process,
           \A x \in Stream : x # s => /\ pipe'[x] = pipe[x] /\ buf'[x] = buf[x]
                                      /\ lines'[x] = lines[x]
    PROVE  LinesInv'
<1>1. obj = "alive" /\ ~quiet /\ ~exited /\ cb.str \in Stream
  BY CallbackParts
<1>2. \A x \in Stream : (Closing(x)' <=> Closing(x)) /\ (Closing(x) => x # cb.str)
  BY DEF Closing
<1>3. ASSUME NEW x \in Stream, x # cb.str
      PROVE  Unread(x)' = Unread(x) /\ (Scanning(x)' <=> Scanning(x))
  BY <1>3 DEF Unread, Scanning
<1>4. ASSUME NEW x \in Stream, ~Closing(x) PROVE OpenOK(x)'
  <2>1. CASE x = cb.str
    BY <2>1
  <2>2. CASE x # cb.str
    <3>1. OpenOK(x)
      BY <1>1, <1>4 DEF LinesInv
    <3>2. QED
      BY <1>3, <2>2, <3>1, SameOpen
  <2>3. QED
    BY <2>1, <2>2
<1>5. ASSUME NEW x \in Stream, Closing(x) PROVE ClosedOK(x)'
  <2>1. ClosedOK(x) /\ x # cb.str
    BY <1>2, <1>5 DEF LinesInv
  <2>2. QED
    BY <2>1, SameClosed
<1>6. (cb.who = "sigchld" => process = "reaped") /\ StreamTypes
  BY DEF LinesInv
<1>7. QED
  BY <1>1, <1>2, <1>4, <1>5, <1>6 DEF LinesInv

\* A chunk is read.
LEMMA ReadLines ==
    ASSUME ChildInv, LinesInv, Read
    PROVE  LinesInv'
<1>0. PICK s \in Stream : cb.str = s
  BY CallbackParts
<1> DEFINE p == pipe[s]
           n == IF Len(p) < BufSize THEN Len(p) ELSE BufSize
           d == SubSeq(p, 1, n)
           q == SubSeq(p, n + 1, Len(p))
<1>1. /\ cb.pc = "read" /\ p # <<>> /\ cb' = [cb EXCEPT !.data = d, !.pc = "scan"]
      /\ pipe' = [pipe EXCEPT ![s] = q]
      /\ written' = written /\ final' = final /\ exited' = exited /\ quiet' = quiet /\ obj' = obj
      /\ process' = process /\ buf' = buf /\ lines' = lines /\ leaked' = leaked
  BY <1>0 DEF Read
<1>2. /\ s \in Stream /\ StreamTypes /\ OpenOK(s) /\ cb.data = <<>>
      /\ cb = [who |-> cb.who, str |-> cb.str, data |-> cb.data, pc |-> cb.pc]
  BY <1>0, <1>1, CallbackParts
<1>3. /\ written[s] \in Seq(Char) /\ p \in Seq(Char) /\ lines[s] \in Seq(Line)
      /\ buf[s].text \in Seq({"c"}) /\ Len(written[s]) \in Nat /\ Len(p) \in Nat
  BY <1>2, PartTypes
<1>4. Len(p) > 0
  BY <1>1, <1>3
<1>5. n \in 0..Len(p) /\ n > 0
  BY <1>3, <1>4, ConstantsAssumption
<1> HIDE DEF n
<1>6. d \in Seq(Char) /\ q \in Seq(Char) /\ Len(q) = Len(p) - n
  BY <1>3, <1>5, CutChars
<1>7. Unread(s) = <<>>
  BY <1>0, <1>2 DEF Unread
<1>8. Flow(written[s], q, buf[s].text, d, lines[s])
  BY <1>2, <1>3, <1>5, <1>7, FlowRead DEF OpenOK
<1> HIDE DEF d, q
<1>9. cb'.who = cb.who /\ cb'.str = s /\ cb'.data = d /\ cb'.pc = "scan"
  BY <1>0, <1>1, <1>2
<1> HIDE DEF p
<1>10. pipe'[s] = q /\ (\A x \in Stream : x # s => pipe'[x] = pipe[x]) /\ pipe' \in [Stream -> Seq(Char)]
  BY <1>1, <1>2, <1>6 DEF StreamTypes
<1>11. StreamTypes'
  BY <1>1, <1>2, <1>6, <1>9, <1>10 DEF StreamTypes
<1>12. OpenOK(s)'
  <2>1. Unread(s)' = d
    BY <1>9 DEF Unread
  <2>2. Consumed(s)' > 0
    <3>1. Len(written[s]) >= Len(p)
      <4>1. Told(lines[s]) \in Nat /\ Len(buf[s].text) \in Nat /\ Len(<<>>) = 0
        BY <1>3, ToldType
      <4>2. Len(written[s]) = Told(lines[s]) + Len(buf[s].text) + Len(<<>>) + Len(p)
        BY <1>2, <1>7 DEF OpenOK, Flow, p
      <4>3. QED
        BY <1>3, <4>1, <4>2
    <3>2. Consumed(s)' = Len(written[s]) - Len(q)
      BY <1>1, <1>10 DEF Consumed
    <3>3. QED
      BY <1>3, <1>5, <1>6, <3>1, <3>2
  <2>3. Flow(written'[s], pipe'[s], buf'[s].text, Unread(s)', lines'[s])
    BY <1>1, <1>8, <1>10, <2>1
  <2>4. Scanning(s)'
    BY <1>9 DEF Scanning
  <2>5. QED
    BY <1>1, <1>2, <2>2, <2>3, <2>4 DEF OpenOK
<1>13. QED
  BY <1>0, <1>1, <1>2, <1>9, <1>10, <1>11, <1>12, ScanStep

\* A line is told.
LEMMA ScanLineLines ==
    ASSUME ChildInv, LinesInv, NEW e \in 1..Len(cb.data), ScanLine(e)
    PROVE  LinesInv'
<1>0. PICK s \in Stream : cb.str = s
  BY CallbackParts
<1> DEFINE d == cb.data
           x == SubSeq(d, 1, e - 1)
           r == SubSeq(d, e + 1, Len(d))
           t == buf[s].text
           ls == lines[s]
           m == Append(ls, [at |-> Told(ls), text |-> t \o x])
<1>1. /\ cb.pc = "scan" /\ Eol(e) /\ cb' = [cb EXCEPT !.data = r, !.pc = "emit"]
      /\ lines' = [lines EXCEPT ![s] = m] /\ buf' = [buf EXCEPT ![s] = EmptyBuf]
      /\ written' = written /\ final' = final /\ exited' = exited /\ quiet' = quiet /\ obj' = obj
      /\ process' = process /\ pipe' = pipe /\ leaked' = leaked
  BY <1>0 DEF ScanLine, Emitted
<1>2. /\ s \in Stream /\ StreamTypes /\ OpenOK(s) /\ d \in Seq(Char)
      /\ cb = [who |-> cb.who, str |-> cb.str, data |-> cb.data, pc |-> cb.pc]
  BY <1>0, <1>1, CallbackParts DEF StreamTypes
<1>3. /\ written[s] \in Seq(Char) /\ pipe[s] \in Seq(Char) /\ ls \in Seq(Line)
      /\ t \in Seq({"c"}) /\ Len(d) \in Nat /\ e - 1 \in 0..Len(d) /\ e \in 0..Len(d)
  BY <1>2, PartTypes
<1>4. x \in Seq({"c"})
  <2>1. x \in Seq(Char) /\ Len(x) = e - 1 /\ \A i \in 1..(e - 1) : x[i] = d[i]
    BY <1>2, <1>3, CutChars
  <2>2. \A i \in 1..Len(x) : x[i] \in {"c"}
    <3>1. \A i \in 1..(e - 1) : d[i] # "nl"
      BY <1>1 DEF Eol
    <3>2. \A i \in 1..Len(x) : x[i] \in Char
      BY <2>1
    <3>3. QED
      BY <2>1, <3>1, <3>2 DEF Char
  <2> HIDE DEF x
  <2>3. QED
    BY <2>1, <2>2
<1>5. r \in Seq(Char)
  BY <1>2, <1>3, CutChars
<1>6. Unread(s) = d /\ d[e] = "nl"
  BY <1>0, <1>1 DEF Unread, Eol
<1>7. Flow(written[s], pipe[s], <<>>, r, m)
  <2>1. Flow(written[s], pipe[s], t, d, ls)
    BY <1>2, <1>6 DEF OpenOK
  <2>2. QED
    BY <1>2, <1>3, <1>4, <1>6, <2>1, FlowLine
<1>8. m \in Seq(Line)
  <2>1. t \o x \in Seq({"c"})
    BY <1>3, <1>4, ConcatChars
  <2>2. QED
    BY <1>3, <2>1, ToldAppend
<1> HIDE DEF r, m, x
<1>9. cb'.who = cb.who /\ cb'.str = s /\ cb'.data = r /\ cb'.pc = "emit"
  BY <1>0, <1>1, <1>2
<1>10. EmptyBuf \in [nodes : Nat, text : Seq({"c"})] /\ EmptyBuf.nodes = 0 /\ EmptyBuf.text = <<>>
  BY DEF EmptyBuf
<1>11. /\ lines'[s] = m /\ buf'[s] = EmptyBuf
       /\ \A y \in Stream : y # s => lines'[y] = lines[y] /\ buf'[y] = buf[y]
       /\ lines' \in [Stream -> Seq(Line)]
       /\ buf' \in [Stream -> [nodes : Nat, text : Seq({"c"})]]
  BY <1>1, <1>2, <1>8, <1>10 DEF StreamTypes
<1>12. StreamTypes'
  BY <1>1, <1>2, <1>5, <1>9, <1>11 DEF StreamTypes
<1>13. OpenOK(s)'
  <2>1. Unread(s)' = r /\ Scanning(s)' /\ Scanning(s)
    BY <1>0, <1>1, <1>9 DEF Unread, Scanning
  <2>2. Consumed(s)' = Consumed(s) /\ Consumed(s) > 0
    BY <1>1, <1>2, <2>1 DEF Consumed, OpenOK
  <2>3. Flow(written'[s], pipe'[s], buf'[s].text, Unread(s)', lines'[s])
    BY <1>1, <1>7, <1>10, <1>11, <2>1
  <2>4. QED
    BY <1>10, <1>11, <2>1, <2>2, <2>3 DEF OpenOK
<1>14. QED
  BY <1>0, <1>1, <1>2, <1>9, <1>11, <1>12, <1>13, ScanStep

\* The rest of the chunk is kept.
LEMMA ScanRestLines ==
    ASSUME ChildInv, LinesInv, ScanRest
    PROVE  LinesInv'
<1>0. PICK s \in Stream : cb.str = s
  BY CallbackParts
<1> DEFINE d == cb.data
           b == buf[s]
           E == <<>>
<1>1. /\ cb.pc = "scan" /\ (\A i \in 1..Len(d) : d[i] # "nl")
      /\ cb' = [cb EXCEPT !.data = E, !.pc = "read"]
      /\ buf' = [buf EXCEPT ![s] = Push(b, d)]
      /\ written' = written /\ final' = final /\ exited' = exited /\ quiet' = quiet /\ obj' = obj
      /\ process' = process /\ pipe' = pipe /\ lines' = lines /\ leaked' = leaked
  BY <1>0 DEF ScanRest
<1>2. /\ s \in Stream /\ StreamTypes /\ OpenOK(s) /\ d \in Seq(Char)
      /\ cb = [who |-> cb.who, str |-> cb.str, data |-> cb.data, pc |-> cb.pc]
  BY <1>0, <1>1, CallbackParts DEF StreamTypes
<1>3. /\ written[s] \in Seq(Char) /\ pipe[s] \in Seq(Char) /\ lines[s] \in Seq(Line)
      /\ b.text \in Seq({"c"}) /\ b.nodes \in Nat
  BY <1>2, PartTypes
<1>4. d \in Seq({"c"})
  <2>1. \A i \in 1..Len(d) : d[i] \in {"c"}
    BY <1>1, <1>2 DEF Char
  <2> HIDE DEF d
  <2>2. QED
    BY <1>2, <2>1
<1>5. Flow(written[s], pipe[s], b.text \o d, E, lines[s])
  <2>1. Flow(written[s], pipe[s], b.text, d, lines[s])
    BY <1>0, <1>2 DEF OpenOK, Unread
  <2>2. QED
    BY <1>3, <1>4, <2>1, FlowRest
<1>6. /\ Push(b, d) \in [nodes : Nat, text : Seq({"c"})] /\ Push(b, d).nodes = b.nodes + 1
      /\ Push(b, d).text = b.text \o d
  <2>1. b.text \o d \in Seq({"c"}) /\ b.nodes + 1 \in Nat
    BY <1>3, <1>4, ConcatChars
  <2>2. Push(b, d) = [nodes |-> b.nodes + 1, text |-> b.text \o d]
    BY DEF Push
  <2> HIDE DEF b, d
  <2>3. QED
    BY ONLY <2>1, <2>2, BufParts
<1>7. E \in Seq(Char)
  OBVIOUS
<1> HIDE DEF E
<1>8. cb'.who = cb.who /\ cb'.str = s /\ cb'.data = E /\ cb'.pc = "read"
  BY <1>0, <1>1, <1>2
<1> HIDE DEF d, b
<1>9. /\ buf'[s] = Push(b, d) /\ \A y \in Stream : y # s => buf'[y] = buf[y]
      /\ buf' \in [Stream -> [nodes : Nat, text : Seq({"c"})]]
  BY <1>1, <1>2, <1>6 DEF StreamTypes
<1>10. StreamTypes'
  BY <1>1, <1>2, <1>7, <1>8, <1>9 DEF StreamTypes
<1>11. OpenOK(s)'
  <2>1. Unread(s)' = E /\ Scanning(s)
    BY <1>0, <1>1, <1>8 DEF Unread, Scanning
  <2>2. Consumed(s)' = Consumed(s) /\ Consumed(s) > 0
    BY <1>1, <1>2, <2>1 DEF Consumed, OpenOK
  <2>3. Flow(written'[s], pipe'[s], buf'[s].text, Unread(s)', lines'[s])
    BY <1>1, <1>5, <1>6, <1>9, <2>1
  <2>4. buf'[s].nodes > 0
    BY <1>3, <1>6, <1>9
  <2>5. QED
    BY <2>2, <2>3, <2>4 DEF OpenOK
<1>12. QED
  BY <1>0, <1>1, <1>2, <1>8, <1>9, <1>10, <1>11, ScanStep DEF E

\* The handlers of a line return.
LEMMA EmitReturnsLines ==
    ASSUME ChildInv, LinesInv, EmitReturns
    PROVE  LinesInv'
<1>0. PICK s \in Stream : cb.str = s
  BY CallbackParts
<1>1. /\ cb.pc = "emit" /\ cb' = [cb EXCEPT !.pc = "scan"]
      /\ written' = written /\ final' = final /\ exited' = exited /\ quiet' = quiet /\ obj' = obj
      /\ process' = process /\ pipe' = pipe /\ lines' = lines /\ leaked' = leaked /\ buf' = buf
  BY DEF EmitReturns, streams
<1>2. /\ StreamTypes /\ OpenOK(s)
      /\ cb = [who |-> cb.who, str |-> cb.str, data |-> cb.data, pc |-> cb.pc]
  BY <1>0, <1>1, CallbackParts
<1>3. cb'.who = cb.who /\ cb'.str = s /\ cb'.data = cb.data /\ cb'.pc = "scan"
  BY <1>0, <1>1, <1>2
<1>4. StreamTypes'
  BY <1>1, <1>2, <1>3 DEF StreamTypes
<1>5. Unread(s)' = Unread(s) /\ (Scanning(s)' <=> Scanning(s))
  BY <1>0, <1>1, <1>3 DEF Unread, Scanning
<1>6. OpenOK(s)'
  BY <1>1, <1>2, <1>5, SameOpen
<1>7. QED
  BY <1>0, <1>1, <1>3, <1>4, <1>6, ScanStep

\* A step of sigchld_handler between chunks: what is closed after it was cut into lines.
LEMMA CloseStep ==
    ASSUME ChildInv, LinesInv, cb.who = "sigchld", cb'.who = "sigchld",
           cb.pc \notin {"scan", "emit"}, cb'.pc \notin {"scan", "emit"}, cb'.data = <<>>,
           StreamTypes', written' = written, pipe' = pipe, quiet' = quiet, process' = process,
           obj' = obj, quiet => cb'.pc = "exit" /\ buf' = buf /\ lines' = lines,
           \A x \in Stream : Closing(x)' => ClosedOK(x)',
           \A x \in Stream : ~Closing(x)' => /\ ~Closing(x) /\ buf'[x] = buf[x]
                                             /\ lines'[x] = lines[x],
           exited' => \A x \in Stream : Closing(x)'
    PROVE  LinesInv'
<1>1. obj = "alive" /\ process = "reaped" /\ cb.data = <<>>
  BY DEF ChildInv, LinesInv
<1>2. \A x \in Stream : Unread(x)' = Unread(x) /\ ~Scanning(x)' /\ ~Scanning(x)
  BY <1>1 DEF Unread, Scanning
<1>3. ASSUME NEW x \in Stream, ~Closing(x)' PROVE OpenOK(x)'
  <2>1. OpenOK(x) /\ buf'[x] = buf[x] /\ lines'[x] = lines[x]
    BY <1>1, <1>3 DEF LinesInv
  <2>2. QED
    BY <1>2, <2>1, SameOpen
<1>4. ASSUME NEW x \in Stream, quiet PROVE Fresh(x)'
  BY <1>4 DEF LinesInv, Fresh
<1>5. QED
  BY <1>1, <1>3, <1>4 DEF LinesInv

\* The buffer of a stream that was read to its end is told.
LEMMA FlushLines ==
    ASSUME ChildInv, LinesInv, SigchldFlush
    PROVE  LinesInv'
<1>0. PICK s \in Stream : cb.str = s
  BY CallbackParts
<1> DEFINE t == buf[s].text
           ls == lines[s]
           m == Append(ls, [at |-> Told(ls), text |-> t])
<1>1. /\ cb.pc = "read" /\ cb.who = "sigchld" /\ pipe[s] = <<>> /\ buf[s].nodes > 0
      /\ cb' = [cb EXCEPT !.pc = "flushed"]
      /\ lines' = [lines EXCEPT ![s] = m] /\ buf' = [buf EXCEPT ![s] = EmptyBuf]
      /\ written' = written /\ final' = final /\ exited' = exited /\ quiet' = quiet /\ obj' = obj
      /\ process' = process /\ pipe' = pipe /\ leaked' = leaked
  BY <1>0 DEF SigchldFlush, Drained, Emitted
<1>2. /\ StreamTypes /\ OpenOK(s) /\ cb.data = <<>> /\ ~exited /\ ~quiet
      /\ cb = [who |-> cb.who, str |-> cb.str, data |-> cb.data, pc |-> cb.pc]
  BY <1>0, <1>1, CallbackParts
<1>3. /\ written[s] \in Seq(Char) /\ ls \in Seq(Line) /\ t \in Seq({"c"})
      /\ final[s] \in Nat /\ final[s] <= Len(written[s]) /\ Len(written[s]) \in Nat
  BY <1>2, PartTypes
<1>4. Len(pipe[s]) = 0
  BY <1>1
<1>5. Consumed(s) = Len(written[s]) /\ Len(written[s]) > 0
  BY <1>1, <1>2, <1>3, <1>4 DEF Consumed, OpenOK
<1>6. Unread(s) = <<>>
  BY <1>0, <1>2 DEF Unread
<1>7. AllPieces(m, written[s], Len(written[s]))
  <2>1. Flow(written[s], <<>>, t, <<>>, ls)
    BY <1>1, <1>2, <1>6 DEF OpenOK
  <2>2. QED
    BY <1>3, <1>5, <2>1, FlowFlush
<1>8. m \in Seq(Line)
  BY <1>3, ToldAppend
<1> HIDE DEF m
<1>9. cb'.who = cb.who /\ cb'.str = s /\ cb'.data = cb.data /\ cb'.pc = "flushed"
  BY <1>0, <1>1, <1>2
<1>10. EmptyBuf \in [nodes : Nat, text : Seq({"c"})]
  BY DEF EmptyBuf
<1>11. /\ lines'[s] = m
       /\ \A y \in Stream : y # s => lines'[y] = lines[y] /\ buf'[y] = buf[y]
       /\ lines' \in [Stream -> Seq(Line)]
       /\ buf' \in [Stream -> [nodes : Nat, text : Seq({"c"})]]
  BY <1>1, <1>2, <1>8, <1>10 DEF StreamTypes
<1>12. StreamTypes'
  BY <1>1, <1>2, <1>9, <1>11 DEF StreamTypes
<1>13. Closing(s)' /\ \A x \in Stream : x # s => (Closing(x)' <=> Closing(x))
  BY <1>0, <1>1, <1>9 DEF Closing, Stream
<1>14. ClosedOK(s)'
  <2>1. Consumed(s)' = Consumed(s)
    BY <1>1 DEF Consumed
  <2>2. QED
    BY <1>1, <1>3, <1>5, <1>7, <1>11, <2>1 DEF ClosedOK
<1>15. ASSUME NEW x \in Stream, x # s, Closing(x) PROVE ClosedOK(x)'
  <2>1. ClosedOK(x)
    BY <1>15 DEF LinesInv
  <2>2. QED
    BY <1>1, <1>11, <1>15, <2>1, SameClosed
<1>16. /\ \A x \in Stream : Closing(x)' => ClosedOK(x)'
       /\ \A x \in Stream : ~Closing(x)' => /\ ~Closing(x) /\ buf'[x] = buf[x]
                                            /\ lines'[x] = lines[x]
  BY <1>11, <1>13, <1>14, <1>15
<1>17. QED
  BY <1>1, <1>2, <1>9, <1>12, <1>16, CloseStep

\* The SIGCHLD handler goes on to the next stream, or to the exit signal.
LEMMA NextLines ==
    ASSUME ChildInv, LinesInv, SigchldNext
    PROVE  LinesInv'
<1>0. PICK s \in Stream : cb.str = s
  BY CallbackParts
<1>1. /\ cb.pc = "flushed" \/ (cb.pc = "read" /\ pipe[s] = <<>> /\ buf[s].nodes = 0)
      /\ cb.who = "sigchld" /\ exited' = exited /\ quiet' = quiet /\ obj' = obj
      /\ written' = written /\ final' = final /\ process' = process /\ leaked' = leaked
      /\ pipe' = pipe /\ buf' = buf /\ lines' = lines
  <2>1. CallbackOK(cb)
    BY CallbackParts
  <2>2. QED
    BY <1>0, <2>1 DEF SigchldNext, Drained, streams, CallbackOK
<1>2. /\ StreamTypes /\ cb.data = <<>> /\ ~exited /\ ~quiet
      /\ cb = [who |-> cb.who, str |-> cb.str, data |-> cb.data, pc |-> cb.pc]
  BY <1>1, CallbackParts DEF ChildInv, LinesInv
<1>3. \/ /\ s = "stdout" /\ cb' = [cb EXCEPT !.str = "stderr", !.pc = "read"]
      \/ /\ s = "stderr" /\ cb' = [cb EXCEPT !.pc = "last"]
  BY <1>0 DEF SigchldNext, SigchldNextStream, Stream
<1>4. /\ cb'.who = "sigchld" /\ cb'.data = <<>>
      /\ \/ s = "stdout" /\ cb'.str = "stderr" /\ cb'.pc = "read"
         \/ s = "stderr" /\ cb'.str = "stderr" /\ cb'.pc = "last"
  BY <1>0, <1>1, <1>2, <1>3
<1>5. ClosedOK(s)
  <2>1. CASE cb.pc = "flushed"
    BY <1>0, <1>1, <2>1 DEF LinesInv, Closing
  <2>2. CASE cb.pc = "read"
    <3>1. OpenOK(s) /\ ~Scanning(s)
      BY <1>0, <2>2, CallbackParts DEF Scanning
    <3>2. QED
      BY <1>1, <1>2, <2>2, <3>1, ClosesFresh
  <2>3. QED
    BY <1>1, <2>1, <2>2
<1>6. /\ \A x \in Stream : Closing(x)' => x = s \/ Closing(x)
      /\ \A x \in Stream : ~Closing(x)' => ~Closing(x)
  BY <1>0, <1>1, <1>4 DEF Closing, Stream
<1>7. ASSUME NEW x \in Stream, Closing(x)' PROVE ClosedOK(x)'
  <2>1. ClosedOK(x)
    BY <1>5, <1>6, <1>7 DEF LinesInv
  <2>2. QED
    BY <1>1, <2>1, SameClosed
<1>8. StreamTypes'
  BY <1>1, <1>2, <1>4 DEF StreamTypes
<1>9. QED
  BY <1>1, <1>2, <1>4, <1>6, <1>7, <1>8, CloseStep

\* The exit signal is emitted.
LEMMA ExitLines ==
    ASSUME ChildInv, LinesInv, SigchldEmitExit
    PROVE  LinesInv'
<1>1. /\ cb.pc = "last" /\ cb' = [cb EXCEPT !.pc = "exit"] /\ cb.who = "sigchld"
      /\ written' = written /\ final' = final /\ quiet' = quiet /\ obj' = obj
      /\ process' = process /\ pipe' = pipe /\ lines' = lines /\ leaked' = leaked /\ buf' = buf
  <2>1. CallbackOK(cb)
    BY CallbackParts
  <2>2. QED
    BY <2>1 DEF SigchldEmitExit, streams, CallbackOK
<1>2. /\ StreamTypes /\ cb.data = <<>>
      /\ cb = [who |-> cb.who, str |-> cb.str, data |-> cb.data, pc |-> cb.pc]
  BY <1>1, CallbackParts
<1>3. cb'.who = "sigchld" /\ cb'.data = <<>> /\ cb'.pc = "exit"
  BY <1>1, <1>2
<1>4. \A x \in Stream : Closing(x)' /\ Closing(x)
  BY <1>1, <1>3 DEF Closing
<1>5. ASSUME NEW x \in Stream PROVE ClosedOK(x)'
  <2>1. ClosedOK(x)
    BY <1>4 DEF LinesInv
  <2>2. QED
    BY <1>1, <2>1, SameClosed
<1>6. StreamTypes'
  BY <1>1, <1>2, <1>3 DEF StreamTypes
<1>7. QED
  BY <1>1, <1>3, <1>4, <1>5, <1>6, CloseStep

\* The SIGCHLD handler ends, and user code drops its reference.
LEMMA ReleaseLines ==
    ASSUME Liberties = {}, ChildInv, LinesInv, SigchldEnds \/ Release
    PROVE  LinesInv'
<1>1. /\ written' = written /\ pipe' = pipe /\ lines' = lines /\ final' = final
      /\ exited' = exited /\ quiet' = quiet /\ process' = process /\ leaked' = leaked
  BY DEF SigchldEnds, Release, streams
<1>2. StreamTypes /\ CallbackOK(cb)
  BY CallbackParts
<1>3. ASSUME NEW x \in Stream, ClosedOK(x) PROVE ClosedOK(x)'
  BY <1>1, <1>3, SameClosed
<1>4. EmptyBuf \in [nodes : Nat, text : Seq({"c"})] /\ EmptyBuf.nodes = 0 /\ <<>> \in Seq(Char)
  BY DEF EmptyBuf
<1>5. CASE SigchldEnds
  <2>1. cb.pc = "exit" /\ cb' = NoCb /\ buf' = buf /\ obj' \in {"cleaned", "freed"} /\ cb.who = "sigchld"
    BY <1>2, <1>5 DEF SigchldEnds, streams, CallbackOK
  <2>2. cb'.who = "none" /\ cb'.pc = "idle" /\ cb'.data = <<>>
    BY <2>1 DEF NoCb
  <2>3. \A x \in Stream : ~Closing(x)' /\ (Fresh(x)' <=> Fresh(x))
    BY <1>1, <2>1, <2>2 DEF Closing, Fresh
  <2>4. StreamTypes'
    BY <1>1, <1>2, <1>4, <2>1, <2>2 DEF StreamTypes
  <2>5. QED
    BY <1>1, <1>3, <2>1, <2>2, <2>3, <2>4 DEF LinesInv
<1>6. CASE Release
  <2>1. cb' = cb /\ cb.who # "output" /\ held
    BY <1>6 DEF Release, MayRelease
  <2>2. obj # "none"
    BY <2>1 DEF ChildInv
  <2>3. CASE cb.who = "sigchld"
    <3>1. obj' = obj /\ buf' = buf
      BY <1>6, <2>3 DEF Release
    <3>2. \A x \in Stream : /\ (Closing(x)' <=> Closing(x)) /\ Unread(x)' = Unread(x)
                            /\ (Scanning(x)' <=> Scanning(x)) /\ (Fresh(x)' <=> Fresh(x))
      BY <1>1, <2>1, <3>1 DEF Closing, Unread, Scanning, Fresh
    <3>3. ASSUME NEW x \in Stream, OpenOK(x) PROVE OpenOK(x)'
      BY <1>1, <3>1, <3>2, <3>3, SameOpen
    <3>4. StreamTypes'
      BY <1>1, <1>2, <2>1, <3>1 DEF StreamTypes
    <3>5. QED
      BY <1>1, <1>3, <2>1, <2>2, <3>1, <3>2, <3>3, <3>4 DEF LinesInv
  <2>4. CASE cb.who # "sigchld"
    <3>1. obj' = "freed" /\ buf' = [s \in Stream |-> EmptyBuf]
      BY <1>6, <2>4 DEF Release, Destroy
    <3>2. \A x \in Stream : /\ (Closing(x)' <=> Closing(x)) /\ (Fresh(x) => Fresh(x)')
      BY <1>1, <1>4, <2>1, <3>1 DEF Closing, Fresh
    <3>3. buf' \in [Stream -> [nodes : Nat, text : Seq({"c"})]]
      BY <1>4, <3>1
    <3>4. StreamTypes'
      BY <1>1, <1>2, <2>1, <3>3 DEF StreamTypes
    <3>5. QED
      BY <1>1, <1>3, <2>1, <3>1, <3>2, <3>4 DEF LinesInv
  <2>5. QED
    BY <2>3, <2>4
<1>7. QED
  BY <1>5, <1>6

\* Every step keeps what is known of the streams.
LEMMA LinesNextInv == ASSUME Liberties = {}, ChildInv, LinesInv, [Next]_vars PROVE LinesInv'
<1>1. CASE UNCHANGED vars
  <2>1. /\ process' = process /\ written' = written /\ pipe' = pipe /\ buf' = buf /\ lines' = lines
        /\ final' = final /\ exited' = exited /\ quiet' = quiet /\ leaked' = leaked /\ obj' = obj
        /\ cb' = cb
    BY <1>1 DEF vars, streams
  <2>2. \A x \in Stream : /\ (Closing(x)' <=> Closing(x)) /\ Unread(x)' = Unread(x)
                          /\ (Scanning(x)' <=> Scanning(x)) /\ (Fresh(x)' <=> Fresh(x))
    BY <2>1 DEF Closing, Unread, Scanning, Fresh
  <2>3. ASSUME NEW x \in Stream, OpenOK(x) PROVE OpenOK(x)'
    BY <2>1, <2>2, <2>3, SameOpen
  <2>4. ASSUME NEW x \in Stream, ClosedOK(x) PROVE ClosedOK(x)'
    BY <2>1, <2>4, SameClosed
  <2>5. StreamTypes'
    BY <2>1 DEF LinesInv, StreamTypes
  <2>6. QED
    BY <2>1, <2>2, <2>3, <2>4, <2>5 DEF LinesInv
<1>2. CASE Callback
  BY <1>2, ReadLines, ScanLineLines, ScanRestLines, EmitReturnsLines, BeginLines, FlushLines, NextLines,
     ExitLines, ReleaseLines DEF Callback
<1>3. QED
  BY <1>1, <1>2, RunLines, WriteLines, BeginLines, ReleaseLines DEF Next

\* Before the child is run there is nothing.
LEMMA LinesInit == Init => ChildInv /\ LinesInv
<1> SUFFICES ASSUME Init PROVE ChildInv /\ LinesInv
  OBVIOUS
<1>1. ChildInv
  BY DEF Init, ChildInv, CallbackOK, NoCb, DeaiReleased, Stream
<1> DEFINE E == <<>>
<1>2. /\ process = "none" /\ ~exited /\ quiet = FALSE /\ obj = "none" /\ cb.who = "none"
      /\ cb.pc = "idle" /\ cb.data = E /\ leaked = 0
      /\ \A s \in Stream : /\ written[s] = E /\ pipe[s] = E /\ lines[s] = E /\ final[s] = 0
                           /\ buf[s].nodes = 0 /\ buf[s].text = E /\ Unread(s) = E
  BY DEF Init, EmptyBuf, NoCb, Unread
<1>3. Len(E) = 0 /\ E \in Seq(Char) /\ E \in Seq({"c"}) /\ E \in Seq(Line) /\ Told(E) = 0
  BY DEF Told
<1>4. StreamTypes
  <2>1. EmptyBuf \in [nodes : Nat, text : Seq({"c"})]
    BY DEF EmptyBuf
  <2>2. /\ written \in [Stream -> Seq(Char)] /\ pipe \in [Stream -> Seq(Char)]
        /\ lines \in [Stream -> Seq(Line)] /\ final \in [Stream -> Nat]
        /\ buf \in [Stream -> [nodes : Nat, text : Seq({"c"})]]
    BY <1>3, <2>1 DEF Init
  <2>3. \A s \in Stream : final[s] <= Len(written[s])
    BY <1>2, <1>3
  <2> HIDE DEF E
  <2>4. leaked \in 0..MaxFailures /\ quiet \in BOOLEAN
    <3>1. leaked \in 0..MaxFailures
      BY <1>2, ConstantsAssumption
    <3>2. quiet \in BOOLEAN
      BY Zenon DEF Init
    <3>3. QED
      BY <3>1, <3>2
  <2>5. process \in {"none", "running", "exited", "reaped"} /\ cb.data \in Seq(Char)
    BY <1>2, <1>3
  <2>6. QED
    BY ONLY <2>2, <2>3, <2>4, <2>5 DEF StreamTypes
<1>5. PartOf(E, E, 0)
  BY <1>3 DEF PartOf
<1>6. Flow(E, E, E, E, E)
  <2>1. FirstLines(E, E, 0)
    BY <1>3 DEF FirstLines
  <2> HIDE DEF E
  <2>2. QED
    BY <1>3, <1>5, <2>1 DEF Flow
<1> HIDE DEF E
<1>7. ASSUME NEW s \in Stream PROVE OpenOK(s) /\ ~Closing(s) /\ Fresh(s)
  <2>1. Flow(written[s], pipe[s], buf[s].text, Unread(s), lines[s])
    BY <1>2, <1>6
  <2>2. Consumed(s) = 0
    BY <1>2, <1>3 DEF Consumed
  <2>3. ~Scanning(s) /\ ~Closing(s)
    BY <1>2 DEF Scanning, Closing
  <2>4. QED
    BY <1>2, <2>1, <2>2, <2>3 DEF OpenOK, Fresh, E
<1>8. QED
  BY <1>1, <1>2, <1>4, <1>7 DEF LinesInv, E

\* What the invariants say is what the runs check.
LEMMA LinesImplySound == ChildInv /\ LinesInv => ChildSound
<1> SUFFICES ASSUME ChildInv, LinesInv PROVE ChildSound
  OBVIOUS
<1>1. StreamTypes /\ CallbackOK(cb)
  BY CallbackParts
<1>2. TypeOK
  <2>1. deaiRefs \in Nat /\ {exited, held, quiet} \subseteq BOOLEAN
    BY <1>1 DEF ChildInv, DeaiReleased, StreamTypes
  <2>2. cb.pc \in {"idle", "read", "scan", "emit", "flushed", "last", "exit"}
    BY <1>1 DEF CallbackOK
  <2>3. \A s \in Stream : /\ written[s] \in Seq(Char) /\ pipe[s] \in Seq(Char)
                          /\ buf[s] \in [nodes : Nat, text : Seq({"c"})]
                          /\ lines[s] \in Seq([at : Nat, text : Seq({"c"})])
                          /\ final[s] \in 0..Len(written[s])
    BY <1>1, PartTypes DEF Line
  <2>4. QED
    BY <1>1, <2>1, <2>2, <2>3 DEF TypeOK, StreamTypes, ChildInv
<1>3. LinesFaithful
  <2>1. ASSUME obj = "alive", NEW s \in Stream, ~Closing(s)
        PROVE  Flow(written[s], pipe[s], buf[s].text, Unread(s), lines[s])
    BY <2>1 DEF LinesInv, OpenOK
  <2>2. QED
    BY <2>1 DEF LinesFaithful, Flow
<1>4. LinesThenExit
  BY DEF LinesThenExit, LinesInv, ClosedOK
<1>5. CallbackLive /\ DeaiReleased /\ ExitIsLast
  BY DEF CallbackLive, ExitIsLast, ChildInv, CallbackOK
<1>6. QED
  BY <1>2, <1>3, <1>4, <1>5 DEF ChildSound

\* However the output of a child arrives, and for as many characters and whatever
\* size of the read buffer: nothing of it is lost, duplicated or reordered on its
\* way into lines, its exit is announced after all it wrote was told, nothing is
\* told after that, no callback runs for a destroyed ChildProcess, and deai is held
\* exactly as long as the object can fire, when handlers do not drop the object.
THEOREM ChildAlwaysSound == Liberties = {} => (Spec => []ChildSound)
<1> SUFFICES ASSUME Liberties = {} PROVE Spec => []ChildSound
  OBVIOUS
<1>1. Init => ChildInv /\ LinesInv
  BY LinesInit
<1>2. ChildInv /\ LinesInv /\ [Next]_vars => (ChildInv /\ LinesInv)'
  BY ChildNextInv, LinesNextInv
<1>3. ChildInv /\ LinesInv => ChildSound
  BY LinesImplySound
<1> QED BY <1>1, <1>2, <1>3, PTL DEF Spec

-----------------------------------------------------------------------------
(* DBusCalls *)

\* Type invariant of the connection, its calls and the messages.
DBusTypeOK ==
    /\ user \subseteq {"conn", "obj"} \cup Request
    /\ link \in {"open", "shut", "closed"}
    /\ reply \in [Request -> {"none", "waiting", "emitting", "answered", "cancelled"}]
    /\ answers \in [Request -> Nat]
    /\ wire \in [bus : SUBSET Request, queue : Seq(Request \cup {"signal"})]
    /\ signals \in Nat
    /\ loop \in {"out", "next", "filter"} \cup Request
    /\ watch \in BOOLEAN
    /\ ioev \in {"none", "running", "stopped"}

\* The connection is open exactly as long as something keeps its object, and the
\* ioev goes with the object.
Kept ==
    /\ link = "open" <=> ~Gone
    /\ link # "open" => ioev = "none"

\* The answer that is being emitted is the one of the dispatching loop, and the
\* emissions of each call are those its reply has been through.
EmissionsExact ==
    \A c \in Request :
        /\ reply[c] = "emitting" <=> loop = c
        /\ answers[c] = IF reply[c] \in {"emitting", "answered"} THEN 1 ELSE 0

ClosedOutside == link = "closed" => loop = "out"

DBusInv == DBusTypeOK /\ Kept /\ EmissionsExact /\ ClosedOutside /\ WatchAgrees

\* User code starts with the connection alone.
LEMMA DBusInitInv == DBusInit => DBusInv
<1> SUFFICES ASSUME DBusInit PROVE DBusInv
  OBVIOUS
<1> USE DBusAssumption DEF DBusInit
<1>1. DBusTypeOK
  BY DEF DBusTypeOK
<1>2. Kept
  BY DEF Kept, Gone, KeepersOf
<1>3. EmissionsExact /\ ClosedOutside /\ WatchAgrees
  BY DEF EmissionsExact, ClosedOutside, WatchAgrees
<1> QED BY <1>1, <1>2, <1>3 DEF DBusInv

\* Messages enter and leave the queue of the connection one by one.
LEMMA WireTypes ==
    ASSUME DBusTypeOK
    PROVE  /\ \A c \in Request \cup {"signal"} :
                  Append(wire.queue, c) \in Seq(Request \cup {"signal"})
           /\ wire.queue # <<>> => Tail(wire.queue) \in Seq(Request \cup {"signal"})
           /\ wire.queue \in Seq(Request \cup {"signal"})
           /\ wire = [bus |-> wire.bus, queue |-> wire.queue]
           /\ wire.bus \subseteq Request
BY DEF DBusTypeOK

\* What the invariant says apart from the types, of a step that leaves the calls
\* and what keeps the connection alone.
LEMMA QuietStep ==
    ASSUME DBusInv, DBusTypeOK', WatchAgrees', UNCHANGED <<user, link, reply, answers>>,
           link # "open" => ioev' = "none",
           \/ UNCHANGED loop
           \/ /\ {loop, loop'} = {"out", "next"}
              /\ link = "closed" => loop' = "out"
    PROVE  DBusInv'
<1> USE DBusAssumption
<1>1. Gone' = Gone
  BY DEF Gone, KeepersOf
<1>2. Kept'
  BY <1>1 DEF DBusInv, Kept
<1>3. ClosedOutside'
  BY DEF DBusInv, ClosedOutside
<1>4. EmissionsExact'
  <2>1. \A c \in Request : loop' = c <=> loop = c
    BY ONLY DBusAssumption, \/ UNCHANGED loop
                            \/ {loop, loop'} = {"out", "next"} /\ (link = "closed" => loop' = "out")
      DEF DBusAssumption
  <2> QED BY <2>1 DEF DBusInv, EmissionsExact
<1> QED
  BY <1>2, <1>3, <1>4 DEF DBusInv

\* A step that ends with the references it dropped: the destructor of the
\* connection runs if they were the last, and only shuts the connection down.
LEMMA SettleKept ==
    ASSUME DBusInv, Settle, UNCHANGED watch, Gone => Gone'
    PROVE  /\ Kept' /\ WatchAgrees'
           /\ link' \in {"open", "shut", "closed"}
           /\ ioev' \in {"none", "running", "stopped"}
           /\ link' = "closed" => link = "closed"
BY DEF DBusInv, DBusTypeOK, Settle, Shutdown, Kept, Gone, WatchAgrees

\* User code drops the connection, the object or a reply.
LEMMA DropInv == ASSUME DBusInv, NEW x \in user, Drop(x) PROVE DBusInv'
<1>0. Gone => Gone'
  BY DEF Drop, Gone, KeepersOf, DBusInv, DBusTypeOK
<1>1. /\ Kept' /\ WatchAgrees' /\ link' \in {"open", "shut", "closed"}
      /\ ioev' \in {"none", "running", "stopped"} /\ (link' = "closed" => link = "closed")
  BY <1>0, SettleKept DEF Drop
<1>2. DBusTypeOK'
  BY <1>1 DEF Drop, DBusInv, DBusTypeOK
<1>3. EmissionsExact' /\ ClosedOutside'
  BY <1>1 DEF Drop, DBusInv, DBusTypeOK, EmissionsExact, ClosedOutside
<1> QED BY <1>1, <1>2, <1>3 DEF DBusInv

\* A handler of a signal, or of a reply, returns to the dispatching loop.
LEMMA ReturnInv == ASSUME DBusInv, FilterReturns \/ ReplyReturns PROVE DBusInv'
<1> USE DBusAssumption
<1>0. Gone => Gone'
  BY DEF FilterReturns, ReplyReturns, Gone, KeepersOf, DBusInv, DBusTypeOK
<1>1. /\ Kept' /\ WatchAgrees' /\ link' \in {"open", "shut", "closed"}
      /\ ioev' \in {"none", "running", "stopped"} /\ (link' = "closed" => link = "closed")
  BY <1>0, SettleKept DEF FilterReturns, ReplyReturns
<1>2. DBusTypeOK'
  BY <1>1 DEF FilterReturns, ReplyReturns, DBusInv, DBusTypeOK
<1>3. EmissionsExact'
  BY DEF FilterReturns, ReplyReturns, DBusInv, DBusTypeOK, EmissionsExact
<1>4. ClosedOutside'
  BY <1>1 DEF FilterReturns, ReplyReturns, DBusInv, ClosedOutside
<1> QED BY <1>1, <1>2, <1>3, <1>4 DEF DBusInv

\* A message is taken from the queue and handed to the filter or to its call.
LEMMA DispatchInv == ASSUME DBusInv, DispatchSignal \/ DispatchReply PROVE DBusInv'
<1> USE DBusAssumption
<1>0. wire' \in [bus : SUBSET Request, queue : Seq(Request \cup {"signal"})]
  <2>1. wire.queue # <<>> /\ wire' = [bus |-> wire.bus, queue |-> Tail(wire.queue)]
    BY WireTypes DEF DispatchSignal, DispatchReply, Took, DBusInv
  <2> QED BY <2>1, WireTypes DEF DBusInv
<1>1. CASE DispatchSignal
  <2>1. DBusTypeOK'
    BY <1>0, <1>1 DEF DispatchSignal, DBusInv, DBusTypeOK
  <2>2. Kept'
    BY <1>1 DEF DispatchSignal, DBusInv, DBusTypeOK, Kept, Gone, KeepersOf
  <2>3. EmissionsExact' /\ ClosedOutside' /\ WatchAgrees'
    BY <1>1 DEF DispatchSignal, DBusInv, DBusTypeOK, EmissionsExact, ClosedOutside, WatchAgrees
  <2> QED BY <2>1, <2>2, <2>3 DEF DBusInv
<1>2. CASE DispatchReply
  <2> DEFINE c == Head(wire.queue)
  <2>1. CASE reply[c] = "waiting"
    <3>1. /\ c \in Request /\ loop = "next"
          /\ reply' = [reply EXCEPT ![c] = "emitting"]
          /\ answers' = [answers EXCEPT ![c] = @ + 1]
          /\ loop' = c
          /\ UNCHANGED <<user, link, signals, watch, ioev, dead>>
      BY <1>2, <2>1 DEF DispatchReply
    <3> HIDE DEF c
    <3>2. DBusTypeOK'
      BY <1>0, <3>1 DEF DBusInv, DBusTypeOK
    <3>3. Kept'
      BY <2>1, <3>1 DEF DBusInv, DBusTypeOK, Kept, Gone, KeepersOf
    <3>4. EmissionsExact'
      BY <2>1, <3>1 DEF DBusInv, DBusTypeOK, EmissionsExact
    <3>5. ClosedOutside' /\ WatchAgrees'
      BY <3>1 DEF DBusInv, ClosedOutside, WatchAgrees
    <3> QED BY <3>2, <3>3, <3>4, <3>5 DEF DBusInv
  <2>2. CASE reply[c] # "waiting"
    <3>1. UNCHANGED <<user, link, reply, answers, loop, signals, watch, ioev, dead>>
      BY <1>2, <2>2 DEF DispatchReply
    <3> QED
      BY <1>0, <3>1, QuietStep DEF DBusInv, DBusTypeOK, Kept, WatchAgrees
  <2> QED BY <2>1, <2>2
<1> QED BY <1>1, <1>2

\* A method is called.
LEMMA CallMethodInv == ASSUME DBusInv, NEW c \in Request, CallMethod(c) PROVE DBusInv'
<1> USE DBusAssumption DEF CallMethod, DBusInv, DBusTypeOK
<1>1. DBusTypeOK'
  OBVIOUS
<1>2. Kept'
  BY DEF Kept, Gone, KeepersOf
<1>3. EmissionsExact' /\ ClosedOutside' /\ WatchAgrees'
  BY DEF EmissionsExact, ClosedOutside, WatchAgrees
<1> QED BY <1>1, <1>2, <1>3

\* Every step keeps the invariant.
LEMMA DBusNextInv == ASSUME DBusInv, [DBusNext]_dbusVars PROVE DBusInv'
<1> USE DBusAssumption
<1>1. CASE GetObject
  <2>1. Kept'
    BY <1>1 DEF GetObject, DBusInv, Kept, Gone, KeepersOf
  <2> QED
    BY <1>1, <2>1 DEF GetObject, DBusInv, DBusTypeOK, EmissionsExact, ClosedOutside, WatchAgrees
<1>2. CASE BusSignal
  <2>1. wire' \in [bus : SUBSET Request, queue : Seq(Request \cup {"signal"})]
    BY <1>2, WireTypes DEF BusSignal, DBusInv
  <2>2. DBusTypeOK'
    <3>1. signals' \in Nat /\ UNCHANGED <<user, link, reply, answers, loop, watch, ioev>>
      BY <1>2 DEF BusSignal, DBusInv, DBusTypeOK
    <3> QED BY <2>1, <3>1 DEF DBusInv, DBusTypeOK
  <2>3. WatchAgrees' /\ (link # "open" => ioev' = "none")
    BY <1>2 DEF BusSignal, DBusInv, Kept, WatchAgrees
  <2> QED BY <1>2, <2>2, <2>3, QuietStep DEF BusSignal
<1>3. ASSUME NEW c \in Request, BusAnswers(c) PROVE DBusInv'
  <2>1. wire' \in [bus : SUBSET Request, queue : Seq(Request \cup {"signal"})]
    BY <1>3, WireTypes DEF BusAnswers, DBusInv
  <2>2. DBusTypeOK' /\ WatchAgrees' /\ (link # "open" => ioev' = "none")
    BY <1>3, <2>1 DEF BusAnswers, DBusInv, DBusTypeOK, Kept, WatchAgrees
  <2> QED BY <1>3, <2>2, QuietStep DEF BusAnswers
<1>4. CASE ToggleWatch \/ ReplaceWatch
  <2>1. CASE ToggleWatch
    <3>1. watch \in BOOLEAN /\ (ioev = "running" <=> watch)
      BY <2>1 DEF ToggleWatch, DBusInv, DBusTypeOK, WatchAgrees
    <3>2. WatchAgrees' /\ watch' \in BOOLEAN /\ ioev' \in {"running", "stopped"}
      BY <2>1, <3>1 DEF ToggleWatch, WatchAgrees
    <3>3. DBusTypeOK'
      BY <2>1, <3>2 DEF ToggleWatch, DBusInv, DBusTypeOK
    <3> QED BY <2>1, <3>2, <3>3, QuietStep DEF ToggleWatch
  <2>2. CASE ReplaceWatch
    <3>1. WatchAgrees' /\ DBusTypeOK'
      BY <2>2 DEF ReplaceWatch, DBusInv, DBusTypeOK, WatchAgrees
    <3> QED BY <2>2, <3>1, QuietStep DEF ReplaceWatch
  <2> QED BY <1>4, <2>1, <2>2
<1>5. CASE StartLoop \/ EndLoop
  <2>0. DBusTypeOK'
    BY <1>5 DEF StartLoop, EndLoop, DBusInv, DBusTypeOK
  <2>1. WatchAgrees' /\ (link # "open" => ioev' = "none")
    BY <1>5 DEF StartLoop, EndLoop, DBusInv, Kept, WatchAgrees
  <2>2. link = "closed" => loop' = "out"
    BY <1>5 DEF StartLoop, EndLoop, DBusInv, Kept
  <2> QED BY <1>5, <2>0, <2>1, <2>2, QuietStep DEF StartLoop, EndLoop
<1>6. CASE ShutdownPart2
  <2>1. Gone' = Gone
    BY <1>6 DEF ShutdownPart2, Gone, KeepersOf
  <2> QED
    BY <1>6, <2>1
    DEF ShutdownPart2, DBusInv, DBusTypeOK, Kept, EmissionsExact, ClosedOutside, WatchAgrees
<1>7. CASE UNCHANGED dbusVars
  BY <1>7, QuietStep DEF dbusVars, DBusInv, DBusTypeOK, Kept, WatchAgrees
<1> QED
  BY <1>1, <1>2, <1>3, <1>4, <1>5, <1>6, <1>7, CallMethodInv, DropInv, DispatchInv, ReturnInv
  DEF DBusNext, Dispatch

\* For any number of calls, each call is answered at most once and an answered one
\* exactly once (dbus_call_method_reply_cb); the connection is closed only outside
\* of the dispatching loop and never under a reply that still waits
\* (di_dbus_shutdown, di_dbus_shutdown_part2); and its ioev runs exactly while
\* libdbus wants its watch (dbus_toggle_watch).
THEOREM CallsAlwaysSound == DBusSpec => []CallsSound
<1>1. DBusInv /\ [DBusNext]_dbusVars => DBusInv'
  BY DBusNextInv
<1>2. DBusInv => CallsSound
  <2> SUFFICES ASSUME DBusInv PROVE CallsSound
    OBVIOUS
  <2>1. AnsweredOnce
    BY DEF DBusInv, DBusTypeOK, EmissionsExact, AnsweredOnce
  <2>2. ClosedSafely
    BY DEF DBusInv, Kept, Gone, KeepersOf, ClosedOutside, ClosedSafely
  <2> QED BY <2>1, <2>2 DEF DBusInv, CallsSound
<1> QED BY DBusInitInv, <1>1, <1>2, PTL DEF DBusSpec

-----------------------------------------------------------------------------
(* Randr *)

EventSet == [kind : {"screen-change", "output-change", "view-change"}, cts : Nat]
BitSet == {"rotate0", "rotate90", "rotate180", "rotate270", "reflectX", "reflectY"}
AskedSet == Int \X (0..3) \X Int

ServerSet == [cts : Nat, time : Nat, x : Int, bits : SUBSET BitSet,
              outputs : SUBSET Output, asked : AskedSet]
SetterSet == [phase : {"none", "info", "set"}, x : Int, bits : SUBSET BitSet,
              time : Nat, outputs : SUBSET Output, asked : AskedSet]
ExtensionSet == [rc : Nat, dc : BOOLEAN, cts : Nat]

\* Type invariant of the extension and of the server.
RandrTypeOK ==
    /\ screen \in ServerSet
    /\ rr \in ExtensionSet
    /\ events \in Seq(EventSet)
    /\ rpc \in {"new", "idle", "output-change", "view-change"}
    /\ objects \in Nat
    /\ setter \in SetterSet
    /\ missed \in BOOLEAN

\* Nothing is to be handled before new_randr has selected its events, and while
\* handlers run their event is the first one.
EventsSound ==
    /\ rpc = "new" => /\ events = <<>> /\ objects = 0 /\ setter.phase = "none"
                      /\ rr.rc \in {0, 1}
    /\ rpc \in {"output-change", "view-change"} => events # <<>> /\ events[1].kind = rpc

\* The references to the extension object, also before its events are selected.
RefsExact ==
    /\ rpc # "new" =>
           rr.rc = 1 + objects + (IF rpc \in {"output-change", "view-change"} THEN 1 ELSE 0)
    /\ rr.rc = 0 => ~rr.dc

\* The configuration time that handle_randr_event will have kept when every event
\* is handled is the server's: it has it, or the last event that renews it does.
Renews(i) == events[i].kind # "view-change"
TimeDue ==
    \/ rr.cts = screen.cts /\ \A i \in 1..Len(events) : ~Renews(i)
    \/ \E i \in 1..Len(events) :
           /\ Renews(i) /\ events[i].cts = screen.cts
           /\ \A j \in 1..Len(events) : j > i => ~Renews(j)
TimeKnown == rr.dc /\ ~missed => TimeDue

\* The outputs that set_view_config has read are those of the view as long as the
\* time it has read is that of the crtc.
OutputsRead ==
    setter.phase = "set" =>
        /\ setter.time <= screen.time
        /\ setter.time = screen.time => setter.outputs = screen.outputs

\* What the server keeps, and what set_view_config is about to send, is what was
\* asked for.
Requested(c) == c.x = c.asked[1] /\ c.bits = Encode(c.asked[2], c.asked[3])

RandrInv ==
    /\ RandrTypeOK /\ EventsSound /\ RefsExact /\ TimeKnown /\ OutputsRead /\ OutputsKept
    /\ Requested(screen) /\ (setter.phase # "none" => Requested(setter))
----------------------------------------------------------------------------
(* Rotations and reflections *)

\* get_view_config decodes what set_view_config encoded: the rotation, and the
\* reflection modulo 4.
LEMMA DecodeEncode ==
    ASSUME NEW c, NEW r \in 0..3, NEW f \in Int, c.bits = Encode(r, f)
    PROVE  /\ Decode(c).x = c.x /\ Decode(c).rotation = r
           /\ Decode(c).reflection = f % 4
<1> DEFINE P(q) == /\ RotationBit[q] \in c.bits
                   /\ \A s \in 0..3 : RotationBit[s] \in c.bits => q <= s
<1>1. \A q \in 0..3 : RotationBit[q] \in c.bits <=> q = r
  BY DEF RotationBit, Encode
<1>2. Decode(c).rotation = CHOOSE q \in 0..3 : P(q)
  BY DEF Decode
<1>3. \A q \in 0..3 : P(q) <=> q = r
  BY <1>1
<1>4. (CHOOSE q \in 0..3 : P(q)) = r
  <2> HIDE DEF P
  <2> QED BY <1>3
<1>5. ("reflectX" \in c.bits <=> f % 2 = 1) /\ ("reflectY" \in c.bits <=> (f \div 2) % 2 = 1)
  BY DEF RotationBit, Encode
<1>6. Decode(c).reflection = f % 4
  BY <1>5 DEF Decode
<1> QED BY <1>2, <1>4, <1>6 DEF Decode

\* The bits of a rotation and a reflection are bits of the server.
LEMMA EncodeType == ASSUME NEW r \in 0..3, NEW f PROVE Encode(r, f) \in SUBSET BitSet
BY DEF Encode, RotationBit, BitSet

----------------------------------------------------------------------------
(* Records *)

\* Updates of one field of the records of the server and of the setter.
LEMMA FieldTypes ==
    /\ \A s \in ServerSet : \A n \in Nat, o \in SUBSET Output :
           /\ [s EXCEPT !.time = n] \in ServerSet /\ [s EXCEPT !.cts = n] \in ServerSet
           /\ [s EXCEPT !.outputs = o] \in ServerSet
    /\ \A s \in ServerSet : \A x \in Int, b \in SUBSET BitSet, a \in AskedSet :
           /\ [s EXCEPT !.x = x] \in ServerSet /\ [s EXCEPT !.bits = b] \in ServerSet
           /\ [s EXCEPT !.asked = a] \in ServerSet
    /\ \A s \in SetterSet : \A n \in Nat, o \in SUBSET Output :
           /\ [s EXCEPT !.time = n] \in SetterSet
           /\ [s EXCEPT !.outputs = o] \in SetterSet
           /\ [s EXCEPT !.phase = "info"] \in SetterSet
           /\ [s EXCEPT !.phase = "set"] \in SetterSet
<1>1. ASSUME NEW s \in ServerSet, NEW n \in Nat, NEW o \in SUBSET Output
      PROVE  /\ [s EXCEPT !.time = n] \in ServerSet /\ [s EXCEPT !.cts = n] \in ServerSet
             /\ [s EXCEPT !.outputs = o] \in ServerSet
  BY DEF ServerSet
<1>2. ASSUME NEW s \in ServerSet, NEW x \in Int, NEW b \in SUBSET BitSet, NEW a \in AskedSet
      PROVE  /\ [s EXCEPT !.x = x] \in ServerSet /\ [s EXCEPT !.bits = b] \in ServerSet
             /\ [s EXCEPT !.asked = a] \in ServerSet
  BY DEF ServerSet
<1>3. ASSUME NEW s \in SetterSet, NEW n \in Nat, NEW o \in SUBSET Output
      PROVE  /\ [s EXCEPT !.time = n] \in SetterSet
             /\ [s EXCEPT !.outputs = o] \in SetterSet
             /\ [s EXCEPT !.phase = "info"] \in SetterSet
             /\ [s EXCEPT !.phase = "set"] \in SetterSet
  BY DEF SetterSet
<1> QED BY <1>1, <1>2, <1>3

\* What a change of another client does to the record of the server.
LEMMA ClientUpdate ==
    ASSUME NEW s \in ServerSet, NEW o \in SUBSET Output,
           NEW t, t = [s EXCEPT !.time = @ + 1, !.outputs = o]
    PROVE  /\ t \in ServerSet /\ t.cts = s.cts /\ t.time = s.time + 1
           /\ t.x = s.x /\ t.bits = s.bits /\ t.asked = s.asked
<1> DEFINE u == [s EXCEPT !.time = @ + 1]
<1>1. u \in ServerSet
  BY DEF ServerSet
<1>2. [u EXCEPT !.outputs = o] \in ServerSet
  <2> HIDE DEF u
  <2> QED BY <1>1, FieldTypes
<1> QED BY <1>2 DEF ServerSet

\* What a hotplug does to the record of the server.
LEMMA HotplugUpdate ==
    ASSUME NEW s \in ServerSet, NEW t, t = [s EXCEPT !.time = @ + 1, !.cts = s.time + 1]
    PROVE  /\ t \in ServerSet /\ t.cts = s.time + 1 /\ t.time = s.time + 1
           /\ t.x = s.x /\ t.bits = s.bits /\ t.asked = s.asked
<1> DEFINE u == [s EXCEPT !.time = @ + 1]
<1>1. u \in ServerSet /\ s.time + 1 \in Nat
  BY DEF ServerSet
<1>2. [u EXCEPT !.cts = s.time + 1] \in ServerSet
  <2> HIDE DEF u
  <2> QED BY <1>1, FieldTypes
<1> QED BY <1>2 DEF ServerSet

\* What a configuration that the server takes does to its record.
LEMMA ConfigUpdate ==
    ASSUME NEW s \in ServerSet, NEW c \in SetterSet,
           NEW t, t = [s EXCEPT !.x = c.x, !.bits = c.bits, !.outputs = c.outputs,
                                !.asked = c.asked]
    PROVE  /\ t \in ServerSet /\ t.cts = s.cts /\ t.time = s.time
           /\ t.x = c.x /\ t.bits = c.bits /\ t.asked = c.asked
<1>0. c.x \in Int /\ c.bits \in SUBSET BitSet /\ c.outputs \in SUBSET Output /\ c.asked \in AskedSet
  BY DEF SetterSet
<1> DEFINE u == [s EXCEPT !.x = c.x]
           v == [u EXCEPT !.bits = c.bits]
           w == [v EXCEPT !.outputs = c.outputs]
<1>1. u \in ServerSet
  BY <1>0, FieldTypes
<1>2. v \in ServerSet
  <2> HIDE DEF u
  <2> QED BY <1>0, <1>1, FieldTypes
<1>3. w \in ServerSet
  <2> HIDE DEF v
  <2> QED BY <1>0, <1>2, FieldTypes
<1>4. [w EXCEPT !.asked = c.asked] \in ServerSet
  <2> HIDE DEF w
  <2> QED BY <1>0, <1>3, FieldTypes
<1> QED BY <1>4 DEF ServerSet

\* The end of handlers drops a reference and may renew the configuration time.
LEMMA HandledUpdate ==
    ASSUME NEW r \in ExtensionSet, NEW c \in Nat, r.rc > 0,
           NEW t, t = [r EXCEPT !.rc = @ - 1, !.cts = c]
    PROVE  t \in ExtensionSet /\ t.rc = r.rc - 1 /\ t.cts = c /\ t.dc = r.dc
<1> DEFINE u == [r EXCEPT !.rc = @ - 1]
<1>1. u \in ExtensionSet
  BY DEF ExtensionSet
<1>2. [u EXCEPT !.cts = c] \in ExtensionSet
  <2> HIDE DEF u
  <2> QED BY <1>1 DEF ExtensionSet
<1> QED BY <1>2 DEF ExtensionSet

----------------------------------------------------------------------------
(* The configuration time *)

\* An event that does not renew the time is queued.
LEMMA ViewQueued ==
    ASSUME RandrTypeOK, TimeDue, UNCHANGED rr, screen'.cts = screen.cts, NEW e \in EventSet,
           e.kind = "view-change", events' = Append(events, e)
    PROVE  TimeDue'
BY DEF RandrTypeOK, TimeDue, Renews

\* An event with the new time of the server is queued.
LEMMA RenewalQueued ==
    ASSUME RandrTypeOK, NEW e \in EventSet, e.kind # "view-change", e.cts = screen'.cts,
           events' = Append(events, e)
    PROVE  TimeDue'
<1>1. /\ Len(events') = Len(events) + 1 /\ Len(events) \in Nat
      /\ events'[Len(events) + 1] = e
  BY DEF RandrTypeOK
<1> QED BY <1>1 DEF TimeDue, Renews

\* The first event is handled, its time kept if it renews the time.
LEMMA FirstHandled ==
    ASSUME RandrTypeOK, TimeDue, UNCHANGED screen, events # <<>>, events' = Tail(events),
           rr'.cts = IF Renews(1) THEN events[1].cts ELSE rr.cts
    PROVE  TimeDue'
<1>1. /\ Len(events) \in Nat \ {0} /\ Len(events') = Len(events) - 1
      /\ \A i \in 1..Len(events') : events'[i] = events[i + 1]
  BY DEF RandrTypeOK
<1>2. CASE rr.cts = screen.cts /\ \A i \in 1..Len(events) : ~Renews(i)
  BY <1>1, <1>2 DEF TimeDue, Renews
<1>3. ASSUME NEW i \in 1..Len(events), Renews(i), events[i].cts = screen.cts,
             \A j \in 1..Len(events) : j > i => ~Renews(j)
      PROVE  TimeDue'
  <2>1. CASE i = 1
    BY <1>1, <1>3, <2>1 DEF TimeDue, Renews
  <2>2. CASE i # 1
    <3>1. i - 1 \in 1..Len(events') /\ events'[i - 1] = events[i]
      BY <1>1, <2>2
    <3>2. \A j \in 1..Len(events') : j > i - 1 => events'[j].kind = "view-change"
      BY <1>1, <1>3 DEF Renews
    <3> QED BY <1>3, <3>1, <3>2 DEF TimeDue, Renews
  <2> QED BY <2>1, <2>2
<1> QED BY <1>2, <1>3 DEF TimeDue

----------------------------------------------------------------------------
(* The invariant *)

\* Nothing was read from the server yet.
LEMMA RandrInitInv == RandrInit => RandrInv
<1> SUFFICES ASSUME RandrInit PROVE RandrInv
  OBVIOUS
<1> USE DEF RandrInit, NotSetting
<1>1. RandrTypeOK
  <2>1. <<0, 0, 0>> \in AskedSet
    BY DEF AskedSet
  <2>2. events \in Seq(EventSet)
    OBVIOUS
  <2>3. {"rotate0"} \in SUBSET BitSet /\ {} \in SUBSET BitSet
    BY DEF BitSet
  <2>4. rr \in ExtensionSet /\ missed \in BOOLEAN
    BY DEF ExtensionSet
  <2>5. screen \in ServerSet
    BY <2>1, <2>3 DEF ServerSet
  <2>6. setter \in SetterSet
    BY <2>1, <2>3 DEF SetterSet
  <2> QED BY <2>2, <2>4, <2>5, <2>6 DEF RandrTypeOK
<1>2. EventsSound /\ RefsExact /\ TimeKnown /\ OutputsRead /\ OutputsKept
  BY DEF EventsSound, RefsExact, TimeKnown, OutputsRead, OutputsKept
<1>3. Requested(screen)
  BY DEF Requested, Encode, RotationBit
<1> QED BY <1>1, <1>2, <1>3 DEF RandrInv
\* Another client or a monitor changes the configuration.
LEMMA ServerInv ==
    ASSUME RandrInv,
           \/ \E outs \in SUBSET Output : OtherClient(outs)
           \/ \E k \in {"screen-change", "output-change"} : Hotplug(k)
    PROVE  RandrInv'
<1>1. ASSUME NEW outs \in SUBSET Output, OtherClient(outs) PROVE RandrInv'
  <2> DEFINE e == [kind |-> "view-change", cts |-> screen.cts]
  <2>1. e \in EventSet /\ e.kind = "view-change"
    BY DEF RandrInv, RandrTypeOK, EventSet, ServerSet
  <2> HIDE DEF e
  <2>2. /\ events' = (IF Selected THEN Append(events, e) ELSE events)
        /\ screen' = [screen EXCEPT !.time = @ + 1, !.outputs = outs]
        /\ UNCHANGED <<rr, rpc, objects, setter, config, missed, overwrote>>
    BY <1>1 DEF OtherClient, e
  <2>0. /\ screen' \in ServerSet /\ screen'.cts = screen.cts /\ screen'.time = screen.time + 1
        /\ screen'.x = screen.x /\ screen'.bits = screen.bits /\ screen'.asked = screen.asked
    BY <2>2, ClientUpdate, ZenonT(30) DEF RandrInv, RandrTypeOK
  <2>3. RandrTypeOK'
    <3>1. events' \in Seq(EventSet)
      BY <2>1, <2>2 DEF RandrInv, RandrTypeOK
    <3>2. screen' \in ServerSet
      BY <2>0
    <3>3. missed' \in BOOLEAN
      BY <2>2 DEF RandrInv, RandrTypeOK
    <3> QED BY <2>2, <3>1, <3>2, <3>3 DEF RandrInv, RandrTypeOK
  <2>4. EventsSound' /\ RefsExact'
    <3>1. Selected => events' # <<>> /\ (events # <<>> => events'[1] = events[1])
      BY <2>1, <2>2 DEF RandrInv, RandrTypeOK
    <3> QED BY <2>2, <3>1 DEF RandrInv, RandrTypeOK, EventsSound, RefsExact, Selected
  <2>5. TimeKnown'
    <3>1. CASE Selected
      BY <2>0, <2>1, <2>2, <3>1, ViewQueued DEF RandrInv, TimeKnown
    <3>2. CASE ~Selected
      BY <2>0, <2>2, <3>2 DEF RandrInv, TimeKnown, TimeDue, Renews
    <3> QED BY <3>1, <3>2
  <2>6. OutputsRead' /\ OutputsKept' /\ Requested(screen)' /\ (setter'.phase # "none" => Requested(setter)')
    <3>1. screen.time \in Nat /\ setter.time \in Nat
      BY DEF RandrInv, RandrTypeOK, ServerSet, SetterSet
    <3> QED BY <2>0, <2>2, <3>1 DEF RandrInv, OutputsRead, OutputsKept, Requested
  <2> QED BY <2>3, <2>4, <2>5, <2>6 DEF RandrInv
<1>2. ASSUME NEW k \in {"screen-change", "output-change"}, Hotplug(k) PROVE RandrInv'
  <2> DEFINE e == [kind |-> k, cts |-> screen.time + 1]
  <2>1. e \in EventSet /\ e.kind # "view-change" /\ e.cts = screen.time + 1
    BY DEF RandrInv, RandrTypeOK, EventSet, ServerSet
  <2> HIDE DEF e
  <2>2. /\ events' = (IF Selected THEN Append(events, e) ELSE events)
        /\ screen' = [screen EXCEPT !.time = @ + 1, !.cts = screen.time + 1]
        /\ missed' = (missed \/ (~Selected /\ rr.rc > 0))
        /\ UNCHANGED <<rr, rpc, objects, setter, config, overwrote>>
    BY <1>2 DEF Hotplug, e
  <2>0. /\ screen' \in ServerSet /\ screen'.cts = screen.time + 1
        /\ screen'.time = screen.time + 1
        /\ screen'.x = screen.x /\ screen'.bits = screen.bits /\ screen'.asked = screen.asked
    BY <2>2, HotplugUpdate DEF RandrInv, RandrTypeOK
  <2>3. RandrTypeOK'
    <3>1. events' \in Seq(EventSet)
      BY <2>1, <2>2 DEF RandrInv, RandrTypeOK
    <3>2. screen' \in ServerSet
      BY <2>0
    <3>3. missed' \in BOOLEAN
      BY <2>2 DEF RandrInv, RandrTypeOK
    <3> QED BY <2>2, <3>1, <3>2, <3>3 DEF RandrInv, RandrTypeOK
  <2>4. EventsSound' /\ RefsExact'
    <3>1. Selected => events' # <<>> /\ (events # <<>> => events'[1] = events[1])
      BY <2>1, <2>2 DEF RandrInv, RandrTypeOK
    <3> QED BY <2>2, <3>1 DEF RandrInv, RandrTypeOK, EventsSound, RefsExact, Selected
  <2>5. TimeKnown'
    <3>1. CASE Selected
      BY <2>0, <2>1, <2>2, <3>1, RenewalQueued DEF RandrInv, TimeKnown
    <3>2. CASE ~Selected
      <4>1. rr.rc \in Nat /\ (rr.rc = 0 => ~rr.dc)
        BY DEF RandrInv, RandrTypeOK, ExtensionSet, RefsExact
      <4>2. rr.rc > 0 => missed'
        BY <2>2, <3>2
      <4> QED BY <2>2, <4>1, <4>2 DEF TimeKnown
    <3> QED BY <3>1, <3>2
  <2>6. OutputsRead' /\ OutputsKept' /\ Requested(screen)' /\ (setter'.phase # "none" => Requested(setter)')
    <3>1. screen.time \in Nat /\ setter.time \in Nat
      BY DEF RandrInv, RandrTypeOK, ServerSet, SetterSet
    <3> QED BY <2>0, <2>2, <3>1 DEF RandrInv, OutputsRead, OutputsKept, Requested
  <2> QED BY <2>3, <2>4, <2>5, <2>6 DEF RandrInv
<1> QED BY <1>1, <1>2

\* What steps that leave the server and the setter alone have in common.
LEMMA SettingKept ==
    ASSUME RandrInv, UNCHANGED <<screen, setter, missed, overwrote>>, RandrTypeOK',
           EventsSound', RefsExact', TimeKnown'
    PROVE  RandrInv'
BY DEF RandrInv, OutputsRead, OutputsKept, Requested

\* The extension object is made, selects its events, loses its connection.
LEMMA ExtensionInv ==
    ASSUME RandrInv, NewRandr \/ SelectInput \/ Lost
    PROVE  RandrInv'
<1>1. CASE NewRandr
  <2>0. rr' \in ExtensionSet /\ rr'.rc = 1
    BY <1>1 DEF NewRandr, RandrInv, RandrTypeOK, ServerSet, ExtensionSet
  <2>1. RandrTypeOK' /\ EventsSound' /\ RefsExact'
    BY <1>1, <2>0 DEF NewRandr, RandrInv, RandrTypeOK, EventsSound, RefsExact
  <2>2. TimeKnown'
    BY <1>1 DEF NewRandr, RandrInv, RandrTypeOK, EventsSound, TimeKnown, TimeDue
  <2> QED BY <1>1, <2>1, <2>2, SettingKept DEF NewRandr
<1>2. CASE SelectInput
  <2>1. RandrTypeOK' /\ EventsSound' /\ RefsExact'
    BY <1>2 DEF SelectInput, RandrInv, RandrTypeOK, EventsSound, RefsExact
  <2>2. TimeKnown'
    BY <1>2 DEF SelectInput, RandrInv, TimeKnown, TimeDue, Renews
  <2> QED BY <1>2, <2>1, <2>2, SettingKept DEF SelectInput
<1>3. CASE Lost
  <2>1. events' \in Seq(EventSet) /\ (rpc # "idle" => events' # <<>> /\ events'[1] = events[1])
    BY <1>3 DEF Lost, RandrInv, RandrTypeOK, EventsSound
  <2>0. rr' \in ExtensionSet /\ rr'.rc = rr.rc /\ ~rr'.dc
    BY <1>3 DEF Lost, RandrInv, RandrTypeOK, ExtensionSet
  <2>2. RandrTypeOK'
    BY <1>3, <2>0, <2>1 DEF Lost, RandrInv, RandrTypeOK
  <2>3. EventsSound' /\ RefsExact' /\ TimeKnown'
    BY <1>3, <2>0, <2>1 DEF Lost, RandrInv, RandrTypeOK, EventsSound, RefsExact, TimeKnown
  <2> QED BY <1>3, <2>2, <2>3, SettingKept DEF Lost
<1> QED BY <1>1, <1>2, <1>3

\* Objects for outputs and views come and go.
LEMMA ObjectsInv == ASSUME RandrInv, MakeObject \/ DropObject PROVE RandrInv'
<1>0. rr \in ExtensionSet /\ rr.rc \in Nat /\ objects \in Nat
  BY DEF RandrInv, RandrTypeOK, ExtensionSet
<1>1. /\ rr' \in ExtensionSet /\ rr'.cts = rr.cts /\ rr'.dc = rr.dc
      /\ rr'.rc - objects' = rr.rc - objects /\ rr'.rc # 0 /\ objects' \in Nat /\ rr'.rc \in Nat
  <2>1. CASE MakeObject
    <3>1. rr' = [rr EXCEPT !.rc = @ + 1] /\ objects' = objects + 1
      BY <2>1 DEF MakeObject
    <3>2. rr' \in ExtensionSet /\ rr'.cts = rr.cts /\ rr'.dc = rr.dc /\ rr'.rc = rr.rc + 1
      BY <1>0, <3>1 DEF ExtensionSet
    <3> QED BY <1>0, <3>1, <3>2
  <2>2. CASE DropObject
    <3>1. rr.rc > 1 /\ objects > 0
      BY <1>0, <2>2 DEF DropObject, UserTurn, RandrInv, RandrTypeOK, RefsExact
    <3> QED BY <1>0, <2>2, <3>1 DEF DropObject, ExtensionSet
  <2> QED BY <2>1, <2>2
<1>2. RandrTypeOK'
  BY <1>1 DEF MakeObject, DropObject, RandrInv, RandrTypeOK
<1>3. RefsExact'
  BY <1>0, <1>1 DEF MakeObject, DropObject, UserTurn, RandrInv, RefsExact
<1>4. EventsSound'
  BY DEF MakeObject, DropObject, UserTurn, RandrInv, EventsSound
<1>5. TimeKnown'
  BY <1>1 DEF MakeObject, DropObject, RandrInv, TimeKnown, TimeDue, Renews
<1> QED BY <1>2, <1>3, <1>4, <1>5, SettingKept DEF MakeObject, DropObject

\* An event is handled, with the handlers of its signal in between.
LEMMA EventInv == ASSUME RandrInv, Event \/ HandlersReturn PROVE RandrInv'
<1>0. events # <<>> /\ events[1] \in EventSet /\ Head(events) = events[1] /\ Tail(events) \in Seq(EventSet)
  BY DEF Event, HandlersReturn, RandrInv, RandrTypeOK, EventsSound
<1>1. CASE Event /\ events[1].kind = "screen-change"
  <2>1. /\ rpc = "idle" /\ rr' = [rr EXCEPT !.cts = events[1].cts] /\ events' = Tail(events)
        /\ UNCHANGED <<rpc, screen, objects, setter, config, missed, overwrote>>
    BY <1>0, <1>1 DEF Event
  <2>3. rr' \in ExtensionSet /\ rr'.cts = events[1].cts /\ rr'.dc = rr.dc /\ rr'.rc = rr.rc
    BY <1>0, <2>1 DEF RandrInv, RandrTypeOK, EventSet, ExtensionSet
  <2>2. RandrTypeOK' /\ EventsSound' /\ RefsExact'
    BY <1>0, <2>1, <2>3 DEF RandrInv, RandrTypeOK, EventsSound, RefsExact
  <2>4. TimeKnown'
    BY <1>0, <1>1, <2>1, <2>3, FirstHandled DEF RandrInv, TimeKnown, Renews
  <2> QED BY <2>1, <2>2, <2>4, SettingKept
<1>2. CASE Event /\ events[1].kind # "screen-change"
  <2>1. /\ rpc = "idle" /\ rr' = [rr EXCEPT !.rc = @ + 1] /\ rpc' = events[1].kind
        /\ UNCHANGED <<events, screen, objects, setter, config, missed, overwrote>>
    BY <1>0, <1>2 DEF Event
  <2>0. /\ rr' \in ExtensionSet /\ rr'.cts = rr.cts /\ rr'.dc = rr.dc
        /\ rr.rc \in Nat /\ rr'.rc = rr.rc + 1
    BY <2>1 DEF RandrInv, RandrTypeOK, ExtensionSet
  <2>2. RandrTypeOK' /\ EventsSound' /\ RefsExact'
    BY <1>0, <1>2, <2>0, <2>1 DEF RandrInv, RandrTypeOK, EventsSound, RefsExact, EventSet
  <2>3. TimeKnown'
    BY <2>0, <2>1 DEF RandrInv, TimeKnown, TimeDue, Renews
  <2> QED BY <2>1, <2>2, <2>3, SettingKept
<1>3. CASE HandlersReturn
  <2>1. /\ rpc \in {"output-change", "view-change"} /\ events[1].kind = rpc
        /\ rr' = [rr EXCEPT !.rc = @ - 1,
                            !.cts = IF rpc = "output-change" THEN events[1].cts ELSE @]
        /\ events' = Tail(events) /\ rpc' = "idle"
        /\ UNCHANGED <<screen, objects, setter, config, missed, overwrote>>
    BY <1>0, <1>3 DEF HandlersReturn, RandrInv, EventsSound
  <2> DEFINE c == IF rpc = "output-change" THEN events[1].cts ELSE rr.cts
  <2>0. /\ rr.rc \in Nat /\ objects \in Nat /\ c \in Nat /\ rr \in ExtensionSet
        /\ rr.rc = 2 + objects
    BY <1>0, <2>1 DEF RandrInv, RandrTypeOK, ExtensionSet, EventSet, RefsExact
  <2>5. rr' = [rr EXCEPT !.rc = @ - 1, !.cts = c]
    BY <2>1
  <2>2. /\ rr' \in ExtensionSet /\ rr'.cts = c /\ rr'.dc = rr.dc /\ rr'.rc = rr.rc - 1
    <3> HIDE DEF c
    <3>1. rr.rc > 0
      BY <2>0
    <3>2. \A t : t = [rr EXCEPT !.rc = @ - 1, !.cts = c] =>
                  t \in ExtensionSet /\ t.rc = rr.rc - 1 /\ t.cts = c /\ t.dc = rr.dc
      BY <2>0, <3>1, HandledUpdate
    <3> QED BY <2>5, <3>2
  <2>6. c = IF Renews(1) THEN events[1].cts ELSE rr.cts
    BY <2>1 DEF Renews
  <2>3. RandrTypeOK' /\ EventsSound' /\ RefsExact'
    BY <1>0, <2>0, <2>1, <2>2 DEF RandrInv, RandrTypeOK, EventsSound, RefsExact
  <2>4. TimeKnown'
    BY <1>0, <2>1, <2>2, <2>6, FirstHandled DEF RandrInv, TimeKnown
  <2> QED BY <2>1, <2>3, <2>4, SettingKept
<1> QED BY <1>1, <1>2, <1>3
\* set_view_config starts, reads the crtc and sends the configuration.
LEMMA SetterInv ==
    ASSUME RandrInv,
           \/ \E x \in X, t \in Rotation, f \in Reflection : SetViewConfig(x, t, f)
           \/ CrtcInfo \/ SetCrtcConfig
    PROVE  RandrInv'
<1>0. NotSetting \in SetterSet /\ NotSetting.phase = "none"
  <2>1. <<0, 0, 0>> \in AskedSet
    BY DEF AskedSet
  <2> QED BY <2>1 DEF NotSetting, SetterSet
<1>1. ASSUME NEW x \in X, NEW t \in Rotation, NEW f \in Reflection, SetViewConfig(x, t, f)
      PROVE  RandrInv'
  <2>1. x \in Int /\ f \in Int /\ t \in 0..3 /\ rpc # "new"
    BY <1>1, RandrAssumption DEF SetViewConfig, UserTurn
  <2>2. setter' = [phase |-> "info", x |-> x, bits |-> Encode(t, f), time |-> 0,
                   outputs |-> {}, asked |-> <<x, t, f>>]
    BY <1>1 DEF SetViewConfig, NotSetting
  <2>3. <<x, t, f>> \in AskedSet /\ Encode(t, f) \in SUBSET BitSet
    BY <2>1, EncodeType DEF AskedSet
  <2>4. setter' \in SetterSet
    BY <2>1, <2>2, <2>3 DEF SetterSet
  <2>5. /\ setter'.phase = "info" /\ setter'.x = x
        /\ setter'.bits = Encode(t, f) /\ setter'.asked = <<x, t, f>>
    BY <2>2
  <2>6. Requested(setter)'
    BY <2>5 DEF Requested
  <2>7. RandrTypeOK' /\ EventsSound' /\ RefsExact'
    BY <1>1, <2>1, <2>4 DEF SetViewConfig, RandrInv, RandrTypeOK, EventsSound, RefsExact
  <2>8. TimeKnown' /\ OutputsRead' /\ OutputsKept' /\ Requested(screen)'
    BY <1>1, <2>5
    DEF SetViewConfig, RandrInv, TimeKnown, TimeDue, Renews, OutputsRead, OutputsKept, Requested
  <2> QED BY <2>6, <2>7, <2>8 DEF RandrInv
<1>2. ASSUME setter' = NotSetting,
             UNCHANGED <<screen, events, overwrote, rr, rpc, objects, config, missed>>
      PROVE  RandrInv'
  BY <1>0, <1>2
  DEF RandrInv, RandrTypeOK, EventsSound, RefsExact, TimeKnown, TimeDue, Renews,
      OutputsRead, OutputsKept, Requested
<1>3. CASE CrtcInfo /\ Answered
  <2> DEFINE n == screen.time
             o == screen.outputs
  <2>1. /\ setter.phase = "info" /\ setter \in SetterSet /\ screen \in ServerSet
        /\ setter' = [setter EXCEPT !.phase = "set", !.time = n, !.outputs = o]
        /\ UNCHANGED <<screen, events, overwrote, rr, rpc, objects, config, missed>>
    BY <1>3 DEF CrtcInfo, RandrInv, RandrTypeOK
  <2>2. n \in Nat /\ o \in SUBSET Output
    BY <2>1 DEF ServerSet
  <2>4. /\ setter' \in SetterSet /\ setter'.phase = "set" /\ setter'.time = n
        /\ setter'.outputs = o
        /\ setter'.x = setter.x /\ setter'.bits = setter.bits /\ setter'.asked = setter.asked
    <3> HIDE DEF n, o
    <3> DEFINE u == [setter EXCEPT !.phase = "set"]
               v == [u EXCEPT !.time = n]
    <3>1. u \in SetterSet
      BY <2>1, <2>2, FieldTypes
    <3>2. v \in SetterSet
      <4> HIDE DEF u
      <4> QED BY <2>2, <3>1, FieldTypes
    <3>3. [v EXCEPT !.outputs = o] \in SetterSet
      <4> HIDE DEF v
      <4> QED BY <2>2, <3>2, FieldTypes
    <3> QED BY <2>1, <3>3 DEF SetterSet
  <2>5. RandrTypeOK' /\ EventsSound' /\ RefsExact'
    BY <2>1, <2>4 DEF RandrInv, RandrTypeOK, EventsSound, RefsExact
  <2>6. TimeKnown' /\ OutputsKept' /\ Requested(screen)' /\ Requested(setter)'
    BY <2>1, <2>4 DEF RandrInv, TimeKnown, TimeDue, Renews, OutputsKept, Requested
  <2>7. OutputsRead'
    BY <2>1, <2>2, <2>4 DEF OutputsRead
  <2> QED BY <2>5, <2>6, <2>7 DEF RandrInv
<1>4. CASE SetCrtcConfig /\ Answered /\ setter.time < screen.time
  <2>1. /\ setter.phase = "set" /\ setter \in SetterSet
        /\ setter' = [setter EXCEPT !.phase = "info"]
        /\ UNCHANGED <<screen, events, overwrote, rr, rpc, objects, config, missed>>
    BY <1>4 DEF SetCrtcConfig, RandrInv, RandrTypeOK
  <2>2. /\ setter' \in SetterSet /\ setter'.phase = "info" /\ setter'.x = setter.x
        /\ setter'.bits = setter.bits /\ setter'.asked = setter.asked
    BY <2>1 DEF SetterSet
  <2>3. RandrTypeOK' /\ EventsSound' /\ RefsExact'
    BY <2>1, <2>2 DEF RandrInv, RandrTypeOK, EventsSound, RefsExact
  <2>4. TimeKnown' /\ OutputsRead' /\ OutputsKept' /\ Requested(screen)' /\ Requested(setter)'
    BY <2>1, <2>2
    DEF RandrInv, TimeKnown, TimeDue, Renews, OutputsRead, OutputsKept, Requested
  <2> QED BY <2>3, <2>4 DEF RandrInv
<1>5. CASE SetCrtcConfig /\ Answered /\ ~(setter.time < screen.time)
  <2> DEFINE e == [kind |-> "view-change", cts |-> screen.cts]
  <2>1. /\ setter.phase = "set" /\ setter \in SetterSet /\ screen \in ServerSet
        /\ screen' = [screen EXCEPT !.x = setter.x, !.bits = setter.bits,
                                    !.outputs = setter.outputs, !.asked = setter.asked]
        /\ overwrote' = (setter.outputs # screen.outputs)
        /\ events' = Append(events, e)
        /\ setter' = NotSetting
        /\ UNCHANGED <<rr, rpc, objects, config, missed>>
    BY <1>5 DEF SetCrtcConfig, RandrInv, RandrTypeOK
  <2>2. e \in EventSet /\ e.kind = "view-change"
    BY <2>1 DEF EventSet, ServerSet
  <2> HIDE DEF e
  <2>3. \A t : t = [screen EXCEPT !.x = setter.x, !.bits = setter.bits,
                                  !.outputs = setter.outputs, !.asked = setter.asked] =>
               /\ t \in ServerSet /\ t.cts = screen.cts /\ t.time = screen.time
               /\ t.x = setter.x /\ t.bits = setter.bits /\ t.asked = setter.asked
    BY <2>1, ConfigUpdate
  <2>4. /\ screen' \in ServerSet /\ screen'.cts = screen.cts /\ screen'.time = screen.time
        /\ screen'.x = setter.x /\ screen'.bits = setter.bits /\ screen'.asked = setter.asked
    BY <2>1, <2>3
  <2>5. /\ events' \in Seq(EventSet) /\ events' # <<>>
        /\ events # <<>> => events'[1] = events[1]
    BY <2>1, <2>2 DEF RandrInv, RandrTypeOK
  <2>6. RandrTypeOK'
    BY <1>0, <2>1, <2>4, <2>5 DEF RandrInv, RandrTypeOK
  <2>7. EventsSound' /\ RefsExact'
    BY <2>1, <2>5 DEF RandrInv, EventsSound, RefsExact
  <2>8. TimeKnown'
    BY <2>1, <2>2, <2>4, ViewQueued DEF RandrInv, TimeKnown
  <2>9. OutputsKept'
    <3>1. setter.time \in Nat /\ screen.time \in Nat
      BY <2>1 DEF SetterSet, ServerSet
    <3>2. setter.outputs = screen.outputs
      BY <1>5, <2>1, <3>1 DEF RandrInv, OutputsRead
    <3> QED BY <2>1, <3>2 DEF OutputsKept
  <2>10. OutputsRead' /\ Requested(screen)'
    BY <1>0, <2>1, <2>4 DEF RandrInv, OutputsRead, Requested
  <2> QED BY <1>0, <2>1, <2>6, <2>7, <2>8, <2>9, <2>10 DEF RandrInv
<1>6. CASE (CrtcInfo \/ SetCrtcConfig) /\ ~Answered
  BY <1>2, <1>6 DEF CrtcInfo, SetCrtcConfig
<1> QED BY <1>1, <1>3, <1>4, <1>5, <1>6

\* Every step keeps the invariant.
LEMMA RandrNextInv == ASSUME RandrInv, [RandrNext]_randrVars PROVE RandrInv'
<1>1. CASE GetViewConfig \/ UNCHANGED randrVars
  BY <1>1, SettingKept
  DEF GetViewConfig, randrVars, RandrInv, RandrTypeOK, EventsSound, RefsExact, TimeKnown,
      TimeDue, Renews
<1> QED
  BY <1>1, ServerInv, ExtensionInv, ObjectsInv, EventInv, SetterInv DEF RandrNext

\* For any number of changes by other clients and hotplugs: the count of the
\* extension is the references to it (make_object_for_output, output_dtor); its
\* configuration time is the server's once every event is handled
\* (handle_randr_event), so that requests are not refused, unless a change fell
\* between the reading of it and the selection in new_randr; set_view_config does
\* not overwrite outputs it has not seen; and get_view_config reports what was set.
THEOREM RandrAlwaysSound == RandrSpec => []RandrSound
<1>1. RandrInv /\ [RandrNext]_randrVars => RandrInv'
  BY RandrNextInv
<1>2. RandrInv => RandrSound
  <2> SUFFICES ASSUME RandrInv PROVE RandrSound
    OBVIOUS
  <2>1. RandrRefsExact
    <3>1. rr.rc \in Nat /\ objects \in Nat
      BY DEF RandrInv, RandrTypeOK, ExtensionSet
    <3> QED BY <3>1 DEF RandrInv, EventsSound, RefsExact, RandrRefsExact
  <2>2. TimeCurrent
    BY DEF RandrInv, TimeKnown, TimeDue, TimeCurrent
  <2>3. ConfigFaithful
    <3>1. screen.asked[2] \in 0..3 /\ screen.asked[3] \in Int
      BY DEF RandrInv, RandrTypeOK, ServerSet, AskedSet
    <3> QED BY <3>1, DecodeEncode DEF RandrInv, Requested, ConfigFaithful
  <2> QED BY <2>1, <2>2, <2>3 DEF RandrInv, RandrSound
<1> QED BY RandrInitInv, <1>1, <1>2, PTL DEF RandrSpec

-----------------------------------------------------------------------------
(* Convert *)

\* What the C rules for % say of a value within one turn of the range.
LEMMA Turns ==
    ASSUME NEW a \in Int, NEW b \in Int, 0 < b
    PROVE  /\ 0 <= a /\ a < b => a % b = a
           /\ -b <= a /\ a < 0 => a % b = a + b
OBVIOUS

\* The sizes of integers.
LEMMA Halves ==
    ASSUME NEW t \in IntType
    PROVE  /\ Half(t) \in Nat /\ Half(t) > 0 /\ MinOf(t) \in Int /\ MaxOf(t) \in Int
           /\ Signed(t) => MinOf(t) = -Half(t) /\ MaxOf(t) = Half(t) - 1
           /\ ~Signed(t) => MinOf(t) = 0 /\ MaxOf(t) = 2 * Half(t) - 1
BY ConvertAssumption DEF Half, MinOf, MaxOf

\* A value of one type as one of another that is wider, or unsigned and as wide.
LEMMA WrapWider ==
    ASSUME NEW s \in IntType, NEW c \in IntType, NEW x \in MinOf(s)..MaxOf(s),
           2 * Half(s) <= Half(c) \/ (Half(c) = Half(s) /\ (Signed(c) => Signed(s)))
    PROVE  Wrap(x, c) = IF x >= 0 \/ Signed(c) THEN x ELSE x + 2 * Half(c)
<1>1. x \in Int /\ MinOf(s) <= x /\ x <= MaxOf(s)
  BY Halves
<1>2. PICK h \in Nat : h = Half(c) /\ h > 0
  BY Halves
<1>3. CASE Signed(c)
  <2>1. -h <= x /\ x < h
    BY <1>1, <1>2, <1>3, Halves
  <2>2. (x + h) % (2 * h) = x + h
    BY <1>1, <1>2, <2>1, Turns
  <2>3. Wrap(x, c) = ((x + h) % (2 * h)) - h
    BY <1>1, <1>2, <1>3, Halves DEF Wrap
  <2>4. QED
    BY <1>1, <1>3, <2>2, <2>3
<1>4. CASE ~Signed(c)
  <2>1. -(2 * h) <= x /\ x < 2 * h
    BY <1>1, <1>2, <1>4, Halves
  <2>2. Wrap(x, c) = x % (2 * h)
    BY <1>1, <1>2, <1>4, <2>1, Halves DEF Wrap
  <2>3. x % (2 * h) = IF x >= 0 THEN x ELSE x + 2 * h
    BY <1>1, <1>2, <2>1, Turns
  <2>4. QED
    BY <1>2, <1>4, <2>2, <2>3
<1>5. QED
  BY <1>3, <1>4

\* A value as one of a type that it fits.
LEMMA WrapFits ==
    ASSUME NEW t \in IntType, NEW x \in MinOf(t)..MaxOf(t)
    PROVE  Wrap(x, t) = x
BY WrapWider, Halves

\* The comparison of integers of two types.
LEMMA LessFacts ==
    ASSUME NEW s \in IntType, NEW t \in IntType, NEW x \in MinOf(s)..MaxOf(s), NEW y \in MinOf(t)..MaxOf(t)
    PROVE  LET c == Common(s, t)
               w(z) == IF z >= 0 \/ Signed(c) THEN z ELSE z + 2 * Half(c)
           IN  Less(x, s, y, t) <=> w(x) < w(y)
<1> DEFINE c == Common(s, t)
<1>1. c \in IntType
  BY DEF Common
<1>2. 2 * Half(s) <= Half(c) \/ (Half(c) = Half(s) /\ (Signed(c) => Signed(s)))
  BY ConvertAssumption DEF Common, Half, IntType, Signed
<1>3. 2 * Half(t) <= Half(c) \/ (Half(c) = Half(t) /\ (Signed(c) => Signed(t)))
  BY ConvertAssumption DEF Common, Half, IntType, Signed
<1> HIDE DEF c
<1>4. Wrap(x, c) = IF x >= 0 \/ Signed(c) THEN x ELSE x + 2 * Half(c)
  BY <1>1, <1>2, WrapWider
<1>5. Wrap(y, c) = IF y >= 0 \/ Signed(c) THEN y ELSE y + 2 * Half(c)
  BY <1>1, <1>3, WrapWider
<1>6. QED
  BY <1>4, <1>5 DEF Less, c

\* The conversion of integers.
LEMMA IntegersExact ==
    ASSUME NEW s \in IntType, NEW t \in IntType, NEW x \in MinOf(s)..MaxOf(s)
    PROVE  LET r == IntegerConversion([type |-> s, v |-> x], t)
           IN  /\ r.ok => r = Borrowed([type |-> t, v |-> x])
               /\ ~r.ok => r = Failed
               /\ x \in MinOf(t)..MaxOf(t) /\ (Signed(s) \/ ~Signed(t) \/ Half(t) > Half(s)) => r.ok
<1> DEFINE refused == Less(MaxOf(t), t, x, s) \/ Less(x, s, MinOf(t), LowerType(t))
           r == IntegerConversion([type |-> s, v |-> x], t)
<1>1. r = IF refused THEN Failed ELSE Borrowed([type |-> t, v |-> Wrap(x, t)])
  BY DEF IntegerConversion
<1>2. x \in Int /\ MinOf(s) <= x /\ x <= MaxOf(s)
  BY Halves
<1>3. MaxOf(t) \in MinOf(t)..MaxOf(t) /\ LowerType(t) \in IntType
      /\ MinOf(t) \in MinOf(LowerType(t))..MaxOf(LowerType(t))
  BY Halves, ConvertAssumption DEF LowerType, IntType, Signed, Half, MinOf, MaxOf
<1> DEFINE c == Common(t, s)
           d == Common(s, LowerType(t))
<1>4. Less(MaxOf(t), t, x, s) <=>
          MaxOf(t) < (IF x >= 0 \/ Signed(c) THEN x ELSE x + 2 * Half(c))
  <2>1. MaxOf(t) >= 0
    BY Halves
  <2>2. QED
    BY <1>3, <2>1, LessFacts
<1>5. Less(x, s, MinOf(t), LowerType(t)) <=>
          (IF x >= 0 \/ Signed(d) THEN x ELSE x + 2 * Half(d))
              < (IF MinOf(t) >= 0 \/ Signed(d) THEN MinOf(t) ELSE MinOf(t) + 2 * Half(d))
  BY <1>3, LessFacts
<1>6. ~refused => x \in MinOf(t)..MaxOf(t)
  BY <1>2, <1>4, <1>5, ConvertAssumption DEF Common, LowerType, IntType, Signed, Half, MinOf, MaxOf
<1>7. x \in MinOf(t)..MaxOf(t) /\ (Signed(s) \/ ~Signed(t) \/ Half(t) > Half(s)) => ~refused
  BY <1>2, <1>4, <1>5, ConvertAssumption DEF Common, LowerType, IntType, Signed, Half, MinOf, MaxOf
<1> HIDE DEF refused
<1>8. CASE refused
  BY <1>1, <1>7, <1>8 DEF Failed
<1>9. CASE ~refused
  <2>1. Wrap(x, t) = x
    BY <1>6, <1>9, WrapFits
  <2>2. r = Borrowed([type |-> t, v |-> x]) /\ r.ok
    BY <1>1, <1>9, <2>1 DEF Borrowed
  <2>3. QED
    BY <2>2
<1>10. QED
  BY <1>8, <1>9

\* A value that is no variant.
PlainValue == UNION {Value(t) : t \in Type \ {"variant"}}

\* What a value is made of.
LEMMA PlainFacts ==
    ASSUME NEW u \in PlainValue
    PROVE  /\ u.type \in Type \ {"variant"}
           /\ u.type \in IntType => u.v \in MinOf(u.type)..MaxOf(u.type)
           /\ u = [type |-> u.type, v |-> u.v]
<1>1. PICK t \in Type \ {"variant"} : u \in Value(t)
  BY DEF PlainValue
<1>2. CASE t \in IntType
  <2>1. u \in [type : {t}, v : MinOf(t)..MaxOf(t)]
    BY <1>1, <1>2 DEF Value, IsInteger
  <2>2. QED
    BY <1>1, <2>1
<1>3. CASE t \notin IntType
  <2>1. u \in [type : {t}, v : {t}]
    BY <1>1, <1>3 DEF Value, IsInteger
  <2>2. QED
    BY <1>1, <1>3, <2>1
<1>4. QED
  BY <1>2, <1>3

\* A value, or the one in it.
LEMMA ValueFacts ==
    ASSUME NEW in \in AnyValue
    PROVE  /\ Unpacked(in) \in PlainValue
           /\ in.type = "variant" => Unpacked(in) = in.v
           /\ in.type # "variant" => Unpacked(in) = in
<1>1. CASE in \in Variant
  <2>1. in.type = "variant" /\ in.v \in UNION {Value(t) : t \in {"nint", "uint", "literal", "object", "nil"}}
    BY <1>1 DEF Variant
  <2>2. in.v \in PlainValue
    BY <2>1 DEF PlainValue, Type, IntType
  <2>3. QED
    BY <2>1, <2>2 DEF Unpacked
<1>2. CASE in \in PlainValue
  <2>1. in.type # "variant"
    BY <1>2, PlainFacts
  <2>2. QED
    BY <1>2, <2>1 DEF Unpacked
<1>3. QED
  BY <1>1, <1>2 DEF AnyValue, PlainValue

\* A conversion to an integer type looks at the value in a variant.
LEMMA ConversionToInteger ==
    ASSUME NEW in \in AnyValue, NEW t \in IntType, IsInteger(Unpacked(in).type)
    PROVE  LET u == Unpacked(in)
               r == TypeConversion(in, t, TRUE)
           IN  /\ u.v \in MinOf(u.type)..MaxOf(u.type)
               /\ r.ok => r.out.v = u.v /\ r.out.type = t
               /\ u.v \in MinOf(t)..MaxOf(t) /\ (Signed(u.type) \/ ~Signed(t) \/ Half(t) > Half(u.type))
                     => r.ok
<1>1. PICK u : u = Unpacked(in)
  OBVIOUS
<1>2. /\ u \in PlainValue /\ u.type \in IntType /\ u.v \in MinOf(u.type)..MaxOf(u.type)
      /\ u = [type |-> u.type, v |-> u.v]
  BY <1>1, ValueFacts, PlainFacts DEF IsInteger
<1>3. t \notin {"variant", "nil", "string"} /\ u.type # "literal"
  BY <1>2 DEF IntType
<1>4. PICK r : r = TypeConversion(in, t, TRUE) /\ r = FlatConversion(u, t, TRUE)
  BY <1>1, <1>3, ValueFacts DEF TypeConversion
<1>0. SUFFICES /\ r.ok => r.out.v = u.v /\ r.out.type = t
               /\ u.v \in MinOf(t)..MaxOf(t) /\ (Signed(u.type) \/ ~Signed(t) \/ Half(t) > Half(u.type))
                     => r.ok
  BY <1>1, <1>2, <1>4
<1>5. CASE u.type = t
  <2>1. r = Borrowed(u)
    BY <1>4, <1>5 DEF FlatConversion
  <2>2. r.ok /\ r.out = u
    BY <2>1 DEF Borrowed
  <2>3. QED
    BY <1>5, <2>2
<1>6. CASE u.type # t
  <2>1. r = IntegerConversion(u, t)
    BY <1>2, <1>3, <1>4, <1>6 DEF FlatConversion, IsInteger
  <2>2. PICK s \in IntType : s = u.type
    BY <1>2
  <2>3. PICK x \in MinOf(s)..MaxOf(s) : x = u.v
    BY <1>2, <2>2
  <2>4. u = [type |-> s, v |-> x]
    BY <1>2, <2>2, <2>3
  <2>5. /\ r.ok => r = Borrowed([type |-> t, v |-> x])
        /\ x \in MinOf(t)..MaxOf(t) /\ (Signed(s) \/ ~Signed(t) \/ Half(t) > Half(s)) => r.ok
    BY <2>1, <2>4, IntegersExact
  <2>6. r.ok => r.out.v = x /\ r.out.type = t
    BY <2>5 DEF Borrowed
  <2>7. QED
    BY <2>2, <2>3, <2>5, <2>6
<1>7. QED
  BY <1>5, <1>6

\* For any widths of narrow and wide integers: a conversion between the types of
\* integers that succeeds keeps the value, and one of a value that fits is
\* refused only from an unsigned type to a signed one that is not wider
\* (integer_conversion).
THEOREM ConversionAlwaysExact == ConvertSpec => []ConversionExact
<1> DEFINE ProbeOK == probe \in [in : AnyValue, outty : Type]
<1>1. ConvertInit => ProbeOK
  BY DEF ConvertInit, Type
<1>2. ProbeOK /\ [ConvertNext]_probe => ProbeOK'
  BY DEF ConvertNext
<1>3. ProbeOK => ConversionExact
  <2> SUFFICES ASSUME ProbeOK PROVE ConversionExact
    OBVIOUS
  <2>1. probe.in \in AnyValue /\ probe.outty \in Type
    OBVIOUS
  <2>2. CASE BothIntegers
    <3>1. probe.outty \in IntType /\ IsInteger(Unpacked(probe.in).type)
      BY <2>2 DEF BothIntegers, IsInteger
    <3>2. LET u == Unpacked(probe.in)
              r == TypeConversion(probe.in, probe.outty, TRUE)
          IN  /\ r.ok => r.out.v = u.v
              /\ u.v \in MinOf(probe.outty)..MaxOf(probe.outty)
                    /\ (Signed(u.type) \/ ~Signed(probe.outty) \/ Half(probe.outty) > Half(u.type)) => r.ok
      BY <2>1, <3>1, ConversionToInteger
    <3>3. QED
      BY <3>2 DEF ConversionExact, ConversionSound, ConversionCompleteButSigned, ConversionComplete, Result
  <2>3. CASE ~BothIntegers
    BY <2>3 DEF ConversionExact, ConversionSound, ConversionCompleteButSigned, ConversionComplete
  <2>4. QED
    BY <2>2, <2>3
<1>4. QED
  BY <1>1, <1>2, <1>3, PTL DEF ConvertSpec

-----------------------------------------------------------------------------
(* Callable *)

\* What conversions of arguments can give.
OutSet == {Converted(a, t).out : a \in AnyValue, t \in Type}

CallTypeOK ==
    /\ closure \in [refs : Nat, user : BOOLEAN, caps : Nat, atypes : Seq(Type)]
    /\ call \in [pc : {"idle", "convert", "function", "out"}, args : Seq(AnyValue), fnats : Seq(Type),
                 xargs : Seq(OutSet), cloned : Seq(BOOLEAN), rc : {0, 1}, error : BOOLEAN]

\* The references of the closure are the one of its user and the one of the call.
ClosureCounted ==
    closure.refs = (IF closure.user THEN 1 ELSE 0) + (IF call.pc # "idle" THEN 1 ELSE 0)

\* The arguments that were converted, in order.
ArgumentsConverted ==
    /\ Len(call.fnats) = Len(call.args) /\ Len(call.cloned) = Len(call.xargs)
    /\ Len(call.xargs) <= Len(call.args)
    /\ call.pc = "function" => Len(call.xargs) = Len(call.args)
    /\ call.pc = "idle" => call.cloned = <<>>
    /\ \A i \in 1..Len(call.xargs) :
           LET r == Converted(call.args[i], call.fnats[i])
           IN  r.ok /\ call.xargs[i] = r.out /\ call.cloned[i] = r.cloned

\* The values that conversions made are the ones the call has to free.
ClonesCounted == clones = Cardinality({i \in 1..Len(call.cloned) : call.cloned[i]})

CallInv == /\ CallTypeOK /\ ClosureCounted /\ ArgumentsConverted /\ ClonesCounted
           /\ GetterOwnsOne

\* The results of conversions.
LEMMA ResultFacts ==
    /\ Failed.ok = FALSE /\ Failed.cloned = FALSE
    /\ \A v : /\ Borrowed(v).ok = TRUE /\ Borrowed(v).cloned = FALSE /\ Borrowed(v).out = v
              /\ Cloned(v).ok = TRUE /\ Cloned(v).cloned = TRUE /\ Cloned(v).out = v
BY DEF Failed, Borrowed, Cloned

\* A conversion between integers owns nothing.
LEMMA IntegerResult ==
    ASSUME NEW u, NEW t
    PROVE  LET r == IntegerConversion(u, t)
           IN  r = Failed \/ (r.ok = TRUE /\ r.cloned = FALSE /\ r.out.type = t)
<1> DEFINE o == [type |-> t, v |-> Wrap(u.v, t)]
<1>1. IntegerConversion(u, t) = Failed \/ IntegerConversion(u, t) = Borrowed(o)
  BY DEF IntegerConversion
<1>2. o.type = t
  OBVIOUS
<1> HIDE DEF o
<1>3. QED
  BY <1>1, <1>2, ResultFacts

\* A conversion that succeeds gives a value of the type that was asked for, and
\* whoever gets it owns what was cloned, or what the value given owned.
LEMMA FlatFacts ==
    ASSUME NEW u, NEW t, NEW b \in BOOLEAN
    PROVE  LET r == FlatConversion(u, t, b)
           IN  /\ r.ok \in BOOLEAN /\ r.cloned \in BOOLEAN
               /\ r.ok => r.out.type = t
               /\ ~r.ok => ~r.cloned
               /\ u.type = "nil" /\ t = "object" => ~r.ok
               /\ b = FALSE /\ r.ok /\ t # "nil" =>
                      \/ r.cloned /\ t \in {"variant", "string"} /\ ~(u.type = "string" /\ t = "string")
                            /\ (t = "string" => u.type = "literal")
                      \/ ~r.cloned /\ r.out = u
                      \/ ~r.cloned /\ IsInteger(u.type) /\ t \in IntType \cup {"float"}
<1>1. PICK r : r = FlatConversion(u, t, b)
  OBVIOUS
<1>0. SUFFICES /\ r.ok \in BOOLEAN /\ r.cloned \in BOOLEAN
               /\ r.ok => r.out.type = t
               /\ ~r.ok => ~r.cloned
               /\ u.type = "nil" /\ t = "object" => ~r.ok
               /\ b = FALSE /\ r.ok /\ t # "nil" =>
                      \/ r.cloned /\ t \in {"variant", "string"} /\ ~(u.type = "string" /\ t = "string")
                            /\ (t = "string" => u.type = "literal")
                      \/ ~r.cloned /\ r.out = u
                      \/ ~r.cloned /\ IsInteger(u.type) /\ t \in IntType \cup {"float"}
  BY <1>1
<1>2. CASE u.type = t
  <2>1. r = Borrowed(u)
    BY <1>1, <1>2 DEF FlatConversion
  <2>2. QED
    BY <1>2, <2>1, ResultFacts
<1>3. CASE u.type # t /\ t = "variant"
  <2> DEFINE o == [type |-> "variant", v |-> u]
  <2>1. r = Cloned(o) /\ o.type = "variant"
    BY <1>1, <1>3 DEF FlatConversion
  <2> HIDE DEF o
  <2>2. QED
    BY <1>3, <2>1, ResultFacts
<1>4. CASE u.type # t /\ t # "variant" /\ u.type = "literal" /\ t = "string"
  <2> DEFINE o == [type |-> "string", v |-> "literal"]
  <2>1. ((r = Borrowed(o) /\ b = TRUE) \/ r = Cloned(o)) /\ o.type = "string"
    BY <1>1, <1>4 DEF FlatConversion
  <2> HIDE DEF o
  <2>2. QED
    BY <1>4, <2>1, ResultFacts
<1>5. CASE u.type # t /\ t = "nil"
  <2> DEFINE o == [type |-> "nil", v |-> "nil"]
  <2>1. r = Borrowed(o) /\ o.type = "nil"
    BY <1>1, <1>5 DEF FlatConversion
  <2> HIDE DEF o
  <2>2. QED
    BY <1>5, <2>1, ResultFacts
<1>6. CASE /\ u.type # t /\ t \notin {"variant", "nil"} /\ ~(u.type = "literal" /\ t = "string")
           /\ IsInteger(u.type) /\ IsInteger(t)
  <2>1. r = IntegerConversion(u, t)
    BY <1>1, <1>6 DEF FlatConversion
  <2>2. r = Failed \/ (r.ok = TRUE /\ r.cloned = FALSE /\ r.out.type = t)
    BY <2>1, IntegerResult
  <2>3. t \in IntType /\ t # "object" /\ u.type # "nil"
    BY <1>6 DEF IsInteger, IntType
  <2>4. CASE r = Failed
    BY <2>4, ResultFacts
  <2>5. CASE r.ok = TRUE /\ r.cloned = FALSE /\ r.out.type = t
    BY <1>6, <2>3, <2>5
  <2>6. QED
    BY <2>2, <2>4, <2>5
<1>7. CASE /\ u.type # t /\ t \notin {"variant", "nil"} /\ ~(u.type = "literal" /\ t = "string")
           /\ ~(IsInteger(u.type) /\ IsInteger(t)) /\ IsInteger(u.type) /\ t = "float"
  <2> DEFINE o == [type |-> "float", v |-> u.v]
  <2>1. r = Borrowed(o) /\ o.type = "float"
    BY <1>1, <1>7 DEF FlatConversion
  <2> HIDE DEF o
  <2>2. QED
    BY <1>7, <2>1, ResultFacts
<1>8. CASE /\ u.type # t /\ t \notin {"variant", "nil"} /\ ~(u.type = "literal" /\ t = "string")
           /\ ~(IsInteger(u.type) /\ IsInteger(t)) /\ ~(IsInteger(u.type) /\ t = "float")
  <2>1. r = Failed
    BY <1>1, <1>8 DEF FlatConversion
  <2>2. QED
    BY <2>1, ResultFacts
<1>9. QED
  BY <1>2, <1>3, <1>4, <1>5, <1>6, <1>7, <1>8

\* The conversion of an argument.
LEMMA ConvertedFacts ==
    ASSUME NEW a \in AnyValue, NEW t \in Type
    PROVE  LET r == Converted(a, t)
               u == Unpacked(a)
           IN  /\ r.ok \in BOOLEAN /\ r.cloned \in BOOLEAN
               /\ r.ok => /\ r.out.type = t
                          /\ IsInteger(u.type) /\ IsInteger(t) => r.out.v = u.v
                          /\ u.type = "nil" /\ t = "object" => r.cloned
<1>1. PICK r : r = Converted(a, t)
  OBVIOUS
<1>2. PICK u : u = Unpacked(a)
  OBVIOUS
<1>3. PICK w : w = TypeConversion(a, t, TRUE)
  OBVIOUS
<1>4. \/ w = FlatConversion(a, t, TRUE) /\ (a.type # "variant" \/ t \in {"variant", "nil"})
      \/ w = FlatConversion(u, t, TRUE) /\ a.type = "variant"
  BY <1>2, <1>3, ValueFacts DEF TypeConversion
<1>5. /\ w.ok \in BOOLEAN /\ w.cloned \in BOOLEAN /\ (w.ok => w.out.type = t)
      /\ u.type = "nil" /\ t = "object" => ~w.ok
  <2>1. CASE w = FlatConversion(a, t, TRUE) /\ (a.type # "variant" \/ t \in {"variant", "nil"})
    <3>1. /\ w.ok \in BOOLEAN /\ w.cloned \in BOOLEAN /\ (w.ok => w.out.type = t)
          /\ a.type = "nil" /\ t = "object" => ~w.ok
      BY <2>1, FlatFacts
    <3>2. t = "object" => u = a
      BY <1>2, <2>1, ValueFacts
    <3>3. QED
      BY <3>1, <3>2
  <2>2. CASE w = FlatConversion(u, t, TRUE) /\ a.type = "variant"
    BY <2>2, FlatFacts
  <2>3. QED
    BY <1>4, <2>1, <2>2
<1>6. IsInteger(u.type) /\ IsInteger(t) /\ w.ok => w.out.v = u.v
  BY <1>2, <1>3, ConversionToInteger DEF IsInteger
<1>7. r = IF ~w.ok /\ a.type = "nil" THEN NilDefault(t) ELSE w
  BY <1>1, <1>3 DEF Converted
<1>8. CASE ~w.ok /\ a.type = "nil"
  <2>1. r = NilDefault(t) /\ u.type = "nil"
    BY <1>2, <1>7, <1>8, ValueFacts
  <2> DEFINE n == [type |-> t, v |-> "new object"]
             d == [type |-> t, v |-> "dead_weak_ref"]
             e == [type |-> t, v |-> "empty"]
  <2>2. n.type = t /\ d.type = t /\ e.type = t
    OBVIOUS
  <2>3. \/ r = Cloned(n) \/ (t # "object" /\ (r = Borrowed(d) \/ r = Borrowed(e))) \/ r = Failed
    BY <2>1 DEF NilDefault
  <2> HIDE DEF n, d, e
  <2>4. ~IsInteger(u.type)
    BY <2>1 DEF IsInteger, IntType
  <2>5. /\ r.ok \in BOOLEAN /\ r.cloned \in BOOLEAN /\ (r.ok => r.out.type = t)
        /\ r.ok /\ t = "object" => r.cloned
    BY <2>2, <2>3, ResultFacts
  <2>6. QED
    BY <1>1, <1>2, <2>4, <2>5
<1>9. CASE ~(~w.ok /\ a.type = "nil")
  <2>1. r = w
    BY <1>7, <1>9
  <2>2. QED
    BY <1>1, <1>2, <1>5, <1>6, <2>1
<1>10. QED
  BY <1>8, <1>9

\* The pieces of a value are counted by its type and that of the value in it.
LEMMA PiecesFacts ==
    ASSUME NEW v
    PROVE  /\ Pieces(v) \in Nat
           /\ v.type \in IntType \cup {"float", "nil"} => Pieces(v) = 0
           /\ v.type = "variant" => Pieces(v) = 1 + Owned(v.v.type)
           /\ v.type # "variant" => Pieces(v) = Owned(v.type)
BY DEF Pieces, Owned, IntType

\* What a typed getter leaves its caller.
LEMMA GetterFacts ==
    ASSUME NEW a \in AnyValue, NEW t \in Type
    PROVE  LET r == TypeConversion(a, t, FALSE)
               live == IF r.cloned THEN Pieces(r.out) ELSE IF r.ok THEN Pieces(a) ELSE 0
           IN  /\ r.ok \in BOOLEAN
               /\ ~r.ok => live = 0
               /\ r.ok => live = Pieces(r.out) + Strayed(a, t, r.cloned)
<1>1. PICK r : r = TypeConversion(a, t, FALSE)
  OBVIOUS
<1>2. PICK u : u = Unpacked(a)
  OBVIOUS
<1>3. \/ r = FlatConversion(a, t, FALSE) /\ (a.type # "variant" \/ t \in {"variant", "nil"})
      \/ r = FlatConversion(u, t, FALSE) /\ a.type = "variant" /\ u = a.v /\ t \notin {"variant", "nil"}
  BY <1>1, <1>2 DEF TypeConversion, Unpacked
<1>4. r.ok \in BOOLEAN /\ r.cloned \in BOOLEAN /\ (~r.ok => ~r.cloned) /\ (r.ok => r.out.type = t)
  <2>1. CASE r = FlatConversion(a, t, FALSE)
    BY <2>1, FlatFacts
  <2>2. CASE r = FlatConversion(u, t, FALSE)
    BY <2>2, FlatFacts
  <2>3. QED
    BY <1>3, <2>1, <2>2
<1> DEFINE live == IF r.cloned THEN Pieces(r.out) ELSE IF r.ok THEN Pieces(a) ELSE 0
<1>5. ~r.ok => live = 0
  BY <1>4
<1>6. ASSUME r.ok, t = "nil" PROVE live = Pieces(r.out) + Strayed(a, t, r.cloned)
  <2>1. r = FlatConversion(a, t, FALSE)
    BY <1>3, <1>6
  <2>2. ~r.cloned
    BY <1>6, <2>1, ResultFacts DEF FlatConversion
  <2>3. Pieces(r.out) = 0 /\ Pieces(a) \in Nat
    BY <1>4, <1>6, PiecesFacts
  <2>4. QED
    BY <1>6, <2>2, <2>3 DEF Strayed
<1>7. ASSUME r.ok, t # "nil", r.cloned PROVE live = Pieces(r.out) + Strayed(a, t, r.cloned)
  <2>1. Strayed(a, t, r.cloned) = 0
    BY <1>7 DEF Strayed
  <2>2. live = Pieces(r.out)
    BY <1>7
  <2>3. Pieces(r.out) \in Nat
    BY PiecesFacts
  <2> HIDE DEF live
  <2>4. QED
    BY <2>1, <2>2, <2>3
<1>8. ASSUME r.ok, t # "nil", ~r.cloned PROVE live = Pieces(r.out) + Strayed(a, t, r.cloned)
  <2>1. CASE r = FlatConversion(a, t, FALSE) /\ (a.type # "variant" \/ t \in {"variant", "nil"})
    <3>1. r.out = a \/ (IsInteger(a.type) /\ t \in IntType \cup {"float"})
      BY <1>8, <2>1, FlatFacts
    <3>2. Strayed(a, t, r.cloned) = 0
      BY <1>8, <2>1 DEF Strayed
    <3>3. Pieces(r.out) = Pieces(a) /\ Pieces(a) \in Nat
      BY <1>4, <1>8, <3>1, PiecesFacts DEF IsInteger
    <3>4. QED
      BY <1>8, <3>2, <3>3
  <2>2. CASE /\ r = FlatConversion(u, t, FALSE) /\ a.type = "variant" /\ u = a.v
             /\ t \notin {"variant", "nil"}
    <3>1. r.out = u \/ (IsInteger(u.type) /\ t \in IntType \cup {"float"})
      BY <1>8, <2>2, FlatFacts
    <3>2. Strayed(a, t, r.cloned) = 1
      BY <1>8, <2>2 DEF Strayed
    <3>3. r.out.type # "variant" /\ Pieces(r.out) = Owned(t)
      BY <1>4, <1>8, <2>2, PiecesFacts
    <3>4. Owned(u.type) = Owned(t)
      <4>1. CASE r.out = u
        BY <1>4, <1>8, <4>1
      <4>2. CASE IsInteger(u.type) /\ t \in IntType \cup {"float"}
        BY <4>2 DEF IsInteger, IntType, Owned
      <4>3. QED
        BY <3>1, <4>1, <4>2
    <3>5. Pieces(a) = 1 + Owned(t) /\ Owned(t) \in Nat
      BY <2>2, <3>4, PiecesFacts DEF Owned
    <3>6. QED
      BY <1>8, <3>2, <3>3, <3>5
  <2>3. QED
    BY <1>3, <2>1, <2>2
<1>9. QED
  BY <1>1, <1>4, <1>5, <1>6, <1>7, <1>8

\* Where a sequence of Booleans is TRUE.
TrueAt(s) == {i \in 1..Len(s) : s[i]}

\* One more.
LEMMA TrueAtAppend ==
    ASSUME NEW s \in Seq(BOOLEAN), NEW b \in BOOLEAN
    PROVE  /\ Cardinality(TrueAt(s)) \in Nat
           /\ Cardinality(TrueAt(Append(s, b))) = Cardinality(TrueAt(s)) + IF b THEN 1 ELSE 0
<1>1. Len(s) \in Nat
  OBVIOUS
<1>2. IsFiniteSet(1..Len(s))
  BY <1>1, FS_Interval
<1>3. IsFiniteSet(TrueAt(s)) /\ Cardinality(TrueAt(s)) \in Nat
  BY <1>2, FS_Subset, FS_CardinalityType DEF TrueAt
<1>4. Len(s) + 1 \notin TrueAt(s)
  BY <1>1 DEF TrueAt
<1>5. PICK z : z = Append(s, b)
  OBVIOUS
<1>6. Len(z) = Len(s) + 1 /\ z[Len(s) + 1] = b /\ \A i \in 1..Len(s) : z[i] = s[i]
  BY <1>1, <1>5
<1>7. CASE b = TRUE
  <2>1. TrueAt(z) = TrueAt(s) \cup {Len(s) + 1}
    <3>1. \A i : i \in 1..Len(z) <=> i \in 1..Len(s) \/ i = Len(s) + 1
      BY <1>1, <1>6
    <3>2. z[Len(s) + 1]
      BY <1>6, <1>7
    <3>3. \A i \in 1..Len(s) : z[i] <=> s[i]
      BY <1>6
    <3>4. QED
      BY <3>1, <3>2, <3>3 DEF TrueAt
  <2>2. Cardinality(TrueAt(s) \cup {Len(s) + 1}) = Cardinality(TrueAt(s)) + 1
    BY <1>3, <1>4, FS_AddElement
  <2>3. QED
    BY <1>3, <1>5, <1>7, <2>1, <2>2
<1>8. CASE b = FALSE
  <2>1. TrueAt(z) = TrueAt(s)
    BY <1>1, <1>6, <1>8 DEF TrueAt
  <2>2. QED
    BY <1>3, <1>5, <1>8, <2>1
<1>9. QED
  BY <1>7, <1>8

\* The parts of the closure and of the call.
LEMMA CallParts ==
    ASSUME CallTypeOK
    PROVE  /\ closure.refs \in Nat /\ closure.user \in BOOLEAN /\ closure.caps \in Nat
           /\ closure.atypes \in Seq(Type)
           /\ call.pc \in {"idle", "convert", "function", "out"} /\ call.args \in Seq(AnyValue)
           /\ call.fnats \in Seq(Type) /\ call.xargs \in Seq(OutSet) /\ call.cloned \in Seq(BOOLEAN)
BY DEF CallTypeOK

\* A step that leaves what was converted alone.
LEMMA SameConverted ==
    ASSUME CallInv, clones' = clones, call'.args = call.args, call'.fnats = call.fnats,
           call'.xargs = call.xargs, call'.cloned = call.cloned,
           call'.pc = "function" => Len(call.xargs) = Len(call.args), call'.pc = "idle" => call.cloned = <<>>
    PROVE  ArgumentsConverted' /\ ClonesCounted'
BY DEF CallInv, ArgumentsConverted, ClonesCounted

\* Closures are made and dropped.
LEMMA CreateClosureInv ==
    ASSUME CallInv, NEW n \in 0..MaxNargs, NEW ts \in Seq(Type), CreateClosure(n, ts)
    PROVE  CallInv'
<1>1. /\ closure = NoClosure /\ call.pc = "idle" /\ call' = call /\ clones' = clones /\ got' = NotGot
      /\ closure' = [refs |-> 1, user |-> TRUE, caps |-> n, atypes |-> ts]
  BY DEF CreateClosure
<1>2. n \in Nat
  BY CallableAssumption
<1>3. closure' \in [refs : Nat, user : BOOLEAN, caps : Nat, atypes : Seq(Type)]
      /\ closure'.refs = 1 /\ closure'.user = TRUE
  BY <1>1, <1>2
<1>4. CallTypeOK'
  BY <1>1, <1>3 DEF CallInv, CallTypeOK
<1>5. ClosureCounted'
  BY <1>1, <1>3 DEF ClosureCounted
<1>6. ArgumentsConverted' /\ ClonesCounted'
  BY <1>1, SameConverted DEF CallInv, ArgumentsConverted
<1>7. GetterOwnsOne'
  BY <1>1 DEF GetterOwnsOne, NotGot
<1>8. QED
  BY <1>4, <1>5, <1>6, <1>7 DEF CallInv

\* The closure after one reference was dropped.
LEMMA DroppedFacts ==
    ASSUME NEW c \in [refs : Nat, user : BOOLEAN, caps : Nat, atypes : Seq(Type)], c.refs >= 1,
           c.refs = 1 => c.user = FALSE
    PROVE  /\ Dropped(c) \in [refs : Nat, user : BOOLEAN, caps : Nat, atypes : Seq(Type)]
           /\ Dropped(c).refs = c.refs - 1 /\ Dropped(c).user = c.user
<1> DEFINE e == <<>>
<1>1. e \in Seq(Type)
  OBVIOUS
<1>2. NoClosure = [refs |-> 0, user |-> FALSE, caps |-> 0, atypes |-> e]
  BY DEF NoClosure
<1> HIDE DEF e
<1>3. CASE c.refs = 1
  <2>1. Dropped(c) = NoClosure
    BY <1>3 DEF Dropped
  <2>2. /\ NoClosure \in [refs : Nat, user : BOOLEAN, caps : Nat, atypes : Seq(Type)]
        /\ NoClosure.refs = 0 /\ NoClosure.user = FALSE
    BY <1>1, <1>2
  <2>3. c.refs - 1 = 0 /\ c.user = FALSE
    BY <1>3
  <2>4. QED
    BY ONLY <2>1, <2>2, <2>3
<1>4. CASE c.refs # 1
  BY <1>4 DEF Dropped
<1>5. QED
  BY <1>3, <1>4

\* One more element.
LEMMA AppendFacts ==
    ASSUME NEW S, NEW s \in Seq(S), NEW e \in S
    PROVE  /\ Append(s, e) \in Seq(S) /\ Len(Append(s, e)) = Len(s) + 1 /\ Append(s, e)[Len(s) + 1] = e
           /\ \A j \in 1..Len(s) : Append(s, e)[j] = s[j]
OBVIOUS

\* User code gives its reference up.
LEMMA DropClosureInv == ASSUME CallInv, DropClosure PROVE CallInv'
<1> DEFINE c == [closure EXCEPT !.user = FALSE]
<1>1. /\ closure.user /\ closure' = Dropped(c) /\ call' = call /\ clones' = clones /\ got' = got
  BY DEF DropClosure
<1>2. /\ c \in [refs : Nat, user : BOOLEAN, caps : Nat, atypes : Seq(Type)]
      /\ c.refs = closure.refs /\ c.user = FALSE
  BY DEF CallInv, CallTypeOK
<1>3. closure.refs \in Nat /\ closure.refs = 1 + (IF call.pc # "idle" THEN 1 ELSE 0)
  BY <1>1, CallParts DEF CallInv, ClosureCounted
<1> HIDE DEF c
<1>4. /\ closure' \in [refs : Nat, user : BOOLEAN, caps : Nat, atypes : Seq(Type)]
      /\ closure'.refs = closure.refs - 1 /\ closure'.user = FALSE
  <2>1. c.refs >= 1 /\ (c.refs = 1 => c.user = FALSE)
    BY <1>2, <1>3
  <2>2. /\ Dropped(c) \in [refs : Nat, user : BOOLEAN, caps : Nat, atypes : Seq(Type)]
        /\ Dropped(c).refs = c.refs - 1 /\ Dropped(c).user = c.user
    BY <1>2, <2>1, DroppedFacts
  <2>3. QED
    BY <1>1, <1>2, <2>2
<1>5. CallTypeOK'
  BY <1>1, <1>4 DEF CallInv, CallTypeOK
<1>6. ClosureCounted'
  BY <1>1, <1>3, <1>4 DEF ClosureCounted
<1>7. ArgumentsConverted' /\ ClonesCounted'
  BY <1>1, SameConverted DEF CallInv, ArgumentsConverted
<1>8. GetterOwnsOne'
  BY <1>1 DEF CallInv, GetterOwnsOne
<1>9. QED
  BY <1>5, <1>6, <1>7, <1>8 DEF CallInv

\* A step of the call that leaves the closure alone.
LEMMA SameClosure ==
    ASSUME CallInv, closure' = closure, got' = got, (call'.pc = "idle") <=> (call.pc = "idle")
    PROVE  ClosureCounted' /\ GetterOwnsOne'
BY DEF CallInv, ClosureCounted, GetterOwnsOne

\* A call begins.
LEMMA StartCallInv ==
    ASSUME CallInv, NEW args \in Seq(AnyValue), StartCall(args)
    PROVE  CallInv'
<1> DEFINE E == <<>>
<1>1. E \in Seq(OutSet) /\ E \in Seq(BOOLEAN) /\ Len(E) = 0
  OBVIOUS
<1>2. /\ call.pc = "idle" /\ closure.user /\ Len(args) = Len(closure.atypes)
      /\ closure' = [closure EXCEPT !.refs = 2] /\ clones' = clones /\ got' = got
      /\ call' = [pc |-> "convert", args |-> args, fnats |-> closure.atypes, xargs |-> E, cloned |-> E,
                  rc |-> 0, error |-> FALSE]
  BY DEF StartCall, NoCall
<1>3. call.cloned = E
  BY <1>2 DEF CallInv, ArgumentsConverted
<1> HIDE DEF E
<1>4. closure.atypes \in Seq(Type)
  BY CallParts DEF CallInv
<1>5. /\ call' \in [pc : {"idle", "convert", "function", "out"}, args : Seq(AnyValue), fnats : Seq(Type),
                    xargs : Seq(OutSet), cloned : Seq(BOOLEAN), rc : {0, 1}, error : BOOLEAN]
      /\ call'.pc = "convert" /\ call'.args = args /\ call'.fnats = closure.atypes /\ call'.xargs = E
      /\ call'.cloned = E
  BY <1>1, <1>2, <1>4
<1>6. /\ closure' \in [refs : Nat, user : BOOLEAN, caps : Nat, atypes : Seq(Type)]
      /\ closure'.refs = 2 /\ closure'.user = closure.user
  BY <1>2 DEF CallInv, CallTypeOK
<1>7. CallTypeOK'
  BY <1>5, <1>6 DEF CallTypeOK
<1>8. ClosureCounted'
  BY <1>2, <1>5, <1>6 DEF ClosureCounted
<1>9. ArgumentsConverted'
  <2>1. Len(args) \in Nat
    OBVIOUS
  <2>2. QED
    BY <1>1, <1>2, <1>5, <2>1 DEF ArgumentsConverted
<1>10. ClonesCounted'
  BY <1>2, <1>3, <1>5 DEF CallInv, ClonesCounted
<1>11. GetterOwnsOne'
  BY <1>2 DEF CallInv, GetterOwnsOne
<1>12. QED
  BY <1>7, <1>8, <1>9, <1>10, <1>11 DEF CallInv

\* One more argument.
LEMMA ConvertArgumentInv == ASSUME CallInv, ConvertArgument PROVE CallInv'
<1>1. /\ call.args \in Seq(AnyValue) /\ call.fnats \in Seq(Type) /\ call.xargs \in Seq(OutSet)
      /\ call.cloned \in Seq(BOOLEAN) /\ Len(call.args) \in Nat /\ Len(call.xargs) \in Nat
      /\ Len(call.fnats) = Len(call.args) /\ Len(call.cloned) = Len(call.xargs)
  BY CallParts DEF CallInv, ArgumentsConverted
<1>2. PICK i \in Nat : i = Len(call.xargs) + 1
  BY <1>1
<1>3. i \in 1..Len(call.args) /\ call.pc = "convert"
  BY <1>1, <1>2 DEF ConvertArgument
<1>4. PICK a \in AnyValue, t \in Type : a = call.args[i] /\ t = call.fnats[i]
  BY <1>1, <1>3
<1>5. PICK r : r = Converted(a, t)
  OBVIOUS
<1>6. r.ok \in BOOLEAN /\ r.cloned \in BOOLEAN /\ r.out \in OutSet
  BY <1>5, ConvertedFacts DEF OutSet
<1>7. closure' = closure /\ got' = got
  BY DEF ConvertArgument
<1>8. CASE r.ok
  <2>1. /\ call' = [call EXCEPT !.xargs = Append(call.xargs, r.out), !.cloned = Append(call.cloned, r.cloned)]
        /\ clones' = IF r.cloned THEN clones + 1 ELSE clones
    BY <1>2, <1>4, <1>5, <1>8 DEF ConvertArgument
  <2>2. PICK x : x = Append(call.xargs, r.out)
    OBVIOUS
  <2>3. PICK c : c = Append(call.cloned, r.cloned)
    OBVIOUS
  <2>4. x \in Seq(OutSet) /\ Len(x) = i /\ x[i] = r.out /\ \A j \in 1..(i - 1) : x[j] = call.xargs[j]
    BY <1>1, <1>2, <1>6, <2>2, AppendFacts
  <2>5. c \in Seq(BOOLEAN) /\ Len(c) = i /\ c[i] = r.cloned /\ \A j \in 1..(i - 1) : c[j] = call.cloned[j]
    BY <1>1, <1>2, <1>6, <2>3, AppendFacts
  <2>6. /\ call' \in [pc : {"idle", "convert", "function", "out"}, args : Seq(AnyValue), fnats : Seq(Type),
                      xargs : Seq(OutSet), cloned : Seq(BOOLEAN), rc : {0, 1}, error : BOOLEAN]
        /\ call'.pc = "convert" /\ call'.args = call.args /\ call'.fnats = call.fnats
        /\ call'.xargs = x /\ call'.cloned = c
    BY <1>3, <2>1, <2>2, <2>3, <2>4, <2>5 DEF CallInv, CallTypeOK
  <2>7. CallTypeOK'
    BY <1>7, <2>6 DEF CallInv, CallTypeOK
  <2>8. ClosureCounted' /\ GetterOwnsOne'
    BY <1>3, <1>7, <2>6, SameClosure
  <2>9. ArgumentsConverted'
    <3>1. ASSUME NEW j \in 1..i
          PROVE  LET s == Converted(call.args[j], call.fnats[j])
                 IN  s.ok /\ x[j] = s.out /\ c[j] = s.cloned
      <4>1. CASE j = i
        BY <1>4, <1>5, <1>8, <2>4, <2>5, <4>1
      <4>2. CASE j # i
        <5>1. j \in 1..(i - 1) /\ j \in 1..Len(call.xargs)
          BY <1>2, <4>2
        <5>2. QED
          BY <2>4, <2>5, <5>1 DEF CallInv, ArgumentsConverted
      <4>3. QED
        BY <4>1, <4>2
    <3>2. i <= Len(call.args)
      BY <1>3
    <3>3. QED
      BY <1>1, <2>4, <2>5, <2>6, <3>1, <3>2 DEF ArgumentsConverted
  <2>10. ClonesCounted'
    <3>1. clones = Cardinality(TrueAt(call.cloned))
      BY DEF CallInv, ClonesCounted, TrueAt
    <3>2. clones \in Nat /\ Cardinality(TrueAt(c)) = clones + IF r.cloned THEN 1 ELSE 0
      BY <1>1, <1>6, <2>3, <3>1, TrueAtAppend
    <3>3. clones' = Cardinality(TrueAt(c))
      BY <2>1, <3>2
    <3>4. QED
      BY <2>6, <3>3 DEF ClonesCounted, TrueAt
  <2>11. QED
    BY <2>7, <2>8, <2>9, <2>10 DEF CallInv
<1>9. CASE ~r.ok
  <2>1. call' = [call EXCEPT !.rc = 1, !.pc = "out"] /\ clones' = clones
    BY <1>2, <1>4, <1>5, <1>9 DEF ConvertArgument
  <2>2. /\ call' \in [pc : {"idle", "convert", "function", "out"}, args : Seq(AnyValue), fnats : Seq(Type),
                      xargs : Seq(OutSet), cloned : Seq(BOOLEAN), rc : {0, 1}, error : BOOLEAN]
        /\ call'.pc = "out" /\ call'.args = call.args /\ call'.fnats = call.fnats
        /\ call'.xargs = call.xargs /\ call'.cloned = call.cloned
    BY <2>1 DEF CallInv, CallTypeOK
  <2>3. CallTypeOK'
    BY <1>7, <2>2 DEF CallInv, CallTypeOK
  <2>4. ClosureCounted' /\ GetterOwnsOne'
    BY <1>3, <1>7, <2>2, SameClosure
  <2>5. ArgumentsConverted' /\ ClonesCounted'
    BY <2>1, <2>2, SameConverted
  <2>6. QED
    BY <2>3, <2>4, <2>5 DEF CallInv
<1>10. QED
  BY <1>6, <1>8, <1>9

\* The function is called and returns.
LEMMA FunctionInv ==
    ASSUME CallInv, CallFunction \/ \E error \in BOOLEAN : FunctionReturns(error)
    PROVE  CallInv'
<1>1. closure' = closure /\ got' = got /\ clones' = clones
  BY DEF CallFunction, FunctionReturns
<1>2. CASE CallFunction
  <2>1. call.pc = "convert" /\ Len(call.xargs) = Len(call.args) /\ call' = [call EXCEPT !.pc = "function"]
    BY <1>2 DEF CallFunction
  <2>2. /\ call' \in [pc : {"idle", "convert", "function", "out"}, args : Seq(AnyValue), fnats : Seq(Type),
                      xargs : Seq(OutSet), cloned : Seq(BOOLEAN), rc : {0, 1}, error : BOOLEAN]
        /\ call'.pc = "function" /\ call'.args = call.args /\ call'.fnats = call.fnats
        /\ call'.xargs = call.xargs /\ call'.cloned = call.cloned
    BY <2>1 DEF CallInv, CallTypeOK
  <2>3. CallTypeOK'
    BY <1>1, <2>2 DEF CallInv, CallTypeOK
  <2>4. ClosureCounted' /\ GetterOwnsOne'
    BY <1>1, <2>1, <2>2, SameClosure
  <2>5. ArgumentsConverted' /\ ClonesCounted'
    BY <1>1, <2>1, <2>2, SameConverted
  <2>6. QED
    BY <2>3, <2>4, <2>5 DEF CallInv
<1>3. ASSUME NEW error \in BOOLEAN, FunctionReturns(error) PROVE CallInv'
  <2>1. call.pc = "function" /\ call' = [call EXCEPT !.pc = "out", !.error = error]
    BY <1>3 DEF FunctionReturns
  <2>2. /\ call' \in [pc : {"idle", "convert", "function", "out"}, args : Seq(AnyValue), fnats : Seq(Type),
                      xargs : Seq(OutSet), cloned : Seq(BOOLEAN), rc : {0, 1}, error : BOOLEAN]
        /\ call'.pc = "out" /\ call'.args = call.args /\ call'.fnats = call.fnats
        /\ call'.xargs = call.xargs /\ call'.cloned = call.cloned
    BY <2>1 DEF CallInv, CallTypeOK
  <2>3. CallTypeOK'
    BY <1>1, <2>2 DEF CallInv, CallTypeOK
  <2>4. ClosureCounted' /\ GetterOwnsOne'
    BY <1>1, <2>1, <2>2, SameClosure
  <2>5. ArgumentsConverted' /\ ClonesCounted'
    BY <1>1, <2>1, <2>2, SameConverted
  <2>6. QED
    BY <2>3, <2>4, <2>5 DEF CallInv
<1>4. QED
  BY <1>2, <1>3

\* Nothing is TRUE in an empty sequence.
LEMMA TrueAtEmpty == Cardinality(TrueAt(<<>>)) = 0
<1>1. TrueAt(<<>>) = {}
  BY DEF TrueAt
<1>2. QED
  BY <1>1, FS_EmptySet

\* The types of a call that is not running.
LEMMA NoCallFacts ==
    /\ NoCall \in [pc : {"idle", "convert", "function", "out"}, args : Seq(AnyValue), fnats : Seq(Type),
                   xargs : Seq(OutSet), cloned : Seq(BOOLEAN), rc : {0, 1}, error : BOOLEAN]
    /\ NoCall.pc = "idle" /\ NoCall.args = <<>> /\ NoCall.fnats = <<>> /\ NoCall.xargs = <<>>
    /\ NoCall.cloned = <<>>
<1> DEFINE E == <<>>
<1>1. E \in Seq(AnyValue) /\ E \in Seq(Type) /\ E \in Seq(OutSet) /\ E \in Seq(BOOLEAN)
  OBVIOUS
<1>2. NoCall = [pc |-> "idle", args |-> E, fnats |-> E, xargs |-> E, cloned |-> E, rc |-> 0, error |-> FALSE]
  BY DEF NoCall
<1>3. SUFFICES /\ NoCall \in [pc : {"idle", "convert", "function", "out"}, args : Seq(AnyValue), fnats : Seq(Type),
                              xargs : Seq(OutSet), cloned : Seq(BOOLEAN), rc : {0, 1}, error : BOOLEAN]
               /\ NoCall.pc = "idle" /\ NoCall.args = E /\ NoCall.fnats = E /\ NoCall.xargs = E
               /\ NoCall.cloned = E
  OBVIOUS
<1> HIDE DEF E
<1>4. QED
  BY <1>1, <1>2

\* The call ends.
LEMMA CleanUpInv == ASSUME CallInv, CleanUp PROVE CallInv'
<1>1. /\ call.pc = "out" /\ closure' = Dropped(closure) /\ call' = NoCall /\ got' = got
      /\ clones' = clones - Cardinality(TrueAt(call.cloned))
  BY DEF CleanUp, TrueAt
<1>2. /\ closure \in [refs : Nat, user : BOOLEAN, caps : Nat, atypes : Seq(Type)]
      /\ closure.refs \in Nat /\ closure.user \in BOOLEAN
      /\ closure.refs = (IF closure.user THEN 1 ELSE 0) + 1
  BY <1>1, CallParts DEF CallInv, ClosureCounted, CallTypeOK
<1>3. /\ closure' \in [refs : Nat, user : BOOLEAN, caps : Nat, atypes : Seq(Type)]
      /\ closure'.refs = closure.refs - 1 /\ closure'.user = closure.user
  <2>1. closure.refs >= 1 /\ (closure.refs = 1 => closure.user = FALSE)
    BY <1>2
  <2>2. QED
    BY <1>1, <1>2, <2>1, DroppedFacts
<1>4. CallTypeOK'
  BY <1>1, <1>3, NoCallFacts DEF CallTypeOK
<1>5. ClosureCounted'
  BY <1>1, <1>2, <1>3, NoCallFacts DEF ClosureCounted
<1>6. ArgumentsConverted'
  BY <1>1, NoCallFacts DEF ArgumentsConverted
<1>7. clones' = 0
  <2>1. clones = Cardinality(TrueAt(call.cloned))
    BY DEF CallInv, ClonesCounted, TrueAt
  <2>2. clones \in Nat
    BY <2>1, CallParts, TrueAtAppend DEF CallInv
  <2>3. QED
    BY <1>1, <2>1, <2>2
<1>8. ClonesCounted'
  BY <1>1, <1>7, NoCallFacts, TrueAtEmpty DEF ClonesCounted, TrueAt
<1>9. GetterOwnsOne'
  BY <1>1 DEF CallInv, GetterOwnsOne
<1>10. QED
  BY <1>4, <1>5, <1>6, <1>8, <1>9 DEF CallInv

\* A typed getter.
LEMMA GetTypedInv ==
    ASSUME CallInv, NEW a \in AnyValue, NEW t \in Type, GetTyped(a, t)
    PROVE  CallInv'
<1>1. closure' = closure /\ call' = call /\ clones' = clones
  BY DEF GetTyped
<1>2. PICK r : r = TypeConversion(a, t, FALSE)
  OBVIOUS
<1>3. PICK k : k = IF r.cloned THEN Pieces(r.out) ELSE IF r.ok THEN Pieces(a) ELSE 0
  OBVIOUS
<1>4. PICK o : o = IF r.ok THEN Pieces(r.out) ELSE 0
  OBVIOUS
<1>5. got' = [in |-> a, outty |-> t, ok |-> r.ok, cloned |-> r.cloned, owned |-> o, live |-> k]
  BY <1>2, <1>3, <1>4 DEF GetTyped
<1>6. /\ got'.in = a /\ got'.outty = t /\ got'.ok = r.ok /\ got'.cloned = r.cloned
      /\ got'.owned = o /\ got'.live = k
  BY <1>5
<1>7. (~r.ok => k = 0) /\ (r.ok => k = o + Strayed(a, t, r.cloned))
  BY <1>2, <1>3, <1>4, GetterFacts
<1>8. GetterOwnsOne'
  BY <1>6, <1>7 DEF GetterOwnsOne
<1>9. CallTypeOK' /\ ClosureCounted' /\ ArgumentsConverted' /\ ClonesCounted'
  BY <1>1 DEF CallInv, CallTypeOK, ClosureCounted, ArgumentsConverted, ClonesCounted
<1>10. QED
  BY <1>8, <1>9 DEF CallInv

\* Every step keeps the invariant.
LEMMA CallableNextInv == ASSUME CallInv, [CallableNext]_callVars PROVE CallInv'
<1>1. CASE UNCHANGED callVars
  <2>1. closure' = closure /\ call' = call /\ clones' = clones /\ got' = got
    BY <1>1 DEF callVars
  <2>2. QED
    BY <2>1 DEF CallInv, CallTypeOK, ClosureCounted, ArgumentsConverted, ClonesCounted, GetterOwnsOne
<1>2. ASSUME NEW n \in 0..MaxNargs, NEW k \in 0..MaxNargs, NEW ts \in TypeList(k), CreateClosure(n, ts)
      PROVE  CallInv'
  <2>1. ts \in Seq(Type)
    BY CallableAssumption DEF TypeList
  <2>2. QED
    BY <1>2, <2>1, CreateClosureInv
<1>3. ASSUME NEW args \in ArgumentList(Len(closure.atypes)), StartCall(args) PROVE CallInv'
  <2>1. Len(closure.atypes) \in Nat
    BY CallParts DEF CallInv
  <2>2. args \in Seq(AnyValue)
    BY <2>1, CallableAssumption DEF ArgumentList
  <2>3. QED
    BY <1>3, <2>2, StartCallInv
<1>4. ASSUME NEW a \in Argument, NEW t \in Param, GetTyped(a, t) PROVE CallInv'
  BY <1>4, GetTypedInv, CallableAssumption
<1>5. QED
  BY <1>1, <1>2, <1>3, <1>4, DropClosureInv, ConvertArgumentInv, FunctionInv, CleanUpInv DEF CallableNext

\* For any arguments, parameters and widths of integers: a function is called
\* with one value of the right type for each parameter, integers unchanged; what
\* conversions cloned is freed once, whether they all succeed or not; a closure
\* that is dropped by its own function lives until the call has ended; and a typed
\* getter leaves its caller the owner of exactly the value it got, and leaks the
\* box of a variant that it unpacks without a copy, and what is asked for as nil, and
\* nothing else (_di_typed_trampoline, di_getxt).
THEOREM CallsAlwaysFaithful == CallableSpec => []CallsFaithful
<1>1. CallableInit => CallInv
  <2> SUFFICES ASSUME CallableInit PROVE CallInv
    OBVIOUS
  <2> DEFINE e == <<>>
  <2>1. e \in Seq(Type)
    OBVIOUS
  <2>2. closure = [refs |-> 0, user |-> FALSE, caps |-> 0, atypes |-> e]
    BY DEF CallableInit, NoClosure
  <2> HIDE DEF e
  <2>3. /\ closure \in [refs : Nat, user : BOOLEAN, caps : Nat, atypes : Seq(Type)]
        /\ closure.refs = 0 /\ closure.user = FALSE
    BY <2>1, <2>2
  <2>4. call = NoCall /\ clones = 0 /\ got = NotGot
    BY DEF CallableInit
  <2>5. CallTypeOK
    BY <2>3, <2>4, NoCallFacts DEF CallTypeOK
  <2>6. ClosureCounted
    BY <2>3, <2>4, NoCallFacts DEF ClosureCounted
  <2>7. ArgumentsConverted
    BY <2>4, NoCallFacts DEF ArgumentsConverted
  <2>8. ClonesCounted
    BY <2>4, NoCallFacts, TrueAtEmpty DEF ClonesCounted, TrueAt
  <2>9. GetterOwnsOne
    BY <2>4 DEF GetterOwnsOne, NotGot
  <2>10. QED
    BY <2>5, <2>6, <2>7, <2>8, <2>9 DEF CallInv
<1>2. CallInv /\ [CallableNext]_callVars => CallInv'
  BY CallableNextInv
<1>3. CallInv => CallsFaithful
  <2> SUFFICES ASSUME CallInv PROVE CallsFaithful
    OBVIOUS
  <2>1. ClonesFreed
    BY TrueAtEmpty DEF CallInv, ClonesFreed, ClonesCounted, ArgumentsConverted, TrueAt
  <2>2. CapturesLive
    BY CallParts DEF CallInv, CapturesLive, ClosureCounted
  <2>3. ArgumentsFaithful
    <3>1. ASSUME call.pc = "function", NEW i \in 1..Len(call.args)
          PROVE  LET a == Unpacked(call.args[i])
                     x == call.xargs[i]
                 IN  /\ x.type = call.fnats[i]
                     /\ IsInteger(a.type) /\ IsInteger(x.type) => x.v = a.v
                     /\ a.type = "nil" /\ x.type = "object" => call.cloned[i]
      <4>1. i \in 1..Len(call.xargs) /\ i \in 1..Len(call.fnats)
        BY <3>1 DEF CallInv, ArgumentsConverted
      <4>2. PICK a \in AnyValue, t \in Type : a = call.args[i] /\ t = call.fnats[i]
        BY <4>1, CallParts DEF CallInv
      <4>3. PICK r : r = Converted(a, t)
        OBVIOUS
      <4>4. r.ok /\ call.xargs[i] = r.out /\ call.cloned[i] = r.cloned
        BY <4>1, <4>2, <4>3 DEF CallInv, ArgumentsConverted
      <4>5. /\ r.out.type = t
            /\ IsInteger(Unpacked(a).type) /\ IsInteger(t) => r.out.v = Unpacked(a).v
            /\ Unpacked(a).type = "nil" /\ t = "object" => r.cloned
        BY <4>3, <4>4, ConvertedFacts
      <4>6. QED
        BY <4>2, <4>4, <4>5
    <3>2. QED
      BY <3>1 DEF ArgumentsFaithful
  <2>4. QED
    BY <2>1, <2>2, <2>3 DEF CallsFaithful, CallInv
<1>4. QED
  BY <1>1, <1>2, <1>3, PTL DEF CallableSpec
=============================================================================
