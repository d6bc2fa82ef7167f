------------------------------- MODULE Spawn -------------------------------
(***************************************************************************)
(* A child process (spawn.c, string_buf.c): the pipes of its stdout and    *)
(* stderr, the callbacks that cut the output into lines, the SIGCHLD       *)
(* handler, and the destruction of the ChildProcess object.                *)
(*                                                                         *)
(* The child writes characters, "c" or the newline "nl", at any time.  The *)
(* callbacks run one at a time from the main loop; a callback is stopped   *)
(* at every emission, where the handler (user code) may drop its reference *)
(* to the ChildProcess object.                                             *)
(***************************************************************************)
EXTENDS Integers, Sequences

CONSTANTS MaxWrites,  \* bound on the characters written
          MaxFailures, \* bound on failed calls of run
          BufSize,    \* size of the read buffer of output_handler (4096)
          Liberties   \* what user code may do:
                      \*  "drop_in_handler": the handler of a line drops the
                      \*    last reference to the object

ASSUME ConstantsAssumption ==
    /\ MaxWrites \in Nat /\ MaxFailures \in Nat
    /\ BufSize \in Nat \ {0}
    /\ Liberties \subseteq {"drop_in_handler"}

Stream == {"stdout", "stderr"}
Char == {"c", "nl"}

VARIABLES process,   \* the child: running, exited or reaped
          written,   \* history: everything written to each stream
          final,     \* history: how much of it the child wrote before it exited
          pipe,      \* what is in each pipe
          buf,       \* each string_buf: the number of its nodes and their text
          lines,     \* history: the lines emitted for each stream, and where in
                     \* the output they begin
          exited,    \* history: was the exit signal emitted?
          quiet,     \* ignore_output: there are no pipes
          deaiRefs,  \* strong references to deai that ChildProcess objects hold
          leaked,    \* strong references to deai that failed runs have left
          obj,       \* the ChildProcess object: none, alive, cleaned (after
                     \* SIGCHLD) or freed
          held,      \* does user code refer to it?
          cb         \* the running callback

streams == <<written, pipe, buf, lines>>
vars == <<process, streams, final, exited, quiet, deaiRefs, leaked, obj, held, cb>>

\* who: the callback; str: the stream it reads; data: the rest of the chunk that
\* was read, from pos on; pc: what it does next.
NoCb == [who |-> "none", str |-> "stdout", data |-> <<>>, pc |-> "idle"]

EmptyBuf == [nodes |-> 0, text |-> <<>>]

Init ==
    /\ process = "none"
    /\ written = [s \in Stream |-> <<>>]
    /\ final = [s \in Stream |-> 0]
    /\ pipe = [s \in Stream |-> <<>>]
    /\ buf = [s \in Stream |-> EmptyBuf]
    /\ lines = [s \in Stream |-> <<>>]
    /\ exited = FALSE
    /\ quiet = FALSE
    /\ deaiRefs = 0
    /\ leaked = 0
    /\ obj = "none"
    /\ held = FALSE
    /\ cb = NoCb

-----------------------------------------------------------------------------
(* di_spawn_run *)

\* The child runs, its watchers are started, and the reference to deai moves
\* into the __deai member of the new object.
Run(ignoreOutput) ==
    /\ obj = "none"
    /\ process' = "running"
    /\ quiet' = ignoreOutput
    /\ deaiRefs' = deaiRefs + 1
    /\ obj' = "alive"
    /\ held' = TRUE
    /\ UNCHANGED <<final, leaked, streams, exited, cb>>

\* di_setup_fds or fork fails: an error is returned, and the reference to deai
\* that was taken at the start is not released.
RunFails ==
    /\ obj = "none"
    /\ leaked < MaxFailures
    /\ leaked' = leaked + 1
    /\ UNCHANGED <<process, streams, final, exited, quiet, deaiRefs, obj, held, cb>>

-----------------------------------------------------------------------------
(* The child process (external).  A process that inherited the pipes may go *)
(* on writing after the child has exited.                                   *)

Write(s, c) ==
    /\ process # "none"
    /\ ~quiet
    /\ Len(written["stdout"]) + Len(written["stderr"]) < MaxWrites
    /\ written' = [written EXCEPT ![s] = Append(@, c)]
    /\ pipe' = [pipe EXCEPT ![s] = Append(@, c)]
    /\ UNCHANGED <<final, leaked, process, buf, lines, exited, quiet, deaiRefs, obj, held, cb>>

Exit ==
    /\ process = "running"
    /\ process' = "exited"
    /\ final' = [s \in Stream |-> Len(written[s])]
    /\ UNCHANGED <<streams, exited, quiet, deaiRefs, leaked, obj, held, cb>>

-----------------------------------------------------------------------------
(* output_handler *)

\* string_buf_push, string_buf_lpush: a node, which may be empty, at the end of
\* what string_buf_dump will put together
Push(b, t) == [nodes |-> b.nodes + 1, text |-> b.text \o t]

\* How many characters the lines ls stand for.
Told(ls) == IF ls = <<>> THEN 0 ELSE ls[Len(ls)].at + Len(ls[Len(ls)].text) + 1

\* di_emit of a line
Emitted(s, line) ==
    lines' = [lines EXCEPT ![s] = Append(@, [at |-> Told(@), text |-> line])]

\* stdout_cb and stderr_cb: the pipe has become readable.
StartOutput(s) ==
    /\ cb.pc = "idle"
    /\ obj = "alive" /\ ~quiet
    /\ pipe[s] # <<>>
    /\ cb' = [who |-> "output", str |-> s, data |-> <<>>, pc |-> "read"]
    /\ UNCHANGED <<final, leaked, process, streams, exited, quiet, deaiRefs, obj, held>>

\* read returns at most BufSize characters.
Read ==
    /\ cb.pc = "read"
    /\ pipe[cb.str] # <<>>
    /\ LET n == IF Len(pipe[cb.str]) < BufSize THEN Len(pipe[cb.str]) ELSE BufSize IN
       /\ cb' = [cb EXCEPT !.data = SubSeq(pipe[cb.str], 1, n), !.pc = "scan"]
       /\ pipe' = [pipe EXCEPT ![cb.str] = SubSeq(@, n + 1, Len(@))]
    /\ UNCHANGED <<final, leaked, process, written, buf, lines, exited, quiet, deaiRefs, obj, held>>

\* memchr finds the first newline of what is left of the chunk at e.
Eol(e) == cb.data[e] = "nl" /\ \A i \in 1..(e - 1) : cb.data[i] # "nl"

\* Mutant: what was kept from the previous read is not put before the line.
ScanLineFresh(e) ==
    /\ cb.pc = "scan"
    /\ e \in 1..Len(cb.data) /\ Eol(e)
    /\ Emitted(cb.str, SubSeq(cb.data, 1, e - 1))
    /\ cb' = [cb EXCEPT !.data = SubSeq(@, e + 1, Len(@)), !.pc = "emit"]
    /\ UNCHANGED <<final, leaked, process, written, pipe, buf, exited, quiet, deaiRefs, obj, held>>

\* A newline: emit the buffer, which is empty again, and the characters up to it.
ScanLine(e) ==
    /\ cb.pc = "scan"
    /\ e \in 1..Len(cb.data) /\ Eol(e)
    /\ Emitted(cb.str, buf[cb.str].text \o SubSeq(cb.data, 1, e - 1))
    /\ buf' = [buf EXCEPT ![cb.str] = EmptyBuf]
    /\ cb' = [cb EXCEPT !.data = SubSeq(@, e + 1, Len(@)), !.pc = "emit"]
    /\ UNCHANGED <<final, leaked, process, written, pipe, exited, quiet, deaiRefs, obj, held>>

\* No newline: the rest, which may be empty, is pushed to the buffer.
ScanRest ==
    /\ cb.pc = "scan"
    /\ \A i \in 1..Len(cb.data) : cb.data[i] # "nl"
    /\ buf' = [buf EXCEPT ![cb.str] = Push(@, cb.data)]
    /\ cb' = [cb EXCEPT !.data = <<>>, !.pc = "read"]
    /\ UNCHANGED <<final, leaked, process, written, pipe, lines, exited, quiet, deaiRefs, obj, held>>

\* The handlers returned, and output_handler goes on with c, its buffer and its
\* descriptor.  If they are gone the behaviour is undefined: there the model
\* stops.
EmitReturns ==
    /\ cb.pc = "emit"
    /\ obj # "freed"
    /\ cb' = [cb EXCEPT !.pc = "scan"]
    /\ UNCHANGED <<final, leaked, process, streams, exited, quiet, deaiRefs, obj, held>>

\* Mutant: the loop does not end when read returns 0.
OutputEndsNever ==
    /\ cb.pc = "read"
    /\ cb.who = "output"
    /\ pipe[cb.str] = <<>>
    /\ UNCHANGED vars

\* read returned nothing more.
OutputEnds ==
    /\ cb.pc = "read"
    /\ cb.who = "output"
    /\ pipe[cb.str] = <<>>
    /\ cb' = NoCb
    /\ UNCHANGED <<final, leaked, process, streams, exited, quiet, deaiRefs, obj, held>>

-----------------------------------------------------------------------------
(* sigchld_handler, which holds a reference to the object *)

StartSigchld ==
    /\ cb.pc = "idle"
    /\ obj = "alive"
    /\ process = "exited"
    /\ process' = "reaped"
    /\ cb' = [who |-> "sigchld", str |-> "stdout", data |-> <<>>,
              pc |-> IF quiet THEN "last" ELSE "read"]
    /\ UNCHANGED <<final, leaked, streams, exited, quiet, deaiRefs, obj, held>>

Drained == cb.who = "sigchld" /\ cb.pc = "read" /\ pipe[cb.str] = <<>>

\* After stdout comes stderr, after stderr the exit signal.
SigchldNextStream ==
    cb' = IF cb.str = "stdout" THEN [cb EXCEPT !.str = "stderr", !.pc = "read"]
          ELSE [cb EXCEPT !.pc = "last"]

\* The pipe is drained and the buffer is not empty: it is emitted as a line.
SigchldFlush ==
    /\ Drained
    /\ buf[cb.str].nodes > 0
    /\ Emitted(cb.str, buf[cb.str].text)
    /\ buf' = [buf EXCEPT ![cb.str] = EmptyBuf]
    /\ cb' = [cb EXCEPT !.pc = "flushed"]
    /\ UNCHANGED <<final, leaked, process, written, pipe, exited, quiet, deaiRefs, obj, held>>

SigchldNext ==
    /\ \/ cb.pc = "flushed"
       \/ Drained /\ buf[cb.str].nodes = 0
    /\ SigchldNextStream
    /\ UNCHANGED <<final, leaked, process, streams, exited, quiet, deaiRefs, obj, held>>

SigchldEmitExit ==
    /\ cb.pc = "last"
    /\ exited' = TRUE
    /\ cb' = [cb EXCEPT !.pc = "exit"]
    /\ UNCHANGED <<final, leaked, process, streams, quiet, deaiRefs, obj, held>>

\* child_cleanup and the removal of __deai; the reference is released.
SigchldEnds ==
    /\ cb.pc = "exit"
    /\ obj' = IF held THEN "cleaned" ELSE "freed"
    /\ deaiRefs' = deaiRefs - 1
    /\ cb' = NoCb
    /\ UNCHANGED <<final, leaked, process, streams, exited, quiet, held>>

-----------------------------------------------------------------------------
(* User code *)

\* User code runs between callbacks and in the handlers of emissions.
MayRelease ==
    /\ held
    /\ cb.pc \in {"idle", "emit", "flushed", "exit"}
    /\ cb.who = "output" => "drop_in_handler" \in Liberties

\* child_destroy, then the members, __deai among them, are removed.
Destroy ==
    /\ obj' = "freed"
    /\ buf' = [s \in Stream |-> EmptyBuf]
    /\ deaiRefs' = IF obj = "alive" THEN deaiRefs - 1 ELSE deaiRefs

\* The last reference outside of spawn.c is dropped, from the main loop or from
\* a handler.  The SIGCHLD handler keeps the object alive while it runs.
Release ==
    /\ MayRelease
    /\ held' = FALSE
    /\ IF cb.who = "sigchld" THEN UNCHANGED <<obj, buf, deaiRefs>> ELSE Destroy
    /\ UNCHANGED <<final, leaked, process, written, pipe, lines, exited, quiet, cb>>

Callback ==
    \/ Read \/ ScanRest \/ EmitReturns \/ OutputEnds
    \/ \E e \in 1..Len(cb.data) : ScanLine(e)
    \/ SigchldFlush \/ SigchldNext \/ SigchldEmitExit \/ SigchldEnds

Next ==
    \/ \E ignoreOutput \in BOOLEAN : Run(ignoreOutput)
    \/ RunFails
    \/ \E s \in Stream, c \in Char : Write(s, c)
    \/ Exit
    \/ \E s \in Stream : StartOutput(s)
    \/ StartSigchld
    \/ Callback
    \/ Release

Spec == Init /\ [][Next]_vars

\* The main loop calls the callbacks that are due, and they run to their end.
FairSpec == Spec /\ WF_vars(Callback) /\ WF_vars(StartSigchld)

-----------------------------------------------------------------------------
(* Properties *)

\* Type invariant of the child process object and its pipes; no line has a newline.
TypeOK ==
    /\ process \in {"none", "running", "exited", "reaped"}
    /\ \A s \in Stream : /\ written[s] \in Seq(Char) /\ pipe[s] \in Seq(Char)
                         /\ buf[s] \in [nodes : Nat, text : Seq({"c"})]
                         /\ lines[s] \in Seq([at : Nat, text : Seq({"c"})])
                         /\ final[s] \in 0..Len(written[s])
    /\ {exited, held, quiet} \subseteq BOOLEAN
    /\ deaiRefs \in Nat /\ leaked \in 0..MaxFailures
    /\ obj \in {"none", "alive", "cleaned", "freed"}
    /\ cb.pc \in {"idle", "read", "scan", "emit", "flushed", "last", "exit"}
    /\ cb.data \in Seq(Char)

\* The SIGCHLD handler is done with stream s.
Closing(s) ==
    /\ cb.who = "sigchld"
    /\ \/ cb.pc \in {"last", "exit"}
       \/ cb.str = s /\ cb.pc = "flushed"
       \/ s = "stdout" /\ cb.str = "stderr"

\* t is what the text w has from position at + 1 on.
PartOf(t, w, at) == at + Len(t) <= Len(w) /\ \A i \in 1..Len(t) : t[i] = w[at + i]

\* The lines ls are the first lines of the text w, one after the other, each but
\* the ones after the n-th with its newline.
FirstLines(ls, w, n) ==
    \A k \in 1..Len(ls) :
        LET next == ls[k].at + Len(ls[k].text) + 1 IN
        /\ PartOf(ls[k].text, w, ls[k].at)
        /\ k = 1 => ls[k].at = 0
        /\ k < Len(ls) => ls[k + 1].at = next
        /\ k <= n => next <= Len(w) /\ w[next] = "nl"

\* What the callback has read of stream s and not yet looked at.
Unread(s) == IF cb.str = s THEN cb.data ELSE <<>>

\* Whatever the chunks in which the output arrives, nothing is lost, duplicated
\* or reordered: the lines emitted, what is buffered, what the callback has read
\* and what is in the pipe together are what was written.
LinesFaithful ==
    obj = "alive" =>
        \A s \in Stream :
            LET w == written[s]
                t == buf[s].text
                d == Unread(s)
                at == Told(lines[s])
            IN  Closing(s) \/
                /\ FirstLines(lines[s], w, Len(lines[s]))
                /\ PartOf(t, w, at)
                /\ PartOf(d, w, at + Len(t))
                /\ PartOf(pipe[s], w, at + Len(t) + Len(d))
                /\ Len(w) = at + Len(t) + Len(d) + Len(pipe[s])

\* A callback never runs on, and a watcher never fires for, an object that was
\* destroyed ("Keep child process object alive when emitting").
CallbackLive == cb.pc # "idle" => obj # "freed"

\* How much of the output the callbacks have read.
Consumed(s) == Len(written[s]) - Len(pipe[s])

\* The lines ls are the pieces into which newlines cut the first c characters of w.
\* The piece after the last newline is one of them, empty or not: output_handler
\* pushes it to the buffer, and output that ends with a newline is followed by an
\* empty line that the child did not write.
AllPieces(ls, w, c) ==
    IF c = 0 THEN ls = <<>>
    ELSE Told(ls) = c + 1 /\ FirstLines(ls, w, Len(ls) - 1)

\* When the exit of the child is announced, everything it wrote has been read,
\* and the lines emitted are the pieces of what was read.
LinesThenExit ==
    exited => \A s \in Stream :
        /\ Consumed(s) >= final[s]
        /\ AllPieces(lines[s], written[s], Consumed(s))

\* "Keep a reference from the ChildProcess object to deai, to keep it alive":
\* the object holds deai exactly as long as it can still fire, so that deai quits
\* when nothing is going on.
DeaiReleased == deaiRefs = IF obj = "alive" THEN 1 ELSE 0

\* Nothing can be emitted after the exit signal, although the pipes may stay open
\* in other processes: all that may still run for a child whose exit was announced
\* is the end of the SIGCHLD handler.
ExitIsLast == exited => obj # "alive" \/ (cb.who = "sigchld" /\ cb.pc = "exit")

\* The output of a child is told line by line, then its exit, then nothing,
\* and deai is held for just that long.
ChildSound == TypeOK /\ LinesFaithful /\ CallbackLive /\ DeaiReleased /\ LinesThenExit /\ ExitIsLast

\* The exit of a child whose object is kept is announced.
ExitAnnounced == (process = "exited") ~> (exited \/ ~held)
=============================================================================
