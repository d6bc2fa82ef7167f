# deai: models, checks and proofs

TLA+ models of deai (formerly PipeD), an event-driven automation daemon written
in C: the object system with its signals, member dispatch and calls, the event
sources that keep the program running, the roots that keep its objects alive,
`main`, child processes, and the Lua, D-Bus, file and X plugins.
Paths are relative to the root of the repository (`src/` here). Every definition
that stands for code names its lines in `PROJECT.json` ("map").

## 1. Inventory

deai is single threaded. One `libev` loop calls callbacks; callbacks emit signals
and drop references; both run user code (Lua scripts, handlers, destructors of
plugins), and that code calls back into the core *in the middle of the operation
that called it*. There are no locks and no shared memory: the concurrency of this
program is **reentrancy**, and nearly everything hard about it is a value read
before a call-out and used after it.

| component | state | operations | talks to |
|---|---|---|---|
| object layer (`object.c`, `di_internal.h`) | per object: `ref_count`, `weak_ref_count`, `destroyed`, `dtor`, `call`, members, signals | create, ref, unref, weak ref, upgrade, add/remove/get member, finalize, destroy | everything holds objects; destructors are user code |
| signals (`object.c`) | per object a table of `di_signal`; per signal a list of listeners and a count; per listener a weak reference to its listen handle | listen, emit, dropping a listen handle | handlers, `__new_signal_*`, `__del_signal_*` are user code |
| event sources (`event.c`, `helper.h`) | libev watchers, `running`, the `__deai` member (strong or weak) | create, start, stop, toggle, modify, again, set, close, callbacks | the number of strong references to the deai object decides when the loop ends |
| roots and quit (`main.c`) | named roots (members `__root_*`), `anonymous_roots`, `next_anonymous_root_id` | add, remove, clear, add/remove anonymous, quit, exit | destructors of the roots' objects |
| child processes (`spawn.c`, `string_buf.c`) | per child: two pipes, two watchers, two line buffers, pid | run, output callbacks, SIGCHLD handler, destroy | kernel pipes, the child, handlers of lines |
| member dispatch (`object.c`) | members with their types | getx, setx, callx, remove, handlers (`__get`, `__set`, `__delete` and their forms for one name) | handlers are user code |
| calls and conversion (`callable.c`, `include/utils.h`) | closures with captured arguments | convert arguments, call, free what was cloned; typed getters | object layer |
| start-up and main (`main.c`) | command line, modules, references to deai, exit code | parse, load plugins, call, run the loop, exit | all |
| killing of descendants (`main.c`) | process tree from `/proc` | kill_all_descendants | kernel |
| leak detection (`object.c`) | list of all objects, marks | mark and sweep | object layer |
| proxied signals (`helper.c`) | a pair of listeners | proxy, remove proxy | signals |
| Lua: proxies (`plugins/lua/lua.c`) | `object_to_lua_ref`, weak references in the Lua registry, members of the state object | push, weak reference, upgrade, `__gc`, close | object layer, Lua's collector |
| Lua: listeners | listen handle structs, two anonymous roots for each | on, once, stop, emission, collection | signals, roots, collector |
| Lua: state and scripts | the one state, its scripts, the environment in the registry | load, call, give out values, fail, drop | object layer |
| Lua: values | none | push, read back, test for arrays | Lua stack |
| D-Bus plugin (`plugins/dbus/dbus.c`) | owners of watched names, pending replies, watch and ioev, shutdown in two steps | watch, unwatch, call, dispatch, filter, shutdown | bus, libdbus, ioev |
| file plugin (`plugins/file/file.c`) | two tables of watches | add, remove, stop, callback | inotify, ioev |
| X plugin (`plugins/xorg/*.c`) | connection, extensions, atom cache, bindings and grabs, RandR time, devices | connect, get extension, poll, bind, set configuration, set keymap, read and set properties | X server, other clients, ioev |
| udev, evdev plugins, C++ bindings | - | wrap libraries | object layer |
| log, os | none | formatting and system calls | |

The hard behaviours, each listed at its line under "hazards" in `PROJECT.json`:

* a destructor or handler that drops, takes or upgrades references to the very
  object that is being destroyed, or removes the next element of a running loop;
* listeners added, removed or destroyed in the middle of an emission, and the
  object that emits going away;
* start/stop/close sequences of event sources inside and outside their own
  callback, where a wrong reference either keeps the program from ending or frees
  a watcher libev still knows;
* `quit` called from destructors that `quit` itself set off;
* child output arriving in arbitrary chunks, racing SIGCHLD, and handlers that
  drop the child object;
* Lua's collector, which clears weak references first and calls `__gc` later, with
  the script running in between;
* the wrap-around of the 64-bit counter of anonymous roots, and integer
  conversions at the limits of four types;
* answers that race: GetNameOwner with NameOwnerChanged, RandR requests with other
  clients, inotify events with the removal of their watch, `/proc` with forks;
* connections that are dropped by a handler in the middle of their dispatching;
* scripts that load, call and fail inside one another.

What makes each component correct: *objects* - counts are exact, nothing refers
to freed memory, each object is destroyed once and completely; *signals* - an
emission calls exactly the listeners it should, structs live as long as needed;
*event sources* - a source holds deai strongly exactly while it can fire, so
that deai ends exactly when nothing can happen; *roots* - a root keeps its
object, handles are never reused, quit ends and leaves nothing; *children* - no
character is lost or duplicated, exit is announced once, last, and on a live
object; *members and calls* - the right handler is called, and every value is owned
by somebody and freed once; *main* - no object is used after its release, and the
exit status is true; *Lua* - an object has one proxy, and lives as long as a script
can reach it, there is one state that knows whose code runs, `once` is once, and
values come back as they went; *D-Bus* - calls are answered once, signals are
attributed to the names of their sender; *files and X* - events are told once and
in order, and what the program believes of the kernel or the server is true when
nothing is on its way.

## 2. Modules

| module | models | composes / extends |
|---|---|---|
| `ObjectLife` | abstract: places hold references, objects end and are freed | - |
| `DiObject` | reference counts, members, finalisation, destruction | implements `ObjectLife` (`Life == INSTANCE ...`) |
| `DiSignal` | signals of one object | - |
| `EventSource` | timers, ioevs, periodics, prepare; lifetime of deai | - |
| `Roots` | the registry of roots and quit | - |
| `Spawn` | one child process | - |
| `LuaObjects` | the proxies of objects in one Lua state | - |
| `Members` | get, set, call and remove with handlers | - |
| `Convert`, `Callable` | conversions; closures, calls, typed getters | `Callable` extends `Convert` |
| `LeakCheck` | mark and sweep | - |
| `MainLoop` | `main` from the command line to the exit status | - |
| `KillDescendants` | the processes killed at the end | - |
| `LuaListeners`, `LuaState`, `LuaValues` | the rest of the Lua plugin | - |
| `DBusNames`, `DBusCalls` | names and signals; calls, watches, shutdown | - |
| `FileWatch` | the file plugin | - |
| `XorgConn`, `XKey`, `Randr`, `XKeymap`, `XinputDevices`, `XinputProps` | the X plugin | - |
| `DiObjectProofs`, `DiSignalProofs`, `MembersProofs` | theorems about the component they are named for | extend it and `TLAPS` |
| `EventSourceProofs` | theorems about event sources and two plugins that live on them | extends `EventSource`, `FileWatch`, `DBusNames`, `TLAPS` |
| `RootsProofs` | theorems about the life of the program | extends `Roots`, `MainLoop`, `KillDescendants`, `LeakCheck`, `TLAPS` |
| `LuaProofs` | theorems about the Lua plugin | extends `LuaObjects`, `LuaListeners`, `LuaState`, `TLAPS` |
| `XorgProofs` | theorems about the X plugin | extends `XorgConn`, `XinputDevices`, `XKey`, `TLAPS` |
| `AnswersProofs` | theorems about children, D-Bus calls, RandR, conversions and calls | extends `Spawn`, `DBusCalls`, `Randr`, `Callable`, `TLAPS` |
| `MC*` | instances for TLC | extend one or more of the above, INSTANCE others |

### One run for several components

`MCValues`, `MCEventPlugins`, `MCAnswers` and `MCLua` check several components
in one run. A behaviour is one of a single component, chosen by the variable `part` in the
initial state. They extend the components that theorems are about; the variables of a
part that does not run stay as they are initially, where its invariants hold and none of
its steps is enabled that its fairness is about. The state space is
the sum of those of the components. A property is checked under
its own name, which is also the one in its theorem. The components do not share state in the code either but through
the object layer, whose promise (`ObjectLife`) they rely on.

Each component states its invariants as named parts and one conjunction
(`SignalsSound`, `ConnectionSound`, ...), which is what the run checks.

### Reentrancy as an explicit stack

Where a call may run user code in its middle (`DiObject`, `DiSignal`, `Roots`)
the C call stack is a variable `stack` of frames with a program counter. One
action is one stretch of C between two call-outs. User actions are enabled when
the stack is empty (a main loop callback) or when the top frame has called out
and waits. `EventSource` and `Spawn`, whose callbacks do not nest, have a single
frame (`callback`, `cb`). `MaxDepth` bounds the nesting.

### Liberties

User code may do things the code does not survive. Each such thing is a named
permission in the constant `Liberties`, stated in the guard of the action that
would do it and nowhere else; everything not named there is always permitted.
A passing run says how far user code may go, and a run that expects a violation
adds one permission. In `DiObject` the variable `liberties` is chosen in the initial state
and kept: it is `Liberties` or empty, so that one run has programs of both sorts.
Those of `Roots` are in `RootLiberties`, since it shares a run with other parts.

Elsewhere nothing is forbidden, and code that uses freed memory, a null pointer or a
number as an object ends the behaviour in a state that says so: `Crashed` in `Members`,
`crash` in `XinputProps`, `crashed` in `XKey` and `XorgConn`, `freed` in `XinputDevices`, `spin` in
`FileWatch`. What holds is claimed until then, and where it can be said who is to blame, the
property says that, too (`FreedByScript`, `SpinsOnlyStale`).

### DiObject

A *cell* is any place that can hold an object pointer: a variable of user code
(`Var`), a member (`Mem`), or the reference that a running `di_destroy_object`
or `di_finalize_object` holds (`Frm`). `own` and `weak` say what each cell holds,
so that the counters of the code can be compared with what they count.
`UnrefObject` is the whole of `di_unref_object`: decrement, start of
`di_destroy_object` when the strong count reaches 0 (mark, take the reference,
push the frame), or release of the implicit weak reference. `CallDtor`,
`StartRemoval`, `RemoveNext`, `Finish` are the stretches of
`di_destroy_object`/`_di_finalize_object` between call-outs. Member values other
than objects, getters and setters are left out.

### DiSignal

`sig` holds the `di_signal` structs with `nlisteners`, `handle` the listen handles
and the weak references to them. `Listen*`, `Emit*`, `StopListener` ..
`HandleDestroyed` are the stretches of `di_listen_to`, `di_emitn` and
`listen_handle_dtor`; `UnrefOwner`/`OwnerDestroyed` the part of
`di_destroy_object` that detaches signals. Frames remember which handlers were
called and which listeners stopped before their turn, so that `EmissionFaithful` can
compare: what was visited so far was called exactly if it was not stopped, in the order
of the snapshot.

### EventSource

`ref[s]` is the `__deai` member of source `s`. `Settle` destroys the deai object
in the very step that removes the last strong reference, as `di_unref_object`
does; its destructor breaks the loop and closes every watcher's chance to fire.
`zero` are the timers and periodics whose timeout or interval is 0. `ev_timer_again`
starts no such timer and stops one that runs (`event.c:208`, `215`, `242`), while `__deai`
stays or becomes strong; a periodic of interval 0 is stopped by libev when it fires once.
`leaked` records references that the code takes and never gives back. These two are the
only ways in which deai goes on although nothing can happen: `QuitsWhenIdle` is an
equivalence, and `Stranded` has both (see section 6).

### Roots

Named roots are a sequence because `HASH_ITER` visits them in insertion order.
`Quit` is `di_prepare_quit`: `di_finalize_object` on the registry, whose dtor
(`di_roots_dtor`, frame `drop`) moves the anonymous roots to `objects_to_free`
and releases them one by one, then the members go (frame `iter`). The counter of
handles wraps at `IdSpace` (2^64 in the code).

### Spawn

Characters are a newline and one other. `StartOutput`, `Read`, `ScanLine`,
`ScanRest` are `output_handler`; `buf` is the number of nodes of a `string_buf` and their
text, because an empty node counts as "not empty". The history `lines` has for each line
emitted where in the output it begins. `Sigchld*` are `sigchld_handler`: drain and flush
stdout, then stderr, emit exit, clean up. The child and whoever inherits its
pipes write at any time. Characters left out: NUL (see hazards).  `kill` is an
`Exit`, which may happen at any time; an output watcher that wakes at end of file
reads nothing and changes nothing.

### LuaObjects

`entry` is `object_to_lua_ref`; its three parts (map entry, weak reference in the
registry, owning member of the state object) are made and removed by the same two
functions, so that one variable stands for them. `proxy` follows each userdata
from its creation over the two steps of Lua's collector: `Collect` clears the weak
reference, `Gc` is `__gc`. `PushKnown` and `PushNew` are the two ways through
`di_lua_pushobject`. `held` is one reference of the rest of the program to each
object, and a script has at most one weak proxy of each object at a time. The
addresses of destroyed objects are not used again.

### Members

One object with its member table. Values are objects that can be called, objects that cannot, and
values of other types (`Plain`). `frames` is the stack of running `di_setx`, `di_getx`,
`di_remove_member`, calls and destructors of values. `Candidates` are the handlers
`call_handler_with_fallback` tries; `CallHandler`, `NoHandler`, `MemberHandlerReturns`, `SetFree`,
`SetWrite`, `SetAdd`, `RemoveRaw` are the stretches between call-outs. A member keeps the type it
was made with (`object.c:175`), so that a set to a value of another type leaves it with `garbage`,
and one of an object member to a plain value dereferences it (`WriteAsObject`). While the
destructor of a value that `di_setx` replaces runs, the member still has that value, and a read,
call, set or removal of it is a use after free (`TouchReplaced`, `FreeReplaced`); `MembersSound`
says that it is the only time when there is such a member. `done` remembers the operation that
ended last, what it called and what it should have called. Names are pairs of a prefix and a base,
since the code tells them apart by prefix. References that the code loses (`object.c:58`) are
counted in `leaked`, one for each candidate that cannot be called. What a getter returns goes to
the user; that it is flattened (`object.c:230`) and called by `di_callx` is not followed.

### Convert, Callable

`Convert` has C's integer comparisons at scaled widths (`NarrowHalf`, `WideHalf`: the
number of non-negative values of a signed type): both operands are wrapped to their
common type first. `TypeConversion` says of a result
whether it was borrowed or cloned. `Callable` follows one call through the
trampoline argument by argument with a count of live clones, captured values and a
function that may drop the closure it is called through. Of a typed getter it counts the
pieces of memory that are alive and the ones that the caller owns; they differ by `Strayed`, the
box of a variant whose value is handed out and a value that is asked for as nil
(`object.c:256`).

### LeakCheck

A graph of objects, marks 0, 1, 2, and the recursion of the depth first search as a
stack, each call with the members it has still to visit. What is reachable is defined by
closed sets. TLC enumerates every graph over three objects with every set of anonymous
roots.

### MainLoop, KillDescendants

`MainLoop` counts the references to deai: those of main and those that user code keeps.
The read of an unset result (`main.c:666`) is a choice of outcomes. `KillDescendants`
has processes that fork, exit and get init as their parent, while `ReadEntry` reads
one after the other; then `Link` splices and `Walk` walks the ring as
`__list_splice` leaves it. A pid is not used twice.

### The Lua plugin

`LuaListeners`: `roots` are the two anonymous roots, `rooted` what they keep, `lua` and `wrapper`
the two users of the struct; `CallNext` and `HandlerReturns` are an emission over a snapshot.
`LuaState`: `active` is the stack of loads and calls, each with the environment it saved and what
it holds. `astray` records a getter that failed (`lua.c:268`). `LuaValues`: one value goes one or
two ways; a table is a function on its keys, where key 0 stands for all others. `lua53` says
whether the build has the integers of Lua 5.3 or the doubles of LuaJIT, 5.1 and 5.2, which
`meson.build` prefers: there a double that a `lua_Integer` is equal to comes back as an integer
(`compat.c:41`), and an integer of more than 53 bits as a rounded one. NULL objects, strings and
pointers are nil to Lua, and pointers cannot be read back. The loop of `di_lua_checkarray` is one
step for each key of the table (`CheckFirst`, `CheckNext`, with `at` and `elem`), because what it
decides depends on how two orders of the keys agree. A table is taken to be at a positive index of
the stack, where arguments and assigned values are; what the loop does with a relative index,
below which its own keys are pushed (`lua.c:268`, `692`, `807`), is not modelled, so the values
are no tables of tables and no tables that Lua functions return.

### The D-Bus plugin

`DBusNames` has the bus as two queues, so that requests, answers, changes of owner and
signals race. `known` counts the entries that the list of known names has for each name and
peer. A request remembers the objects there were when it was sent, and a message the owners
at that time; of the latter the connection sees only the owner of the name it is about. `lost` and
`spoilt` record the three ways in which the code loses an update: a request that was cancelled (`lost`), an
entry that goes with those of a shorter name (`clipped`, `dbus.c:92`), and an old entry that
an answer without owner leaves in place (`stale`, `dbus.c:118`; a name watched, given up, left by its owner
and watched again). `Reliable` are the watched and answered names in none of these states, and what is said of entries
and signals is said of them. `DBusCalls` has the connection object, kept by user
code, by objects and by waiting replies, the dispatching loop (`loop`) with handlers in
its middle, and the shutdown that is put off to the next turn of the main loop.
`dead` records a message that reaches the filter after the object is gone. A call on a connection that
is gone, and one that cannot be serialised or sent (`dbus.c:67`, `341`, `349`), whose NULL the code listens on, is left out.

### The file plugin

`kernel` is what inotify watches, `given` the watch descriptors it gave out, `entries` the
tables (one sequence, newest first, as `HASH_FIND` would find them). `queue` is all that
was ever queued, with two cursors: `read` events were read, in chunks of up to `MaxRead`,
and the loop is done with `scanned`. Paths are added one by one (`adding`), and files may
change or go away in between. `fw = "spin"` is the loop that does not move on (`file.c:50`).
An overflow of the queue of the kernel, whose event names no watch and makes the loop spin too, is left out.

### The X plugin

`XorgConn`: the count of the connection, for each extension its count and whether `dc` is set, and
the table, a set, since nothing depends on its order; `Finalized` is `di_finalize_object` of the
connection with its loop over extensions (`FreeSubs`), during which no user code runs. A handler
of `key` or `xinput` that drops the last reference to the extension it is served by may crash its
loop (`key.c:277`, `xinput.c:597`); key events may come for any key, also for ones that are not
grabbed (any more). `XKey`: bindings, their list (the head last, since new ones are put there),
the grabs at the server, and the loop of an event over the list with the binding in hand (`kb`)
and the one saved (`nkb`). `Randr`: the server's times, `cts`, and the retry loop of
`set_view_config`. `XKeymap`: the loops of `set_keymap` and `find_modifiers` step by step: levels
are measured, keys pressed one after the other in a state of xkbcommon (external), whose locks and
latches have to be undone, cells linked into one list for each modifier, and lists copied into
rows. The arrays of cells have `MaxCells` entries (`MAX_KEYCODE`) and are written without a check;
what happens past their end is not modelled (`overrun`), nor are a missing keymap and more than
one layout (`xorg.c:352`, `375`). `Randr` takes it that a user keeps the extension and that
outputs are found (`randr.c:359`). `XinputDevices`: the extension, device objects and a cursor
(`at`, `flag`) over a hierarchy event; `freed` is the loop that goes on with an extension that a
handler freed (`xinput.c:597`). `XinputProps`: the two requests of a read and the change of a
property, with bits per item scaled down. `Store` makes numbers floats (`AsFloat`, exact up to
`ExactFloat`, 2^24 in the code) or wraps them to the format, and strings are read to a NUL, in the
reply or after it (`Text`); a request to a device that is gone has no reply, and NULL is read
(`crash`).

## 3. Runs

All runs have `CHECK_DEADLOCK FALSE`: a program whose objects are all released, or
whose child has gone, has nothing left to do.

| run | instance | what it shows |
|---|---|---|
| `object` | 2 objects, 2 member names, 2 variables, depth 4, with all liberties and with none | counts exact, no dangling reference, no double destruction, whatever destructors do; the member loop safe where destructors leave it alone (`RemovalSafe`) |
| `object_live` | 2 objects, 1 name, depth 3, members may be added late | destruction terminates; the counters implement `ObjectLife` |
| `values` | signals: 2 names (one internal), 3 structs, 3 handles, depth 4; integers of 4 and 16 values; calls of 2 arguments; 3 objects; 3 keycodes, 2 modifiers, 5 cells; properties of 2 items, 2 changes; 2 plugins, 9 command lines, 2 keepers; 5 pids | emissions are faithful and signal structs owned; conversions and calls exact; the leak check is right; keymaps and properties come out as they should; the loop has its deai, the exit status is true; only descendants are killed, and all that were read |
| `event_sources` | 2 timers, 2 ioevs, 1 periodic; 3 paths of 2 files, 3 watch descriptors, 2 events, reads of up to 2; 2 names, one a prefix of the other, 2 peers, 2 objects of a name, 1 change of owner; 3 extensions; 2 bindings, 2 keysyms and keycodes; 2 devices, 1 event of up to 2 infos | strong iff started (but for timeouts of 0), no watcher of a dead object, deai quits when idle exactly if no reference is stranded; each plugin's tables agree with the kernel, the bus or the server |
| `answers` | children: 3 characters, buffer of 2, 1 failed run; 2 calls and 1 signal; 3 changes of the server; roots: 3 objects, 2 keys, 3 ids, depth 3 | lines faithful for every chunking, exit announced, after all lines, and last; calls are answered once; `set_view_config` returns and keeps outputs; roots keep objects alive, handles unique, quit ends and drops everything |
| `lua_objects` | 2 objects, 4 proxies; 2 listeners, 3 emissions, depth 2; 2 scripts, 3 nested calls, 2 states; integers of 8 values, doubles exact up to 2, keys up to 3, with and without integers in Lua; members: 3 values of 3 sorts, 6 names, 2 members, 2 nested calls | one proxy for each object, which keeps it alive; listeners, state and values of scripts; handlers found, called and released, and sets that store (`HandlersExact`, `SetStores`) |
| `signal_new` (violation) | signals with `stop_in_new_signal` | the signal created before `__new_signal` may be freed inside it |
| `event_restart_in_handler` (violation) | event sources with `restart_in_handler` | a timer started from its own handler runs with a weak reference |
| `quit_when_idle` (violation) | 1 timer, 1 ioev, 1 periodic, no liberties | a timer whose timeout was set, then dropped, leaves a reference to deai that nobody gives back, and deai does not quit |
| `spawn_drop` (violation) | children with `drop_in_handler` | a line handler that drops the object frees it under `output_handler` |
| `lua_gc` (violation) | proxies with `late_gc` | a late `__gc` removes the record of the object's new proxy |
| `integer_conversion` (violation) | integers of 4 and 16 values | unsigned numbers that fit a signed type are refused |

Why the bounds are enough. Two objects give every shape of reference that
matters between a destroyed object and another one (itself, its member's owner,
an upgrade of itself), two names give the saved *next* member something to go
stale, and depth 4 allows a destruction inside a destructor inside a member
removal inside a destruction. Three handles and depth 4 allow a handler that
stops one listener, adds another and emits again. Three ids make the counter wrap
after two roots, with a key for each of two more. A buffer of 2 with 3 characters has lines
longer than a read, a newline first, last and alone in a chunk, and a full
chunk before another one. Four proxies let one object be collected and pushed again three times.
Integers of 4 and of 16 values have every pair of widths and signs, and every number. Three
objects have a cycle that is reached, one that is not, and two paths to one object.
Two files under three paths have a file watched twice. Two names with one prefix have
the comparison that clips. Two queued messages in each direction let an answer pass a
change. Three extensions and two references each let handlers drop an extension that
comes before, at and after the one that is being served. Two bindings can share a
grab, swap keycodes and be dropped in either order. Three changes of the server make
`set_view_config` fail twice. Five pids give deai a child with a child, an orphan and
a stranger. Two scripts with three calls fail at the bottom, in the middle and on top.
For the components with a theorem (section 5) the bounds do not matter for the safety
properties that it states: they are proved for all values.

## 4. Fairness

* `DiObject`, `Roots`: loops and unwinding go on (`WF` of the steps of the frames),
  and every destructor eventually returns although it may do other things first
  (`SF` of its return at each depth). C code that has been called runs; that
  destructors return is what the whole event-driven design requires of user code.
* `Spawn`: a callback that has begun goes on, and libev calls the SIGCHLD watcher
  of a child that has exited. No fairness is assumed of the child, of user code
  or of the output watchers. The total output is bounded by `MaxWrites`: a process
  that keeps a pipe and writes for ever, faster than it is read, can keep
  `sigchld_handler` reading for ever, which the model does not show.
* `DBusCalls` (`CallAnswered`): a dispatching that has begun goes on (`WF`); the main
  loop gets round to a readable connection, and handlers return (`SF`, because a user
  step may disable them for a while); the put off half of the shutdown runs. Nothing
  is assumed of the bus: the property is about answers that have arrived. libdbus may
  withdraw its watch, in which case nothing is promised.
* `Randr` (`SetReturns`): the two requests of the retry loop, which are synchronous,
  come back (`WF`). Other clients change the server a bounded number of times
  (`MaxTime`); one that always wins the race would keep the loop going.
* In `MCAnswers` the fairness of a component is about its own steps, which
  no other part enables: in the initial state of a part that does not run there is no
  call, child, message or request that could go on.
* Everything else: safety only.

## 5. Proofs

All theorems are about the `Spec` of a component, for every value of its constants that
its named assumption admits. TLC evaluates these assumptions in the passing runs. They
say that bounds are natural numbers, that sets of names do not overlap with the markers
used beside them (`Null`, `None`, `"conn"`, ...), that deai's pid is not init's
(`KillAssumption`), and that the counter of roots has at least two values
(`Roots!ConstantsAssumption`). Where the code does not survive what user code may do, the
theorem has the hypothesis `Liberties = {}` (or the one liberty it excludes), which is what
the passing run has, too; the runs that expect a violation show that it is needed.

| theorem | property | hypothesis |
|---|---|---|
| `TypeCorrect`, `StrongCountsExact`, `WeakCountsExact`, `NoDanglingReference`, `NeverDestroyedTwice` | the invariants of `DiObject` | none |
| `CountingImplementsLife` | the refinement `ImplementsLife` | none |
| `RemovalIsSafe` | `RemovalSafe` | none (the property is about `liberties = {}`) |
| `HandlersAlwaysExact` | `HandlersExact` | none |
| `SetsStore` | `SetStores`, an action property | none |
| `EmissionsAlwaysFaithful`, `SignalsAlwaysSound` | `EmissionFaithful`, `SignalsSound` | `Liberties = {}` |
| `SourcesAlwaysSound`, `AlwaysQuitsWhenIdle` | `SourcesSound`, `QuitsWhenIdle` | `Liberties = {}` |
| `FilesAlwaysFaithful` | `FilesFaithful` | none |
| `NamesAlwaysFaithful`, `SignalsAlwaysAttributed` | `NamesFaithful`, the action property `SignalAttribution` | none |
| `RegistryAlwaysSound` | `RegistrySound` | `RootLiberties = {}` |
| `MainAlwaysSound` | `MainSound` | none |
| `AlwaysKillsDescendants` | `KillsDescendants` | none |
| `SweepAlwaysExact` | `SweepExact` | none |
| `ChildAlwaysSound` | `ChildSound` | `Liberties = {}` |
| `CallsAlwaysSound` | `CallsSound` | none |
| `RandrAlwaysSound` | `RandrSound` | none |
| `ConversionAlwaysExact`, `CallsAlwaysFaithful` | `ConversionExact`, `CallsFaithful` | none |
| `ProxiesLive`, `ProxiesAlwaysExact` | `ProxyLive`, `ProxiesExact` | no `late_gc` |
| `ListenersAlwaysSound` | `ListenersSound` | none |
| `StateAlwaysSound` | `StateSound` | none |
| `ValuesAlwaysExact` | `ValuesExact` | none |
| `ConnectionAlwaysSound` | `ConnectionSound` | none |
| `DevicesAlwaysFaithful` | `DevicesFaithful` | none |
| `BindingsAlwaysFaithful` | `BindingsFaithful` | none |
| `PropsAlwaysExact` | `PropsExact` | none |
| `KeymapAlwaysExact` | `KeymapExact` | none |

What the properties leave out is named in them and stays so in the theorems: stopped timers and
periodics with timeout or interval 0, which may be strong, and the stranded references
(`SourcesSound`, `QuitsWhenIdle`); names in the three states `lost`, `clipped` and `stale`
(`NamesFaithful`, `SignalAttribution`); a hierarchy event whose handler frees the extension, which
is pinned to scripts that hold neither it nor a device (`DevicesFaithful`); doubles without Lua's
integers, NULL, pointers and weak references (`ValuesExact`); numbers that an item of a property
cannot hold, a property that grows while it is read, and strings past their NUL (`PropsExact`);
the two leaks of typed getters (`CallsFaithful`); members that keep another type than that of the
value they are set to (`SetStores`).

### DiObjectProofs

None of the invariants is inductive alone. That an unref may destroy is right
only if the count is exact; that the count stays exact over a nested destruction
needs to know that each frame owns a reference; that a freed object is referred
to by nobody needs both counts. The inductive invariant is

    IInv == HeapInv /\ StackInv

`HeapInv`: types, `RefCountExact`, `WeakCountExact`, and `CountedIsLive` (an object
with a positive weak count is allocated). `StackInv`: frame `d` holds its object in
cell `Frm(d)`, cells above the stack are empty, the objects of `destroy` frames are
marked destroyed and pairwise different.

The counts are cardinalities of sets of cells, so the argument rests on a few
lemmas about how such a cardinality changes when one cell is written (`CountSet`),
cleared (`CountClear`) or moved (`CountMove`). One lemma for each primitive
(`RefObjectHeap`, `WeaklyRefObjectHeap`, `DropWeakRefHeap`, `UnrefObjectHeap`)
lifts them to `HeapInv`; a lemma for each stack shape (`SetTopStack`, `PoppedStack`,
`UnrefObjectStack`) does the same for `StackInv`; `NextInv` puts them together, one
step for each action. The refinement uses `IInv` and `FreshUnmarked` (an object
never allocated is not marked destroyed), maps `mem` and `destroyed` to the
life stages, and shows each primitive to be one abstract step or a stutter.

`RemovalInv` is about the loop over members. `FramesInv`: the member that a frame has saved
as its next one is there, and of two frames that loop over one object only the inner one
has a saved member. `DeadInv`: an object that was destroyed, by no frame that still runs,
has no members. `OneKind`: a cell holds one reference, strong or weak. The first two take as
a parameter the cell whose reference is about to be released, because a release may
start a destruction with the member still in its cell. Each step is shown for a
program without liberties; `IInv` says which objects a dropped member may take with it.

### MembersProofs

An operation on a member looks for its handlers, calls one, frees the old value and stores the new
one, and user code runs in between. `FrameOK` says of each frame what it knows at its program
counter: the handler that is held is the one that runs, and what was called is what was wanted
when the operation began. `StackOK` is about frames together: only the innermost one is looking
for a handler, and a member that a `di_setx` is replacing stays in the table with its freed value,
because a call inside that sets or removes it crashes. `LookOK` says that the wanted handler is
still the first one, and `Counted` that the count of each object is its references from members,
variables and frames and those that were lost; the latter are cardinalities over a finite table
and a stack, and `InTableSet` and its companions say how they change.

### LuaProofs

For proxies it proves `ProxiesLive` and `ProxiesAlwaysExact` for all
sets of objects and proxies without the liberty `late_gc` (with it, `ProxyLive` is
false, as `lua_gc` shows). The inductive invariant adds `RecordsAgree`: a live
proxy is the one on record for its object, and what is on record is a live or dead
proxy of that very object. Without it a push could find a record that keeps some
other object, and `__gc` could release a reference that is not its own.

For listeners, `ListenInv` says of each listener that what the roots keep is what its struct says
(`rooted => roots`), that the wrapper of `once` is there and was not called as long as the
listener is rooted, and that the struct is freed exactly if it has no user left; and of
the signal that it lists rooted listeners, each once. That `once` is once does not follow
from the calls alone: a nested emission has the listener in its snapshot as well, and what
keeps it from calling is that the first call has unrooted it before it calls the handler.
No property of the stack of emissions is needed.

For scripts, `StateInv` has the two counts and the chain of environments:

* `WorldOK`: the state that the module knows is counted once for each live script and once
  for each running call, and every other state is closed; a script is counted once for each
  user, each value it gave out and each call of its code, and names the state exactly while
  it is counted. `OneState` and `StateOwned` follow.
* `CallsOK`: calls run in the state that the module knows. A script that is loaded from
  another one therefore finds this state, and not a new one.
* `EnvOK`: each call has saved the script of the call around it, the outermost one has saved
  none, and the registry names the innermost. That a failed call restores the registry
  is what keeps it; it is claimed only until a getter has failed (`astray`).

The number of live scripts and of the calls of a script are cardinalities; lemmas say how they change
when a script is loaded or given up and when a call begins or ends, one lemma for each
operation on references lifts them to `WorldOK`, and one for each action puts the parts together.
`StateAssumption` asks that the scripts are finitely many, which they are at any time, and
that the null pointer is none of them.

For values, `ValuesInv` says what the stack holds for the value that was pushed, and `CheckedOK`
what the loop of `di_lua_checkarray` knows: the keys 1 to `at` are there, with values of one kind, one of
which has the type `elem`, and all fit it, which is what `di_lua_table_to_array` asserts
(`lua.c:696`). The loop looks up one integer for each key the table has. That it
has found as many as there are means that there is no other key: this is an argument about
cardinalities, not about the order in which `lua_next` yields keys, and therefore holds for any
order. `ValuesAssumption` asks that narrow integers fit a `lua_Integer`.

### DiSignalProofs

The largest of the proofs, because every operation of signals calls user code in its
middle. What the properties say of the signals is inductive only together with what the
calls on the stack are owed, so `SignalInv` has a part for each:

* `ListsOK`: a listener is in the list of its signal exactly while its handle is live,
  and the count is the length of the list;
* `ClaimsOK`: a struct without listeners is *claimed* by exactly one call, a `listen` in
  `__new_signal` or a `stop` that has unlinked the last listener. This is what makes it
  right that a stop which finds the list empty frees the struct although `__del_signal`
  was called in between, and what `stop_in_new_signal` breaks;
* `OwnerOK`: the object is destroyed once, and what refers to it while it is being
  destroyed is above its destruction on the stack (`resurrect` breaks it);
* `TableOK`: the table has every allocated signal that no running stop has detached;
* `StopsOK`, `SnapshotsOK`: a handle that is being destroyed is so by one call, and was
  found by emissions below it only; so the innermost emission never meets a handle in the
  middle of its destruction, and what it skips was stopped;
* `WeakOK`: the weak count of a handle is at least the number of emissions that still
  have to visit it, plus one for its entry, so none of them visits freed memory. It is
  *at least*, not *equal to*, because of the references that `EmitSkip` leaves.

The lemmas come in layers: pushing, popping and changing the top frame; what each part
of the invariant says of a stack that shrinks or grows; the functions of `sig` and
`handle`; then one lemma for each action.

### EventSourceProofs

The invariant adds to `TypeOK` and `RunningAgrees`: `RefsAgree` (`__deai` is strong when the
source is started, and otherwise weak, but for a timer whose callback runs and a timeout or
interval of 0), `CallbackSound` (the source of a running callback is not freed, and a
timer is stopped during its own) and `DeaiCounted` (deai lives exactly as long as a strong
reference). `QuitsWhenIdle` follows: with every source stopped, the strong references left are the stranded ones.

For files, `FileInv` ties four tables together: a watch descriptor belongs to one file, in
the kernel (`KernelOK`), in the entries (`EntriesOK`) and in the queue (`QueueOK`), which is why
an entry that is found for an event names its file. `StaleOK`: an event that the loop has not
come to has an entry or is of a watch that was removed; so a scan that finds none hangs on
such an event only (`SpinsOnlyStale`). `EndedOK`: the kernel watches nothing for a closed watcher.

For names, the entry and the owner differ while messages are under way, so `NamesInv` speaks of
the queues. `OutOK`: the requests on their way turn the match rules of the bus into the objects
there are. `AskedOnce`: a name has one question or one answer on its way at most. `NameOK`: once a name
was answered, and from its answer in the queue on, every change of the owner is in the queue
(`Chain`), since the bus has a match rule for the name and keeps one (`Told`); and the entry is
the owner before the first message (`Before`). A message is dispatched by moving one position along
this chain, which is why a signal is attributed to the owner its sender was when it was sent,
and not to the present one. `lost` and `spoilt` are where the chain or the entry is broken; a message that takes the name
from an owner mends a spoilt one.

### RootsProofs

`MainInv` follows a failure to the exit status and says that the loop is entered without
a reference of main's but with somebody else's. `KillInv` says that the children of
descendants descend, both in the tree and in what was read of `/proc`, which may be
different trees; `Below` (the descendants of a process in a tree) is defined as the least
closed set, so that no induction is needed. `ListInv` is about the list that
`kill_all_descendants` makes. Where parents are listed first, there is a numbering `pos` of the
processes linked so far (the invariant says only that it exists) in which `nxt` leads to the next
number (`Ordered`) and the descendants of each process come directly after it (`Together`).
To splice a process in after its parent is to renumber (`Inserted`). The walk has visited the
interval from `Self` to `visiting`; if a descendant is left, the next process is one of them,
and its parent is in the interval, so that the walk goes on. `RootsInv`: `HandlesBelow` (all handles given are
below the next one, unless that one is 0 because the counter has overflown, after which
none is given), `OneLoop` (at most one loop over the members has a next one, and none
below `di_roots_dtor` has), `QuitOrder` and `QuitLoop` (what is left after the methods are
gone is what a running quit removes).

`LeakInv` follows the depth first search without induction over graphs: reachability is
membership in every closed set. Visited objects are reachable (`SeenReached`), and what a
visited object refers to is visited or on some list of things to do (`NoneMissed`), so that at
the end the visited objects are a closed set. For cycles, `DoneInOrder` has for each finished
object a closed set of finished objects without it: what it refers to was finished before.

### AnswersProofs

`ChildInv` says who keeps a `ChildProcess` object that can still fire: user code, or its
own SIGCHLD handler while that runs. An output callback keeps nothing, so the argument
is that nobody can let go of the object during one; this is where `Liberties = {}` is used, and
`spawn_drop` shows what happens otherwise. That nothing follows the exit signal is inductive
once it is known that the callback which announced it is still the one that runs.
`LinesInv` follows the output: lines told, the text in the buffer, the chunk in hand and the pipe
are consecutive pieces of what was written (`Flow`), as long as the stream is open (`OpenOK`); after the
flush at exit everything that the child wrote before it exited was told (`ClosedOK`). A line is a
piece of the output between two newlines, given by positions, so that no induction over
strings is needed.

`DBusInv` says who keeps the connection (`Kept`: it is open exactly as long as user code,
an object or a waiting call refers to it), which reply is in the middle of its emission
(`EmissionsExact`), and that the connection is not closed within the dispatching loop. `RandrInv`
has to know what is on its way: `TimeDue` says that the time kept, or the time in the last
event that renews it, is the server's; `OutputsRead` that what `set_view_config` has read is
still true if the server's time is the one that was read, so that a request which is
accepted overwrites nothing. Conversions of integers are a matter of arithmetic: `Wrap` is
shown to be the identity on the values of a type and to move others by the size of the type, for
each pair of a narrow and a wide type; that is where `2 * NarrowHalf <= WideHalf` is used.
`CallInv` counts the clones of a running call (those of the arguments converted so far) and the
references to the closure, and says of each converted argument that it is the conversion of what
was passed. `DecodeEncode` shows that rotations and reflections are
read back as they were set, the latter modulo 4.

### XorgProofs

Connection and extensions free each other: the last extension to go may take the
connection with it, and a disconnection takes every extension. `CountsOK` says that the
connection is counted once for each extension in the table, once for its user and once for
the running callback, that the table has exactly the extensions whose `dc` is set, and that
the connection is open as long as there are any; `HandlerOK` that the extension whose handler
runs is referred to. One lemma for each way in which an object ends (`UnrefConnOK`,
`UnrefExtOK`, `FinalizedOK`) says how the counts move; the actions follow from them.
`XorgAssumption` asks for finitely many extensions.

`XinputInv` orders the reports of a hierarchy event by info and flag: exactly those before the
cursor were emitted, in order (`SignalsOK`), although handlers disconnect and drop the extension
meanwhile; the count of the extension tells who held it when it was freed. `KeyInv` does the same
for key bindings, whose list changes during the loop. There is a number `a` of bindings, the
oldest ones, that the loop has still in front of it: they are where they were when the event came,
the loop has a reference to each, `kb` is the newest of them and `nkb` the one before (`HandOK`),
and exactly the newer ones that the event matched were told (`ToldOK`). New bindings come at the
other end of the list, and those the loop refers to are not freed, which is why the saved pointer
is never stale. `LinkOK` and `GrabsOK` relate list, objects and the grabs at the server. After a
crash (`key.c:244`) nothing is claimed. `PropsInv` relates what a script asked for to what the
server has (`PropOK`) and what was read to what the server had at that time (`ReadingOK`); a
number that a float has the digits for is kept by `AsFloat`, and what an integer item can hold by
the wrap; formats are 1, 2 or 4 bytes, so that the second request asks for enough whenever the
property is at most four times as long as the first one said.

`KeymapInv` follows the loops of a keymap. Between two keys nothing is depressed or locked and at
most a latch is left (`CleanState`), which is why a key that is pressed changes exactly the
modifiers it acts on (`PressFacts`) and leaves such a state behind (`SettleFacts`); without the
second press of a lock key this fails. `CellsOK` says that a cell leads to the one before it of
the same modifier and that later cells are of later keys, `FoundOK` that the cells are those of
the keys tried so far, and `RowPart` that a row has the keys of the cells that the copying loop
has behind it, in falling order: hence no key is there twice, and the loop ends at the length of
the list, which is at most that of the rows. The place of a keysym comes back by division
(`DivMod`).

### Only model-checked

* Liveness (`DestructionCompletes`, `QuitCompletes`, `ExitAnnounced`, `CallAnswered`,
  `SetReturns`): the prover has no fairness.

No module has a recursive definition: a loop whose iterations depend on each other is modelled as
steps, one whose iterations do not as a function given place by place.

## 6. Where code and documents disagree

Shown by a run ("findings"): `__new_signal` and the signal struct
(`object.c:857`); a timer restarted in its handler (`event.c:66`); the reference to deai
leaked by a restart (`event.c:201`, `84`), after which deai never quits although nothing can happen; output callbacks
without a reference (`spawn.c:151`); the record that a late `__gc` finds
(`plugins/lua/lua.c:368`); integers that fit and are refused (`include/utils.h:36`,
where an unsigned value is compared with the lower limit of a signed type as an
unsigned number; `ConversionExact` is about all other pairs).

Visible in the models without a run of their own: removing a member or a named root that a running
loop visits next (`pull_next` in `DiObject` and `Roots`); roots added by destructors during quit
(`add_while_quitting`); a listen handle dropped while its destroyed owner is still referenced
(`resurrect` in `DiSignal`); weak references an emission does not give back (`EmitSkip`); the
reference a failed run leaves behind (`RunFails`); the strong reference of a timer with timeout 0
that libev does not start (`event.c:242`, `Stranded`); the empty line emitted at exit after output
that ends with a newline (`spawn.c:96`, see `LinesThenExit`); the type that a set to a value of
another type leaves behind (`object.c:175`, where `object.h:253` has "Change the value of member";
`SetStores` says what is there instead) and destructors that touch the member that is being
replaced (`TouchReplaced`); the reference to a handler that cannot be called (`object.c:58`,
`leaked`); the box of a variant that a typed getter hands out the value of (`object.c:256`,
`Strayed`); processes listed before their parents, for which the list is not the pre-order that
`main.c:237` describes (`KillsAllListed`); D-Bus names that are clipped, lose an answer or keep a
former owner (`dbus.c:118`), and the filter that is called after the shutdown (`dbus.c:688`,
`dead`); events of a removed watch on which the file plugin spins (`file.c:50`); references that a
key event takes from bindings with other modifiers (`key.c:260`), bindings that lose their last
keycode (`key.c:244`), an extension that its own handlers free (`key.c:277`, `xinput.c:597`) and
grabs of two bindings; the events that stay selected when an extension goes (`xorg.c:56`,
`xinput.c:101`: `dc` is cleared before `free` is called, which therefore does nothing); a RandR
change between the reading of the time and the selection of events (`randr.c:572`, `missed`);
negative property values, read back as unsigned ones (`xinput.c:465`), numbers made floats
(`xinput.c:290`), and strings read to a NUL the server does not send (`xinput.c:459`); a keymap
with more than 256 pairs of a key and a modifier (`xorg.c:301`, `overrun`); an environment that a
getter leaves behind (`lua.c:268`, `astray`).

## 7. Not modelled

* The wording of errors, logging (`log.c`), thin wrappers of system calls (`os.c`,
  `chdir`, `exec` and `terminate` of `main.c`), the process title.
* `uthash.h`, `list.h`, `span.hpp`: third-party data structures.
* udev, evdev and the C++ bindings: wrappers over the object layer and libraries.
* Proxied signals (`helper.c`): `emit_proxied_signal` asks for the name it stored, a
  string, as a string literal; the conversion fails and `strlen` reads a null pointer
  (`helper.c:39`), so that nothing can be said of an emission.
* The D-Bus wire format (`sedes.c`), single X requests without state of their own
  (backlight, modes, resources, screens), the libffi descriptions of closures.
* The Lua stack: which value is where is left to the C code (`lua.c:664`); scripts pass
  proxies of objects only, not weak proxies or listen handles (`lua.c:860`).
* NUL bytes in the output of children (`string_buf.c:41`).
* A listener of a script whose signal or root cannot be had (`lua.c:976`).
* Allocation failure: the code aborts.

## 8. Plan

The models of the plan are done, and every safety invariant and action property of the
passing runs has a theorem.
