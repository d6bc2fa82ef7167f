----------------------------- MODULE FileWatch -----------------------------
(***************************************************************************)
(* The file plugin (plugins/file/file.c): a watcher object over one inotify *)
(* descriptor.  The kernel's side is external: it gives a file one watch    *)
(* descriptor (wd) for as long as it watches it, queues events in order,    *)
(* and queues an "ignored" event when a watch ends.  It goes on between any *)
(* two steps of the plugin.  Its queue does not overflow here: the loop     *)
(* hangs on the event that tells of it, whose wd of -1 has no entry.        *)
(***************************************************************************)
EXTENDS Naturals, Sequences

CONSTANTS
    Path, File,
    FileOf,         \* [Path -> File]: two paths may name one file
    MaxEntries,     \* bound on the entries of the watcher
    MaxWd,          \* bound on the watch descriptors given
    MaxLog,         \* bound on the events of files
    MaxRead         \* the events that fit into the buffer of di_file_ioev

ASSUME FileAssumption ==
    /\ FileOf \in [Path -> File]
    /\ {MaxEntries, MaxWd, MaxLog, MaxRead} \subseteq Nat

VARIABLES
    exists,     \* the files that exist
    kernel,     \* the wd of each file, or 0
    given,      \* the files that wds were given to
    queue,      \* all events that were queued for the descriptor
    read,       \* how many of them were read
    scanned,    \* how many of them the loop is done with
    entries,    \* bywd and byname, the newest entry first
    adding,     \* the paths that are still to be added by the running call
    fw,         \* "new", "making", "idle", "scan", "emit", "spin" or "closed"
    kept,       \* user code holds a reference to the watcher
    removed,    \* history: wds of entries that were removed
    emitted     \* history: the events that were emitted, and the names

inotify == <<exists, kernel, given, queue>>
fileVars == <<inotify, read, scanned, entries, adding, fw, kept, removed, emitted>>

FileInit ==
    /\ exists = File /\ kernel = [f \in File |-> 0] /\ given = <<>> /\ queue = <<>>
    /\ read = 0 /\ scanned = 0 /\ entries = <<>> /\ adding = <<>>
    /\ fw = "new" /\ kept = TRUE /\ removed = {} /\ emitted = <<>>

\* HASH_FIND: i is the entry that a lookup by wd or by name finds.
FoundByWd(i, w) == entries[i].wd = w /\ \A j \in 1..(i - 1) : entries[j].wd # w
FoundByName(i, p) == entries[i].name = p /\ \A j \in 1..(i - 1) : entries[j].name # p

----------------------------------------------------------------------------
(* Adding and removing *)

\* User code can call a method of the watcher.
MayCall == fw \in {"idle", "emit"} /\ kept /\ adding = <<>>

\* di_file_add_many_watch
AddMany(ps) ==
    /\ MayCall
    /\ Len(entries) + Len(ps) <= MaxEntries /\ Len(given) + Len(ps) <= MaxWd
    /\ adding' = ps
    /\ UNCHANGED <<inotify, read, scanned, entries, fw, kept, removed, emitted>>

\* di_file_new_watch
NewWatch(ps) ==
    /\ fw = "new"
    /\ adding' = ps /\ fw' = "making"
    /\ UNCHANGED <<inotify, read, scanned, entries, kept, removed, emitted>>

NewWatchReturns ==
    /\ fw = "making" /\ adding = <<>>
    /\ fw' = "idle"
    /\ UNCHANGED <<inotify, read, scanned, entries, adding, kept, removed, emitted>>

\* The wd that inotify_add_watch returns.
WdOf(f) == IF kernel[f] = 0 THEN Len(given) + 1 ELSE kernel[f]

\* di_file_add_watch: a path added twice gets the wd it has and a second entry.
AddWatch ==
    LET p == Head(adding) f == FileOf[p] IN
    /\ adding # <<>> /\ f \in exists
    /\ kernel' = [kernel EXCEPT ![f] = WdOf(f)]
    /\ given' = IF kernel[f] = 0 THEN Append(given, f) ELSE given
    /\ entries' = <<[wd |-> WdOf(f), name |-> p]>> \o entries
    /\ adding' = Tail(adding)
    /\ UNCHANGED <<exists, queue, read, scanned, fw, kept, removed, emitted>>

\* stop_file_watcher: what is queued goes with the descriptor.
Stopped ==
    /\ fw' = "closed" /\ kept' = FALSE
    /\ kernel' = [f \in File |-> 0] /\ entries' = <<>>

\* di_file_add_many_watch stops at the first path that fails, and keeps the
\* ones before it; the new watcher of di_file_new_watch is given up.
AddFails ==
    /\ adding # <<>> /\ FileOf[Head(adding)] \notin exists
    /\ adding' = <<>>
    /\ IF fw = "making" THEN Stopped ELSE UNCHANGED <<fw, kept, kernel, entries>>
    /\ UNCHANGED <<exists, given, queue, read, scanned, removed, emitted>>

Ignored(w, f) == [wd |-> w, file |-> f, kind |-> "ignored"]

\* di_file_rm_watch: the newest entry of the name, and the watch of its wd
RmWatch(p, i) ==
    LET w == entries[i].wd IN
    /\ MayCall /\ FoundByName(i, p)
    /\ kernel' = [f \in File |-> IF kernel[f] = w THEN 0 ELSE kernel[f]]
    /\ queue' = IF \E f \in File : kernel[f] = w THEN Append(queue, Ignored(w, FileOf[p])) ELSE queue
    /\ entries' = SubSeq(entries, 1, i - 1) \o SubSeq(entries, i + 1, Len(entries))
    /\ removed' = removed \cup {w}
    /\ UNCHANGED <<exists, given, read, scanned, adding, fw, kept, emitted>>

\* A handler that drops the watcher leaves it to the callback.
DropWatcher ==
    /\ MayCall
    /\ IF fw = "idle" THEN Stopped ELSE kept' = FALSE /\ UNCHANGED <<fw, kernel, entries>>
    /\ UNCHANGED <<exists, given, queue, read, scanned, adding, removed, emitted>>

----------------------------------------------------------------------------
(* The kernel *)

FileEvent(f) ==
    /\ kernel[f] # 0 /\ Len(queue) < MaxLog
    /\ queue' = Append(queue, [wd |-> kernel[f], file |-> f, kind |-> "event"])
    /\ UNCHANGED <<exists, kernel, given, read, scanned, entries, adding, fw, kept, removed, emitted>>

DeleteFile(f) ==
    /\ f \in exists /\ (kernel[f] # 0 => Len(queue) < MaxLog)
    /\ exists' = exists \ {f}
    /\ kernel' = [kernel EXCEPT ![f] = 0]
    /\ queue' = IF kernel[f] = 0 THEN queue
                ELSE Append(Append(queue, [wd |-> kernel[f], file |-> f, kind |-> "delete-self"]),
                            Ignored(kernel[f], f))
    /\ UNCHANGED <<given, read, scanned, entries, adding, fw, kept, removed, emitted>>

----------------------------------------------------------------------------
(* di_file_ioev *)

Read(k) ==
    /\ fw = "idle" /\ adding = <<>> /\ read + k <= Len(queue)
    /\ read' = read + k /\ fw' = "scan"
    /\ UNCHANGED <<inotify, scanned, entries, adding, kept, removed, emitted>>

\* One turn of the loop, for an event that has the entry i; it goes on after
\* the first n events.
ScanTo(i, n) ==
    LET ev == queue[scanned + 1] IN
    /\ fw = "scan" /\ scanned < read
    /\ FoundByWd(i, ev.wd)
    /\ fw' = IF ev.kind = "ignored" THEN "scan" ELSE "emit"
    /\ emitted' = IF ev.kind = "ignored" THEN emitted
                  ELSE Append(emitted, [at |-> scanned + 1, name |-> entries[i].name])
    /\ scanned' = n
    /\ UNCHANGED <<inotify, read, entries, adding, kept, removed>>

\* Mutant: what was read together with an event is forgotten.
ScanOne(i) == ScanTo(i, read)

Scan(i) == ScanTo(i, scanned + 1)

\* An event without an entry is looked at again for ever.
ScanSpins ==
    /\ fw = "scan" /\ scanned < read
    /\ \A i \in 1..Len(entries) : entries[i].wd # queue[scanned + 1].wd
    /\ fw' = "spin"
    /\ UNCHANGED <<inotify, read, scanned, entries, adding, kept, removed, emitted>>

HandlersReturn ==
    /\ fw = "emit" /\ adding = <<>>
    /\ fw' = "scan"
    /\ UNCHANGED <<inotify, read, scanned, entries, adding, kept, removed, emitted>>

\* The reference of the callback is dropped.
ScanEnds ==
    /\ fw = "scan" /\ scanned = read
    /\ IF kept THEN fw' = "idle" /\ UNCHANGED <<kept, kernel, entries>> ELSE Stopped
    /\ UNCHANGED <<exists, given, queue, read, scanned, adding, removed, emitted>>

FileNext ==
    \/ \E p, q \in Path : NewWatch(<<p, q>>) \/ AddMany(<<p, q>>)
    \/ \E p \in Path : AddMany(<<p>>) \/ \E i \in 1..Len(entries) : RmWatch(p, i)
    \/ NewWatchReturns \/ AddWatch \/ AddFails \/ DropWatcher
    \/ \E f \in File : FileEvent(f) \/ DeleteFile(f)
    \/ \E k \in 1..MaxRead : Read(k)
    \/ \E i \in 1..Len(entries) : Scan(i)
    \/ ScanSpins \/ HandlersReturn \/ ScanEnds

FileSpec == FileInit /\ [][FileNext]_fileVars
----------------------------------------------------------------------------
\* Every event of a watched file is emitted once, in the order of arrival and
\* under a name of that file, whatever the split of the queue into reads and
\* whatever handlers add, remove or delete in between (di_file_ioev).
EventsFaithful ==
    /\ \A i \in 1..Len(emitted) :
          /\ emitted[i].at \in 1..scanned /\ queue[emitted[i].at].kind # "ignored"
          /\ FileOf[emitted[i].name] = queue[emitted[i].at].file
          /\ \A j \in 1..(i - 1) : emitted[j].at < emitted[i].at
    /\ \A k \in 1..scanned : queue[k].kind # "ignored" => \E i \in 1..Len(emitted) : emitted[i].at = k

\* What the kernel watches has an entry, through paths added twice, removals,
\* failures halfway through a list and files that went away.
WatchesKnown ==
    \A f \in File : kernel[f] # 0 => \E i \in 1..Len(entries) : entries[i].wd = kernel[f]

\* As long as the queue does not overflow, the only events on which the loop hangs
\* are those that were queued for a watch before it was removed.
SpinsOnlyStale == fw = "spin" => queue[scanned + 1].wd \in removed

\* The tables of the file plugin know all watches of the kernel, and events are
\* told as they arrived.
FilesFaithful == EventsFaithful /\ WatchesKnown /\ SpinsOnlyStale
=============================================================================
