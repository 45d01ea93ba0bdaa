-------------------------- MODULE ConsoleLogStore --------------------------
(***************************************************************************)
(* The console history on disk (services/console_log_store.rs).  The       *)
(* daemon and the app each append to files of their own in one directory,  *)
(* number them through a shared meta.json, and take a directory lock for   *)
(* everything but the append itself.  Files are rotated by size, compacted *)
(* by local day, pruned by budget and cleared by the user; a reader pages  *)
(* through what is left and says whether something is missing.             *)
(*                                                                         *)
(* A record is one unit of size, time runs in half days, a locked section  *)
(* is two steps (its work on files, then its write of meta.json), so that  *)
(* a crash or a failed write can come in between.                          *)
(***************************************************************************)
EXTENDS Integers, Sequences, FiniteSets

CONSTANTS
    Procs, Sources, SourceOf,  \* processes, and the source each writes for
    App,                       \* the source whose process clears for all
    NoProc, NoFile,
    MaxFiles, FileCap, SourceCap, QueueCap, RetentionDays,  \* ConsoleLogLimits
    Offsets,                   \* offsets of the time zone, in half days
    MaxTime, MaxRecords, MaxClears, MaxFaults  \* bounds of the model

ASSUME LogConstants ==
    /\ SourceOf \in [Procs -> Sources]
    /\ NoProc \notin Procs
    /\ App \in Sources /\ Cardinality(Sources) <= 2
    /\ {MaxFiles, FileCap, SourceCap, QueueCap, RetentionDays} \subseteq Nat \ {0}
    /\ 0 \in Offsets /\ Offsets \subseteq Nat
    /\ {MaxTime, MaxRecords, MaxClears, MaxFaults} \subseteq Nat

(* The daemon has its port and the app its window to itself.  A second     *)
(* daemon, which opens the store before it finds the port taken, is not    *)
(* modelled.                                                               *)
ASSUME OneWriterEach == \A p, q \in Procs : SourceOf[p] = SourceOf[q] => p = q

VARIABLES
    clock,    \* [utc, offset]
    disk,     \* the files: from <<source, epoch, index>> to their lines
    meta,     \* meta.json: [top, src]
    lock,     \* the section that holds the directory lock, and what it will write
    proc,     \* the writer of each process
    queue,    \* commands sent to its thread
    epochs,   \* epochs handed out
    made,     \* records and clears made, generations handed out, faults so far
    command,  \* the clear command of the app: which owner it asks or waits for
    pruned,   \* sources that lost unexpired records to the budget since their clear
    missed,   \* sources for which a section died or failed before it wrote meta.json
    overdue,  \* sources that got a record while a pass was due, or whose pass ended before it
              \* wrote meta.json, since their last pass
    left      \* files left behind: by the last pass over their source, by its last clear

logVars == <<clock, disk, meta, lock, proc, queue, epochs, made, command, pruned, missed, overdue, left>>

-----------------------------------------------------------------------------
(* Time, records and retention.                                            *)

LocalDay(t) == (t + clock.offset) \div 2
Window == [day |-> LocalDay(clock.utc), offset |-> clock.offset]

(* Lines that are no record: half a line, a line that half a line ran      *)
(* into, and half a line that ends inside a character.                     *)
Torn    == [id |-> 0, t |-> 0, cut |-> FALSE]
Spoiled == [id |-> 0, t |-> 0, cut |-> TRUE]
Garbled == [id |-> -1, t |-> 0, cut |-> TRUE]
Half(r) == r \in {Torn, Spoiled, Garbled}

(* What the reader shows and a compaction keeps.  A line from the future   *)
(* is corrupt, as is one that is no record.                                *)
Corrupt(r) == Half(r) \/ r.t > clock.utc
Expired(r) == ~Corrupt(r) /\ LocalDay(r.t) <= LocalDay(clock.utc) - RetentionDays
Kept(r) == ~Corrupt(r) /\ ~Expired(r)

Lines(f) == {disk[f][n] : n \in DOMAIN disk[f]}
FilesOf(d, s) == {f \in DOMAIN d : f[1] = s}
Stored(d, s) == UNION {{d[f][n] : n \in DOMAIN d[f]} : f \in FilesOf(d, s)}
Size(d, F) == Cardinality(UNION {{f} \X DOMAIN d[f] : f \in F})

BlankSource == [gen |-> 0, evicted |-> FALSE, trimmed |-> 0, next |-> 1]
BlankMeta == [top |-> 0, src |-> [s \in Sources |-> BlankSource]]

(* Every source's own generation, or the last one handed out for a source  *)
(* that never cleared: the value by which a reader notices a clear.        *)
Generation(m) ==
    [s \in Sources |-> IF m.src[s].gen = 0 THEN m.top ELSE m.src[s].gen]

(* Reading stops where a line is not UTF-8: how far a file can be read.    *)
End(ls) == Cardinality({n \in DOMAIN ls : \A k \in 1..n : ls[k] # Garbled})

(* What a page of history has of a file, and whether it says of a source   *)
(* that something is missing, for a reader that holds the lock.            *)
Shown(ls) == {r \in {ls[n] : n \in 1..End(ls)} : Kept(r)}
Truncated(d, m, s) == m.src[s].evicted \/ \E r \in Stored(d, s) : Corrupt(r)

-----------------------------------------------------------------------------
(* The pieces of the locked sections, as functions of directory and meta.  *)

Idle == [pc |-> "idle", file |-> NoFile, bytes |-> 0, epoch |-> 0,
         window |-> <<>>, evicted |-> FALSE, trimmed |-> 0, hand |-> Torn]
Off == [Idle EXCEPT !.pc = "down"]

Without(d, F) == [f \in DOMAIN d \ F |-> d[f]]
WithFile(d, f) == [g \in DOMAIN d \union {f} |-> IF g = f THEN <<>> ELSE d[g]]

(* create_new retries until the name is free.                              *)
FreeIndex(d, s, e, from) ==
    CHOOSE n \in from..(from + Cardinality(DOMAIN d)) :
        /\ <<s, e, n>> \notin DOMAIN d
        /\ \A k \in from..(n - 1) : <<s, e, k>> \in DOMAIN d

(* (Variant: only the counter is read back.)                               *)
LoadCounter(w, m, s) == [w EXCEPT !.trimmed = m.src[s].trimmed]

LoadMeta(w, m, s) == [w EXCEPT !.evicted = m.src[s].evicted, !.trimmed = m.src[s].trimmed]

(* (Variant: sizes are not looked at.)                                     *)
VictimsByCount(d, s, active, stuck) ==
    LET closed == FilesOf(d, s) \ {active}
        Fits(T) == Cardinality(FilesOf(d, s) \ (T \ stuck)) <= MaxFiles
    IN  {T \in SUBSET closed :
            /\ stuck \subseteq T
            /\ \A f \in T, g \in closed \ T : f[3] <= g[3]
            /\ Fits(T) \/ T = closed
            /\ T # {} => \E f \in T : (\A g \in T : g[3] <= f[3]) /\ ~Fits(T \ {f})}

(* The closed files whose removal is tried, oldest index first, until      *)
(* number and size of what remains fit the budget or none is left to try;  *)
(* those in stuck remain.  Files of one index have no order.               *)
Victims(d, s, active, stuck) ==
    LET closed == FilesOf(d, s) \ {active}
        Fits(T) ==
            LET F == FilesOf(d, s) \ (T \ stuck)
            IN  Cardinality(F) <= MaxFiles /\ Size(d, F) <= SourceCap
    IN  {T \in SUBSET closed :
            /\ stuck \subseteq T
            /\ \A f \in T, g \in closed \ T : f[3] <= g[3]
            /\ Fits(T) \/ T = closed
            /\ T # {} => \E f \in T : (\A g \in T : g[3] <= f[3]) /\ ~Fits(T \ {f})}

(* (Variant: a file with an expired record goes whole.)                    *)
CompactByFile(d, F, reach) ==
    LET old == {f \in F : \E n \in 1..reach[f] : Expired(d[f][n])}
    IN  [f \in DOMAIN d \ old |-> d[f]]

(* The lines that are kept of the first m, in their order: the i-th of     *)
(* them is the one that has i kept lines up to itself.                     *)
KeptLines(ls, m) ==
    LET keep == {n \in 1..m : Kept(ls[n])}
        Rank(n) == Cardinality({k \in keep : k <= n})
    IN  [i \in 1..Cardinality(keep) |-> ls[CHOOSE n \in keep : Rank(n) = i]]

(* Record by record, for files of which reach[f] lines could be read.  One *)
(* that has only lines to keep is left alone, one with nothing to keep is  *)
(* deleted, any other is rewritten to what was read and kept of it.        *)
Compact(d, F, reach) ==
    LET dead == {f \in F : reach[f] > 0 /\ \A n \in 1..reach[f] : ~Kept(d[f][n])}
    IN  [f \in DOMAIN d \ dead |->
            IF f \in F /\ \E n \in 1..reach[f] : ~Kept(d[f][n])
            THEN KeptLines(d[f], reach[f]) ELSE d[f]]

(* How far a pass gets: to the end of each file, or with a fault up to any *)
(* line of any.  A file that cannot be opened, rewritten or deleted is     *)
(* left as it is, as if nothing of it had been read.                       *)
Ends(d, F) == [f \in F |-> End(d[f])]
Reaches(d, F) == {reach \in [F -> 0..Size(d, F)] : \A f \in F : reach[f] <= End(d[f])}

-----------------------------------------------------------------------------
(* at: "none", "ask" or "wait" for an owner; ok: who confirmed the last    *)
(* one; upto: the last record made before it.                              *)
NoCommand == [at |-> "none", owner |-> App, ok |-> {}, upto |-> 0]

LogInit ==
    /\ clock = [utc |-> 0, offset |-> 0]
    /\ disk = <<>>
    /\ meta = BlankMeta
    /\ lock = [by |-> NoProc]
    /\ proc = [p \in Procs |-> Off]
    /\ queue = [p \in Procs |-> <<>>]
    /\ epochs = 0
    /\ made = [records |-> 0, clears |-> 0, gens |-> 0, faults |-> 0]
    /\ command = NoCommand
    /\ pruned = {}
    /\ missed = {}
    /\ overdue = {}
    /\ left = [pass |-> {}, clear |-> {}]

LockFree(p) == lock.by = NoProc
Due(p) == proc[p].window # Window
Fault == made.faults < MaxFaults
Faulted == made' = [made EXCEPT !.faults = @ + 1]

(* A section begins: lock taken, meta.json read into m, files changed.     *)
(* `was' keeps what the pages had of each file before, for a property.     *)
Section(p, op, m, d, w) ==
    /\ LockFree(p)
    /\ lock' = [by |-> p, op |-> op, meta |-> m, window |-> Window,
                was |-> [f \in DOMAIN disk |-> Shown(disk[f])]]
    /\ disk' = d
    /\ proc' = [proc EXCEPT ![p] = w]
    /\ UNCHANGED <<clock, meta>>

FileAllocated(p, w, m, d) ==
    LET s == SourceOf[p]
        n == FreeIndex(d, s, w.epoch, m.src[s].next)
        f == <<s, w.epoch, n>>
    IN  [w |-> [w EXCEPT !.file = f, !.bytes = 0],
         m |-> [m EXCEPT !.src[s].next = n + 1],
         d |-> WithFile(d, f)]

Open(p) ==
    /\ proc[p].pc = "down"
    /\ epochs < Cardinality(Procs) + MaxFaults + MaxClears
    /\ epochs' = epochs + 1
    /\ LET a == FileAllocated(p, LoadMeta([Idle EXCEPT !.epoch = epochs + 1], meta, SourceOf[p]),
                          meta, disk)
       IN  /\ Section(p, "open", a.m, a.d, a.w)
           /\ left' = [left EXCEPT !.pass = @ \ {a.w.file}]
    /\ UNCHANGED <<queue, made, command, pruned, missed, overdue>>

OfOthers(F, s) == {f \in F : f[1] # s}

(* Allocation, TTL, then budget; `ttl` tells a maintenance pass from a     *)
(* rotation.  A file that defies the one or the other does not end either, *)
(* and the pass counts as done.                                            *)
Housekeep(p, op, from, ttl) ==
    LET s == SourceOf[p]
        a == IF from.file = NoFile
             THEN FileAllocated(p, LoadMeta(from, meta, s), meta, disk)
             ELSE [w |-> LoadMeta(from, meta, s), m |-> meta, d |-> disk]
        closed == FilesOf(a.d, s) \ {a.w.file}
        ends == Ends(a.d, closed)
    IN  \E reach \in IF ttl /\ Fault THEN Reaches(a.d, closed) ELSE {ends},
           stuck \in IF Fault THEN SUBSET closed ELSE {{}} :
            LET d == IF ttl THEN Compact(a.d, closed, reach) ELSE a.d
                unread == {f \in closed : ttl /\ reach[f] < Len(a.d[f])}
            IN  \E T \in Victims(d, s, a.w.file, stuck) :
                    LET V == T \ stuck
                        evicted == a.w.evicted \/ V # {}
                    IN  /\ Section(p, op, [a.m EXCEPT !.src[s].evicted = evicted],
                                   Without(d, V), [a.w EXCEPT !.evicted = evicted])
                        /\ pruned' = IF \E f \in V : \E n \in DOMAIN d[f] : Kept(d[f][n])
                                     THEN pruned \union {s} ELSE pruned
                        /\ left' = [left EXCEPT !.pass =
                              ((IF ttl THEN OfOthers(@, s) ELSE @) \union unread \union stuck)
                                 \ {a.w.file}]
                        /\ IF reach = ends /\ stuck = {} THEN UNCHANGED made ELSE Faulted

Maintain(p) ==
    /\ proc[p].pc \in {"startup", "due", "rollover"}
    /\ Housekeep(p, "maintain",
                 IF proc[p].bytes > 0 THEN [proc[p] EXCEPT !.file = NoFile, !.bytes = 0] ELSE proc[p],
                 TRUE)
    /\ UNCHANGED <<queue, epochs, command, missed, overdue>>

Rotate(p) ==
    /\ proc[p].pc = "append"
    /\ proc[p].file = NoFile \/ proc[p].bytes + 1 > FileCap
    /\ Housekeep(p, "rotate", [proc[p] EXCEPT !.file = NoFile], FALSE)
    /\ UNCHANGED <<queue, epochs, command, missed, overdue>>

(* The counters go to disk in a section of their own.                      *)
PersistCounters(p) ==
    /\ proc[p].pc = "count"
    /\ Section(p, "count",
               [meta EXCEPT !.src[SourceOf[p]].trimmed = proc[p].trimmed,
                            !.src[SourceOf[p]].evicted = proc[p].evicted],
               disk, proc[p])
    /\ UNCHANGED <<queue, epochs, made, command, pruned, missed, overdue, left>>

(* (Variant: the file that is being written stays.)                        *)
ClosedFiles(p) == FilesOf(disk, SourceOf[p]) \ {proc[p].file}
Doomed(p) == FilesOf(disk, SourceOf[p])

(* What a clear leaves: all files of the source go, the active one         *)
(* included, but for those that stay; new generation, new epoch, counters  *)
(* from zero, no maintenance due, and a file to go on with.                *)
Cleared(p, stay, creates) ==
    LET s == SourceOf[p]
        g == made.gens + 1
        m == [meta EXCEPT !.top = g, !.src[s].gen = g,
                          !.src[s].evicted = FALSE, !.src[s].trimmed = 0]
        w == [proc[p] EXCEPT !.epoch = epochs + 1, !.bytes = 0, !.window = Window,
                             !.evicted = FALSE, !.trimmed = 0]
        d == Without(disk, Doomed(p) \ stay)
    IN  IF creates THEN FileAllocated(p, w, m, d)
        ELSE [w |-> [w EXCEPT !.file = NoFile], m |-> m, d |-> d]

(* With a fault any of the files stays, and the clear is confirmed all the *)
(* same, or no new file can be made, and it fails with the old ones gone.  *)
Clear(p) ==
    /\ proc[p].pc = "clear"
    /\ \E stay \in IF Fault THEN SUBSET FilesOf(disk, SourceOf[p]) ELSE {{}},
          creates \in IF Fault THEN BOOLEAN ELSE {TRUE} :
         LET s == SourceOf[p]
             a == Cleared(p, stay, creates)
         IN  /\ Section(p, "clear", a.m, a.d, a.w)
             /\ pruned' = pruned \ {s}
             /\ overdue' = overdue \ {s}
             /\ left' = [pass  |-> OfOthers(left.pass, s) \union stay,
                         clear |-> OfOthers(left.clear, s) \union stay]
             /\ made' = [made EXCEPT !.gens = @ + 1,
                            !.faults = IF stay = {} /\ creates THEN @ ELSE @ + 1]
    /\ epochs' = epochs + 1
    /\ UNCHANGED <<queue, command, missed>>

(* Where the thread goes on after a section, and after one that failed.    *)
After(w, op, ok) ==
    CASE op = "open" -> IF ok THEN "startup" ELSE "down"
      [] op = "maintain" -> IF w.pc = "due" THEN "append" ELSE "idle"
      [] op = "rotate" -> IF ok THEN "append" ELSE "idle"
      [] OTHER -> "idle"

(* What the command does with an owner's answer: the daemon is asked after *)
(* the app, whatever the app answered.                                     *)
Told(ok) ==
    LET oks == IF ok THEN command.ok \union {command.owner} ELSE command.ok
    IN  IF command.owner = App /\ Sources # {App}
        THEN [command EXCEPT !.ok = oks, !.at = "ask", !.owner = CHOOSE s \in Sources : s # App]
        ELSE IF oks = {} THEN NoCommand
        ELSE [NoCommand EXCEPT !.ok = oks, !.upto = command.upto]
(* Every command has a channel of its own for the answer: one that was     *)
(* given up does not answer for the next.                                  *)
ClearCommand == [id |-> -1, t |-> made.clears, cut |-> FALSE]
Awaited(p) ==
    command.at = "wait" /\ command.owner = SourceOf[p] /\ proc[p].hand = ClearCommand

NoNewFile(p) == lock.op = "clear" /\ proc[p].file = NoFile

(* meta.json is replaced by a rename, the lock released.                   *)
Commit(p) ==
    /\ lock.by = p /\ ~NoNewFile(p)
    /\ meta' = lock.meta
    /\ lock' = [by |-> NoProc]
    /\ proc' = [proc EXCEPT
         ![p].pc = After(proc[p], lock.op, TRUE),
         ![p].window = IF lock.op = "maintain" THEN lock.window ELSE @]
    /\ command' = IF lock.op = "clear" /\ Awaited(p) THEN Told(TRUE) ELSE command
    /\ overdue' = IF lock.op = "maintain" THEN overdue \ {SourceOf[p]} ELSE overdue
    /\ UNCHANGED <<clock, disk, queue, epochs, made, pruned, missed, left>>

(* meta.json cannot be written, or a clear had no file to go on with: the  *)
(* section reports it, its work on the files stands.                       *)
CommitFails(p) ==
    /\ lock.by = p
    /\ IF NoNewFile(p) THEN UNCHANGED made ELSE Fault /\ Faulted
    /\ lock' = [by |-> NoProc]
    /\ proc' = [proc EXCEPT ![p] =
         IF lock.op = "open" THEN Off ELSE [@ EXCEPT !.pc = After(proc[p], lock.op, FALSE)]]
    /\ missed' = missed \union {SourceOf[p]}
    /\ command' = IF lock.op = "clear" /\ Awaited(p) THEN Told(FALSE) ELSE command
    /\ overdue' = IF lock.op = "maintain" THEN overdue \union {SourceOf[p]} ELSE overdue
    /\ UNCHANGED <<clock, disk, meta, queue, epochs, pruned, left>>

(* The lock is not free within its bounded wait, or no file can be         *)
(* created: then the writer has none until it rotates.                     *)
SectionFails(p) ==
    /\ Fault /\ Faulted
    /\ lock.by # p
    /\ proc[p].pc \in {"startup", "due", "rollover", "append", "count", "clear"}
    /\ proc[p].pc = "append" => proc[p].file = NoFile \/ proc[p].bytes + 1 > FileCap
    /\ LET op == CASE proc[p].pc = "append" -> "rotate"
                   [] proc[p].pc \in {"count", "clear"} -> proc[p].pc
                   [] OTHER -> "maintain"
           creates == op = "rotate" \/ (op = "maintain" /\ (proc[p].bytes > 0 \/ proc[p].file = NoFile))
       IN  \E w \in {proc[p]} \union
                (IF creates /\ LockFree(p)
                 THEN {[LoadMeta(proc[p], meta, SourceOf[p]) EXCEPT !.file = NoFile, !.bytes = 0]}
                 ELSE {}) :
             proc' = [proc EXCEPT ![p] = [w EXCEPT !.pc = After(proc[p], op, FALSE)]]
    /\ command' = IF proc[p].pc = "clear" /\ Awaited(p) THEN Told(FALSE) ELSE command
    /\ UNCHANGED <<clock, disk, meta, lock, queue, epochs, pruned, missed, overdue, left>>

-----------------------------------------------------------------------------
(* The queue and the thread.                                               *)

Running(p) == proc[p].pc \notin {"down", "startup"} /\ ~(lock.by = p /\ lock.op = "open")

(* (Variant: the queue has no limit.)                                      *)
RecordUnbounded(p) ==
    /\ Running(p)
    /\ made.records < MaxRecords
    /\ made' = [made EXCEPT !.records = @ + 1]
    /\ queue' = [queue EXCEPT ![p] =
                   Append(@, [id |-> made.records + 1, t |-> clock.utc, cut |-> FALSE])]
    /\ UNCHANGED <<clock, disk, meta, lock, proc, epochs, command, pruned, missed, overdue, left>>

(* try_send: a full queue drops the record, which only a counter notes.    *)
Record(p) ==
    /\ Running(p)
    /\ made.records < MaxRecords
    /\ made' = [made EXCEPT !.records = @ + 1]
    /\ \E big \in BOOLEAN :
         queue' = IF Len(queue[p]) >= QueueCap THEN queue
                  ELSE [queue EXCEPT ![p] =
                          Append(@, [id |-> made.records + 1, t |-> clock.utc, cut |-> big])]
    /\ UNCHANGED <<clock, disk, meta, lock, proc, epochs, command, pruned, missed, overdue, left>>

(* console_log_clear: the app's own writer first, then the daemon over its *)
(* management API, which answers when its writer has answered.             *)
RequestClear(p) ==
    /\ SourceOf[p] = App /\ Running(p)
    /\ command.at = "none"
    /\ made.clears < MaxClears
    /\ made' = [made EXCEPT !.clears = @ + 1]
    /\ command' = [NoCommand EXCEPT !.at = "ask", !.upto = made.records]
    /\ UNCHANGED <<clock, disk, meta, lock, proc, queue, epochs, pruned, missed, overdue, left>>

AskOwner(p) ==
    /\ command.at = "ask" /\ command.owner = SourceOf[p]
    /\ Running(p)
    /\ Len(queue[p]) < QueueCap
    /\ queue' = [queue EXCEPT ![p] = Append(@, ClearCommand)]
    /\ command' = [command EXCEPT !.at = "wait"]
    /\ UNCHANGED <<clock, disk, meta, lock, proc, epochs, made, pruned, missed, overdue, left>>

(* It is down, its queue is full, or its answer does not come in time; the *)
(* clear may take place all the same.                                      *)
OwnerFails ==
    /\ \/ /\ command.at = "ask"
          /\ \A p \in Procs : SourceOf[p] = command.owner => ~Running(p) \/ Len(queue[p]) >= QueueCap
       \/ command.at = "wait"
    /\ command' = Told(FALSE)
    /\ UNCHANGED <<clock, disk, meta, lock, proc, queue, epochs, made, pruned, missed, overdue, left>>

(* The thread takes the next command, or finds in its idle timeout that    *)
(* the day has changed.                                                    *)
Take(p) ==
    /\ proc[p].pc = "idle" /\ lock.by # p
    /\ queue[p] # <<>>
    /\ queue' = [queue EXCEPT ![p] = Tail(@)]
    /\ proc' = [proc EXCEPT ![p] =
         [@ EXCEPT !.hand = Head(queue[p]),
                   !.pc = IF Head(queue[p]).id = -1 THEN "clear"
                          ELSE IF Due(p) THEN "due" ELSE "append"]]
    /\ UNCHANGED <<clock, disk, meta, lock, epochs, made, command, pruned, missed, overdue, left>>

IdleTimeout(p) ==
    /\ proc[p].pc = "idle" /\ lock.by # p
    /\ queue[p] = <<>>
    /\ Due(p)
    /\ proc' = [proc EXCEPT ![p].pc = "rollover"]
    /\ UNCHANGED <<clock, disk, meta, lock, queue, epochs, made, command, pruned, missed, overdue, left>>

(* One line, appended without the lock.  To a file that another process    *)
(* has unlinked it is written all the same; one that runs into half a line *)
(* is lost with it, those after it are not.                                *)
Added(ls, r) == Append(ls, IF ls # <<>> /\ ls[Len(ls)] = Torn THEN Spoiled ELSE r)

Write(p) ==
    LET w == proc[p] IN
    /\ w.pc = "append" /\ lock.by # p
    /\ w.file # NoFile /\ w.bytes + 1 <= FileCap
    /\ disk' = [f \in DOMAIN disk |-> IF f = w.file THEN Added(disk[f], w.hand) ELSE disk[f]]
    /\ proc' = [proc EXCEPT ![p] =
         [w EXCEPT !.bytes = @ + 1, !.hand = Torn,
                   !.trimmed = IF w.hand.cut THEN @ + 1 ELSE @,
                   !.pc = IF w.hand.cut THEN "count" ELSE "idle"]]
    /\ overdue' = IF Due(p) THEN overdue \union {SourceOf[p]} ELSE overdue
    /\ UNCHANGED <<clock, meta, lock, queue, epochs, made, command, pruned, missed, left>>

(* A full disk may leave half a line.                                      *)
WriteFails(p) ==
    LET w == proc[p] IN
    /\ Fault /\ Faulted
    /\ w.pc = "append" /\ lock.by # p
    /\ w.file # NoFile /\ w.bytes + 1 <= FileCap
    /\ \E half \in {Torn, Garbled} :
         disk' = [f \in DOMAIN disk |-> IF f = w.file THEN Append(disk[f], half) ELSE disk[f]]
    /\ proc' = [proc EXCEPT ![p] = [w EXCEPT !.pc = "idle", !.hand = Torn]]
    /\ UNCHANGED <<clock, meta, lock, queue, epochs, command, pruned, missed, overdue, left>>

(* The process ends, in a section or not; the lock goes with it.           *)
Crash(p) ==
    /\ Fault /\ Faulted
    /\ proc[p].pc # "down"
    /\ proc' = [proc EXCEPT ![p] = Off]
    /\ queue' = [queue EXCEPT ![p] = <<>>]
    /\ IF lock.by = p
       THEN lock' = [by |-> NoProc] /\ missed' = missed \union {SourceOf[p]}
       ELSE UNCHANGED <<lock, missed>>
    /\ command' = IF SourceOf[p] = App THEN NoCommand ELSE command
    /\ UNCHANGED <<clock, disk, meta, epochs, pruned, overdue, left>>

(* meta.json is damaged or deleted: readers fall back to a blank one.      *)
LoseMeta ==
    /\ Fault /\ Faulted
    /\ lock.by = NoProc
    /\ meta' = BlankMeta
    /\ missed' = Sources
    /\ UNCHANGED <<clock, disk, lock, proc, queue, epochs, command, pruned, overdue, left>>

(* Bound: the clock waits for records that would expire in the queue; the  *)
(* writer is never days behind.                                            *)
Prompt ==
    \A p \in Procs : \A r \in {proc[p].hand} \union {queue[p][n] : n \in DOMAIN queue[p]} :
        r.id > 0 => ~Expired(r)

Tick ==
    /\ clock.utc < MaxTime
    /\ clock' = [clock EXCEPT !.utc = @ + 1]
    /\ UNCHANGED <<disk, meta, lock, proc, queue, epochs, made, command, pruned, missed, overdue, left>>
    /\ Prompt'

(* The user travels, or sets the clock back.                               *)
ChangeClock ==
    /\ Fault /\ Faulted
    /\ \/ \E o \in Offsets : clock' = [clock EXCEPT !.offset = o]
       \/ clock.utc > 0 /\ clock' = [clock EXCEPT !.utc = @ - 1]
    /\ UNCHANGED <<disk, meta, lock, proc, queue, epochs, command, pruned, missed, overdue, left>>
    /\ Prompt'

WriterStep(p) ==
    \/ Maintain(p) \/ Rotate(p) \/ PersistCounters(p) \/ Clear(p) \/ Commit(p)
    \/ Take(p) \/ IdleTimeout(p) \/ Write(p)

LogNext ==
    \/ \E p \in Procs :
        \/ Open(p) \/ WriterStep(p)
        \/ CommitFails(p) \/ SectionFails(p) \/ WriteFails(p) \/ Crash(p)
        \/ Record(p) \/ RequestClear(p) \/ AskOwner(p)
    \/ OwnerFails \/ LoseMeta \/ Tick \/ ChangeClock

LogSpec == LogInit /\ [][LogNext]_logVars

-----------------------------------------------------------------------------
(* Properties.                                                             *)

RecordSet == [id : -1..MaxRecords, t : 0..(MaxTime + MaxClears), cut : BOOLEAN]

LogTypeOK ==
    /\ clock \in [utc : 0..MaxTime, offset : Offsets]
    /\ \A f \in DOMAIN disk :
         f[1] \in Sources /\ f[2] \in 1..epochs /\ f[3] \in Nat \ {0} /\ Lines(f) \subseteq RecordSet
    /\ meta.top \in 0..made.gens
    /\ \A s \in Sources : meta.src[s].next \in Nat \ {0} /\ meta.src[s].gen \in 0..made.gens
    /\ lock.by \in Procs \union {NoProc}
    /\ \A f \in left.pass \union left.clear : f[1] \in Sources /\ f[2] \in 1..epochs
    /\ \A p \in Procs :
         /\ proc[p].pc \in {"down", "idle", "startup", "due", "rollover", "append", "count", "clear"}
         /\ proc[p].hand \in RecordSet
         /\ Len(queue[p]) <= QueueCap

(* An owner that confirmed the clear command has no record on disk that    *)
(* was made before the command, whatever was queued, in hand or being      *)
(* maintained meanwhile, and whatever happens to either process after,     *)
(* but in files that the clear could not delete: it confirms all the same. *)
ClearForgets ==
    \A s \in command.ok : \A f \in FilesOf(disk, s) \ left.clear :
        \A r \in Lines(f) : ~Half(r) => r.id > command.upto

(* A writer with nothing due leaves its source within its budget, its open *)
(* file apart, and without an expired record, the open file included,      *)
(* however often the process was restarted and whatever failed.  What a    *)
(* pass could not read to the end, rewrite or delete waits for the next:   *)
(* over the budget there are only such files, and expired records only in  *)
(* them.  A writer whose last rotation failed has no open file, and may be *)
(* over the budget by the file it closed until its next record.  After a   *)
(* pass that failed at the end, or a record written although its pass had  *)
(* failed, there can be expired records: when the clock is set back for    *)
(* them and forward again, the pass of that day counts as done, and they   *)
(* go with the next.                                                       *)
IdleIsTidy ==
    \A p \in Procs :
        LET F == FilesOf(disk, SourceOf[p])
            closed == F \ {proc[p].file} IN
        proc[p].pc = "idle" /\ lock.by # p /\ ~Due(p) =>
            /\ proc[p].file # NoFile =>
                \/ Cardinality(F) <= MaxFiles /\ Size(disk, closed) <= SourceCap
                \/ closed \subseteq left.pass
            /\ SourceOf[p] \notin overdue =>
                \A f \in F \ left.pass : \A r \in Lines(f) : ~Expired(r)

(* History that the budget took stays flagged in meta.json until it is     *)
(* cleared, over restarts, maintenance and the other process's writes; a   *)
(* section that ended before it could write meta.json is the exception.    *)
EvictionIsTold ==
    \A s \in pruned \ missed :
        meta.src[s].evicted \/ (lock.by # NoProc /\ lock.meta.src[s].evicted)

(* What a page still has leaves it only through a section of its own       *)
(* source, and once the section has written meta.json the next page tells: *)
(* by a new generation if the history was cleared, else as truncated, and  *)
(* then no record goes before an older one that could be removed.  Not     *)
(* told is what a compaction lost after the line at which its reading      *)
(* stopped, and what went in a section that ended before it wrote          *)
(* meta.json.  The generation changes with every clear that reaches        *)
(* meta.json, of either source, and with nothing else.                     *)
ShownAfter(s) == UNION {Shown(disk'[f]) : f \in FilesOf(disk', s)}
LeavesTold(f, r) ==
    LET s == f[1] IN
    \/ meta' # lock.meta
    \/ lock.op = "maintain" /\ f \in left'.pass
    \/ lock.op = "clear" /\ Generation(meta')[s] = meta'.top
    \/ /\ Truncated(disk', meta', s)
       /\ s \in missed \/ \A g \in FilesOf(disk', s) \ left'.pass :
                             \A q \in Shown(disk'[g]) : q.id > r.id

NothingLeavesUnexplained ==
    [][/\ lock.by = NoProc /\ lock'.by = NoProc /\ clock' = clock =>
             \A f \in DOMAIN disk : Shown(disk[f]) \subseteq ShownAfter(f[1])
       /\ lock.by # NoProc /\ lock'.by = NoProc =>
             \A f \in DOMAIN lock.was : \A r \in lock.was[f] \ ShownAfter(f[1]) :
                Kept(r) => f[1] = SourceOf[lock.by] /\ LeavesTold(f, r)
       /\ meta' # meta /\ meta' # BlankMeta =>
            (Generation(meta') # Generation(meta) <=>
               lock.by # NoProc /\ lock.op = "clear" /\ meta' = lock.meta /\ lock'.by = NoProc)
      ]_logVars
=============================================================================
