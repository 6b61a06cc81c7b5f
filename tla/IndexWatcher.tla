---------------------------- MODULE IndexWatcher ----------------------------
(***************************************************************************)
(* How the code index follows the files (internal/index): a scan of the    *)
(* workspace at startup and on request, then a watcher that debounces the  *)
(* events of the file system and indexes or removes one file at a time.    *)
(* The scans keep their rows under the name of the workspace, where the    *)
(* searches look for them, and the watcher under its id: no row is shared. *)
(*                                                                         *)
(* A file's content is a number, 0 where there is no file, and stands for  *)
(* its hash and its symbols too; a file may be saved again as it is, and   *)
(* come back to a content that it had before.  A chunk is the number of    *)
(* the content that it is from: the rows of a file's chunks are replaced   *)
(* one by one, and those of a markdown file are only added to.             *)
(***************************************************************************)
EXTENDS Naturals, SequencesExt, FiniteSetsExt

CONSTANTS
    Paths,         \* the files of the workspace
    Size,          \* Size[c]: how many chunks the content c makes
    Watcher,       \* the goroutine of IndexWatcher.Run
    Scanner,       \* the goroutine of the startup scan, or of a trigger_reindex
    EventBuffer,   \* room for file events that Run has still to read
    DispatchSize,  \* dispatchChanSize
    MaxWrites,     \* bound: changes of files
    MaxScans,      \* bound: calls of trigger_reindex
    MaxUpsets      \* bound: failing calls and crashes

ASSUME WatcherAssumption ==
    /\ Watcher # Scanner /\ Size \in Seq(Nat)
    /\ EventBuffer \in Nat \ {0} /\ DispatchSize \in Nat \ {0}
    /\ MaxWrites \in Nat /\ MaxScans \in Nat /\ MaxUpsets \in Nat

VARIABLES
    markdown,  \* which of the files are markdown: they have no symbols
    content,   \* what is in each file
    stored,    \* file_hashes, symbols and doc_chunks of each indexer's rows
    watching,  \* the files are watched and Run has subscribed
    events,    \* the file events on their way to Run
    armed,     \* files with a timer in timers that still runs
    fired,     \* timer functions to come that can no longer be stopped
    latest,    \* IndexWatcher.pending
    sending,   \* what timer functions have taken and not sent yet
    dispatch,  \* IndexWatcher.dispatch
    at,        \* what each indexing goroutine is doing
    job,       \* the file it does it to, and the hash it has read
    todo,      \* files the scan has still to walk over
    scan,      \* whether a scan is under way
    down,      \* the server is stopped
    writes, scans, upsets,
    seen       \* files whose last change nothing but time keeps from the index

indexVars ==
    <<markdown, content, stored, watching, events, armed, fired, latest, sending, dispatch,
      at, job, todo, scan, down, writes, scans, upsets, seen>>

fileVars == <<markdown, content, writes>>
timerVars == <<armed, fired, latest, sending>>
scanVars == <<todo, scan, watching, scans>>
bounds == <<down, upsets>>

Indexers == {Watcher, Scanner}
Contents == DOMAIN Size
Chunks(c) == IF c = 0 THEN <<>> ELSE [i \in 1 .. Size[c] |-> c]
NoRow == [hash |-> 0, symbols |-> 0, chunks |-> <<>>]
NoJob == [path |-> CHOOSE f \in Paths : TRUE, hash |-> 0]

IndexInit ==
    /\ markdown \in SUBSET Paths
    /\ content \in [Paths -> {0, 1}]
    /\ stored = [p \in Indexers |-> [f \in Paths |-> NoRow]]
    /\ watching = FALSE /\ events = <<>>
    /\ armed = {} /\ fired = [f \in Paths |-> 0]
    /\ latest = [f \in Paths |-> "none"] /\ sending = [f \in Paths |-> <<>>]
    /\ dispatch = <<>>
    /\ at = [p \in Indexers |-> "idle"] /\ job = [p \in Indexers |-> NoJob]
    /\ todo = Paths /\ scan = TRUE /\ down = FALSE
    /\ writes = 0 /\ scans = 0 /\ upsets = 0 /\ seen = {}
-----------------------------------------------------------------------------
\* The kernel, the Sentinel and the bus hand a change on; an event that finds
\* the channel full is dropped.
Notify(f, type) ==
    IF watching /\ Len(events) < EventBuffer
    THEN events' = Append(events, [path |-> f, type |-> type]) /\ seen' = seen \cup {f}
    ELSE events' = events /\ seen' = seen \ {f}

\* Created, or written: a new content, an old one or the one it has.
Write(f) ==
    /\ writes < MaxWrites
    /\ writes' = writes + 1
    /\ \E c \in Contents : content' = [content EXCEPT ![f] = c]
    /\ Notify(f, "put")
    /\ UNCHANGED <<markdown, stored, timerVars, dispatch, at, job, scanVars, bounds>>

\* Deleted, or renamed to something else.
Delete(f) ==
    /\ content[f] # 0 /\ writes < MaxWrites
    /\ writes' = writes + 1
    /\ content' = [content EXCEPT ![f] = 0]
    /\ Notify(f, "gone")
    /\ UNCHANGED <<markdown, stored, timerVars, dispatch, at, job, scanVars, bounds>>
-----------------------------------------------------------------------------
Idle == watching /\ at[Watcher] = "idle"

\* Mutant of Debounce: the first event of a burst is kept.
DebounceFirst ==
    /\ Idle /\ events # <<>>
    /\ LET e == Head(events) IN
        /\ armed' = armed \cup {e.path}
        /\ latest' = [latest EXCEPT ![e.path] = IF @ = "none" THEN e.type ELSE @]
    /\ events' = Tail(events)
    /\ UNCHANGED <<fileVars, stored, fired, sending, dispatch, at, job, scanVars, bounds, seen>>

\* Run reads an event: the timer of the path is stopped if it still runs, the
\* last event of a burst counts, and a new timer is started.
Debounce ==
    /\ Idle /\ events # <<>>
    /\ LET e == Head(events) IN
        /\ armed' = armed \cup {e.path}
        /\ latest' = [latest EXCEPT ![e.path] = e.type]
    /\ events' = Tail(events)
    /\ UNCHANGED <<fileVars, stored, fired, sending, dispatch, at, job, scanVars, bounds, seen>>

\* The time is over: the timer can no longer be stopped.
Fire(f) ==
    /\ f \in armed
    /\ armed' = armed \ {f}
    /\ fired' = [fired EXCEPT ![f] = @ + 1]
    /\ UNCHANGED <<fileVars, stored, events, latest, sending, dispatch, at, job, scanVars,
                   bounds, seen>>

\* A timer function takes what is pending, for whichever event it was, and
\* deletes the timer it finds: one that was started since runs on, out of the
\* reach of Stop.  A function that overtakes another one may have its event
\* sent first.
Take(f) ==
    /\ fired[f] > 0
    /\ fired' = [fired EXCEPT ![f] = IF f \in armed THEN @ ELSE @ - 1]
    /\ armed' = armed \ {f}
    /\ latest' = [latest EXCEPT ![f] = "none"]
    /\ IF latest[f] = "none"
       THEN UNCHANGED <<sending, seen>>
       ELSE /\ sending' = [sending EXCEPT ![f] = Append(@, latest[f])]
            /\ seen' = IF sending[f] = <<>> THEN seen ELSE seen \ {f}
    /\ UNCHANGED <<fileVars, stored, events, dispatch, at, job, scanVars, bounds>>

\* It sends it, unless the channel is full.
Send(f, i) ==
    /\ i \in DOMAIN sending[f]
    /\ sending' = [sending EXCEPT ![f] = RemoveAt(@, i)]
    /\ IF Len(dispatch) < DispatchSize
       THEN /\ dispatch' = Append(dispatch, [path |-> f, type |-> sending[f][i]])
            /\ seen' = seen
       ELSE dispatch' = dispatch /\ seen' = seen \ {f}
    /\ UNCHANGED <<fileVars, stored, events, armed, fired, latest, at, job, scanVars, bounds>>

ProcessDispatch ==
    /\ Idle /\ dispatch # <<>>
    /\ LET d == Head(dispatch) IN
        /\ at' = [at EXCEPT ![Watcher] = IF d.type = "gone" THEN "remove" ELSE "hash"]
        /\ job' = [job EXCEPT ![Watcher] = [path |-> d.path, hash |-> 0]]
    /\ dispatch' = Tail(dispatch)
    /\ UNCHANGED <<fileVars, stored, events, timerVars, scanVars, bounds, seen>>
-----------------------------------------------------------------------------
(* IndexFile and RemoveFile *)

Doing(p, step) == at[p] = step

Row(p) == stored[p][job[p].path]

Marked(p) == job[p].path \in markdown

Put(p, row, next) ==
    /\ stored' = [stored EXCEPT ![p][job[p].path] = row]
    /\ at' = [at EXCEPT ![p] = next]
    /\ UNCHANGED <<fileVars, events, timerVars, dispatch, scanVars, bounds>>

\* UpsertDocChunk, for the first n chunks of c: rows of higher index stay.
Overlaid(chunks, c, n) ==
    [i \in 1 .. Max({n, Len(chunks)}) |-> IF i <= n THEN c ELSE chunks[i]]

\* What the rows of a file should be: of a markdown file, chunks that it had
\* more of once may follow its own.
Fits(row, f, c) ==
    /\ row.hash = c /\ row.symbols = IF f \in markdown THEN 0 ELSE c
    /\ IF f \in markdown /\ c # 0 THEN IsPrefix(Chunks(c), row.chunks)
                                  ELSE row.chunks = Chunks(c)

\* No file, or its hash is the one stored: nothing is done, even where the
\* other rows are not of this content.
HashFile(p) ==
    /\ Doing(p, "hash")
    /\ LET f == job[p].path
           now == content[f] IN
        /\ job' = [job EXCEPT ![p].hash = now]
        /\ at' = [at EXCEPT ![p] = IF now \in {0, Row(p).hash} THEN "idle" ELSE "store"]
        /\ seen' = IF p = Watcher /\ now = Row(p).hash /\ ~Fits(Row(p), f, now)
                      THEN seen \ {f} ELSE seen
    /\ UNCHANGED <<fileVars, stored, events, timerVars, dispatch, scanVars, bounds>>

\* The hash is stored before what it stands for; of a markdown file there are
\* no symbols to come, and its old chunks are not deleted.
UpsertFileHash(p) ==
    /\ Doing(p, "store")
    /\ Put(p, [Row(p) EXCEPT !.hash = job[p].hash],
           IF Marked(p) THEN "chunk" ELSE "extract")
    /\ UNCHANGED <<job, seen>>

\* The old symbols and chunks are deleted, and the file is read a second time.
ExtractSymbols(p) ==
    /\ Doing(p, "extract")
    /\ LET now == content[job[p].path] IN
        Put(p, [Row(p) EXCEPT !.symbols = now, !.chunks = <<>>],
            IF now = 0 THEN "idle" ELSE "chunk")
    /\ UNCHANGED <<job, seen>>

\* chunkSourceFile, ChunkMarkdown: the file is read once more.
StoreChunks(p) ==
    /\ Doing(p, "chunk")
    /\ LET now == content[job[p].path] IN
        Put(p, [Row(p) EXCEPT !.chunks = Overlaid(@, now, Len(Chunks(now)))], "idle")
    /\ UNCHANGED <<job, seen>>

\* RemoveFile: the hash and the symbols in one transaction, then the chunks.
RemoveSymbols ==
    /\ Doing(Watcher, "remove")
    /\ Put(Watcher, [Row(Watcher) EXCEPT !.hash = 0, !.symbols = 0], "purge")
    /\ UNCHANGED <<job, seen>>

RemoveChunks ==
    /\ Doing(Watcher, "purge")
    /\ Put(Watcher, [Row(Watcher) EXCEPT !.chunks = <<>>], "idle")
    /\ UNCHANGED <<job, seen>>

\* What a step that fails has done: nothing, deleted the symbols, or the old
\* chunks too, or stored some of the new ones.  (Some of the symbols of a
\* content are no more than none of them.)
Halfway(p) ==
    LET now == content[job[p].path] IN
    {Row(p)}
      \cup (IF Doing(p, "store") THEN {[Row(p) EXCEPT !.hash = job[p].hash]} ELSE {})
      \cup (IF Doing(p, "extract")
             THEN {[Row(p) EXCEPT !.symbols = 0, !.chunks = c] :
                     c \in {Row(p).chunks, <<>>}}
             ELSE {})
      \cup (IF Doing(p, "chunk")
             THEN {[Row(p) EXCEPT !.chunks = Overlaid(@, now, n)] :
                     n \in 0 .. Len(Chunks(now))}
             ELSE {})

Fails(p, row, next) ==
    /\ upsets < MaxUpsets /\ upsets' = upsets + 1
    /\ stored' = [stored EXCEPT ![p][job[p].path] = row]
    /\ at' = [at EXCEPT ![p] = next]
    /\ seen' = IF p = Watcher THEN seen \ {job[p].path} ELSE seen
    /\ UNCHANGED <<fileVars, events, timerVars, dispatch, job, scanVars, down>>

\* A call fails: what was stored remains, and the error is only logged.
IndexFails(p) ==
    /\ at[p] # "idle"
    /\ \E row \in Halfway(p) : Fails(p, row, "idle")

\* The old chunks are not deleted: a warning, and the indexing goes on.
ChunksStay(p) ==
    /\ Doing(p, "extract") /\ content[job[p].path] # 0
    /\ Fails(p, [Row(p) EXCEPT !.symbols = content[job[p].path]], "chunk")

IndexStep(p) ==
    HashFile(p) \/ UpsertFileHash(p) \/ ExtractSymbols(p) \/ StoreChunks(p)
-----------------------------------------------------------------------------
(* IndexWorkspace *)

\* trigger_reindex.
TriggerReindex ==
    /\ watching /\ ~scan /\ scans < MaxScans
    /\ scans' = scans + 1
    /\ scan' = TRUE /\ todo' = Paths
    /\ UNCHANGED <<fileVars, stored, watching, events, timerVars, dispatch, at, job, bounds, seen>>

\* The walk comes to the next file, in any order; rows of files that are gone
\* are not looked at.
Walk(f) ==
    /\ scan /\ at[Scanner] = "idle" /\ f \in todo
    /\ todo' = todo \ {f}
    /\ at' = [at EXCEPT ![Scanner] = "hash"]
    /\ job' = [job EXCEPT ![Scanner] = [path |-> f, hash |-> 0]]
    /\ UNCHANGED <<fileVars, stored, watching, events, timerVars, dispatch, scan, scans,
                   bounds, seen>>

\* After the scan at startup the watching begins.
ScanEnds ==
    /\ scan /\ at[Scanner] = "idle" /\ todo = {}
    /\ scan' = FALSE /\ watching' = TRUE
    /\ UNCHANGED <<fileVars, stored, events, timerVars, dispatch, at, job, todo, scans,
                   bounds, seen>>

\* The server stops and loses everything that is not in a file or a row.
IndexerStops ==
    /\ ~down /\ upsets < MaxUpsets
    /\ down' = TRUE /\ upsets' = upsets + 1
    /\ watching' = FALSE /\ events' = <<>> /\ dispatch' = <<>>
    /\ armed' = {} /\ fired' = [f \in Paths |-> 0]
    /\ latest' = [f \in Paths |-> "none"] /\ sending' = [f \in Paths |-> <<>>]
    /\ at' = [p \in Indexers |-> "idle"]
    /\ scan' = FALSE /\ todo' = {} /\ seen' = {}
    /\ UNCHANGED <<fileVars, stored, job, scans>>

IndexerStarts ==
    /\ down
    /\ down' = FALSE /\ scan' = TRUE /\ todo' = Paths
    /\ UNCHANGED <<fileVars, stored, watching, events, timerVars, dispatch, at, job, scans,
                   upsets, seen>>
-----------------------------------------------------------------------------
RunLoop == Debounce \/ ProcessDispatch \/ IndexStep(Watcher) \/ RemoveSymbols \/ RemoveChunks

ScanLoop == IndexStep(Scanner) \/ (\E f \in Paths : Walk(f)) \/ ScanEnds

Timer(f) == Fire(f) \/ Take(f) \/ \E i \in 1..MaxWrites : Send(f, i)

IndexNext ==
    \/ RunLoop \/ ScanLoop \/ \E f \in Paths : Timer(f)
    \/ \E f \in Paths : Write(f) \/ Delete(f)
    \/ TriggerReindex \/ IndexerStops \/ IndexerStarts
    \/ \E p \in Indexers : IndexFails(p) \/ ChunksStay(p)

\* The goroutines are scheduled and the timers fire.
IndexFairness ==
    /\ WF_indexVars(RunLoop) /\ WF_indexVars(ScanLoop)
    /\ \A f \in Paths : WF_indexVars(Timer(f))

IndexSpec == IndexInit /\ [][IndexNext]_indexVars /\ IndexFairness
-----------------------------------------------------------------------------
(* Properties *)

Agrees(p, f) == Fits(stored[p][f], f, content[f])

\* Incremental indexing: a change that a running watcher was told of ends in
\* its rows, whatever timers and bursts come between.  Not so if its event was
\* dropped or overtaken, its indexing failed or the server stopped first; nor
\* if the hash of its very content is stored already and the other rows are
\* not of it, because an indexing of that content failed halfway, or read the
\* file again when it had changed.  A markdown file that became shorter keeps
\* the last of its old chunks.
ChangeIsIndexed ==
    \A f \in Paths : f \in seen ~> (Agrees(Watcher, f) \/ f \notin seen)

\* docs/Architecture.md:164: the watcher detects changes at runtime and triggers
\* incremental re-indexing of the affected files: what a search finds, in the
\* rows under the name of the workspace, follows the files.
ChangeIsFound ==
    \A f \in Paths : f \in seen ~> (Agrees(Scanner, f) \/ f \notin seen)
=============================================================================
