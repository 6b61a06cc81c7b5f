------------------------------ MODULE Refactor ------------------------------
(***************************************************************************)
(* Refactoring transactions (internal/refactor, mcp/handlers/refactor.go): *)
(* calls that edit one file or move code from one to another, within a     *)
(* transaction or without, and the calls that commit a transaction or roll *)
(* it back.  A file is the set of those whose edits it holds.              *)
(***************************************************************************)
EXTENDS Integers, Sequences

CONSTANTS
    Files,
    Txs,       \* the ids of transactions
    Plain,     \* stands for calls without a transaction
    Editors,   \* concurrent calls
    MaxEdits   \* bound: calls that edit

ASSUME RefactorAssumption ==
    Plain \notin Txs /\ MaxEdits \in Nat

VARIABLES
    content,   \* whose edits a file holds
    active,    \* the transactions in the map of active ones
    tx,        \* per transaction: new, open, closing, committed or undone
    captured,  \* the files it has captured
    snapshots, \* what they held then
    left,      \* the files a rollback has not come to yet
    busy,      \* per editor: the call it makes
    edits,     \* how many editing calls there were
    mingled,   \* transactions whose edits another call, or a call of their
               \* own that outlasted them, has had in hand
    panicked   \* whether a nil map was written to

txVars == <<active, tx, captured, snapshots, left>>
refactorVars == <<content, txVars, busy, edits, mingled, panicked>>

NoEdit == [pc |-> "idle", by |-> Plain, files |-> <<>>, n |-> 1, read |-> {}]
NoSnapshots == [f \in Files |-> {}]

RefactorInit ==
    /\ content = [f \in Files |-> {}]
    /\ active = {} /\ tx = [t \in Txs |-> "new"]
    /\ captured = [t \in Txs |-> {}]
    /\ snapshots = [t \in Txs |-> NoSnapshots]
    /\ left = [t \in Txs |-> {}]
    /\ busy = [e \in Editors |-> NoEdit]
    /\ edits = 0 /\ mingled = {} /\ panicked = FALSE

BeginTx(t) ==
    /\ tx[t] = "new"
    /\ tx' = [tx EXCEPT ![t] = "open"] /\ active' = active \cup {t}
    /\ UNCHANGED <<content, captured, snapshots, left, busy, edits, mingled, panicked>>

-----------------------------------------------------------------------------
(* insert_block, delete_block and move_symbol: each file is captured, then *)
(* each is read and written, then each is marked.                          *)

File(e) == busy[e].files[busy[e].n]

\* The maps of a transaction are gone when it is committed or undone.
Gone(t) == tx[t] \in {"committed", "undone"}

GoTo(e, pc) == busy' = [busy EXCEPT ![e].pc = pc]
Leave(e) == busy' = [busy EXCEPT ![e] = NoEdit]

\* The same for the next file, or the first for the next step.
GoOn(e, again, next) ==
    busy' = [busy EXCEPT ![e].pc = IF busy[e].n < Len(busy[e].files)
                                     THEN again ELSE next,
                         ![e].n = IF busy[e].n < Len(busy[e].files)
                                    THEN busy[e].n + 1 ELSE 1]

StartEdit(e, b, fs) ==
    /\ busy[e].pc = "idle" /\ edits < MaxEdits
    /\ b # Plain => tx[b] # "new"
    /\ edits' = edits + 1
    /\ busy' = [busy EXCEPT ![e] = [NoEdit EXCEPT !.by = b, !.files = fs,
                  !.pc = IF b = Plain THEN "read" ELSE "get"]]
    /\ UNCHANGED <<content, txVars, mingled, panicked>>

\* SnapshotFile asks the manager for the transaction ...
GetTransaction(e) ==
    /\ busy[e].pc = "get"
    /\ IF busy[e].by \in active THEN GoTo(e, "snapshot") ELSE Leave(e)
    /\ UNCHANGED <<content, txVars, edits, mingled, panicked>>

\* Those whose open edits are in what a call takes in hand.
Foreign(b, held) == {t \in held \ {b} : t # Plain}

\* Mutant of Captured: every call captures the file anew.
CapturedAnew(t, f) == content[f]

\* Only the first capture counts.
Captured(t, f) ==
    IF f \in captured[t] THEN snapshots[t][f] ELSE content[f]

\* ... and takes its lock, which a rollback holds from its first to its last
\* file; the file may turn out not to be readable.
SnapshotFile(e) ==
    LET t == busy[e].by  f == File(e) IN
    /\ busy[e].pc = "snapshot" /\ tx[t] # "restoring"
    /\ \/ /\ ~Gone(t)
          /\ captured' = [captured EXCEPT ![t] = @ \cup {f}]
          /\ snapshots' = [snapshots EXCEPT ![t][f] = Captured(t, f)]
          /\ mingled' = mingled \cup Foreign(t, content[f])
          /\ GoOn(e, "get", "read")
          /\ UNCHANGED panicked
       \/ /\ Gone(t) /\ panicked' = TRUE /\ Leave(e)
          /\ UNCHANGED <<captured, snapshots, mingled>>
       \/ Leave(e) /\ UNCHANGED <<captured, snapshots, mingled, panicked>>
    /\ UNCHANGED <<content, active, tx, left, edits>>

\* readLines; a line out of range ends the call, and so does a failure to
\* write: a move may have deleted the lines already that it does not insert.
Read(e) ==
    /\ busy[e].pc = "read"
    /\ \/ /\ busy' = [busy EXCEPT ![e].pc = "write",
                                  ![e].read = content[File(e)]]
          /\ mingled' = mingled \cup Foreign(busy[e].by, content[File(e)])
       \/ Leave(e) /\ UNCHANGED mingled
    /\ UNCHANGED <<content, txVars, edits, panicked>>

\* writeLines renames a new file over the old one.
Write(e) ==
    /\ busy[e].pc = "write"
    /\ content' = [content EXCEPT ![File(e)] = busy[e].read \cup {busy[e].by}]
    /\ GoOn(e, "read", IF busy[e].by = Plain THEN "return" ELSE "mark")
    /\ UNCHANGED <<txVars, edits, mingled, panicked>>

WriteFails(e) ==
    /\ busy[e].pc = "write" /\ Leave(e)
    /\ UNCHANGED <<content, txVars, edits, mingled, panicked>>

\* MarkModified asks for the transaction; that it is over is only logged ...
GetMarked(e) ==
    /\ busy[e].pc = "mark"
    /\ IF busy[e].by \in active THEN GoTo(e, "note")
       ELSE GoOn(e, "mark", "return")
    /\ UNCHANGED <<content, txVars, edits, mingled, panicked>>

\* ... and takes its lock.
MarkModified(e) ==
    /\ busy[e].pc = "note" /\ tx[busy[e].by] # "restoring"
    /\ panicked' = (panicked \/ Gone(busy[e].by))
    /\ IF Gone(busy[e].by) THEN Leave(e) ELSE GoOn(e, "mark", "return")
    /\ UNCHANGED <<content, txVars, edits, mingled>>

Returns(e) ==
    /\ busy[e].pc = "return" /\ Leave(e)
    /\ UNCHANGED <<content, txVars, edits, mingled, panicked>>

-----------------------------------------------------------------------------
(* The end of a transaction.                                               *)

\* Commit and Rollback take the transaction from the map ...
TakeTx(t, how) ==
    /\ t \in active
    /\ active' = active \ {t}
    /\ tx' = [tx EXCEPT ![t] = how]
    /\ UNCHANGED <<content, captured, snapshots, left, busy, edits, panicked>>

TakeToCommit(t) == TakeTx(t, "committing") /\ UNCHANGED mingled

\* A call of the transaction that is under way will outlast it.
TakeToUndo(t) ==
    /\ TakeTx(t, "undoing")
    /\ mingled' = IF \E e \in Editors : busy[e].by = t THEN mingled \cup {t}
                  ELSE mingled

\* ... commit drops what was captured ...
Commit(t) ==
    /\ tx[t] = "committing"
    /\ tx' = [tx EXCEPT ![t] = "committed"]
    /\ captured' = [captured EXCEPT ![t] = {}]
    /\ snapshots' = [snapshots EXCEPT ![t] = NoSnapshots]
    /\ UNCHANGED <<content, active, left, busy, edits, mingled, panicked>>

\* ... and rollback takes the lock and writes every file back.
Rollback(t) ==
    /\ tx[t] = "undoing"
    /\ tx' = [tx EXCEPT ![t] = "restoring"]
    /\ left' = [left EXCEPT ![t] = captured[t]]
    /\ UNCHANGED <<content, active, captured, snapshots, busy, edits, mingled, panicked>>

RestoreFile(t, f) ==
    /\ tx[t] = "restoring" /\ f \in left[t]
    /\ left' = [left EXCEPT ![t] = @ \ {f}]
    /\ content' = [content EXCEPT ![f] = snapshots[t][f]]
    /\ UNCHANGED <<active, tx, captured, snapshots, busy, edits, mingled, panicked>>

\* What was captured of a file that cannot be written is lost.
RestoreFails(t, f) ==
    /\ tx[t] = "restoring" /\ f \in left[t]
    /\ left' = [left EXCEPT ![t] = @ \ {f}]
    /\ mingled' = mingled \cup {t}
    /\ UNCHANGED <<content, active, tx, captured, snapshots, busy, edits, panicked>>

RolledBack(t) ==
    /\ tx[t] = "restoring" /\ left[t] = {}
    /\ tx' = [tx EXCEPT ![t] = "undone"]
    /\ captured' = [captured EXCEPT ![t] = {}]
    /\ snapshots' = [snapshots EXCEPT ![t] = NoSnapshots]
    /\ UNCHANGED <<content, active, left, busy, edits, mingled, panicked>>

-----------------------------------------------------------------------------
Targets == {<<f>> : f \in Files} \cup
           {fs \in Files \X Files : fs[1] # fs[2]}

EditStep(e) ==
    \/ GetTransaction(e) \/ SnapshotFile(e) \/ Read(e) \/ Write(e) \/ WriteFails(e)
    \/ GetMarked(e) \/ MarkModified(e) \/ Returns(e)

RefactorNext ==
    \/ \E t \in Txs :
          \/ BeginTx(t) \/ TakeToCommit(t) \/ TakeToUndo(t) \/ Commit(t)
          \/ Rollback(t) \/ RolledBack(t)
          \/ \E f \in Files : RestoreFile(t, f) \/ RestoreFails(t, f)
    \/ \E e \in Editors :
          \/ EditStep(e)
          \/ \E b \in Txs \cup {Plain}, fs \in Targets : StartEdit(e, b, fs)

RefactorSpec == RefactorInit /\ [][RefactorNext]_refactorVars

-----------------------------------------------------------------------------
\* Rollback restores what a transaction has changed: all its edits are gone,
\* also those of a move that failed half way and of a second edit of one file.
\* Left out are transactions some other call has mingled with: one that read
\* or captured their edits before they were over, or a call of their own that
\* outlasted them, and files that could not be written.
UndoneIsGone ==
    \A t \in Txs \ mingled :
        tx[t] = "undone" => \A f \in Files : t \notin content[f]

\* transaction.go says of the manager: "It is safe for concurrent use from
\* multiple goroutines."
NeverPanics == ~panicked
=============================================================================
