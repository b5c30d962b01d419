------------------------------ MODULE Document ------------------------------
(***************************************************************************)
(* One document of a session, its file, and what the session keeps beside  *)
(* the file: crash-recovery swaps and the persisted undo history           *)
(* (karet-session/src/session/documents.rs, persistence.rs, reload.rs,     *)
(* docfile.rs, backup.rs; karet-text/src/{lib,apply,history,load,save}.rs).*)
(*                                                                         *)
(* The session's actor runs one handler at a time; `op` is where it is     *)
(* between the system calls of a load or a save.  Other programs write or  *)
(* remove the file at any moment, and the session may die at any moment.   *)
(* Texts stand for their hashes: two texts with one hash are one text.     *)
(***************************************************************************)
EXTENDS Naturals, Sequences, SequencesExt

CONSTANTS
    Texts,       \* what a file or a buffer may hold
    Blank,       \* the empty text
    Tidy,        \* normalize_text_for_save, text to text
    UndoLimit,   \* files.undoLimit
    Requests,    \* save requests that may be parked at once
    MaxSessions, \* runs of the editor
    Allowances   \* how often the user and other programs may act, one is chosen

Events == {"edits", "undos", "saves", "formats", "others"}
Sessions == 1..MaxSessions
Nil == <<>>                   \* no file, no buffer, no swap
Garbage == <<"garbage">>      \* what an edit makes of a text it was not made for

ASSUME BlankIsText == Blank \in Texts
ASSUME TextsAreText == Nil \notin Texts /\ Garbage \notin Texts
ASSUME TidyIsText == Tidy \in [Texts -> Texts]
ASSUME LimitKeepsAStep == UndoLimit \in Nat \ {0}
ASSUME SessionsAreCounted == MaxSessions \in Nat \ {0}
ASSUME AllowancesBoundEvents == Allowances \subseteq [Events -> Nat]

VARIABLES
    file,      \* the text of the file, or Nil
    buf,       \* the Document and its TextBuffer, or Nil
    op,        \* the load or save under way
    swaps,     \* the swap each session left for this path, or Nil
    undoFile,  \* the persisted history: the text it was taken at, two stacks
    session,   \* which run of the editor this is
    pending,   \* pending_swaps: the sessions whose swaps were announced
    left       \* what is left of the chosen allowance

vars == <<file, buf, op, swaps, undoFile, session, pending, left>>

Spend(event) == left[event] > 0 /\ left' = [left EXCEPT ![event] = @ - 1]

\* at: which system call comes next; raced: another program wrote since the
\* first of them; todo: swaps a recovery has yet to apply.
Rest == [at |-> "idle", text |-> Blank, raced |-> FALSE, todo |-> {}, build |-> FALSE]

\* saved is both saved_text_hash and the hash of saved_state, whose mtime and size
\* are `stat`: "none", or whether they are the file's.  typing: last_caret_after
\* is known; armed: dirty_since is set; backed: backed_up_version is the version.
\* owed and raced are history: the session has had its chance to back the text
\* up, and another program wrote while the fingerprint was being taken.
NewBuffer(text, stat, raced) ==
    [text |-> text, saved |-> text, stat |-> stat, raced |-> raced,
     undo |-> <<>>, redo |-> <<>>, typing |-> FALSE,
     armed |-> FALSE, backed |-> FALSE, owed |-> FALSE, mustCreate |-> FALSE,
     parked |-> [r \in Requests |-> "none"]]

Init ==
    /\ file \in Texts \cup {Nil}
    /\ buf = Nil /\ op = Rest
    /\ swaps = [s \in Sessions |-> Nil] /\ undoFile = Nil
    /\ session = 1 /\ pending = {}
    /\ left \in Allowances

Free == op = Rest
Open == buf # Nil
Dirty(b) == b.text # b.saved

-----------------------------------------------------------------------------
(* The text buffer and its history: a step is a group of edits, kept as the *)
(* text it starts from and the text it ends in                              *)

Step(from, to) == [from |-> from, to |-> to]
Replay(text, from, to) == IF text = from THEN to ELSE Garbage

EnforceLimit(undo) ==
    IF Len(undo) > UndoLimit
    THEN SubSeq(undo, Len(undo) - UndoLimit + 1, Len(undo))
    ELSE undo

MarkSaved(b) == [b EXCEPT !.armed = FALSE, !.backed = FALSE]
SyncDirtySince(b) == IF Dirty(b) THEN [b EXCEPT !.armed = TRUE] ELSE MarkSaved(b)

\* The buffer's version moves: no swap holds it, no parked save asked for it.
Bumped(b) ==
    [b EXCEPT !.backed = FALSE, !.owed = FALSE,
              !.parked = [r \in Requests |-> IF @[r] = "none" THEN "none" ELSE "stale"]]

\* record, or record_joined and a coalesced edit when `join`.
Record(b, text, join) ==
    LET grown == IF join /\ b.undo # <<>>
                 THEN Append(Front(b.undo), Step(Last(b.undo).from, text))
                 ELSE Append(b.undo, Step(b.text, text))
    IN  SyncDirtySince(Bumped([b EXCEPT !.text = text, !.undo = EnforceLimit(grown),
                                        !.redo = <<>>, !.typing = TRUE]))

Undone(b) ==
    LET step == Last(b.undo) IN
    [b EXCEPT !.text = Replay(b.text, step.to, step.from), !.undo = Front(@),
              !.redo = Append(@, step), !.typing = FALSE]

Redone(b) ==
    LET step == Last(b.redo) IN
    [b EXCEPT !.text = Replay(b.text, step.from, step.to), !.redo = Front(@),
              !.undo = EnforceLimit(Append(@, step)), !.typing = FALSE]

\* apply.  Typing may coalesce with what was typed just before.
Edit ==
    /\ Free /\ Open /\ Spend("edits")
    /\ \E text \in Texts \ {buf.text}, join \in BOOLEAN :
          /\ join => buf.typing
          /\ buf' = Record(buf, text, join)
    /\ UNCHANGED <<file, op, swaps, undoFile, session, pending>>

\* undo_redo.
Undo ==
    /\ Free /\ Open /\ Spend("undos")
    /\ buf.undo # <<>>
    /\ buf' = SyncDirtySince(Bumped(Undone(buf)))
    /\ UNCHANGED <<file, op, swaps, undoFile, session, pending>>

\* Bug: redo leaves the version as it is.
RedoUnversioned ==
    /\ Free /\ Open /\ Spend("undos")
    /\ buf.redo # <<>>
    /\ buf' = SyncDirtySince(Redone(buf))
    /\ UNCHANGED <<file, op, swaps, undoFile, session, pending>>

Redo ==
    /\ Free /\ Open /\ Spend("undos")
    /\ buf.redo # <<>>
    /\ buf' = SyncDirtySince(Bumped(Redone(buf)))
    /\ UNCHANGED <<file, op, swaps, undoFile, session, pending>>

-----------------------------------------------------------------------------
(* Loading: the bytes are read, then the file is stat'ed                     *)

\* load_document up to the stat; a missing file needs none.
StartLoad(todo) ==
    IF file = Nil
    THEN /\ buf' = [NewBuffer(Blank, "none", FALSE) EXCEPT !.mustCreate = TRUE]
         /\ op' = [Rest EXCEPT !.todo = todo]
    ELSE /\ op' = [Rest EXCEPT !.at = "read", !.text = file, !.todo = todo]
         /\ UNCHANGED buf

OpenDocument ==
    /\ Free /\ ~Open
    /\ StartLoad({})
    /\ UNCHANGED <<file, swaps, undoFile, session, pending, left>>

\* Bug: a reload keeps the history of the text it replaces.
AdoptContentKeepingHistory(b, fresh) ==
    Bumped([fresh EXCEPT !.undo = b.undo, !.redo = b.redo, !.armed = b.armed,
                         !.backed = b.backed, !.mustCreate = b.mustCreate,
                         !.parked = b.parked])

\* adopt_content: new text and fingerprint, no history, the next version.
AdoptContent(b, fresh) ==
    Bumped([fresh EXCEPT !.armed = b.armed, !.backed = b.backed,
                         !.mustCreate = b.mustCreate, !.parked = b.parked])

\* prepare_undo: the persisted history comes back onto the text it was taken at.
PrepareUndo(b) ==
    IF undoFile # Nil /\ undoFile.text = b.text
    THEN [b EXCEPT !.undo = EnforceLimit(undoFile.undo), !.redo = undoFile.redo]
    ELSE b

\* record_disk_state, and the rest of open or reload.
FinishLoad ==
    /\ op.at = "read"
    /\ LET stat == IF file = Nil THEN "none" ELSE "current"
           fresh == NewBuffer(op.text, stat, op.raced)
       IN  IF Open
           THEN buf' = AdoptContent(buf, fresh) /\ UNCHANGED undoFile
           ELSE /\ buf' = PrepareUndo(fresh)
                /\ undoFile' = IF undoFile # Nil /\ undoFile.text = op.text
                               THEN undoFile ELSE Nil
    /\ op' = [Rest EXCEPT !.todo = op.todo]
    /\ UNCHANGED <<file, swaps, session, pending, left>>

\* on_external_change, when it does more than report a conflict: a clean buffer
\* whose fingerprint is not the file's is reloaded.
ExternalChange ==
    /\ Free /\ Open /\ file # Nil
    /\ buf.stat # "current" /\ ~Dirty(buf)
    /\ StartLoad({})
    /\ UNCHANGED <<file, swaps, undoFile, session, pending, left>>

-----------------------------------------------------------------------------
(* Saving: cleanup and conflict check, rename into place, stat               *)

WriteSwap(b) ==
    /\ swaps' = [swaps EXCEPT ![session] = b.text]
    /\ buf' = [b EXCEPT !.backed = TRUE, !.owed = TRUE]

\* A save that fails; one made for a build writes no swap.
Refuse(b, build) ==
    /\ op' = Rest
    /\ IF build THEN buf' = b /\ UNCHANGED swaps ELSE WriteSwap(b)

\* apply_save_cleanup, which joins the formatter's step.
Cleaned(b, formatted) ==
    IF Tidy[b.text] = b.text THEN b ELSE Record(b, Tidy[b.text], formatted)

ConflictsWithDisk(b) ==
    file # Nil /\ b.stat = "old" /\ file # b.saved

\* commit_save, or save_for_external_build when `build`, as far as the check.
CommitSave(b, formatted, build) ==
    LET clean == Cleaned(b, formatted) IN
    IF ~clean.mustCreate /\ ConflictsWithDisk(clean)
    THEN Refuse(clean, build)
    ELSE /\ buf' = clean /\ UNCHANGED swaps
         /\ op' = [Rest EXCEPT !.at = "checked", !.build = build]

\* A save that waits for no server; the built-in formatter may change the text.
Save ==
    /\ Free /\ Open /\ Spend("saves")
    /\ \/ CommitSave(buf, FALSE, FALSE)
       \/ \E text \in Texts : CommitSave(Record(buf, text, FALSE), TRUE, FALSE)
    /\ UNCHANGED <<file, undoFile, session, pending>>

SaveForExternalBuild ==
    /\ Free /\ Open /\ Spend("saves")
    /\ Dirty(buf)
    /\ CommitSave(buf, FALSE, TRUE)
    /\ UNCHANGED <<file, undoFile, session, pending>>

\* Bug: the first save of a new file replaces whatever is there.
WriteClobbering ==
    /\ op.at = "checked"
    /\ file' = buf.text
    /\ buf' = IF buf.stat = "none" THEN buf ELSE [buf EXCEPT !.stat = "old"]
    /\ op' = [op EXCEPT !.at = "written"]
    /\ UNCHANGED <<swaps, undoFile, session, pending, left>>

\* persist: rename over the target, or create it when it must not exist.
Write ==
    /\ op.at = "checked"
    /\ IF buf.mustCreate /\ file # Nil
       THEN Refuse(buf, op.build) /\ UNCHANGED file
       ELSE /\ file' = buf.text
            /\ buf' = IF buf.stat = "none" THEN buf ELSE [buf EXCEPT !.stat = "old"]
            /\ op' = [op EXCEPT !.at = "written"]
            /\ UNCHANGED swaps
    /\ UNCHANGED <<undoFile, session, pending, left>>

WriteFails ==
    /\ op.at = "checked"
    /\ Refuse(buf, op.build)
    /\ UNCHANGED <<file, undoFile, session, pending, left>>

\* An empty history is not kept.
Snapshot(b) ==
    IF b.undo = <<>> /\ b.redo = <<>> THEN Nil
    ELSE [text |-> b.text, undo |-> b.undo, redo |-> b.redo]

\* record_saved_bytes, then what a successful save does.
FinishSave ==
    /\ op.at = "written"
    /\ IF file = Nil
       THEN Refuse(buf, op.build) /\ UNCHANGED undoFile
       ELSE /\ buf' = MarkSaved([buf EXCEPT !.saved = buf.text, !.stat = "current",
                                            !.raced = op.raced, !.mustCreate = FALSE])
            /\ swaps' = [swaps EXCEPT ![session] = Nil]
            /\ undoFile' = Snapshot(buf)
            /\ op' = Rest
    /\ UNCHANGED <<file, session, pending, left>>

-----------------------------------------------------------------------------
(* Saves parked on a server's formatter                                      *)

\* back_up_document.
BackUp(b) ==
    IF Dirty(b) /\ ~b.backed
    THEN WriteSwap(b)
    ELSE buf' = [b EXCEPT !.owed = TRUE] /\ UNCHANGED swaps

\* begin_format_on_save, when a server takes the request.
Park(r) ==
    /\ Free /\ Open /\ Spend("formats")
    /\ buf.parked[r] = "none"
    /\ BackUp([buf EXCEPT !.parked[r] = "fresh"])
    /\ UNCHANGED <<file, op, undoFile, session, pending>>

Unpark(r) == [buf EXCEPT !.parked[r] = "none"]

\* finish_format_on_save: edits count only for the version they were made for.
FormatAnswer(r) ==
    /\ Free /\ Open
    /\ buf.parked[r] # "none"
    /\ \/ CommitSave(Unpark(r), FALSE, FALSE)
       \/ /\ buf.parked[r] = "fresh"
          /\ \E text \in Texts : CommitSave(Record(Unpark(r), text, FALSE), TRUE, FALSE)
    /\ UNCHANGED <<file, undoFile, session, pending, left>>

\* expire_format_on_save and commit_pending_format_saves.  The tick that expires
\* goes on to back_up_documents, which the save has left nothing to do.
Expire(r) ==
    /\ Free /\ Open
    /\ buf.parked[r] # "none"
    /\ CommitSave(Unpark(r), FALSE, FALSE)
    /\ UNCHANGED <<file, undoFile, session, pending, left>>

CancelSave(r) ==
    /\ Free /\ Open
    /\ buf.parked[r] # "none"
    /\ buf' = Unpark(r)
    /\ UNCHANGED <<file, op, swaps, undoFile, session, pending, left>>

-----------------------------------------------------------------------------
(* Backups, closing, and the next run                                        *)

\* backup_tick, once the buffer has been dirty for the backup interval.
BackupTick ==
    /\ Free /\ Open
    /\ IF buf.armed THEN BackUp(buf)
       ELSE buf' = [buf EXCEPT !.owed = TRUE] /\ UNCHANGED swaps
    /\ UNCHANGED <<file, op, undoFile, session, pending, left>>

\* close by its last view; it drops the parked saves with the document.
CloseDocument ==
    /\ Free /\ Open
    /\ undoFile' = IF buf.mustCreate \/ Dirty(buf) THEN undoFile ELSE Snapshot(buf)
    /\ swaps' = [swaps EXCEPT ![session] = Nil]
    /\ buf' = Nil
    /\ UNCHANGED <<file, op, session, pending, left>>

\* recover_swaps: the document is opened if need be, ...
RecoverSwaps ==
    /\ Free /\ pending # {}
    /\ IF Open THEN op' = [Rest EXCEPT !.todo = pending] /\ UNCHANGED buf
       ELSE StartLoad(pending)
    /\ pending' = {}
    /\ UNCHANGED <<file, swaps, undoFile, session, left>>

\* ... and each swap replaces its text and is gone.
RecoverNext ==
    /\ op.at = "idle"
    /\ \E s \in op.todo :
          /\ buf' = Record(buf, swaps[s], FALSE)
          /\ swaps' = [swaps EXCEPT ![s] = Nil]
          /\ op' = [op EXCEPT !.todo = @ \ {s}]
    /\ UNCHANGED <<file, undoFile, session, pending, left>>

DiscardSwaps ==
    /\ Free /\ pending # {}
    /\ swaps' = [s \in Sessions |-> IF s \in pending THEN Nil ELSE swaps[s]]
    /\ pending' = {}
    /\ UNCHANGED <<file, buf, op, undoFile, session, left>>

\* The session ends, by a crash or by quitting, which closes no document; the
\* next one scans the swap directory.
Relaunch ==
    /\ session < MaxSessions
    /\ session' = session + 1
    /\ buf' = Nil /\ op' = Rest
    /\ pending' = {s \in Sessions : swaps[s] # Nil}
    /\ UNCHANGED <<file, swaps, undoFile, left>>

-----------------------------------------------------------------------------
(* Other programs                                                            *)

\* A write, a touch or a removal: the file's stat is not the one recorded.
OthersWrite ==
    /\ Spend("others")
    /\ \E text \in Texts \cup {Nil} :
          /\ ~(file = Nil /\ text = Nil)
          /\ file' = text
    /\ buf' = IF Open /\ buf.stat = "current" THEN [buf EXCEPT !.stat = "old"] ELSE buf
    /\ op' = IF op.at = "idle" THEN op ELSE [op EXCEPT !.raced = TRUE]
    /\ UNCHANGED <<swaps, undoFile, session, pending>>

Next ==
    \/ OpenDocument \/ FinishLoad \/ ExternalChange \/ CloseDocument
    \/ Edit \/ Undo \/ Redo
    \/ Save \/ SaveForExternalBuild \/ Write \/ WriteFails \/ FinishSave
    \/ \E r \in Requests : Park(r) \/ FormatAnswer(r) \/ Expire(r) \/ CancelSave(r)
    \/ BackupTick \/ RecoverSwaps \/ RecoverNext \/ DiscardSwaps
    \/ Relaunch \/ OthersWrite

Spec == Init /\ [][Next]_vars

-----------------------------------------------------------------------------
(* Properties                                                                *)

Stacks == Seq([from : Texts, to : Texts])
Stats == {"none", "current", "old"}

Buffers ==
    [text : Texts, saved : Texts, stat : Stats, raced : BOOLEAN,
     undo : Stacks, redo : Stacks, typing : BOOLEAN, armed : BOOLEAN,
     backed : BOOLEAN, owed : BOOLEAN, mustCreate : BOOLEAN,
     parked : [Requests -> {"none", "fresh", "stale"}]]

Ops ==
    [at : {"idle", "read", "checked", "written"}, text : Texts, raced : BOOLEAN,
     todo : SUBSET Sessions, build : BOOLEAN]

TypeOK ==
    /\ file \in Texts \cup {Nil}
    /\ buf \in Buffers \cup {Nil}
    /\ op \in Ops /\ (op.at \in {"checked", "written"} => buf \in Buffers)
    /\ swaps \in [Sessions -> Texts \cup {Nil}]
    /\ undoFile \in [text : Texts, undo : Stacks, redo : Stacks] \cup {Nil}
    /\ session \in Sessions /\ pending \subseteq Sessions
    /\ left \in [Events -> Nat]

\* The undo stack leads back from the text step by step, the redo stack forward.
Fits(text, undo, redo) ==
    /\ undo # <<>> => undo[Len(undo)].to = text
    /\ \A i \in 1..Len(undo) - 1 : undo[i].to = undo[i + 1].from
    /\ redo # <<>> => redo[Len(redo)].from = text
    /\ \A i \in 1..Len(redo) - 1 : redo[i].from = redo[i + 1].to

\* Every undo and redo the session can make is of a text it was recorded for,
\* through reloads, joined and coalesced steps, forgotten steps and the history a
\* previous run left, whatever happened to the file in between
\* (TextBuffer::restore_history, adopt_content).
HistoryFits ==
    /\ Open => Fits(buf.text, buf.undo, buf.redo)
    /\ undoFile # Nil => Fits(undoFile.text, undoFile.undo, undoFile.redo)

\* A save never replaces a text the session has neither read nor written, except
\* one another program wrote between the check and the rename of this very save,
\* or before the stat that took the fingerprint and after what it describes: then
\* the text of that moment is lost, and, had the file been gone at the stat of a
\* load, every later one (TextBuffer::save_bytes, save_new_bytes).
Overwrites == op.at = "checked" /\ op'.at = "written" /\ file # Nil
NoSilentOverwrite ==
    [][Overwrites => \/ file = buf.saved
                     \/ op.raced
                     \/ buf.raced /\ buf.stat # "old"]_vars

\* Once the backup clock, a parked save or a failed one has had its turn, the
\* text of a dirty buffer is in its swap until the next edit, and the version
\* the session believes is backed up is (backed_up_version).
UnsavedTextIsKept ==
    Open => /\ buf.owed /\ Dirty(buf) => swaps[session] = buf.text
            /\ buf.backed => swaps[session] = buf.text
=============================================================================
