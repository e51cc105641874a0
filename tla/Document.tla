------------------------------ MODULE Document ------------------------------
(***************************************************************************)
(* One open document and its autosave file: koDocumentBase of              *)
(* src/src/views/koDocument.py, the autosave thread of                     *)
(* koDocumentService.py, and the questions that the view puts to the user  *)
(* (views-editor.p.xml, views-buffer.p.xml, views.p.js).                   *)
(*                                                                         *)
(* The main thread runs the actions of the user.  While a dialog is open   *)
(* it goes on to serve what other threads send it, but the user can only   *)
(* answer.  The autosave thread lists the dirty documents, tests each one  *)
(* again, and has the main thread write the file.  Other programs write    *)
(* the file at any time, and the program may crash at any time: the file   *)
(* and the autosave file are what is left of it.                           *)
(*                                                                         *)
(* The file is local and there is always one; the document has one view    *)
(* and a name.  A text is a value; of the times of the two files only the  *)
(* order is kept.                                                          *)
(*                                                                         *)
(* A definition marked [variant] is a faulty form of the one after it, to  *)
(* show which property notices the fault; no specification uses it.        *)
(***************************************************************************)

CONSTANTS
    Texts,          \* what a user or another program writes
    Torn,           \* what a file holds that was truncated and not written
    NoFile,         \* there is no autosave file
    First           \* the text the file has at first

ASSUME DocumentAssumption ==
    /\ First \in Texts
    /\ Torn \notin Texts
    /\ NoFile \notin Texts \cup {Torn}

VARIABLES
    disk,           \* the text of the file
    auto,           \* the text of the autosave file
    recent,         \* whether its time is not less than that of the file
    view,           \* "open" or "none"
    main,           \* what the main thread does: a dialog, or a write
    closing,        \* whether a save is to close the view
    buffer,         \* the text of the document
    isDirty,        \* _isDirty, if the document object is alive
    savePoint,      \* the text at Scintilla's save point
    atSavePoint,    \* whether the buffer is at it
    lastmd5,        \* _lastmd5, by the text it was computed from
    thread,         \* where the autosave thread stands
    kept,           \* history: the user was told that the file differs, and
                    \* has gone on with the buffer
    known           \* history: text of the file the user knows to be there

files == <<disk, auto, recent>>
document == <<buffer, isDirty, savePoint, atSavePoint, lastmd5>>
vars == <<files, view, main, closing, document, thread, kept, known>>

AnyText == Texts \cup {Torn}
Dialogs == {"restore", "reload", "overwrite", "close"}

TypeOK ==
    /\ disk \in AnyText
    /\ auto \in AnyText \cup {NoFile}
    /\ recent \in BOOLEAN
    /\ view \in {"open", "none"}
    /\ main \in {"idle", "writing"} \cup Dialogs
    /\ closing \in BOOLEAN
    /\ {buffer, savePoint, lastmd5, known} \subseteq AnyText
    /\ {isDirty, atSavePoint, kept} \subseteq BOOLEAN
    /\ thread \in {"idle", "listed", "called"}
    /\ view = "none" => main \in {"idle", "restore"}
    /\ main = "restore" => view = "none" /\ auto # NoFile
    \* a document that nobody holds is gone
    /\ view = "none" /\ main = "idle" /\ thread = "idle" => ~isDirty

Init ==
    /\ disk = First
    /\ auto = NoFile
    /\ recent = FALSE
    /\ view = "none"
    /\ main = "idle"
    /\ closing = FALSE
    /\ buffer = First
    /\ isDirty = FALSE
    /\ savePoint = First
    /\ atSavePoint = TRUE
    /\ lastmd5 = First
    /\ thread = "idle"
    /\ kept = FALSE
    /\ known = First

UserMay == view = "open" /\ main = "idle"

-----------------------------------------------------------------------------
(***************************************************************************)
(* What the operations are made of.                                        *)
(***************************************************************************)
\* The document holds t, at its save point; the file was read or written.
Holds(t, dirty, onDisk) ==
    /\ buffer' = t
    /\ savePoint' = t
    /\ atSavePoint' = TRUE
    /\ isDirty' = dirty
    /\ lastmd5' = onDisk
    /\ known' = onDisk

\* _loadfile: set_isDirty removes the autosave file.
Load ==
    /\ Holds(disk, FALSE, disk)
    /\ auto' = NoFile
    /\ kept' = FALSE
    /\ UNCHANGED <<disk, recent>>

\* The file is written: its time may still be that of the autosave file.
DiskWritten(t) ==
    /\ disk' = t
    /\ recent' \in {FALSE, recent}

\* Without a view only the thread keeps the document alive.
Release(held) ==
    /\ view' = "none"
    /\ main' = "idle"
    /\ closing' = FALSE
    /\ isDirty' = (held /\ isDirty)

-----------------------------------------------------------------------------
(***************************************************************************)
(* Opening the file.                                                       *)
(***************************************************************************)
OpenAsks ==
    /\ view = "none" /\ main = "idle"
    /\ auto # NoFile /\ recent
    /\ main' = "restore"
    /\ UNCHANGED <<files, view, closing, document, thread, kept, known>>

\* haveAutoSave removes an autosave file that is older than the file.
Open ==
    /\ view = "none" /\ main = "idle"
    /\ auto = NoFile \/ ~recent
    /\ Load
    /\ view' = "open"
    /\ UNCHANGED <<main, closing, thread>>

RestoreRefused ==
    /\ main = "restore"
    /\ Load
    /\ view' = "open"
    /\ main' = "idle"
    /\ UNCHANGED <<closing, thread>>

\* restoreAutoSave: _loadfile marks the document clean, which removes the
\* autosave file, then it is marked dirty.
Restore ==
    /\ main = "restore"
    /\ Holds(auto, TRUE, disk)
    /\ auto' = NoFile
    /\ kept' = TRUE
    /\ view' = "open"
    /\ main' = "idle"
    /\ UNCHANGED <<disk, recent, closing, thread>>

-----------------------------------------------------------------------------
(***************************************************************************)
(* Editing.                                                                *)
(***************************************************************************)
\* What leaves the save point marks the document dirty, other edits do not.
Edit(t) ==
    /\ UserMay
    /\ t # buffer
    /\ buffer' = t
    /\ atSavePoint' = FALSE
    /\ isDirty' = (isDirty \/ atSavePoint)
    /\ UNCHANGED <<files, view, main, closing, savePoint, lastmd5, thread, kept, known>>

\* Edits are undone, or redone, up to the save point.
BackToSavePoint ==
    /\ UserMay
    /\ ~atSavePoint
    /\ buffer' = savePoint
    /\ atSavePoint' = TRUE
    /\ isDirty' = FALSE
    /\ auto' = NoFile
    /\ UNCHANGED <<disk, recent, view, main, closing, savePoint, lastmd5, thread, kept, known>>

Revert ==
    /\ UserMay
    /\ isDirty
    /\ Load
    /\ UNCHANGED <<view, main, closing, thread>>

-----------------------------------------------------------------------------
(***************************************************************************)
(* The check for changes on disk, when the window or the tab is selected;  *)
(* no operation is pending on the file.  A dirty document gets an alert,   *)
(* for another one the user is asked whether to load the file: the window  *)
(* marks it dirty before it asks, the tab does not.                        *)
(***************************************************************************)
\* [variant] the alert is left out
CheckDiskQuietly ==
    /\ UserMay
    /\ disk # lastmd5
    /\ lastmd5' = disk
    /\ known' = IF isDirty THEN known ELSE disk
    /\ main' = IF isDirty THEN "idle" ELSE "reload"
    /\ isDirty' \in {isDirty, TRUE}
    /\ kept' = (kept \/ isDirty)
    /\ UNCHANGED <<files, view, closing, buffer, savePoint, atSavePoint, thread>>

CheckDisk ==
    /\ UserMay
    /\ disk # lastmd5
    /\ lastmd5' = disk
    /\ known' = disk
    /\ main' = IF isDirty THEN "idle" ELSE "reload"
    /\ isDirty' \in {isDirty, TRUE}
    /\ kept' = (kept \/ isDirty)
    /\ UNCHANGED <<files, view, closing, buffer, savePoint, atSavePoint, thread>>

ReloadAccepted ==
    /\ main = "reload"
    /\ Load
    /\ main' = "idle"
    /\ UNCHANGED <<view, closing, thread>>

ReloadRefused ==
    /\ main = "reload"
    /\ isDirty' = TRUE
    /\ kept' = TRUE
    /\ main' = "idle"
    /\ UNCHANGED <<files, view, closing, buffer, savePoint, atSavePoint, lastmd5, thread, known>>

-----------------------------------------------------------------------------
(***************************************************************************)
(* Saving: the user is asked if the file has changed, then it is truncated *)
(* and written.  The autosave file is removed however that ends.           *)
(***************************************************************************)
\* save of the view.  The user is asked, or the file is opened for writing.
Save(close) ==
    /\ lastmd5' = disk
    /\ closing' = close
    /\ IF disk # lastmd5
       THEN main' = "overwrite" /\ known' = disk /\ UNCHANGED <<disk, recent>>
       ELSE main' = "writing" /\ known' = known /\ DiskWritten(Torn)
    /\ UNCHANGED <<auto, view, buffer, isDirty, savePoint, atSavePoint, thread, kept>>

SaveCommand == UserMay /\ isDirty /\ Save(FALSE)

OverwriteAccepted ==
    /\ main = "overwrite"
    /\ main' = "writing"
    /\ DiskWritten(Torn)
    /\ UNCHANGED <<auto, view, closing, document, thread, kept, known>>

OverwriteRefused ==
    /\ main = "overwrite"
    /\ main' = "idle"
    /\ closing' = FALSE
    /\ kept' = TRUE
    /\ UNCHANGED <<files, view, document, thread, known>>

\* [variant] the digest is left as it was
WriteForgetsDigest ==
    /\ main = "writing"
    /\ DiskWritten(buffer)
    /\ auto' = NoFile
    /\ kept' = FALSE
    /\ savePoint' = buffer
    /\ atSavePoint' = TRUE
    /\ known' = buffer
    /\ isDirty' = FALSE
    /\ IF closing THEN Release(FALSE) ELSE main' = "idle" /\ UNCHANGED <<view, closing>>
    /\ UNCHANGED <<buffer, lastmd5, thread>>

Write ==
    /\ main = "writing"
    /\ DiskWritten(buffer)
    /\ Holds(buffer, FALSE, buffer)
    /\ auto' = NoFile
    /\ kept' = FALSE
    /\ main' = "idle"
    /\ closing' = FALSE
    /\ view' = IF closing THEN "none" ELSE "open"
    /\ UNCHANGED thread

\* The user is told of the error.
WriteFails ==
    /\ main = "writing"
    /\ DiskWritten(Torn)
    /\ auto' = NoFile
    /\ known' = Torn
    /\ kept' = TRUE
    /\ main' = "idle"
    /\ closing' = FALSE
    /\ UNCHANGED <<view, document, thread>>

\* The text cannot be encoded, or the file cannot be opened for writing.
SaveFails ==
    /\ UserMay
    /\ isDirty
    /\ disk = lastmd5
    /\ auto' = NoFile
    /\ UNCHANGED <<disk, recent, view, main, closing, document, thread, kept, known>>

-----------------------------------------------------------------------------
(***************************************************************************)
(* Closing the view.                                                       *)
(***************************************************************************)
Close ==
    /\ UserMay
    /\ IF isDirty THEN main' = "close" /\ UNCHANGED <<view, closing, isDirty>> ELSE Release(FALSE)
    /\ UNCHANGED <<files, buffer, savePoint, atSavePoint, lastmd5, thread, kept, known>>

CloseSaves == main = "close" /\ Save(TRUE)

\* The document stays dirty, for as long as the thread holds it.
CloseDiscards ==
    /\ main = "close"
    /\ auto' = NoFile
    /\ Release(thread \in {"listed", "called"})
    /\ UNCHANGED <<disk, recent, buffer, savePoint, atSavePoint, lastmd5, thread, kept, known>>

CloseCancelled ==
    /\ main = "close"
    /\ main' = "idle"
    /\ UNCHANGED <<files, view, closing, document, thread, kept, known>>

-----------------------------------------------------------------------------
(***************************************************************************)
(* The autosave thread.                                                    *)
(***************************************************************************)
\* "docs = doc = None": the thread lets go of the document.
ThreadGoes(to) ==
    /\ thread' = to
    /\ isDirty' = (isDirty /\ (to # "idle" \/ view = "open" \/ main = "restore"))

\* getAutoSaveDocuments
List ==
    /\ thread = "idle"
    /\ isDirty
    /\ thread' = "listed"
    /\ UNCHANGED <<files, view, main, closing, document, kept, known>>

\* [variant] a document that is clean by then ends the loop
TestEndsThread ==
    /\ thread = "listed"
    /\ ThreadGoes(IF isDirty THEN "called" ELSE "ended")
    /\ UNCHANGED <<files, view, main, closing, buffer, savePoint, atSavePoint, lastmd5, kept, known>>

\* doAutoSave
Test ==
    /\ thread = "listed"
    /\ ThreadGoes(IF isDirty THEN "called" ELSE "idle")
    /\ UNCHANGED <<files, view, main, closing, buffer, savePoint, atSavePoint, lastmd5, kept, known>>

\* [variant] what is in the autosave file counts as saved
AutoSaveMarksClean ==
    /\ thread = "called"
    /\ main # "writing"
    /\ auto' = buffer
    /\ recent' = TRUE
    /\ thread' = "idle"
    /\ isDirty' = FALSE
    /\ UNCHANGED <<disk, view, main, closing, buffer, savePoint, atSavePoint, lastmd5, kept, known>>

\* _doAutoSave, on the main thread, whatever has become of the document.
AutoSave ==
    /\ thread = "called"
    /\ main # "writing"
    /\ auto' = buffer
    /\ recent' = TRUE
    /\ ThreadGoes("idle")
    /\ UNCHANGED <<disk, view, main, closing, buffer, savePoint, atSavePoint, lastmd5, kept, known>>

-----------------------------------------------------------------------------
(***************************************************************************)
(* The world.                                                              *)
(***************************************************************************)
\* Another program writes the file.  What it writes while the user is asked
\* about the file is covered by the answer, and what was there before a save
\* failed is no news.
External(t) ==
    /\ main # "writing"
    /\ t # disk
    /\ DiskWritten(t)
    /\ known' = IF main = "overwrite" \/ t = lastmd5 THEN t ELSE known
    /\ UNCHANGED <<auto, view, main, closing, document, thread, kept>>

\* The program is started again with the file not yet open.
Crash ==
    /\ <<view, main, thread>> # <<"none", "idle", "idle">>
    /\ view' = "none"
    /\ main' = "idle"
    /\ closing' = FALSE
    /\ Holds(First, FALSE, First)
    /\ thread' = "idle"
    /\ kept' = FALSE
    /\ UNCHANGED files

-----------------------------------------------------------------------------
Opening == OpenAsks \/ Open \/ RestoreRefused \/ Restore

Editing == BackToSavePoint \/ Revert \/ \E t \in Texts : Edit(t)

Checking == CheckDisk \/ ReloadAccepted \/ ReloadRefused

Writing == Write \/ WriteFails

Saving == SaveCommand \/ OverwriteAccepted \/ OverwriteRefused \/ SaveFails \/ Writing

Closing == Close \/ CloseSaves \/ CloseDiscards \/ CloseCancelled

Thread == List \/ Test \/ AutoSave

World == Crash \/ \E t \in Texts : External(t)

Next == Opening \/ Editing \/ Checking \/ Saving \/ Closing \/ Thread \/ World

Spec == Init /\ [][Next]_vars

\* The thread wakes up in time, a write ends, and the main thread serves the
\* calls of other threads between what the user does, and during dialogs.
FairSpec ==
    /\ Spec
    /\ WF_vars(List)
    /\ WF_vars(Test)
    /\ WF_vars(Writing)
    /\ SF_vars(AutoSave)

-----------------------------------------------------------------------------
(***************************************************************************)
(* Edits since the last save are not closed without a question: a document *)
(* that is not at its save point is dirty, whatever loads, saves and       *)
(* questions came between.                                                 *)
(***************************************************************************)
EditsAreDirty == view = "open" /\ ~atSavePoint => isDirty

(***************************************************************************)
(* "There are unsaved changes to the document." (koIDocument.idl:55): the  *)
(* text of a document that is not dirty is what the user knows to be in    *)
(* the file, and the next check for changes compares with that.            *)
(***************************************************************************)
CleanMeansSaved == UserMay /\ ~isDirty => buffer = known /\ lastmd5 = known

\* It is, unless the user was told that the file differs, by a question, an
\* alert or an error, and has gone on.
CleanMeansSavedUnlessKept == kept \/ CleanMeansSaved

(***************************************************************************)
(* What another program has written is not overwritten by a save of which  *)
(* the user did not know that: differentOnDisk forgets a change when it    *)
(* has reported it once, so whoever calls it has to tell the user.         *)
(***************************************************************************)
OverwritesAreKnown == [][main # "writing" /\ main' = "writing" => disk = known]_vars

(***************************************************************************)
(* A dirty document is in its autosave file in time, unless it is saved or *)
(* closed first.                                                           *)
(***************************************************************************)
DirtyGetsAutoSaved ==
    view = "open" /\ isDirty ~> auto = buffer \/ ~isDirty \/ view = "none"
=============================================================================
