------------------------------ MODULE Preparation ------------------------------
(***************************************************************************)
(* What a run does before its checks (tasks/runtime/preprocessing.py): it  *)
(* extracts the text, the pictures or the frames of a task, writes the     *)
(* files into one directory per task and then stores text and list of      *)
(* files in the row, once for all runs of the task.                        *)
(*                                                                         *)
(* A run can break off at any step: the file is bad, the user cancels, the *)
(* process dies, a directory cannot be removed.  One run at a time executes *)
(* the task (TaskSupervisor!OneExecutor).  Between runs the clean-up of    *)
(* files (TaskFiles) may have been there; a retry does not ask about it.   *)
(***************************************************************************)
EXTENDS Naturals, FiniteSets

CONSTANTS
  Kind,      \* kinds of tasks: "document", "groups", "image", "video"
  Upload,    \* uploaded files of a task; one, but for "groups"
  MaxRuns    \* bound of the runs

VARIABLES
  kind,     \* task_type
  uploads,  \* uploaded files on disk
  row,      \* status, document_text, files listed in document_meta_json
  disk,     \* files in the output directory of the task
  pc,       \* where the run is
  found,    \* text and files the run has extracted
  run,      \* number of the run
  cleaned   \* source_files_cleaned_at is set

vars == <<kind, uploads, row, disk, pc, found, run, cleaned>>

Media == kind \in {"image", "video"}
Nothing == [text |-> FALSE, files |-> {}]
Steps == {"start", "reset", "text", "pictures", "pages", "persist", "undo", "checks"}

\* A file of a run: embedded pictures, page renderings, frames, or part of them.
File(what) == <<run, what>>

-----------------------------------------------------------------------------
Init ==
  /\ kind \in Kind
  /\ uploads \in IF kind = "groups" THEN SUBSET Upload ELSE {{}} \cup {{u} : u \in Upload}
  /\ row = [status |-> "running", text |-> FALSE, files |-> {}]
  /\ disk = {}
  /\ pc = "start" /\ found = Nothing /\ run = 1 /\ cleaned = FALSE

\* A failed or canceled run ends; what it extracted is forgotten.
EndRun(status) ==
  /\ pc' = "ended" /\ found' = Nothing
  /\ row' = [row EXCEPT !.status = status]

Complete == IF kind = "groups" THEN uploads = Upload ELSE uploads # {}

\* Mutant of Reuse: a list of files is enough.
ReuseAsIs ==
  /\ pc = "start"
  /\ IF Media THEN row.files # {} ELSE row.text
  /\ found' = [text |-> TRUE, files |-> row.files]
  /\ pc' = "checks"
  /\ UNCHANGED <<kind, uploads, row, disk, run, cleaned>>

\* _prepare_task_inputs: what an earlier run stored is used again; a list of files
\* without a text gets its text anew.
Reuse ==
  /\ pc = "start"
  /\ IF Media THEN row.files # {} ELSE row.text
  /\ found' = [text |-> TRUE, files |-> row.files]
  /\ pc' = IF row.text THEN "checks" ELSE "persist"
  /\ UNCHANGED <<kind, uploads, row, disk, run, cleaned>>

\* _task_upload_path, _extract_consistency_groups.
Missing ==
  /\ pc = "start" /\ ~Complete
  /\ IF Media THEN row.files = {} ELSE ~row.text
  /\ EndRun("failed")
  /\ UNCHANGED <<kind, uploads, disk, run, cleaned>>

Start ==
  /\ pc = "start" /\ Complete
  /\ IF Media THEN row.files = {} ELSE ~row.text
  /\ pc' = IF Media THEN "reset" ELSE "text"
  /\ UNCHANGED <<kind, uploads, row, disk, found, run, cleaned>>

\* Mutant of Reset: a directory that cannot be removed is used as it is.
ResetTried ==
  /\ pc = "reset"
  /\ disk' \in {{}, disk}
  /\ pc' = IF kind = "image" THEN "text" ELSE "pages"
  /\ UNCHANGED <<kind, uploads, row, found, run, cleaned>>

\* _reset_generated_output_dir, before anything is written.
Reset ==
  /\ pc = "reset"
  /\ \/ disk' = {} /\ pc' = (IF kind = "image" THEN "text" ELSE "pages")
        /\ UNCHANGED <<row, found>>
     \/ EndRun("failed") /\ UNCHANGED disk
  /\ UNCHANGED <<kind, uploads, run, cleaned>>

\* Text that cannot be read fails a document, not an image task.
ExtractText ==
  /\ pc = "text"
  /\ \E ok \in BOOLEAN :
       IF kind = "image"
       THEN /\ found' = [found EXCEPT !.text = ok] /\ pc' = "pictures" /\ UNCHANGED row
       ELSE IF ok THEN /\ found' = [found EXCEPT !.text = TRUE] /\ pc' = "persist"
                       /\ UNCHANGED row
                  ELSE EndRun("failed")
  /\ UNCHANGED <<kind, uploads, disk, run, cleaned>>

\* The cancel event of the run: an image task undoes what it wrote.
TextCanceled ==
  /\ pc \in {"start", "text"} /\ row.status = "canceling"
  /\ IF kind = "image" /\ pc = "text" THEN pc' = "undo" /\ UNCHANGED <<row, found>> ELSE EndRun("canceled")
  /\ UNCHANGED <<kind, uploads, disk, run, cleaned>>

\* Embedded pictures: an error leaves pieces behind, which are removed, and the run goes
\* on with the pages alone.
ExtractPictures ==
  /\ pc = "pictures"
  /\ \/ \E pictures \in {{}, {File("picture")}} :
          /\ disk' = disk \cup pictures
          /\ found' = [found EXCEPT !.files = pictures]
     \/ disk' = {} /\ UNCHANGED found
  /\ pc' = "pages"
  /\ UNCHANGED <<kind, uploads, row, run, cleaned>>

\* ... unless they cannot be removed, or the error is of another kind.
PicturesFail ==
  /\ pc = "pictures"
  /\ disk' = disk \cup {File("piece")}
  /\ pc' = "undo"
  /\ UNCHANGED <<kind, uploads, row, found, run, cleaned>>

\* Pages of an image task, frames of a video.
Render ==
  /\ pc = "pages"
  /\ disk' = disk \cup {File("page")}
  /\ found' = [text |-> TRUE, files |-> found.files \cup {File("page")}]
  /\ pc' = "persist"
  /\ UNCHANGED <<kind, uploads, row, run, cleaned>>

RenderFails ==
  /\ pc = "pages"
  /\ disk' = disk \cup {File("piece")}
  /\ pc' = "undo"
  /\ UNCHANGED <<kind, uploads, row, found, run, cleaned>>

\* _persist_preprocessed_inputs: text and files in one statement, only while the task is
\* running under this claim.  Otherwise the run ends as canceled and leaves its files.
Persist ==
  /\ pc = "persist"
  /\ IF row.status = "running"
     THEN /\ row' = [row EXCEPT !.text = TRUE, !.files = found.files]
          /\ pc' = "checks" /\ UNCHANGED found
     ELSE EndRun("canceled")
  /\ UNCHANGED <<kind, uploads, disk, run, cleaned>>

\* The database refuses the statement.
PersistFails ==
  /\ pc = "persist"
  /\ IF Media /\ row.files = {} THEN pc' = "undo" /\ UNCHANGED <<row, found>>
                                ELSE EndRun("failed")
  /\ UNCHANGED <<kind, uploads, disk, run, cleaned>>

\* except Exception: the directory is removed as far as possible.
Undo ==
  /\ pc = "undo"
  /\ disk' \in {{}, disk}
  /\ EndRun(IF row.status = "canceling" THEN "canceled" ELSE "failed")
  /\ UNCHANGED <<kind, uploads, run, cleaned>>

\* The selected checks read some of the files; one that is not there fails the run.
RunChecks ==
  /\ pc = "checks"
  /\ \E files \in SUBSET found.files :
       EndRun(IF files \subseteq disk THEN "finished" ELSE "failed")
  /\ UNCHANGED <<kind, uploads, disk, run, cleaned>>

-----------------------------------------------------------------------------
Cancel ==
  /\ row.status = "running" /\ pc \in Steps
  /\ row' = [row EXCEPT !.status = "canceling"]
  /\ UNCHANGED <<kind, uploads, disk, pc, found, run, cleaned>>

\* The process of the run dies.
Crash ==
  /\ pc \in Steps
  /\ EndRun("failed")
  /\ UNCHANGED <<kind, uploads, disk, run, cleaned>>

\* A requeue after a crash or a retry: another run of the same task.
Again ==
  /\ pc = "ended" /\ run < MaxRuns
  /\ pc' = "start" /\ run' = run + 1
  /\ row' = [row EXCEPT !.status = "running"]
  /\ UNCHANGED <<kind, uploads, disk, found, cleaned>>

\* The files of the task are cleaned up: the text goes, the list of files stays.
Clean ==
  /\ pc = "ended" /\ ~cleaned
  /\ uploads' = {} /\ disk' = {}
  /\ row' = [row EXCEPT !.text = FALSE]
  /\ cleaned' = TRUE
  /\ UNCHANGED <<kind, pc, found, run>>

Next ==
  \/ Reuse \/ Missing \/ Start \/ Reset \/ ExtractText \/ TextCanceled \/ ExtractPictures
  \/ PicturesFail \/ Render \/ RenderFails \/ Persist \/ PersistFails \/ Undo \/ RunChecks
  \/ Cancel \/ Crash \/ Again \/ Clean

Spec == Init /\ [][Next]_vars

-----------------------------------------------------------------------------
Status == {"running", "canceling", "failed", "canceled", "finished"}
Files == Nat \X {"picture", "page", "piece"}

TypeOK ==
  /\ kind \in Kind /\ uploads \subseteq Upload
  /\ row \in [status : Status, text : BOOLEAN, files : SUBSET Files]
  /\ disk \subseteq Files
  /\ pc \in Steps \cup {"ended"} /\ run \in Nat
  /\ found \in [text : BOOLEAN, files : SUBSET Files]
  /\ cleaned \in BOOLEAN

\* preprocessing.py:118-231, 234-299: as long as nobody has cleaned up, a row that lists
\* files lists exactly those in the directory, whatever runs that broke off before or fail
\* after it have written or removed; so a later run reads the files of the run that stored
\* the list.
FilesMatchRow == row.files # {} /\ ~cleaned => disk = row.files

\* A run that reaches its checks has a text that is stored, and a media task has files on
\* disk for it, unless they were cleaned up: then the text may be made from the list alone.
ChecksHaveInputs ==
  /\ pc = "checks" => found.text /\ row.text
  /\ pc = "checks" /\ Media => found.files # {} /\ (found.files \subseteq disk \/ cleaned)

\* The files of a task: the row lists those that are there, and checks have their inputs.
FilesSafe == FilesMatchRow /\ ChecksHaveInputs
=============================================================================
