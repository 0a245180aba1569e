------------------------------ MODULE Submission ------------------------------
(***************************************************************************)
(* Submitting tasks (tasks/submission.py): validation against a snapshot   *)
(* of the settings, files that are stored one by one before their row is,  *)
(* the token that makes a repeated submission harmless, and what is undone *)
(* when a step fails.                                                      *)
(*                                                                         *)
(* There are three kinds of requests:                                      *)
(*   "batch"  documents: a task for each file, all rows in one transaction *)
(*   "group"  image, multi-document and cross-language checks: one task    *)
(*            with all of the files; the last kind carries a token         *)
(*   "each"   videos: a task of its own for each file, one after another   *)
(***************************************************************************)
EXTENDS Naturals

CONSTANTS
  Request,   \* requests to a web process
  Token,     \* tokens of the pages of cross-language checks
  MaxFiles,  \* bound of the files of a request
  None       \* no token

ASSUME MaxFilesAssumption == MaxFiles \in Nat \ {0}
ASSUME TokenAssumption == None \notin Token

Kind == {"batch", "group", "each"}

\* A stored file has a name that nobody else has (_upload_destination).
File == Request \X (1..MaxFiles)

VARIABLES
  req,      \* req[r]: what a request works with
  disk,     \* files in the upload directory
  tasks,    \* the rows: the files of the task and its token
  strays,   \* history: files a dead process or a file lock left behind
  removed   \* history: files that deletions of tasks removed

vars == <<req, disk, tasks, strays, removed>>

-----------------------------------------------------------------------------
\* "next" is the file to be stored, "saved" is saved_paths (for videos, destination),
\* "answer" is what the user will be told.
Idle == [pc |-> "idle", kind |-> "batch", files |-> 1, token |-> None, next |-> 1,
         saved |-> {}, answer |-> "none"]

Points == {"idle", "save", "insert", "conflict", "undo", "ended"}

Becomes(r, q) == req' = [req EXCEPT ![r] = q]
Working(r) == req[r].pc \notin {"idle", "ended"}

Init ==
  /\ req = [r \in Request |-> Idle]
  /\ disk = {} /\ tasks = {} /\ strays = {} /\ removed = {}

Exists(token) == token # None /\ \E t \in tasks : t.token = token

\* Removing files: those that are in use stay.
RemoveFiles(S) ==
  \E locked \in SUBSET S :
    /\ disk' = disk \ (S \ locked)
    /\ strays' = strays \cup locked

-----------------------------------------------------------------------------
\* A valid submission.  A repeated cross-language check is answered at once; what the
\* settings do not allow (no file, type, check items, model, rounds) is refused.
Submit(r) ==
  /\ req[r].pc = "idle"
  /\ \E kind \in Kind, n \in 1..MaxFiles, token \in Token \cup {None} :
       /\ token # None => kind = "group"
       /\ Becomes(r, [Idle EXCEPT
            !.pc = IF Exists(token) THEN "ended" ELSE "save",
            !.kind = kind, !.files = n, !.token = token,
            !.answer = IF Exists(token) THEN "already" ELSE "ok"])
  /\ UNCHANGED <<disk, tasks, strays, removed>>

\* upload.save(destination); the row follows when all files of the task are stored.
SaveFile(r) ==
  LET q == req[r]
      f == <<r, q.next>> IN
  /\ q.pc = "save"
  /\ disk' = disk \cup {f}
  /\ Becomes(r, [q EXCEPT
       !.pc = IF q.kind = "each" \/ q.next = q.files THEN "insert" ELSE "save",
       !.next = q.next + 1, !.saved = q.saved \cup {f}])
  /\ UNCHANGED <<tasks, strays, removed>>

\* Going on after a failure: videos with the next file, all others with the answer.
GoOn(kind, next, files) == IF kind = "each" /\ next <= files THEN "save" ELSE "ended"

\* Mutant of SaveFails: the failure of one video of several is forgotten.
SaveFailsQuietly(r) ==
  LET q == req[r] IN
  /\ q.pc = "save"
  /\ Becomes(r, [q EXCEPT
       !.pc = IF q.kind = "each" THEN GoOn(q.kind, q.next + 1, q.files) ELSE "undo",
       !.next = q.next + 1,
       !.answer = IF q.kind = "each" /\ q.next < q.files THEN @ ELSE "failed"])
  /\ UNCHANGED <<disk, tasks, strays, removed>>

\* It fails half-way: the part is removed, then what was stored before.
SaveFails(r) ==
  LET q == req[r] IN
  /\ q.pc = "save"
  /\ \E left \in SUBSET {<<r, q.next>>} : disk' = disk \cup left /\ strays' = strays \cup left
  /\ Becomes(r, [q EXCEPT
       !.pc = IF q.kind = "each" THEN GoOn(q.kind, q.next + 1, q.files) ELSE "undo",
       !.next = q.next + 1, !.answer = "failed"])
  /\ UNCHANGED <<tasks, removed>>

\* The rows of a transaction.  The token is unique for its owner and type of task.
Rows(q) ==
  IF q.kind = "batch" THEN {[files |-> {f}, token |-> None] : f \in q.saved}
                      ELSE {[files |-> q.saved, token |-> q.token]}

\* Mutant of Insert: the index on the token is not unique.
InsertTwice(r) ==
  LET q == req[r] IN
  /\ q.pc = "insert"
  /\ tasks' = tasks \cup Rows(q)
  /\ Becomes(r, [q EXCEPT !.pc = GoOn(q.kind, q.next, q.files), !.saved = {}])
  /\ UNCHANGED <<disk, strays, removed>>

Insert(r) ==
  LET q == req[r] IN
  /\ q.pc = "insert" /\ ~Exists(q.token)
  /\ tasks' = tasks \cup Rows(q)
  /\ Becomes(r, [q EXCEPT !.pc = GoOn(q.kind, q.next, q.files), !.saved = {}])
  /\ UNCHANGED <<disk, strays, removed>>

\* Another request with the token was faster: IntegrityError, rollback.
InsertConflicts(r) ==
  /\ req[r].pc = "insert" /\ Exists(req[r].token)
  /\ Becomes(r, [req[r] EXCEPT !.pc = "conflict"])
  /\ UNCHANGED <<disk, tasks, strays, removed>>

\* Mutant of AskAgain: a repeated submission is answered without undoing anything.
AskAgainOnly(r) ==
  /\ req[r].pc = "conflict"
  /\ Becomes(r, [req[r] EXCEPT
       !.pc = IF Exists(req[r].token) THEN "ended" ELSE "undo",
       !.answer = IF Exists(req[r].token) THEN "already" ELSE "failed"])
  /\ UNCHANGED <<disk, tasks, strays, removed>>

\* Only when the row of the token is still there, the answer is that it was submitted.
AskAgain(r) ==
  /\ req[r].pc = "conflict"
  /\ Becomes(r, [req[r] EXCEPT
       !.pc = "undo", !.answer = IF Exists(req[r].token) THEN "already" ELSE "failed"])
  /\ UNCHANGED <<disk, tasks, strays, removed>>

InsertFails(r) ==
  /\ req[r].pc = "insert"
  /\ Becomes(r, [req[r] EXCEPT !.pc = "undo", !.answer = "failed"])
  /\ UNCHANGED <<disk, tasks, strays, removed>>

\* What the failed task has stored is removed.
Undo(r) ==
  LET q == req[r] IN
  /\ q.pc = "undo"
  /\ RemoveFiles(q.saved)
  /\ Becomes(r, [q EXCEPT !.pc = GoOn(q.kind, q.next, q.files), !.saved = {}])
  /\ UNCHANGED <<tasks, removed>>

\* Files of requests that still work.
Saved == UNION {req[r].saved : r \in {s \in Request : Working(s)}}

\* The web process dies with all of its requests; nothing removes their files later.
Crash ==
  /\ \E r \in Request : Working(r)
  /\ strays' = strays \cup Saved
  /\ req' = [r \in Request |->
       IF Working(r) THEN [req[r] EXCEPT !.pc = "ended", !.saved = {}, !.answer = "none"]
                     ELSE req[r]]
  /\ UNCHANGED <<disk, tasks, removed>>

\* A finished task is deleted, with its files first; when one is in use, the row stays
\* (_delete_task).
Delete(t) ==
  /\ t \in tasks
  /\ \E locked \in SUBSET (t.files \cap disk) :
       /\ disk' = disk \ (t.files \ locked)
       /\ removed' = removed \cup (t.files \ locked)
       /\ tasks' = IF locked = {} THEN tasks \ {t} ELSE tasks
  /\ UNCHANGED <<req, strays>>

Next ==
  \/ \E r \in Request :
       \/ Submit(r) \/ SaveFile(r) \/ SaveFails(r)
       \/ Insert(r) \/ InsertConflicts(r) \/ AskAgain(r) \/ InsertFails(r) \/ Undo(r)
  \/ Crash
  \/ \E t \in tasks : Delete(t)

Spec == Init /\ [][Next]_vars

-----------------------------------------------------------------------------
Row == [files : SUBSET File, token : Token \cup {None}]
Answer == {"none", "ok", "already", "failed"}
Req == [pc : Points, kind : Kind, files : 1..MaxFiles, token : Token \cup {None},
        next : 1..(MaxFiles + 1), saved : SUBSET File, answer : Answer]

TypeOK ==
  /\ req \in [Request -> Req]
  /\ disk \subseteq File /\ strays \subseteq File /\ removed \subseteq File
  /\ tasks \subseteq Row

\* Files that a row names.
Named == UNION {t.files : t \in tasks}

\* Every stored file belongs to one task or to a request that still works on it, and
\* every task has its files, whichever step of a submission fails; only a file lock or
\* the death of the process leaves files that nobody knows of, and only the deletion of a
\* task takes its files.
FilesAccounted ==
  /\ disk = (Named \ removed) \cup Saved \cup strays
  /\ (Named \cup removed) \cap (Saved \cup strays) = {}
  /\ Saved \cap strays = {}
  /\ \A t \in tasks : t.files # {}
  /\ \A t, u \in tasks : t # u => t.files \cap u.files = {}

\* submission.py:684-815 and the unique index of schema.py:294: a page of a cross-language
\* check that is submitted twice, also at the same time, makes one task.
OneTaskPerToken ==
  \A t, u \in tasks : t.token = u.token /\ t.token # None => t = u

\* The answer is what happened: a submission that succeeded has its tasks, with all of
\* the files, and one that did not has none, but for videos, which stand for themselves;
\* a part of the tasks or of the files of a task never remains, not even after a crash.
AnswerIsTrue ==
  \A r \in Request : req[r].pc = "ended" =>
    LET Kept(i) == <<r, i>> \in Named \cup removed IN
    /\ req[r].answer = "ok" => \A i \in 1..req[r].files : Kept(i)
    /\ req[r].answer # "ok" /\ req[r].kind # "each" => \A i \in 1..MaxFiles : ~Kept(i)
=============================================================================
