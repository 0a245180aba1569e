------------------------------ MODULE TermCache ------------------------------
(***************************************************************************)
(* The cache of word lists (checks/term_cache.py).  Checks of several      *)
(* tasks read a list in threads of one process while somebody edits the    *)
(* file; what a signature or a list belongs to is a version of the file.   *)
(***************************************************************************)
EXTENDS Naturals, FiniteSets

CONSTANTS
  Thread,     \* threads that load the list
  MaxEdits,   \* bound of the changes of the file
  Nobody      \* no holder of the lock, no entry

TermCacheAssumption == MaxEdits \in Nat /\ Nobody \notin Thread

VARIABLES
  file,       \* version of the file
  entry,      \* the cached signature and list
  lock,       \* holder of _cache_lock
  pc,         \* where a thread is
  signature,  \* the signature a thread has read
  values,     \* the list it has read
  again,      \* it has read it twice
  began,      \* history: version of the file when its call began
  edits,      \* history: changes of the file during its call
  misplaced   \* history: lists that were stored after two changes in one call

history == <<began, edits, misplaced>>
vars == <<file, entry, lock, pc, signature, values, again, history>>

-----------------------------------------------------------------------------
Init ==
  /\ file = 0
  /\ entry = Nobody
  /\ lock = Nobody
  /\ pc = [t \in Thread |-> "idle"]
  /\ signature = [t \in Thread |-> 0]
  /\ values = [t \in Thread |-> 0]
  /\ again = [t \in Thread |-> FALSE]
  /\ began = [t \in Thread |-> 0]
  /\ edits = [t \in Thread |-> 0]
  /\ misplaced = {}

Goto(t, point) == pc' = [pc EXCEPT ![t] = point]

\* The first signature is read before the lock is taken.
Call(t) ==
  /\ pc[t] \in {"idle", "returned"}
  /\ signature' = [signature EXCEPT ![t] = file]
  /\ began' = [began EXCEPT ![t] = file]
  /\ edits' = [edits EXCEPT ![t] = 0]
  /\ again' = [again EXCEPT ![t] = FALSE]
  /\ Goto(t, "lock")
  /\ UNCHANGED <<file, entry, lock, values, misplaced>>

\* A cached list with this signature is returned.
Hit(t) ==
  /\ pc[t] = "lock" /\ lock = Nobody
  /\ entry # Nobody /\ entry.signature = signature[t]
  /\ values' = [values EXCEPT ![t] = entry.values]
  /\ Goto(t, "returned")
  /\ UNCHANGED <<file, entry, lock, signature, again, history>>

Miss(t) ==
  /\ pc[t] = "lock" /\ lock = Nobody
  /\ ~(entry # Nobody /\ entry.signature = signature[t])
  /\ lock' = t
  /\ Goto(t, "load")
  /\ UNCHANGED <<file, entry, signature, values, again, history>>

\* loader(resolved_path)
Load(t) ==
  /\ pc[t] = "load"
  /\ values' = [values EXCEPT ![t] = file]
  /\ Goto(t, "compare")
  /\ UNCHANGED <<file, entry, lock, signature, again, history>>

\* An unreadable list is not cached; the check reports that it was not carried out.
LoadFails(t) ==
  /\ pc[t] = "load"
  /\ lock' = Nobody
  /\ Goto(t, "idle")
  /\ UNCHANGED <<file, entry, signature, values, again, history>>

\* The file has changed since the first signature: once more.
LoadAgain(t) ==
  /\ pc[t] = "compare" /\ ~again[t] /\ file # signature[t]
  /\ again' = [again EXCEPT ![t] = TRUE]
  /\ Goto(t, "load")
  /\ UNCHANGED <<file, entry, lock, signature, values, history>>

\* The list is stored with the signature that was read last.
Store(t) ==
  /\ pc[t] = "compare" /\ (again[t] \/ file = signature[t])
  /\ entry' = [signature |-> file, values |-> values[t]]
  /\ misplaced' = IF edits[t] >= 2 THEN misplaced \cup {values[t]} ELSE misplaced
  /\ lock' = Nobody
  /\ Goto(t, "returned")
  /\ UNCHANGED <<file, signature, values, again, began, edits>>

\* Lists of other files push the entry out.
Evict ==
  /\ entry # Nobody /\ lock = Nobody
  /\ entry' = Nobody
  /\ UNCHANGED <<file, lock, pc, signature, values, again, history>>

\* An administrator replaces the file.
Edit ==
  /\ file < MaxEdits
  /\ file' = file + 1
  /\ edits' = [t \in Thread |-> edits[t] + 1]
  /\ UNCHANGED <<entry, lock, pc, signature, values, again, began, misplaced>>

Next ==
  \/ \E t \in Thread :
       Call(t) \/ Hit(t) \/ Miss(t) \/ Load(t) \/ LoadFails(t) \/ LoadAgain(t) \/ Store(t)
  \/ Evict
  \/ Edit

Spec == Init /\ [][Next]_vars

-----------------------------------------------------------------------------
\* test_common_terms.py:26: a list is kept until the signature of its file changes.  What
\* is stored under a signature is that version of the list, unless the file changed twice
\* during the call that stored it; then it may be the version before.
EntryMatchesFile ==
  entry # Nobody =>
    /\ entry.values <= entry.signature
    /\ entry.values # entry.signature => entry.values \in misplaced

\* A check never works with a list that had been replaced before it asked for it, except
\* with one that was stored after two changes.
ListIsCurrent ==
  \A t \in Thread :
    pc[t] = "returned" => values[t] >= began[t] \/ values[t] \in misplaced

\* What is cached of a word list is what its file had, and not older than the check.
CachesSafe == EntryMatchesFile /\ ListIsCurrent
=============================================================================
