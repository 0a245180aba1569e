------------------------------ MODULE Files_proofs ------------------------------
(***************************************************************************)
(* Theorems about the files of tasks, from their upload to their removal:  *)
(* Submission, and TaskFiles (Cleanup) and Preparation (Prepare) as the    *)
(* instances of Components.  Each part names the slots of Components as    *)
(* its machine does; the last one is about behaviours of Components.       *)
(***************************************************************************)
EXTENDS Components, TLAPS

(***************************************************************************)
(* The inductive invariant.                                                *)
(***************************************************************************)

\* Files that tasks have or had.
Kept == Named \cup removed

\* How far a request is: what it may have stored, and what it will answer.
StageOf(q) ==
  /\ q.pc = "idle" => q = Idle
  /\ q.pc = "ended" => q.saved = {}
  /\ q.pc = "save" => q.next <= q.files
  /\ q.pc = "insert" => q.saved # {}
  /\ q.pc = "undo" => q.answer # "ok"
  /\ q.pc = "conflict" => q.token # None
  /\ q.token # None => q.kind = "group"
  /\ q.next <= q.files + 1
  /\ q.kind = "each" /\ q.pc = "save" => q.saved = {}
  /\ q.kind # "each" /\ q.pc \in {"save", "insert"} => q.answer = "ok"
  /\ q.kind # "each" /\ q.pc = "insert" => q.next = q.files + 1
  /\ q.pc = "ended" /\ q.answer = "ok" => q.next = q.files + 1

\* A request works with files of its own.
OwnOf(r, q) ==
  \A s \in Request, i \in 1..MaxFiles : <<s, i>> \in q.saved => s = r /\ i < q.next

\* As long as nothing has failed, every file stored so far is in a task or at hand; and
\* unless the files are tasks of their own, no task has one before the end.
AnswerOf(kept, r, q) ==
  /\ q.answer = "ok" =>
       \A i \in 1..MaxFiles : i < q.next => <<r, i>> \in kept \cup q.saved
  /\ q.kind # "each" /\ (q.pc # "ended" \/ q.answer # "ok") =>
       \A i \in 1..MaxFiles : <<r, i>> \notin kept

\* Names are used once: what is to be stored is nowhere yet.
FreshNames ==
  \A r \in Request, i \in 1..MaxFiles : <<r, i>> \in Kept \cup strays => i < req[r].next

RequestsSound ==
  \A r \in Request : StageOf(req[r]) /\ OwnOf(r, req[r]) /\ AnswerOf(Kept, r, req[r])

IInv == TypeOK /\ RequestsSound /\ FreshNames /\ FilesAccounted /\ OneTaskPerToken
-----------------------------------------------------------------------------
(***************************************************************************)
(* What a step of a request does.                                          *)
(***************************************************************************)

\* Files of the other requests.
Others(r) == UNION {req[s].saved : s \in Request \ {r}}

LEMMA SavedParts ==
  ASSUME TypeOK, RequestsSound, NEW r \in Request
  PROVE  /\ Saved = Others(r) \cup req[r].saved
         /\ Others(r) \cap req[r].saved = {}
         /\ Saved \subseteq File /\ req[r].saved \subseteq File
<1>1. \A s \in Request : req[s].saved \subseteq File
  BY DEF TypeOK, Req
<1>2. \A s \in Request : ~Working(s) => req[s].saved = {}
  <2>1. Idle.saved = {}
    BY DEF Idle
  <2>2. QED  BY <2>1 DEF RequestsSound, StageOf, Working
<1>3. Saved = Others(r) \cup req[r].saved
  BY <1>2 DEF Saved, Others
<1>4. ASSUME NEW s \in Request, s # r, NEW f \in req[s].saved, f \in req[r].saved
      PROVE  FALSE
  <2>1. PICK a \in Request, i \in 1..MaxFiles : f = <<a, i>>
    BY <1>1, <1>4 DEF File
  <2>2. a = s /\ a = r
    BY <1>4, <2>1 DEF RequestsSound, OwnOf
  <2>3. QED  BY <1>4, <2>2
<1>5. Others(r) \cap req[r].saved = {}
  BY <1>4 DEF Others
<1>6. QED  BY <1>1, <1>3, <1>5 DEF Others

LEMMA SavedAfter ==
  ASSUME TypeOK, RequestsSound, NEW r \in Request, NEW q \in Req, Becomes(r, q), StageOf(q)
  PROVE  /\ req' \in [Request -> Req] /\ req'[r] = q
         /\ \A s \in Request : s # r => req'[s] = req[s]
         /\ Saved' = Others(r) \cup q.saved
<1>1. /\ req' \in [Request -> Req] /\ req'[r] = q
      /\ \A s \in Request : s # r => req'[s] = req[s]
  BY DEF Becomes, TypeOK
<1>2. Idle.saved = {}
  BY DEF Idle
<1>3. \A s \in Request : ~Working(s) => req[s].saved = {}
  BY <1>2 DEF RequestsSound, StageOf, Working
<1>4. q.pc \in {"idle", "ended"} => q.saved = {}
  BY <1>2 DEF StageOf
<1>5. \A f : f \in Saved' <=> \E s \in Request : req'[s].pc \notin {"idle", "ended"}
        /\ f \in req'[s].saved
  BY DEF Saved, Working
<1>6. \A f : f \in Saved' <=> f \in q.saved \/ \E s \in Request \ {r} : f \in req[s].saved
  BY <1>1, <1>3, <1>4, <1>5 DEF Working
<1>7. QED  BY <1>1, <1>6 DEF Others

\* The requests stay sound when one of them takes a sound step, in which only its own
\* files may become those of tasks.
LEMMA RequestStep ==
  ASSUME IInv, NEW r \in Request, NEW q \in Req, Becomes(r, q),
         StageOf(q), OwnOf(r, q), AnswerOf(Kept', r, q),
         Kept \subseteq Kept', Kept' \subseteq Kept \cup req[r].saved
  PROVE  RequestsSound'
<1>1. req'[r] = q /\ \A s \in Request : s # r => req'[s] = req[s]
  BY SavedAfter DEF IInv
<1>2. ASSUME NEW s \in Request, s # r
      PROVE  AnswerOf(Kept', s, req[s])
  <2>1. AnswerOf(Kept, s, req[s])
    BY DEF IInv, RequestsSound
  <2>2. \A i \in 1..MaxFiles : <<s, i>> \notin req[r].saved
    BY <1>2 DEF IInv, RequestsSound, OwnOf
  <2>3. QED  BY <2>1, <2>2 DEF AnswerOf
<1>3. ASSUME NEW s \in Request
      PROVE  StageOf(req'[s]) /\ OwnOf(s, req'[s]) /\ AnswerOf(Kept', s, req'[s])
  <2>1. CASE s = r
    BY <1>1, <2>1
  <2>2. CASE s # r
    BY <1>1, <1>2, <2>2 DEF IInv, RequestsSound
  <2>3. QED  BY <2>1, <2>2
<1>4. QED  BY <1>3 DEF RequestsSound

LEMMA FreshStep ==
  ASSUME IInv, NEW r \in Request, NEW q \in Req, Becomes(r, q), StageOf(q),
         q.next >= req[r].next,
         \A f \in Kept' \cup strays' :
           \/ f \in Kept \cup strays \cup req[r].saved
           \/ f = <<r, req[r].next>> /\ q.next > req[r].next
  PROVE  FreshNames'
<1>1. req'[r] = q /\ \A s \in Request : s # r => req'[s] = req[s]
  BY SavedAfter DEF IInv
<1>2. q.next \in Nat /\ req[r].next \in Nat
  BY MaxFilesAssumption DEF IInv, TypeOK, Req
<1>3. ASSUME NEW s \in Request, NEW i \in 1..MaxFiles, <<s, i>> \in Kept' \cup strays'
      PROVE  i < req'[s].next
  <2>1. CASE <<s, i>> \in Kept \cup strays
    BY <1>1, <1>2, <2>1 DEF IInv, FreshNames
  <2>2. CASE <<s, i>> \in req[r].saved
    <3>1. s = r /\ i < req[r].next
      BY <2>2 DEF IInv, RequestsSound, OwnOf
    <3>2. QED  BY <1>1, <1>2, <3>1
  <2>3. CASE <<s, i>> = <<r, req[r].next>> /\ q.next > req[r].next
    BY <1>1, <1>2, <2>3
  <2>4. QED  BY <1>3, <2>1, <2>2, <2>3
<1>4. QED  BY <1>3 DEF FreshNames

-----------------------------------------------------------------------------
(***************************************************************************)
(* Steps that move no file.                                                *)
(***************************************************************************)

LEMMA QuietStep ==
  ASSUME IInv, NEW r \in Request, NEW q \in Req, Becomes(r, q), StageOf(q),
         q.saved = req[r].saved, q.next = req[r].next, AnswerOf(Kept, r, q),
         UNCHANGED <<disk, tasks, strays, removed>>
  PROVE  IInv'
<1>1. Kept' = Kept /\ Named' = Named
  BY DEF Kept, Named
<1>2. Saved' = Saved
  BY SavedAfter, SavedParts DEF IInv
<1>3. OwnOf(r, q)
  BY DEF IInv, RequestsSound, OwnOf
<1>4. TypeOK'
  BY SavedAfter DEF IInv, TypeOK
<1>5. RequestsSound'
  BY <1>1, <1>3, RequestStep
<1>6. FreshNames'
  <2>1. q.next >= req[r].next
    BY MaxFilesAssumption DEF IInv, TypeOK, Req
  <2>2. QED  BY <1>1, <2>1, FreshStep
<1>7. FilesAccounted'
  BY <1>1, <1>2 DEF IInv, FilesAccounted
<1>8. OneTaskPerToken'
  BY DEF IInv, OneTaskPerToken
<1>9. QED  BY <1>4, <1>5, <1>6, <1>7, <1>8 DEF IInv

LEMMA SubmitStep ==
  ASSUME IInv, NEW r \in Request, Submit(r)
  PROVE  IInv'
<1>1. PICK kind \in Kind, n \in 1..MaxFiles, token \in Token \cup {None} :
        /\ token # None => kind = "group"
        /\ Becomes(r, [Idle EXCEPT
             !.pc = IF Exists(token) THEN "ended" ELSE "save",
             !.kind = kind, !.files = n, !.token = token,
             !.answer = IF Exists(token) THEN "already" ELSE "ok"])
  BY Zenon DEF Submit
<1>2. req[r] = Idle /\ UNCHANGED <<disk, tasks, strays, removed>>
  BY DEF Submit, IInv, RequestsSound, StageOf
<1>3. PICK pc, answer : /\ pc = IF Exists(token) THEN "ended" ELSE "save"
                        /\ answer = IF Exists(token) THEN "already" ELSE "ok"
  OBVIOUS
<1>4. PICK q : q = [Idle EXCEPT !.pc = pc, !.kind = kind, !.files = n, !.token = token,
                                !.answer = answer]
  OBVIOUS
<1>5. Becomes(r, q)
  BY <1>1, <1>3, <1>4
<1>6. \/ pc = "ended" /\ answer = "already"
      \/ pc = "save" /\ answer = "ok"
  BY <1>3
<1>7. /\ q.pc = pc /\ q.kind = kind /\ q.files = n /\ q.token = token /\ q.next = 1
      /\ q.saved = {} /\ q.answer = answer
  BY <1>4 DEF Idle
<1>8. q \in Req
  <2>1. n \in Nat /\ 1 \in 1..(MaxFiles + 1) /\ pc \in Points /\ answer \in Answer
    BY <1>6, MaxFilesAssumption DEF Points, Answer
  <2>2. QED  BY <1>4, <2>1 DEF Idle, Req
<1>9. StageOf(q)
  <2>1. n \in Nat /\ 1 <= n
    BY MaxFilesAssumption
  <2>2. QED  BY <1>1, <1>6, <1>7, <2>1 DEF StageOf
<1>10. req[r].saved = {} /\ req[r].next = 1
  BY <1>2 DEF Idle
<1>11. AnswerOf(Kept, r, q)
  <2>1. \A i \in 1..MaxFiles : <<r, i>> \notin Kept
    BY <1>10, MaxFilesAssumption DEF IInv, FreshNames
  <2>2. \A i \in 1..MaxFiles : ~(i < 1)
    BY MaxFilesAssumption
  <2>3. QED  BY <1>7, <2>1, <2>2 DEF AnswerOf
<1>12. QED  BY <1>2, <1>5, <1>7, <1>8, <1>9, <1>10, <1>11, QuietStep

LEMMA UndecidedStep ==
  ASSUME IInv, NEW r \in Request, InsertConflicts(r) \/ AskAgain(r) \/ InsertFails(r)
  PROVE  IInv'
<1>1. /\ req[r] \in Req /\ StageOf(req[r]) /\ AnswerOf(Kept, r, req[r])
      /\ UNCHANGED <<disk, tasks, strays, removed>>
  BY DEF IInv, TypeOK, RequestsSound, InsertConflicts, AskAgain, InsertFails
<1>2. CASE InsertConflicts(r)
  <2>1. PICK q : q = [req[r] EXCEPT !.pc = "conflict"]
    OBVIOUS
  <2>2. Becomes(r, q) /\ req[r].pc = "insert" /\ req[r].token # None
    BY <1>2, <2>1 DEF InsertConflicts, Exists
  <2>3. /\ q \in Req /\ q.pc = "conflict" /\ q.kind = req[r].kind /\ q.files = req[r].files
        /\ q.token = req[r].token /\ q.next = req[r].next /\ q.saved = req[r].saved
        /\ q.answer = req[r].answer
    BY <1>1, <2>1 DEF Req, Points
  <2>4. StageOf(q) /\ AnswerOf(Kept, r, q)
    BY <1>1, <2>2, <2>3 DEF StageOf, AnswerOf
  <2>5. QED  BY <1>1, <2>2, <2>3, <2>4, QuietStep
<1>3. CASE AskAgain(r) \/ InsertFails(r)
  <2>. DEFINE answer == IF AskAgain(r) /\ Exists(req[r].token) THEN "already" ELSE "failed"
              q == [req[r] EXCEPT !.pc = "undo", !.answer = answer]
  <2>1. answer \in {"already", "failed"} /\ Becomes(r, q)
    <3>1. CASE AskAgain(r)
      BY <3>1 DEF AskAgain
    <3>2. CASE InsertFails(r) /\ ~AskAgain(r)
      BY <3>2 DEF InsertFails
    <3>3. QED  BY <1>3, <3>1, <3>2
  <2>. HIDE DEF answer
  <2>2. req[r].pc \in {"conflict", "insert"}
    BY <1>3 DEF AskAgain, InsertFails
  <2>3. /\ q \in Req /\ q.pc = "undo" /\ q.kind = req[r].kind /\ q.files = req[r].files
        /\ q.token = req[r].token /\ q.next = req[r].next /\ q.saved = req[r].saved
        /\ q.answer = answer
    BY <1>1, <2>1 DEF Req, Points, Answer
  <2>. HIDE DEF q
  <2>4. StageOf(q) /\ AnswerOf(Kept, r, q)
    BY <1>1, <2>1, <2>2, <2>3 DEF StageOf, AnswerOf
  <2>5. QED  BY <1>1, <2>1, <2>3, <2>4, QuietStep
<1>4. QED  BY <1>2, <1>3
-----------------------------------------------------------------------------
(***************************************************************************)
(* Steps that move files.                                                  *)
(***************************************************************************)

\* The file that is to be stored is nowhere yet.
LEMMA NextIsNew ==
  ASSUME IInv, NEW r \in Request, req[r].pc = "save"
  PROVE  /\ req[r] \in Req /\ req[r].next \in 1..MaxFiles
         /\ req[r].next + 1 \in 1..(MaxFiles + 1)
         /\ <<r, req[r].next>> \in File
         /\ <<r, req[r].next>> \notin Kept \cup strays \cup Saved
<1>1. req[r] \in Req /\ req[r].next <= req[r].files
  BY DEF IInv, TypeOK, RequestsSound, StageOf
<1>2. req[r].next \in 1..MaxFiles /\ req[r].next + 1 \in 1..(MaxFiles + 1)
  BY <1>1, MaxFilesAssumption DEF Req
<1>3. ~(req[r].next < req[r].next)
  BY <1>2, MaxFilesAssumption
<1>4. <<r, req[r].next>> \notin Kept \cup strays
  BY <1>2, <1>3 DEF IInv, FreshNames
<1>5. \A s \in Request : <<r, req[r].next>> \notin req[s].saved
  BY <1>2, <1>3 DEF IInv, RequestsSound, OwnOf
<1>6. QED  BY <1>1, <1>2, <1>4, <1>5 DEF Saved, File

LEMMA SaveStep ==
  ASSUME IInv, NEW r \in Request, SaveFile(r)
  PROVE  IInv'
<1>. DEFINE f == <<r, req[r].next>>
<1>1. PICK pc : pc = IF req[r].kind = "each" \/ req[r].next = req[r].files
                     THEN "insert" ELSE "save"
  OBVIOUS
<1>2. PICK q : q = [req[r] EXCEPT !.pc = pc, !.next = req[r].next + 1,
                                  !.saved = req[r].saved \cup {f}]
  OBVIOUS
<1>3. /\ req[r].pc = "save" /\ disk' = disk \cup {f} /\ Becomes(r, q)
      /\ UNCHANGED <<tasks, strays, removed>>
  BY <1>1, <1>2 DEF SaveFile
<1>4. /\ StageOf(req[r]) /\ OwnOf(r, req[r]) /\ AnswerOf(Kept, r, req[r])
  BY DEF IInv, RequestsSound
<1>5. /\ req[r] \in Req /\ req[r].next \in 1..MaxFiles
      /\ req[r].next + 1 \in 1..(MaxFiles + 1)
      /\ f \in File /\ f \notin Kept \cup strays \cup Saved
  BY <1>3, NextIsNew
<1>6. /\ q.pc = pc /\ q.kind = req[r].kind /\ q.files = req[r].files
      /\ q.token = req[r].token /\ q.next = req[r].next + 1
      /\ q.saved = req[r].saved \cup {f} /\ q.answer = req[r].answer
  BY <1>2, <1>5 DEF Req
<1>7. q \in Req
  BY <1>1, <1>2, <1>5 DEF Req, Points
<1>8. req[r].next \in Nat /\ req[r].files \in Nat
  BY <1>5, MaxFilesAssumption DEF Req
<1>9. StageOf(q)
  <2>1. req[r].next <= req[r].files
    BY <1>3, <1>4 DEF StageOf
  <2>2. CASE pc = "insert" /\ (req[r].kind = "each" \/ req[r].next = req[r].files)
    <3>1. q.next <= q.files + 1
      BY <1>6, <1>8, <2>1
    <3>2. q.saved # {}
      BY <1>6
    <3>3. q.kind # "each" => q.next = q.files + 1 /\ q.answer = "ok"
      BY <1>3, <1>4, <1>6, <1>8, <2>2 DEF StageOf
    <3>4. QED  BY <1>4, <1>6, <2>2, <3>1, <3>2, <3>3 DEF StageOf
  <2>3. CASE pc = "save" /\ req[r].kind # "each" /\ req[r].next # req[r].files
    <3>1. q.next <= q.files /\ q.next <= q.files + 1
      BY <1>6, <1>8, <2>1, <2>3
    <3>2. q.answer = "ok"
      BY <1>3, <1>4, <1>6, <2>3 DEF StageOf
    <3>3. QED  BY <1>4, <1>6, <2>3, <3>1, <3>2 DEF StageOf
  <2>4. QED  BY <1>1, <2>2, <2>3
<1>10. OwnOf(r, q)
  BY <1>4, <1>6, <1>8 DEF OwnOf
<1>11. Kept' = Kept /\ Named' = Named
  BY <1>3 DEF Kept, Named
<1>12. AnswerOf(Kept, r, q)
  <2>1. \A i \in 1..MaxFiles : i < q.next => i < req[r].next \/ i = req[r].next
    BY <1>6, <1>8, MaxFilesAssumption
  <2>2. q.pc # "ended" /\ req[r].pc # "ended"
    BY <1>1, <1>3, <1>6
  <2>3. QED  BY <1>4, <1>6, <2>1, <2>2 DEF AnswerOf
<1>13. Saved' = Saved \cup {f}
  BY <1>3, <1>6, <1>7, <1>9, SavedAfter, SavedParts DEF IInv
<1>14. TypeOK'
  BY <1>3, <1>5, <1>7, <1>9, SavedAfter DEF IInv, TypeOK
<1>15. RequestsSound'
  BY <1>3, <1>7, <1>9, <1>10, <1>11, <1>12, RequestStep
<1>16. FreshNames'
  BY <1>3, <1>6, <1>7, <1>8, <1>9, <1>11, FreshStep
<1>17. FilesAccounted'
  <2>1. UNCHANGED <<tasks, removed, strays>>
    BY <1>3
  <2>2. f \notin removed /\ f \notin Named
    BY <1>5 DEF Kept
  <2>3. QED  BY <1>3, <1>5, <1>11, <1>13, <2>1, <2>2 DEF IInv, FilesAccounted, Kept
<1>18. OneTaskPerToken'
  BY <1>3 DEF IInv, OneTaskPerToken
<1>19. QED  BY <1>14, <1>15, <1>16, <1>17, <1>18 DEF IInv

LEMMA SaveFailsStep ==
  ASSUME IInv, NEW r \in Request, SaveFails(r)
  PROVE  IInv'
<1>. DEFINE f == <<r, req[r].next>>
<1>1. PICK pc : pc = IF req[r].kind = "each"
                     THEN GoOn(req[r].kind, req[r].next + 1, req[r].files) ELSE "undo"
  OBVIOUS
<1>2. PICK q : q = [req[r] EXCEPT !.pc = pc, !.next = req[r].next + 1, !.answer = "failed"]
  OBVIOUS
<1>3. /\ req[r].pc = "save" /\ Becomes(r, q) /\ UNCHANGED <<tasks, removed>>
  BY <1>1, <1>2 DEF SaveFails
<1>4. PICK left \in SUBSET {f} : disk' = disk \cup left /\ strays' = strays \cup left
  BY DEF SaveFails
<1>5. /\ StageOf(req[r]) /\ OwnOf(r, req[r]) /\ AnswerOf(Kept, r, req[r])
  BY DEF IInv, RequestsSound
<1>6. /\ req[r] \in Req /\ req[r].next \in 1..MaxFiles
      /\ req[r].next + 1 \in 1..(MaxFiles + 1)
      /\ f \in File /\ f \notin Kept \cup strays \cup Saved
  BY <1>3, NextIsNew
<1>7. /\ q.pc = pc /\ q.kind = req[r].kind /\ q.files = req[r].files
      /\ q.token = req[r].token /\ q.next = req[r].next + 1
      /\ q.saved = req[r].saved /\ q.answer = "failed"
  BY <1>2, <1>6 DEF Req
<1>8. \/ pc = "undo" /\ req[r].kind # "each"
      \/ pc = "ended" /\ req[r].kind = "each"
      \/ pc = "save" /\ req[r].kind = "each" /\ req[r].next + 1 <= req[r].files
  BY <1>1 DEF GoOn
<1>9. q \in Req
  BY <1>2, <1>6, <1>8 DEF Req, Points, Answer
<1>10. req[r].next \in Nat /\ req[r].files \in Nat
  BY <1>6, MaxFilesAssumption DEF Req
<1>11. StageOf(q)
  BY <1>3, <1>5, <1>7, <1>8, <1>10 DEF StageOf
<1>12. OwnOf(r, q)
  BY <1>5, <1>7, <1>10 DEF OwnOf
<1>13. Kept' = Kept /\ Named' = Named
  BY <1>3 DEF Kept, Named
<1>14. AnswerOf(Kept, r, q)
  BY <1>3, <1>5, <1>7 DEF AnswerOf
<1>15. Saved' = Saved
  BY <1>3, <1>7, <1>9, <1>11, SavedAfter, SavedParts DEF IInv
<1>16. TypeOK'
  BY <1>3, <1>4, <1>6, <1>9, <1>11, SavedAfter DEF IInv, TypeOK
<1>17. RequestsSound'
  BY <1>3, <1>9, <1>11, <1>12, <1>13, <1>14, RequestStep
<1>18. FreshNames'
  <2>1. q.next > req[r].next /\ q.next >= req[r].next
    BY <1>7, <1>10
  <2>2. \A g \in Kept' \cup strays' : g \in Kept \cup strays \/ g = f
    BY <1>4, <1>13
  <2>3. QED  BY <1>3, <1>9, <1>11, <2>1, <2>2, FreshStep
<1>19. FilesAccounted'
  <2>1. f \notin removed /\ f \notin Named /\ f \notin Saved /\ f \notin strays
    BY <1>6 DEF Kept
  <2>. HIDE DEF f
  <2>2. QED  BY <1>3, <1>4, <1>13, <1>15, <2>1 DEF IInv, FilesAccounted
<1>20. OneTaskPerToken'
  BY <1>3 DEF IInv, OneTaskPerToken
<1>21. QED  BY <1>16, <1>17, <1>18, <1>19, <1>20 DEF IInv

LEMMA UndoStep ==
  ASSUME IInv, NEW r \in Request, Undo(r)
  PROVE  IInv'
<1>1. PICK pc : pc = GoOn(req[r].kind, req[r].next, req[r].files)
  OBVIOUS
<1>2. PICK q : q = [req[r] EXCEPT !.pc = pc, !.saved = {}]
  OBVIOUS
<1>3. /\ req[r].pc = "undo" /\ Becomes(r, q) /\ UNCHANGED <<tasks, removed>>
  BY <1>1, <1>2 DEF Undo
<1>4. PICK locked \in SUBSET req[r].saved :
        disk' = disk \ (req[r].saved \ locked) /\ strays' = strays \cup locked
  BY DEF Undo, RemoveFiles
<1>5. /\ StageOf(req[r]) /\ AnswerOf(Kept, r, req[r]) /\ req[r] \in Req
  BY DEF IInv, RequestsSound, TypeOK
<1>6. /\ q.pc = pc /\ q.kind = req[r].kind /\ q.files = req[r].files
      /\ q.token = req[r].token /\ q.next = req[r].next
      /\ q.saved = {} /\ q.answer = req[r].answer
  BY <1>2, <1>5 DEF Req
<1>7. \/ pc = "ended"
      \/ pc = "save" /\ req[r].kind = "each" /\ req[r].next <= req[r].files
  BY <1>1 DEF GoOn
<1>8. q \in Req
  BY <1>2, <1>5, <1>7 DEF Req, Points
<1>9. StageOf(q)
  BY <1>3, <1>5, <1>6, <1>7 DEF StageOf
<1>10. OwnOf(r, q)
  BY <1>6 DEF OwnOf
<1>11. Kept' = Kept /\ Named' = Named
  BY <1>3 DEF Kept, Named
<1>12. AnswerOf(Kept, r, q)
  BY <1>3, <1>5, <1>6 DEF AnswerOf, StageOf
<1>13. /\ Saved' = Others(r) /\ Saved = Others(r) \cup req[r].saved
       /\ Others(r) \cap req[r].saved = {} /\ req[r].saved \subseteq File
  <2>1. Saved' = Others(r) \cup q.saved
    BY <1>3, <1>8, <1>9, SavedAfter DEF IInv
  <2>2. QED  BY <1>6, <2>1, SavedParts DEF IInv
<1>14. TypeOK'
  BY <1>3, <1>4, <1>8, <1>9, <1>13, SavedAfter DEF IInv, TypeOK
<1>15. RequestsSound'
  BY <1>3, <1>8, <1>9, <1>10, <1>11, <1>12, RequestStep
<1>16. FreshNames'
  <2>1. q.next >= req[r].next
    BY <1>5, <1>6, MaxFilesAssumption DEF Req
  <2>2. \A g \in Kept' \cup strays' : g \in Kept \cup strays \cup req[r].saved
    BY <1>4, <1>11
  <2>3. QED  BY <1>3, <1>8, <1>9, <2>1, <2>2, FreshStep
<1>17. FilesAccounted'
  BY <1>3, <1>4, <1>11, <1>13 DEF IInv, FilesAccounted
<1>18. OneTaskPerToken'
  BY <1>3 DEF IInv, OneTaskPerToken
<1>19. QED  BY <1>14, <1>15, <1>16, <1>17, <1>18 DEF IInv
\* What is inserted: the files of the request, each with one task.
LEMMA RowsOf ==
  ASSUME NEW r \in Request, NEW q \in Req, StageOf(q), q.pc = "insert"
  PROVE  /\ Rows(q) \subseteq Row
         /\ UNION {t.files : t \in Rows(q)} = q.saved
         /\ \A t \in Rows(q) : t.files # {} /\ t.files \subseteq q.saved
         /\ \A t, u \in Rows(q) : t # u => t.files \cap u.files = {}
         /\ \A t \in Rows(q) : t.token # None => t.token = q.token /\ Rows(q) = {t}
<1>1. q.saved \subseteq File /\ q.saved # {} /\ q.token \in Token \cup {None}
  BY DEF Req, StageOf
<1>2. CASE q.kind = "batch"
  <2>1. Rows(q) = {[files |-> {f}, token |-> None] : f \in q.saved}
    BY <1>2 DEF Rows
  <2>2. \A t \in Rows(q) : \E f \in q.saved : t = [files |-> {f}, token |-> None]
    BY <2>1
  <2>3. \A t \in Rows(q) : \E f \in q.saved : t.files = {f} /\ t.token = None
    BY <2>2
  <2>4. Rows(q) \subseteq Row
    BY <1>1, <2>2 DEF Row
  <2>5. \A t, u \in Rows(q) : t.files = u.files => t = u
    BY <2>2
  <2>6. \A t, u \in Rows(q) : t # u => t.files \cap u.files = {}
    <3>1. ASSUME NEW t \in Rows(q), NEW u \in Rows(q), NEW x \in t.files, x \in u.files
          PROVE  t = u
      <4>1. t.files = {x}
        BY <2>3
      <4>2. u.files = {x}
        BY <2>3, <3>1
      <4>3. QED  BY <2>5, <4>1, <4>2
    <3>2. QED  BY <3>1
  <2>7. \A f \in q.saved : \E t \in Rows(q) : t.files = {f}
    <3>1. \A f \in q.saved : [files |-> {f}, token |-> None] \in Rows(q)
      BY <2>1
    <3>2. QED  BY <3>1
  <2>8. UNION {t.files : t \in Rows(q)} = q.saved
    BY <2>3, <2>7
  <2>9. QED  BY <2>3, <2>4, <2>6, <2>8
<1>3. CASE q.kind # "batch"
  <2>1. Rows(q) = {[files |-> q.saved, token |-> q.token]}
    BY <1>3 DEF Rows
  <2>2. PICK t : t = [files |-> q.saved, token |-> q.token]
    OBVIOUS
  <2>3. t \in Row /\ t.files = q.saved /\ t.token = q.token
    BY <1>1, <2>2 DEF Row
  <2>4. QED  BY <1>1, <2>1, <2>2, <2>3
<1>4. QED  BY <1>2, <1>3

LEMMA InsertStep ==
  ASSUME IInv, NEW r \in Request, Insert(r)
  PROVE  IInv'
<1>. DEFINE old == req[r]
<1>1. PICK pc : pc = GoOn(old.kind, old.next, old.files)
  OBVIOUS
<1>2. PICK q : q = [req[r] EXCEPT !.pc = pc, !.saved = {}]
  OBVIOUS
<1>3. /\ old.pc = "insert" /\ ~Exists(old.token) /\ tasks' = tasks \cup Rows(old)
      /\ Becomes(r, q) /\ UNCHANGED <<disk, strays, removed>>
  BY <1>1, <1>2 DEF Insert
<1>4. /\ StageOf(old) /\ OwnOf(r, old) /\ AnswerOf(Kept, r, old) /\ old \in Req
  BY DEF IInv, RequestsSound, TypeOK
<1>5. /\ q.pc = pc /\ q.kind = old.kind /\ q.files = old.files
      /\ q.token = old.token /\ q.next = old.next
      /\ q.saved = {} /\ q.answer = old.answer
  BY <1>2, <1>4 DEF Req
<1>6. \/ pc = "ended" /\ (old.kind = "each" => ~(old.next <= old.files))
      \/ pc = "save" /\ old.kind = "each" /\ old.next <= old.files
  BY <1>1 DEF GoOn
<1>7. q \in Req
  BY <1>2, <1>4, <1>6 DEF Req, Points
<1>8. old.next \in Nat /\ old.files \in Nat
  BY <1>4, MaxFilesAssumption DEF Req
<1>9. StageOf(q)
  <2>1. pc = "ended" => q.next = q.files + 1
    BY <1>3, <1>4, <1>5, <1>6, <1>8 DEF StageOf
  <2>2. QED  BY <1>3, <1>4, <1>5, <1>6, <2>1 DEF StageOf
<1>10. OwnOf(r, q)
  BY <1>5 DEF OwnOf
<1>11. /\ Rows(old) \subseteq Row
       /\ UNION {t.files : t \in Rows(old)} = old.saved
       /\ \A t \in Rows(old) : t.files # {} /\ t.files \subseteq old.saved
       /\ \A t, u \in Rows(old) : t # u => t.files \cap u.files = {}
       /\ \A t \in Rows(old) : t.token # None => t.token = old.token /\ Rows(old) = {t}
  BY <1>3, <1>4, RowsOf
<1>12. Named' = Named \cup old.saved
  BY <1>3, <1>11 DEF Named
<1>13. Kept' = Kept \cup old.saved
  BY <1>3, <1>12 DEF Kept
<1>14. AnswerOf(Kept', r, q)
  <2>1. q.kind # "each" => q.pc = "ended" /\ q.answer = "ok"
    BY <1>3, <1>4, <1>5, <1>6 DEF StageOf
  <2>2. QED  BY <1>4, <1>5, <1>13, <2>1 DEF AnswerOf
<1>15. /\ Saved = Others(r) \cup old.saved
       /\ Others(r) \cap old.saved = {} /\ old.saved \subseteq File
  BY SavedParts DEF IInv
<1>16. Saved' = Others(r)
  <2>1. Saved' = Others(r) \cup q.saved
    BY <1>3, <1>7, <1>9, SavedAfter DEF IInv
  <2>2. QED  BY <1>5, <2>1
<1>17. TypeOK'
  BY <1>3, <1>7, <1>9, <1>11, SavedAfter DEF IInv, TypeOK
<1>18. RequestsSound'
  BY <1>3, <1>7, <1>9, <1>10, <1>13, <1>14, RequestStep
<1>19. FreshNames'
  <2>1. q.next >= old.next
    BY <1>5, <1>8
  <2>2. \A g \in Kept' \cup strays' : g \in Kept \cup strays \cup old.saved
    BY <1>3, <1>13
  <2>3. QED  BY <1>3, <1>7, <1>9, <2>1, <2>2, FreshStep
<1>20. FilesAccounted'
  <2>1. /\ disk = (Named \ removed) \cup Saved \cup strays
        /\ (Named \cup removed) \cap (Saved \cup strays) = {}
        /\ Saved \cap strays = {}
    BY DEF IInv, FilesAccounted
  <2>2. /\ disk' = (Named' \ removed') \cup Saved' \cup strays'
        /\ (Named' \cup removed') \cap (Saved' \cup strays') = {}
        /\ Saved' \cap strays' = {}
    BY <1>3, <1>12, <1>15, <1>16, <2>1
  <2>3. \A t \in tasks : t.files # {} /\ t.files \subseteq Named
    BY DEF IInv, FilesAccounted, Named
  <2>4. \A t \in tasks, u \in Rows(old) : t.files \cap u.files = {}
    BY <1>11, <1>15, <2>1, <2>3
  <2>5. \A t, u \in tasks : t # u => t.files \cap u.files = {}
    BY DEF IInv, FilesAccounted
  <2>6. \A t, u \in tasks' : t # u => t.files \cap u.files = {}
    BY <1>3, <1>11, <2>4, <2>5
  <2>7. \A t \in tasks' : t.files # {}
    BY <1>3, <1>11, <2>3
  <2>8. QED  BY <2>2, <2>6, <2>7 DEF FilesAccounted
<1>21. OneTaskPerToken'
  BY <1>3, <1>11 DEF IInv, OneTaskPerToken, Exists
<1>22. QED  BY <1>17, <1>18, <1>19, <1>20, <1>21 DEF IInv

LEMMA CrashStep ==
  ASSUME IInv, Crash
  PROVE  IInv'
<1>1. /\ strays' = strays \cup Saved /\ UNCHANGED <<disk, tasks, removed>>
      /\ req' = [r \in Request |->
           IF Working(r) THEN [req[r] EXCEPT !.pc = "ended", !.saved = {}, !.answer = "none"]
                         ELSE req[r]]
  BY DEF Crash
<1>2. ASSUME NEW r \in Request, Working(r)
      PROVE  /\ req'[r] \in Req /\ req'[r].pc = "ended" /\ req'[r].saved = {}
             /\ req'[r].answer = "none" /\ req'[r].next = req[r].next
             /\ req'[r].kind = req[r].kind /\ req'[r].token = req[r].token
             /\ req'[r].files = req[r].files
  <2>1. req'[r] = [req[r] EXCEPT !.pc = "ended", !.saved = {}, !.answer = "none"]
    BY <1>1, <1>2
  <2>2. req[r] \in Req
    BY DEF IInv, TypeOK
  <2>3. QED  BY <2>1, <2>2 DEF Req, Points, Answer
<1>3. ASSUME NEW r \in Request, ~Working(r)
      PROVE  req'[r] = req[r] /\ req[r].pc \in {"idle", "ended"}
  BY <1>1, <1>3 DEF Working
<1>4. Kept' = Kept /\ Named' = Named
  BY <1>1 DEF Kept, Named
<1>5. Saved' = {} /\ Saved \subseteq File
  <2>1. \A r \in Request : req'[r].pc \in {"idle", "ended"}
    BY <1>2, <1>3
  <2>2. QED  BY <2>1 DEF Saved, Working, IInv, TypeOK, Req
<1>6. TypeOK'
  <2>1. req' \in [Request -> Req]
    <3>1. \A r \in Request : req'[r] \in Req
      BY <1>2, <1>3 DEF IInv, TypeOK
    <3>2. req' = [r \in Request |-> req'[r]]
      BY <1>1
    <3>3. QED  BY <3>1, <3>2
  <2>2. QED  BY <1>1, <1>5, <2>1 DEF IInv, TypeOK
<1>7. RequestsSound'
  <2>1. ASSUME NEW r \in Request
        PROVE  StageOf(req'[r]) /\ OwnOf(r, req'[r]) /\ AnswerOf(Kept', r, req'[r])
    <3>1. StageOf(req[r]) /\ OwnOf(r, req[r]) /\ AnswerOf(Kept, r, req[r])
      BY DEF IInv, RequestsSound
    <3>2. CASE Working(r)
      <4>1. req[r].pc # "ended"
        BY <3>2 DEF Working
      <4>2. StageOf(req'[r])
        BY <1>2, <3>1, <3>2 DEF StageOf
      <4>3. OwnOf(r, req'[r]) /\ AnswerOf(Kept', r, req'[r])
        BY <1>2, <1>4, <3>1, <3>2, <4>1 DEF OwnOf, AnswerOf
      <4>4. QED  BY <4>2, <4>3
    <3>3. CASE ~Working(r)
      BY <1>3, <1>4, <3>1, <3>3
    <3>4. QED  BY <3>2, <3>3
  <2>2. QED  BY <2>1 DEF RequestsSound
<1>8. FreshNames'
  <2>1. \A r \in Request : req'[r].next = req[r].next
    BY <1>2, <1>3
  <2>2. \A r \in Request, i \in 1..MaxFiles : <<r, i>> \in Saved => i < req[r].next
    BY DEF IInv, RequestsSound, OwnOf, Saved
  <2>3. QED  BY <1>1, <1>4, <2>1, <2>2 DEF IInv, FreshNames
<1>9. FilesAccounted'
  BY <1>1, <1>4, <1>5 DEF IInv, FilesAccounted
<1>10. OneTaskPerToken'
  BY <1>1 DEF IInv, OneTaskPerToken
<1>11. QED  BY <1>6, <1>7, <1>8, <1>9, <1>10 DEF IInv

LEMMA DeleteStep ==
  ASSUME IInv, NEW t \in tasks, Delete(t)
  PROVE  IInv'
<1>1. PICK locked \in SUBSET (t.files \cap disk) :
        /\ disk' = disk \ (t.files \ locked)
        /\ removed' = removed \cup (t.files \ locked)
        /\ tasks' = IF locked = {} THEN tasks \ {t} ELSE tasks
  BY DEF Delete
<1>2. UNCHANGED <<req, strays>> /\ Saved' = Saved
  BY DEF Delete, Saved, Working
<1>3. t.files \subseteq File /\ t.files \subseteq Named
  BY DEF IInv, TypeOK, Row, Named
<1>4. Named' = IF locked = {} THEN Named \ t.files ELSE Named
  <2>1. CASE locked = {}
    <3>1. tasks' = tasks \ {t}
      BY <1>1, <2>1
    <3>2. \A u \in tasks : u # t => u.files \cap t.files = {}
      BY DEF IInv, FilesAccounted
    <3>3. QED  BY <2>1, <3>1, <3>2 DEF Named
  <2>2. CASE locked # {}
    BY <1>1, <2>2 DEF Named
  <2>3. QED  BY <2>1, <2>2
<1>5. Kept' = Kept
  BY <1>1, <1>3, <1>4 DEF Kept
<1>6. TypeOK'
  BY <1>1, <1>2, <1>3 DEF IInv, TypeOK
<1>7. RequestsSound' /\ FreshNames'
  BY <1>2, <1>5 DEF IInv, RequestsSound, FreshNames
<1>8. FilesAccounted'
  <2>1. /\ disk = (Named \ removed) \cup Saved \cup strays
        /\ (Named \cup removed) \cap (Saved \cup strays) = {}
        /\ Saved \cap strays = {}
    BY DEF IInv, FilesAccounted
  <2>2. disk' = (Named' \ removed') \cup Saved' \cup strays'
    <3>1. CASE locked = {}
      BY <1>1, <1>2, <1>3, <1>4, <2>1, <3>1
    <3>2. CASE locked # {}
      BY <1>1, <1>2, <1>3, <1>4, <2>1, <3>2
    <3>3. QED  BY <3>1, <3>2
  <2>3. (Named' \cup removed') \cap (Saved' \cup strays') = {} /\ Saved' \cap strays' = {}
    BY <1>2, <1>5, <2>1 DEF Kept
  <2>4. tasks' \subseteq tasks
    BY <1>1
  <2>5. /\ \A u \in tasks' : u.files # {}
        /\ \A u, v \in tasks' : u # v => u.files \cap v.files = {}
    BY <2>4 DEF IInv, FilesAccounted
  <2>6. QED  BY <2>2, <2>3, <2>5 DEF FilesAccounted
<1>9. OneTaskPerToken'
  <2>1. tasks' \subseteq tasks
    BY <1>1
  <2>2. QED  BY <2>1 DEF IInv, OneTaskPerToken
<1>10. QED  BY <1>6, <1>7, <1>8, <1>9 DEF IInv

-----------------------------------------------------------------------------
(***************************************************************************)
(* The theorems.                                                           *)
(***************************************************************************)

LEMMA InitInvariant == Init => IInv
<1>. SUFFICES ASSUME Init PROVE IInv
  OBVIOUS
<1>1. \A r \in Request : req[r] = Idle
  BY DEF Init
<1>2. Idle \in Req
  BY MaxFilesAssumption DEF Idle, Req, Points, Kind, Answer
<1>3. TypeOK
  BY <1>2 DEF Init, TypeOK
<1>4. Named = {} /\ Saved = {} /\ Kept = {}
  BY <1>1 DEF Init, Named, Saved, Working, Kept, Idle
<1>5. RequestsSound
  <2>1. StageOf(Idle)
    BY DEF StageOf, Idle
  <2>2. \A r \in Request : OwnOf(r, Idle) /\ AnswerOf(Kept, r, Idle)
    BY <1>4 DEF OwnOf, AnswerOf, Idle
  <2>3. QED  BY <1>1, <2>1, <2>2 DEF RequestsSound
<1>6. FreshNames /\ FilesAccounted /\ OneTaskPerToken
  BY <1>4 DEF Init, FreshNames, FilesAccounted, OneTaskPerToken
<1>7. QED  BY <1>3, <1>5, <1>6 DEF IInv

LEMMA StepInvariant == IInv /\ [Next]_vars => IInv'
<1>. SUFFICES ASSUME IInv, [Next]_vars PROVE IInv'
  OBVIOUS
<1>1. ASSUME NEW r \in Request, Submit(r) PROVE IInv'
  BY <1>1, SubmitStep
<1>2. ASSUME NEW r \in Request, SaveFile(r) \/ SaveFails(r) PROVE IInv'
  BY <1>2, SaveStep, SaveFailsStep
<1>3. ASSUME NEW r \in Request, Insert(r) PROVE IInv'
  BY <1>3, InsertStep
<1>4. ASSUME NEW r \in Request, InsertConflicts(r) \/ AskAgain(r) \/ InsertFails(r) PROVE IInv'
  BY <1>4, UndecidedStep
<1>5. ASSUME NEW r \in Request, Undo(r) PROVE IInv'
  BY <1>5, UndoStep
<1>6. CASE Crash
  BY <1>6, CrashStep
<1>7. ASSUME NEW t \in tasks, Delete(t) PROVE IInv'
  BY <1>7, DeleteStep
<1>8. CASE UNCHANGED vars
  BY <1>8 DEF vars, IInv, TypeOK, RequestsSound, FreshNames, FilesAccounted, OneTaskPerToken,
              Kept, Named, Saved, Working
<1>9. QED  BY <1>1, <1>2, <1>3, <1>4, <1>5, <1>6, <1>7, <1>8 DEF Next

\* The invariant holds in every behaviour: a request works with files of its own under
\* names that are nowhere else, and knows of every file it stored.
THEOREM Invariance == Spec => []IInv
<1>1. QED  BY InitInvariant, StepInvariant, PTL DEF Spec

LEMMA UploadsPromise == IInv => FilesAccounted /\ OneTaskPerToken /\ AnswerIsTrue
<1>1. IInv => FilesAccounted /\ OneTaskPerToken
  BY DEF IInv
<1>2. IInv => AnswerIsTrue
  <2>. SUFFICES ASSUME IInv, NEW r \in Request, req[r].pc = "ended"
                PROVE  /\ req[r].answer = "ok" => \A i \in 1..req[r].files : <<r, i>> \in Kept
                       /\ req[r].answer # "ok" /\ req[r].kind # "each" =>
                            \A i \in 1..MaxFiles : <<r, i>> \notin Kept
    BY DEF AnswerIsTrue, Kept
  <2>1. /\ StageOf(req[r]) /\ AnswerOf(Kept, r, req[r]) /\ req[r] \in Req
    BY DEF IInv, RequestsSound, TypeOK
  <2>2. ASSUME req[r].answer = "ok", NEW i \in 1..req[r].files
        PROVE  <<r, i>> \in Kept
    <3>1. req[r].saved = {} /\ req[r].next = req[r].files + 1
      BY <2>1, <2>2 DEF StageOf
    <3>2. i \in 1..MaxFiles /\ i < req[r].next
      BY <2>1, <3>1, MaxFilesAssumption DEF Req
    <3>3. QED  BY <2>1, <2>2, <3>1, <3>2 DEF AnswerOf
  <2>3. QED  BY <2>1, <2>2 DEF AnswerOf
<1>3. QED  BY <1>1, <1>2

\* The variables keep their types: requests, directory and rows.
THEOREM TypeCorrect == Spec => []TypeOK
<1>1. IInv => TypeOK
  BY DEF IInv
<1>2. QED  BY <1>1, Invariance, PTL

\* Whichever step of a submission fails, and whenever the process dies or a task is
\* deleted, every file belongs to one task, to a request at work, or is known as left over.
THEOREM NoFileLost == Spec => []FilesAccounted
BY Invariance, UploadsPromise, PTL

\* However often and at the same time a page is submitted, its token makes one task.
THEOREM OneTask == Spec => []OneTaskPerToken
BY Invariance, UploadsPromise, PTL

\* A submission that was answered with success has all its files in tasks, and one that
\* was not, or whose process died, none.
THEOREM AnswersAreTrue == Spec => []AnswerIsTrue
BY Invariance, UploadsPromise, PTL

-----------------------------------------------------------------------------
\* The variables of TaskFiles.
status == x1
runs == x2
files == x3
cleaned == x4
job == x5
snap == x6
build == x7
gen == x8
settled == x9

USE DEF status, runs, files, cleaned, job, snap, build, gen, settled

(***************************************************************************)
(* The inductive invariant.                                                *)
(***************************************************************************)

\* The paths of the tasks of a clean-up, and a clean-up.
Paths == UNION {[S -> SUBSET Cleanup!File] : S \in SUBSET Task}
Job == [paths : Paths, done : SUBSET Task, marked : BOOLEAN]

\* TypeOK, with a set for the clean-ups.
Typed ==
  /\ status \in [Task -> {"pending", "finished"}]
  /\ runs \in [Task -> Nat]
  /\ files \in [Task -> SUBSET Cleanup!File]
  /\ cleaned \in [Task -> BOOLEAN]
  /\ job \in [Cleanup!Cleaner -> Job]
  /\ build \in [Cleanup!Builder -> Cleanup!Listing \cup {None}]
  /\ snap = None \/ snap \subseteq Task
  /\ gen \in Nat
  /\ settled \subseteq Task

\* A clean-up knows the source file of each task it has not tried yet, and those it has
\* done have lost theirs.
JobSound ==
  \A c \in Cleanup!Cleaner :
    /\ \A t \in DOMAIN job[c].paths : Cleanup!Source \in files[t]
         => Cleanup!Source \in job[c].paths[t]
    /\ \A t \in job[c].done : Cleanup!Source \notin files[t]
    /\ job[c].marked => \A t \in job[c].done : cleaned[t]

\* What a clean-up by hand was answered for is marked.
SettledSound == \A t \in settled : cleaned[t]

\* A list that will be stored has no task of a clean-up that was answered before it is.
BuildSound ==
  \A b \in Cleanup!Builder :
    /\ build[b] # None => build[b].gen <= gen
    /\ Cleanup!At(b, "rows") /\ (b = "thread" => build[b].gen = gen) =>
         build[b].tasks \cap settled = {}

CleanupInv ==
  /\ Typed /\ JobSound /\ Cleanup!CleanedIsGone /\ SettledSound /\ BuildSound
  /\ Cleanup!SnapshotNotStale

(***************************************************************************)
(* What the steps do.                                                      *)
(***************************************************************************)

\* A list of paths with and without a task.
LEMMA PathsType ==
  /\ \A S \in SUBSET Task, F \in [Task -> SUBSET Cleanup!File] : [t \in S |-> F[t]] \in Paths
  /\ \A paths \in Paths : /\ DOMAIN paths \subseteq Task
                          /\ \A t \in DOMAIN paths : paths[t] \subseteq Cleanup!File
  /\ \A paths \in Paths, t \in Task : [u \in DOMAIN paths \ {t} |-> paths[u]] \in Paths
<1>1. ASSUME NEW S \in SUBSET Task, NEW F \in [Task -> SUBSET Cleanup!File]
      PROVE  [t \in S |-> F[t]] \in Paths
  <2>1. [t \in S |-> F[t]] \in [S -> SUBSET Cleanup!File]
    OBVIOUS
  <2>2. QED  BY <2>1 DEF Paths
<1>2. ASSUME NEW paths \in Paths
      PROVE  \E S \in SUBSET Task : paths \in [S -> SUBSET Cleanup!File]
  BY DEF Paths
<1>3. ASSUME NEW paths \in Paths
      PROVE  /\ DOMAIN paths \subseteq Task
             /\ \A t \in DOMAIN paths : paths[t] \subseteq Cleanup!File
  BY <1>2
<1>4. ASSUME NEW paths \in Paths, NEW t \in Task
      PROVE  [u \in DOMAIN paths \ {t} |-> paths[u]] \in Paths
  <2>. DEFINE S == DOMAIN paths \ {t}
  <2>1. S \in SUBSET Task /\ [u \in S |-> paths[u]] \in [S -> SUBSET Cleanup!File]
    BY <1>3
  <2>2. QED  BY <2>1 DEF Paths
<1>5. QED  BY <1>1, <1>3, <1>4

LEMMA NoJobType ==
  /\ Cleanup!NoJob \in Job /\ DOMAIN Cleanup!NoJob.paths = {}
  /\ Cleanup!NoJob.done = {} /\ ~Cleanup!NoJob.marked
<1>1. [t \in {} |-> {}] \in [{} -> SUBSET Cleanup!File]
  OBVIOUS
<1>2. [t \in {} |-> {}] \in Paths
  BY <1>1 DEF Paths
<1>3. QED  BY <1>2 DEF Cleanup!NoJob, Job

\* A clean-up takes up tasks with all the files they have.
LEMMA SelectEffect ==
  ASSUME Typed, NEW c \in Cleanup!Cleaner, Cleanup!Select(c)
  PROVE  /\ job' \in [Cleanup!Cleaner -> Job]
         /\ \A d \in Cleanup!Cleaner : d # c => job'[d] = job[d]
         /\ job'[c].done = {} /\ ~job'[c].marked
         /\ \A t \in DOMAIN job'[c].paths : t \in Task /\ job'[c].paths[t] = files[t]
<1>1. PICK S \in (SUBSET Cleanup!Cleanable) \ {{}} :
        job' = [job EXCEPT ![c].paths = [t \in S |-> files[t]]]
  BY DEF Cleanup!Select
<1>2. [t \in S |-> files[t]] \in Paths
  BY PathsType DEF Typed, Cleanup!Cleanable
<1>3. job[c] = Cleanup!NoJob /\ job[c] \in Job
  BY DEF Cleanup!Select, Cleanup!Idle, Typed
<1>4. job' = [job EXCEPT ![c] = [job[c] EXCEPT !.paths = [t \in S |-> files[t]]]]
  BY <1>1
<1>. DEFINE new == [job[c] EXCEPT !.paths = [t \in S |-> files[t]]]
<1>5. /\ new \in Job /\ new.done = {} /\ ~new.marked
      /\ new.paths = [t \in S |-> files[t]]
  BY <1>2, <1>3, NoJobType DEF Job
<1>. HIDE DEF new
<1>6. /\ job' \in [Cleanup!Cleaner -> Job] /\ job'[c] = new
      /\ \A d \in Cleanup!Cleaner : d # c => job'[d] = job[d]
  BY <1>4, <1>5 DEF Typed, new
<1>7. \A t \in DOMAIN new.paths : t \in Task /\ new.paths[t] = files[t]
  BY <1>5 DEF Cleanup!Cleanable
<1>8. QED  BY <1>5, <1>6, <1>7

\* The files of a task are tried; only when none is left the task is done.
LEMMA RemoveEffect ==
  ASSUME Typed, JobSound, NEW c \in Cleanup!Cleaner, NEW t \in Task, Cleanup!Remove(c, t)
  PROVE  /\ files' \in [Task -> SUBSET Cleanup!File]
         /\ \A u \in Task : files'[u] \subseteq files[u]
         /\ job' \in [Cleanup!Cleaner -> Job]
         /\ \A d \in Cleanup!Cleaner : d # c => job'[d] = job[d]
         /\ job'[c].marked = job[c].marked /\ ~job[c].marked
         /\ \A u \in DOMAIN job'[c].paths :
              u \in DOMAIN job[c].paths /\ job'[c].paths[u] = job[c].paths[u]
         /\ \A u \in job'[c].done : u \in job[c].done \/ (u = t
              /\ Cleanup!Source \notin files'[u])
<1>. DEFINE paths == job[c].paths
            rest  == [u \in DOMAIN paths \ {t} |-> paths[u]]
<1>1. PICK locked \in SUBSET (paths[t] \cap files[t]) :
        /\ files' = [files EXCEPT ![t] = (@ \ paths[t]) \cup locked]
        /\ job' = [job EXCEPT ![c].paths = rest,
                              ![c].done = IF Cleanup!Removed(locked) THEN @ \cup {t} ELSE @]
  BY Zenon DEF Cleanup!Remove
<1>2. job[c] \in Job /\ paths \in Paths
  BY DEF Typed, Job
<1>3. rest \in Paths
  BY <1>2, PathsType
<1>4. t \in DOMAIN paths /\ ~job[c].marked
  BY DEF Cleanup!Remove
<1>. DEFINE done == IF Cleanup!Removed(locked) THEN job[c].done \cup {t} ELSE job[c].done
            new  == [job[c] EXCEPT !.paths = rest, !.done = done]
<1>5. job' = [job EXCEPT ![c] = new]
  BY <1>1
<1>6. done \subseteq Task
  BY <1>2 DEF Job
<1>. HIDE DEF done, rest
<1>7. new \in Job /\ new.paths = rest /\ new.done = done /\ new.marked = job[c].marked
  BY <1>2, <1>3, <1>6 DEF Job
<1>. HIDE DEF new
<1>8. /\ job' \in [Cleanup!Cleaner -> Job] /\ job'[c] = new
      /\ \A d \in Cleanup!Cleaner : d # c => job'[d] = job[d]
  BY <1>5, <1>7 DEF Typed
<1>9. /\ files' \in [Task -> SUBSET Cleanup!File]
      /\ \A u \in Task : files'[u] \subseteq files[u]
      /\ files'[t] = (files[t] \ paths[t]) \cup locked
  BY <1>1 DEF Typed
<1>10. Cleanup!Removed(locked) => Cleanup!Source \notin files'[t]
  <2>1. Cleanup!Source \in files[t] => Cleanup!Source \in paths[t]
    BY <1>4 DEF JobSound
  <2>2. QED  BY <1>9, <2>1 DEF Cleanup!Removed
<1>11. \A u \in done : u \in job[c].done \/ (u = t /\ Cleanup!Source \notin files'[u])
  BY <1>10 DEF done
<1>12. \A u \in DOMAIN rest : u \in DOMAIN paths /\ rest[u] = paths[u]
  BY DEF rest
<1>13. QED  BY <1>4, <1>7, <1>8, <1>9, <1>11, <1>12

\* The rows of what was removed are marked.
LEMMA MarkEffect ==
  ASSUME Typed, NEW c \in Cleanup!Cleaner, Cleanup!Mark(c)
  PROVE  /\ cleaned' \in [Task -> BOOLEAN]
         /\ \A t \in Task : cleaned'[t] <=> cleaned[t] \/ t \in job[c].done
         /\ job' \in [Cleanup!Cleaner -> Job]
         /\ \A d \in Cleanup!Cleaner : d # c => job'[d] = job[d]
         /\ DOMAIN job'[c].paths = {} /\ job'[c].done \subseteq job[c].done
<1>1. /\ cleaned' = [t \in Task |-> cleaned[t] \/ t \in job[c].done]
      /\ DOMAIN job[c].paths = {}
      /\ job' = [job EXCEPT ![c] = IF job[c].done = {} THEN Cleanup!NoJob
                                                     ELSE [job[c] EXCEPT !.marked = TRUE]]
  BY DEF Cleanup!Mark
<1>2. cleaned' \in [Task -> BOOLEAN]
  BY <1>1 DEF Typed
<1>3. \A t \in Task : cleaned'[t] <=> cleaned[t] \/ t \in job[c].done
  BY <1>1
<1>. DEFINE new == IF job[c].done = {} THEN Cleanup!NoJob ELSE [job[c] EXCEPT !.marked = TRUE]
<1>4. new \in Job /\ DOMAIN new.paths = {} /\ new.done \subseteq job[c].done
  BY <1>1, NoJobType DEF Typed, Job
<1>. HIDE DEF new
<1>5. /\ job' \in [Cleanup!Cleaner -> Job] /\ job'[c] = new
      /\ \A d \in Cleanup!Cleaner : d # c => job'[d] = job[d]
  BY <1>1, <1>4 DEF Typed, new
<1>6. QED  BY <1>2, <1>3, <1>4, <1>5

LEMMA InvalidateEffect ==
  ASSUME Typed, NEW c \in Cleanup!Cleaner, Cleanup!Invalidate(c)
  PROVE  /\ job' \in [Cleanup!Cleaner -> Job] /\ job'[c] = Cleanup!NoJob
         /\ \A d \in Cleanup!Cleaner : d # c => job'[d] = job[d]
         /\ job[c].marked /\ job[c].done \subseteq Task
         /\ UNCHANGED <<Cleanup!tasks, Cleanup!disk, build>>
         /\ \/ UNCHANGED <<snap, gen, settled>>
            \/ /\ ~Cleanup!Locked /\ snap' = None /\ gen' = gen + 1
               /\ settled' = settled \cup job[c].done
<1>1. job' = [job EXCEPT ![c] = Cleanup!NoJob] /\ job[c].marked
        /\ UNCHANGED <<Cleanup!tasks, Cleanup!disk, build>>
  BY DEF Cleanup!Invalidate
<1>2. /\ job' \in [Cleanup!Cleaner -> Job] /\ job'[c] = Cleanup!NoJob
      /\ \A d \in Cleanup!Cleaner : d # c => job'[d] = job[d]
  BY <1>1, NoJobType DEF Typed
<1>3. job[c].done \subseteq Task
  BY DEF Typed, Job
<1>4. \/ UNCHANGED <<snap, gen, settled>>
      \/ /\ ~Cleanup!Locked /\ snap' = None /\ gen' = gen + 1
         /\ settled' = settled \cup job[c].done
  BY DEF Cleanup!Invalidate
<1>5. QED  BY <1>1, <1>2, <1>3, <1>4

\* What a page or the thread may do with its list.
LEMMA BuildType ==
  ASSUME Typed, NEW b \in Cleanup!Builder, NEW step \in {"start", "files", "rows"},
         NEW listed \in SUBSET Task, NEW generation \in Nat,
         build' = [build EXCEPT ![b] = Cleanup!Build(step, listed, generation)]
  PROVE  /\ build' \in [Cleanup!Builder -> Cleanup!Listing \cup {None}]
         /\ build'[b].step = step /\ build'[b].tasks = listed /\ build'[b].gen = generation
         /\ \A d \in Cleanup!Builder : d # b => build'[d] = build[d]
<1>1. Cleanup!Build(step, listed, generation) \in Cleanup!Listing
  BY DEF Cleanup!Build, Cleanup!Listing
<1>2. /\ Cleanup!Build(step, listed, generation).step = step
      /\ Cleanup!Build(step, listed, generation).tasks = listed
      /\ Cleanup!Build(step, listed, generation).gen = generation
  BY DEF Cleanup!Build
<1>3. QED  BY <1>1, <1>2 DEF Typed

\* What the list is, after a step of its builder.
LEMMA ListEffect ==
  ASSUME Typed, SettledSound, NEW b \in Cleanup!Builder,
         Cleanup!ReadFiles(b) \/ Cleanup!ReadRows(b)
  PROVE  /\ build' \in [Cleanup!Builder -> Cleanup!Listing \cup {None}]
         /\ \A d \in Cleanup!Builder : d # b => build'[d] = build[d]
         /\ build[b] # None /\ build'[b].gen = build[b].gen
         /\ build'[b].step = "rows" => build'[b].tasks \cap settled = {}
<1>1. build[b] \in Cleanup!Listing /\ build[b] # None
  BY DEF Cleanup!ReadFiles, Cleanup!ReadRows, Cleanup!At, Typed
<1>2. build[b].gen \in Nat /\ build[b].tasks \subseteq Task
  BY <1>1 DEF Cleanup!Listing
<1>3. CASE Cleanup!ReadFiles(b)
  <2>. DEFINE listed == {t \in Task : files[t] # {}}
  <2>1. build' = [build EXCEPT ![b] = Cleanup!Build("files", listed, build[b].gen)]
    BY <1>3 DEF Cleanup!ReadFiles
  <2>2. listed \in SUBSET Task
    OBVIOUS
  <2>. HIDE DEF listed
  <2>3. QED  BY <1>1, <1>2, <2>1, <2>2, BuildType
<1>4. CASE Cleanup!ReadRows(b)
  <2>. DEFINE listed == build[b].tasks \cap Cleanup!Cleanable
  <2>1. build' = [build EXCEPT ![b] = Cleanup!Build("rows", listed, build[b].gen)]
    BY <1>4 DEF Cleanup!ReadRows
  <2>2. listed \in SUBSET Task /\ listed \cap settled = {}
    BY <1>2 DEF Cleanup!Cleanable, SettledSound
  <2>. HIDE DEF listed
  <2>3. QED  BY <1>1, <1>2, <2>1, <2>2, BuildType
<1>5. QED  BY <1>3, <1>4

LEMMA StartEffect ==
  ASSUME Typed, Cleanup!PageBuilds \/ Cleanup!StartThread
  PROVE  \E b \in Cleanup!Builder :
           /\ build' \in [Cleanup!Builder -> Cleanup!Listing \cup {None}]
           /\ \A d \in Cleanup!Builder : d # b => build'[d] = build[d]
           /\ build'[b].step = "start" /\ build'[b].gen = gen
<1>1. gen \in Nat
  BY DEF Typed
<1>2. PICK b \in Cleanup!Builder : build' = [build EXCEPT ![b]
        = Cleanup!Build("start", {}, gen)]
  BY DEF Cleanup!PageBuilds, Cleanup!StartThread, Cleanup!Builder
<1>3. /\ build' \in [Cleanup!Builder -> Cleanup!Listing \cup {None}]
      /\ build'[b].step = "start" /\ build'[b].gen = gen
      /\ \A d \in Cleanup!Builder : d # b => build'[d] = build[d]
  <2>1. Cleanup!Build("start", {}, gen) \in Cleanup!Listing
    BY <1>1 DEF Cleanup!Build, Cleanup!Listing
  <2>2. Cleanup!Build("start", {}, gen).step = "start" /\ Cleanup!Build("start", {}, gen).gen
          = gen
    BY DEF Cleanup!Build
  <2>3. QED  BY <1>2, <2>1, <2>2 DEF Typed
<1>4. QED  BY <1>3

LEMMA StoreEffect ==
  ASSUME Typed, NEW b \in Cleanup!Builder, Cleanup!Store(b)
  PROVE  /\ build' \in [Cleanup!Builder -> Cleanup!Listing \cup {None}] /\ build'[b] = None
         /\ \A d \in Cleanup!Builder : d # b => build'[d] = build[d]
         /\ \/ snap' = snap
            \/ /\ snap' = build[b].tasks /\ Cleanup!At(b, "rows")
                    /\ build[b].tasks \subseteq Task
               /\ b = "thread" => build[b].gen = gen
<1>1. build' = [build EXCEPT ![b] = None] /\ Cleanup!At(b, "rows")
  BY DEF Cleanup!Store
<1>2. build[b].tasks \subseteq Task
  BY <1>1 DEF Cleanup!At, Typed, Cleanup!Listing
<1>3. Cleanup!MayStore(b) => (b = "thread" => build[b].gen = gen)
  BY DEF Cleanup!MayStore
<1>4. snap' = IF Cleanup!MayStore(b) THEN build[b].tasks ELSE snap
  BY DEF Cleanup!Store
<1>5. QED  BY <1>1, <1>2, <1>3, <1>4 DEF Typed

-----------------------------------------------------------------------------
(***************************************************************************)
(* The invariant holds initially and is preserved by every step.           *)
(***************************************************************************)

LEMMA CleanupInit == Cleanup!Init => CleanupInv
<1>. SUFFICES ASSUME Cleanup!Init PROVE CleanupInv
  OBVIOUS
<1>1. {Cleanup!Source, 1} \subseteq Cleanup!File
  BY DEF Cleanup!Source, Cleanup!File
<1>2. Typed
  BY <1>1, NoJobType DEF Cleanup!Init, Typed
<1>3. \A c \in Cleanup!Cleaner : job[c] = Cleanup!NoJob
  BY DEF Cleanup!Init
<1>4. JobSound
  BY <1>3, NoJobType DEF JobSound
<1>5. Cleanup!CleanedIsGone /\ SettledSound /\ Cleanup!SnapshotNotStale
  BY DEF Cleanup!Init, Cleanup!CleanedIsGone, SettledSound, Cleanup!SnapshotNotStale
<1>6. BuildSound
  BY DEF Cleanup!Init, BuildSound, Cleanup!At
<1>7. QED  BY <1>2, <1>4, <1>5, <1>6 DEF CleanupInv

\* A retry and a run change only their own task, and no run brings a source file back.
LEMMA RunEffect ==
  ASSUME CleanupInv, NEW t \in Task, Cleanup!Retry(t) \/ Cleanup!RunEnds(t)
  PROVE  /\ status' \in [Task -> {"pending", "finished"}]
         /\ runs' \in [Task -> Nat]
         /\ files' \in [Task -> SUBSET Cleanup!File]
         /\ \A u \in Task : Cleanup!Source \in files'[u] <=> Cleanup!Source \in files[u]
<1>. USE DEF CleanupInv
<1>1. CASE Cleanup!Retry(t)
  BY <1>1 DEF Cleanup!Retry, Typed, Cleanup!disk
<1>2. CASE Cleanup!RunEnds(t)
  <2>1. runs[t] \in Nat
    BY DEF Typed
  <2>2. runs[t] + 1 \in Nat /\ runs[t] + 1 \in Cleanup!File /\ runs[t] + 1 # Cleanup!Source
    BY <2>1 DEF Cleanup!File, Cleanup!Source
  <2>3. status' \in [Task -> {"pending", "finished"}] /\ runs' \in [Task -> Nat]
    BY <1>2, <2>2 DEF Cleanup!RunEnds, Typed
  <2>4. /\ files' \in [Task -> SUBSET Cleanup!File]
        /\ \A u \in Task : Cleanup!Source \in files'[u] <=> Cleanup!Source \in files[u]
    <3>1. CASE Cleanup!Source \in files[t]
      <4>1. files' = [files EXCEPT ![t] = files[t] \cup {runs[t] + 1}]
        BY <1>2, <3>1 DEF Cleanup!RunEnds
      <4>2. files[t] \cup {runs[t] + 1} \in SUBSET Cleanup!File
        BY <2>2 DEF Typed
      <4>3. QED  BY <2>2, <4>1, <4>2 DEF Typed
    <3>2. CASE Cleanup!Source \notin files[t]
      BY <1>2, <3>2 DEF Cleanup!RunEnds, Typed
    <3>3. QED  BY <3>1, <3>2
  <2>5. QED  BY <2>3, <2>4
<1>3. QED  BY <1>1, <1>2

LEMMA RunStep ==
  ASSUME CleanupInv, NEW t \in Task, Cleanup!Retry(t) \/ Cleanup!RunEnds(t)
  PROVE  CleanupInv'
<1>1. UNCHANGED <<cleaned, job, Cleanup!snapshot, settled>>
  BY DEF Cleanup!Retry, Cleanup!RunEnds, Cleanup!disk
<1>2. Typed'
  BY <1>1, RunEffect DEF CleanupInv, Typed, Cleanup!snapshot
<1>3. JobSound'
  <2>1. \A c \in Cleanup!Cleaner : DOMAIN job[c].paths \subseteq Task
          /\ job[c].done \subseteq Task
    BY PathsType DEF CleanupInv, Typed, Job
  <2>2. QED  BY <1>1, <2>1, RunEffect DEF CleanupInv, JobSound
<1>4. Cleanup!CleanedIsGone'
  BY <1>1, RunEffect DEF CleanupInv, Cleanup!CleanedIsGone
<1>5. SettledSound' /\ BuildSound' /\ Cleanup!SnapshotNotStale'
  BY <1>1 DEF CleanupInv, SettledSound, BuildSound, Cleanup!SnapshotNotStale, Cleanup!At,
              Cleanup!snapshot
<1>6. QED  BY <1>2, <1>3, <1>4, <1>5 DEF CleanupInv

LEMMA SelectStep ==
  ASSUME CleanupInv, NEW c \in Cleanup!Cleaner, Cleanup!Select(c)
  PROVE  CleanupInv'
<1>1. UNCHANGED <<Cleanup!tasks, Cleanup!disk, Cleanup!snapshot, settled>>
  BY DEF Cleanup!Select
<1>2. Typed'
  BY <1>1, SelectEffect DEF CleanupInv, Typed, Cleanup!snapshot, Cleanup!tasks, Cleanup!disk
<1>3. Cleanup!CleanedIsGone' /\ SettledSound' /\ BuildSound' /\ Cleanup!SnapshotNotStale'
  BY <1>1 DEF CleanupInv, Cleanup!CleanedIsGone, SettledSound, BuildSound,
              Cleanup!SnapshotNotStale, Cleanup!At,
              Cleanup!snapshot, Cleanup!tasks, Cleanup!disk
<1>4. JobSound'
  <2>1. ASSUME NEW d \in Cleanup!Cleaner, d # c
        PROVE  job'[d] = job[d]
    BY <2>1, SelectEffect DEF CleanupInv
  <2>2. /\ job'[c].done = {} /\ ~job'[c].marked
        /\ \A t \in DOMAIN job'[c].paths : job'[c].paths[t] = files[t]
    BY SelectEffect DEF CleanupInv
  <2>3. QED  BY <1>1, <2>1, <2>2 DEF CleanupInv, JobSound, Cleanup!disk
<1>5. QED  BY <1>2, <1>3, <1>4 DEF CleanupInv

LEMMA RemoveStep ==
  ASSUME CleanupInv, NEW c \in Cleanup!Cleaner, NEW t \in Task, Cleanup!Remove(c, t)
  PROVE  CleanupInv'
<1>1. UNCHANGED <<Cleanup!tasks, cleaned, Cleanup!snapshot, settled>>
  BY DEF Cleanup!Remove
<1>2. /\ files' \in [Task -> SUBSET Cleanup!File]
      /\ \A u \in Task : files'[u] \subseteq files[u]
  BY RemoveEffect DEF CleanupInv
<1>3. Typed'
  BY <1>1, RemoveEffect DEF CleanupInv, Typed, Cleanup!snapshot, Cleanup!tasks
<1>4. SettledSound' /\ BuildSound' /\ Cleanup!SnapshotNotStale'
  BY <1>1 DEF CleanupInv, SettledSound, BuildSound, Cleanup!SnapshotNotStale, Cleanup!At,
              Cleanup!snapshot, Cleanup!tasks
<1>5. Cleanup!CleanedIsGone'
  BY <1>1, <1>2 DEF CleanupInv, Cleanup!CleanedIsGone
<1>6. JobSound'
  <2>1. \A d \in Cleanup!Cleaner : DOMAIN job[d].paths \subseteq Task
          /\ job[d].done \subseteq Task
    BY PathsType DEF CleanupInv, Typed, Job
  <2>2. \A d \in Cleanup!Cleaner : d # c => job'[d] = job[d]
    BY RemoveEffect DEF CleanupInv
  <2>3. ASSUME NEW u \in DOMAIN job'[c].paths, Cleanup!Source \in files'[u]
        PROVE  Cleanup!Source \in job'[c].paths[u]
    <3>1. u \in DOMAIN job[c].paths /\ job'[c].paths[u] = job[c].paths[u]
      BY RemoveEffect DEF CleanupInv
    <3>2. Cleanup!Source \in files[u]
      BY <1>2, <2>1, <2>3, <3>1
    <3>3. QED  BY <3>1, <3>2 DEF CleanupInv, JobSound
  <2>4. ASSUME NEW u \in job'[c].done
        PROVE  Cleanup!Source \notin files'[u]
    <3>1. u \in job[c].done \/ Cleanup!Source \notin files'[u]
      BY RemoveEffect DEF CleanupInv
    <3>2. QED  BY <1>2, <2>1, <3>1 DEF CleanupInv, JobSound
  <2>5. ~job'[c].marked
    BY RemoveEffect DEF CleanupInv
  <2>6. ASSUME NEW d \in Cleanup!Cleaner, d # c
        PROVE  /\ \A u \in DOMAIN job[d].paths : Cleanup!Source \in files'[u]
                    => Cleanup!Source \in job[d].paths[u]
               /\ \A u \in job[d].done : Cleanup!Source \notin files'[u]
               /\ job[d].marked => \A u \in job[d].done : cleaned'[u]
    BY <1>1, <1>2, <2>1 DEF CleanupInv, JobSound
  <2>7. QED  BY <2>2, <2>3, <2>4, <2>5, <2>6 DEF JobSound
<1>7. QED  BY <1>3, <1>4, <1>5, <1>6 DEF CleanupInv

LEMMA MarkStep ==
  ASSUME CleanupInv, NEW c \in Cleanup!Cleaner, Cleanup!Mark(c)
  PROVE  CleanupInv'
<1>1. UNCHANGED <<Cleanup!tasks, files, Cleanup!snapshot, settled>>
  BY DEF Cleanup!Mark
<1>2. /\ cleaned' \in [Task -> BOOLEAN]
      /\ \A t \in Task : cleaned'[t] <=> cleaned[t] \/ t \in job[c].done
  BY MarkEffect DEF CleanupInv
<1>3. Typed'
  BY <1>1, MarkEffect DEF CleanupInv, Typed, Cleanup!snapshot, Cleanup!tasks
<1>4. BuildSound' /\ Cleanup!SnapshotNotStale'
  BY <1>1 DEF CleanupInv, BuildSound, Cleanup!SnapshotNotStale, Cleanup!At,
              Cleanup!snapshot, Cleanup!tasks
<1>5. SettledSound'
  BY <1>1, <1>2 DEF CleanupInv, SettledSound, Typed
<1>6. Cleanup!CleanedIsGone'
  BY <1>1, <1>2 DEF CleanupInv, Cleanup!CleanedIsGone, JobSound
<1>7. JobSound'
  <2>1. \A d \in Cleanup!Cleaner : job[d].done \subseteq Task
    BY DEF CleanupInv, Typed, Job
  <2>2. \A d \in Cleanup!Cleaner : d # c => job'[d] = job[d]
    BY MarkEffect DEF CleanupInv
  <2>3. DOMAIN job'[c].paths = {} /\ job'[c].done \subseteq job[c].done
    BY MarkEffect DEF CleanupInv
  <2>4. \A t \in job'[c].done : Cleanup!Source \notin files'[t] /\ cleaned'[t]
    BY <1>1, <1>2, <2>1, <2>3 DEF CleanupInv, JobSound
  <2>5. \A d \in Cleanup!Cleaner : job[d].marked => \A t \in job[d].done : cleaned'[t]
    BY <1>2, <2>1 DEF CleanupInv, JobSound
  <2>6. QED  BY <1>1, <2>2, <2>3, <2>4, <2>5 DEF CleanupInv, JobSound
<1>8. QED  BY <1>3, <1>4, <1>5, <1>6, <1>7 DEF CleanupInv

\* Whatever is being built when a clean-up is answered belongs to an older generation.
LEMMA InvalidateStep ==
  ASSUME CleanupInv, NEW c \in Cleanup!Cleaner, Cleanup!Invalidate(c)
  PROVE  CleanupInv'
<1>1. /\ UNCHANGED <<Cleanup!tasks, Cleanup!disk, build>>
      /\ job[c].done \subseteq Task
      /\ job' \in [Cleanup!Cleaner -> Job] /\ job'[c] = Cleanup!NoJob
      /\ \A d \in Cleanup!Cleaner : d # c => job'[d] = job[d]
  BY InvalidateEffect DEF CleanupInv
<1>2. CASE UNCHANGED <<snap, gen, settled>>
  <2>1. Typed'
    BY <1>1, <1>2 DEF CleanupInv, Typed, Cleanup!tasks, Cleanup!disk
  <2>2. QED
    BY <1>1, <1>2, <2>1, NoJobType
    DEF CleanupInv, JobSound, Cleanup!CleanedIsGone, SettledSound, BuildSound,
        Cleanup!SnapshotNotStale,
        Cleanup!At, Cleanup!tasks, Cleanup!disk
<1>3. CASE /\ ~Cleanup!Locked /\ snap' = None /\ gen' = gen + 1
           /\ settled' = settled \cup job[c].done
  <2>1. Typed'
    BY <1>1, <1>3 DEF CleanupInv, Typed, Cleanup!tasks, Cleanup!disk
  <2>2. JobSound' /\ Cleanup!CleanedIsGone' /\ Cleanup!SnapshotNotStale'
    BY <1>1, <1>3, NoJobType
    DEF CleanupInv, JobSound, Cleanup!CleanedIsGone, Cleanup!SnapshotNotStale,
        Cleanup!tasks, Cleanup!disk
  <2>3. SettledSound'
    <3>1. job[c].marked
      BY InvalidateEffect DEF CleanupInv
    <3>2. QED  BY <1>1, <1>3, <3>1 DEF CleanupInv, SettledSound, JobSound, Cleanup!disk
  <2>4. BuildSound'
    <3>1. build'["page"] = None
      BY <1>1, <1>3 DEF Cleanup!Locked
    <3>2. ASSUME NEW b \in Cleanup!Builder, build'[b] # None
          PROVE  b = "thread" /\ build'[b].gen <= gen /\ build'[b].gen \in Nat /\ gen \in Nat
      BY <1>1, <3>1, <3>2 DEF CleanupInv, BuildSound, Cleanup!Builder, Typed, Cleanup!Listing
    <3>3. QED  BY <1>3, <3>2 DEF BuildSound, Cleanup!At
  <2>5. QED  BY <2>1, <2>2, <2>3, <2>4 DEF CleanupInv
<1>4. QED  BY <1>2, <1>3, InvalidateEffect DEF CleanupInv

LEMMA BuilderStep ==
  ASSUME CleanupInv, \/ Cleanup!PageBuilds \/ Cleanup!StartThread
               \/ \E b \in Cleanup!Builder : Cleanup!ReadFiles(b) \/ Cleanup!ReadRows(b)
  PROVE  CleanupInv'
<1>1. UNCHANGED <<Cleanup!tasks, Cleanup!disk, job, snap, gen, settled>>
  BY DEF Cleanup!PageBuilds, Cleanup!StartThread, Cleanup!ReadFiles, Cleanup!ReadRows
<1>2. PICK b \in Cleanup!Builder :
        /\ build' \in [Cleanup!Builder -> Cleanup!Listing \cup {None}]
        /\ \A d \in Cleanup!Builder : d # b => build'[d] = build[d]
        /\ build'[b].gen <= gen
        /\ build'[b].step = "rows" => build'[b].tasks \cap settled = {}
  <2>1. CASE Cleanup!PageBuilds \/ Cleanup!StartThread
    <3>1. PICK b \in Cleanup!Builder :
            /\ build' \in [Cleanup!Builder -> Cleanup!Listing \cup {None}]
            /\ \A d \in Cleanup!Builder : d # b => build'[d] = build[d]
            /\ build'[b].step = "start" /\ build'[b].gen = gen
      BY <2>1, StartEffect DEF CleanupInv
    <3>2. gen <= gen
      BY DEF CleanupInv, Typed
    <3>3. QED  BY <3>1, <3>2
  <2>2. ASSUME NEW b \in Cleanup!Builder, Cleanup!ReadFiles(b) \/ Cleanup!ReadRows(b)
        PROVE  /\ build' \in [Cleanup!Builder -> Cleanup!Listing \cup {None}]
               /\ \A d \in Cleanup!Builder : d # b => build'[d] = build[d]
               /\ build'[b].gen <= gen
               /\ build'[b].step = "rows" => build'[b].tasks \cap settled = {}
    BY <2>2, ListEffect DEF CleanupInv, BuildSound
  <2>3. QED  BY <2>1, <2>2
<1>3. Typed'
  BY <1>1, <1>2 DEF CleanupInv, Typed, Cleanup!tasks, Cleanup!disk
<1>4. BuildSound'
  BY <1>1, <1>2 DEF CleanupInv, BuildSound, Cleanup!At
<1>5. JobSound' /\ Cleanup!CleanedIsGone' /\ SettledSound' /\ Cleanup!SnapshotNotStale'
  BY <1>1 DEF CleanupInv, JobSound, Cleanup!CleanedIsGone, SettledSound,
              Cleanup!SnapshotNotStale,
              Cleanup!tasks, Cleanup!disk
<1>6. QED  BY <1>3, <1>4, <1>5 DEF CleanupInv

LEMMA StoreStep ==
  ASSUME CleanupInv, NEW b \in Cleanup!Builder, Cleanup!Store(b)
  PROVE  CleanupInv'
<1>1. UNCHANGED <<Cleanup!tasks, Cleanup!disk, job, gen, settled>>
  BY DEF Cleanup!Store
<1>2. /\ build' \in [Cleanup!Builder -> Cleanup!Listing \cup {None}] /\ build'[b] = None
      /\ \A d \in Cleanup!Builder : d # b => build'[d] = build[d]
  BY StoreEffect DEF CleanupInv
<1>3. snap' = snap \/ (snap' \subseteq Task /\ snap' \cap settled = {})
  <2>1. Cleanup!At(b, "rows") /\ (b = "thread" => build[b].gen = gen)
          => build[b].tasks \cap settled = {}
    BY DEF CleanupInv, BuildSound
  <2>2. QED  BY <2>1, StoreEffect DEF CleanupInv
<1>4. Typed'
  BY <1>1, <1>2, <1>3 DEF CleanupInv, Typed, Cleanup!tasks, Cleanup!disk
<1>5. BuildSound'
  BY <1>1, <1>2 DEF CleanupInv, BuildSound, Cleanup!At
<1>6. JobSound' /\ Cleanup!CleanedIsGone' /\ SettledSound'
  BY <1>1 DEF CleanupInv, JobSound, Cleanup!CleanedIsGone, SettledSound, Cleanup!tasks,
              Cleanup!disk
<1>7. Cleanup!SnapshotNotStale'
  BY <1>1, <1>3 DEF CleanupInv, Cleanup!SnapshotNotStale
<1>8. QED  BY <1>4, <1>5, <1>6, <1>7 DEF CleanupInv

LEMMA CleanupNext == CleanupInv /\ [Cleanup!Next]_(Cleanup!vars) => CleanupInv'
<1>. SUFFICES ASSUME CleanupInv, [Cleanup!Next]_(Cleanup!vars) PROVE CleanupInv'
  OBVIOUS
<1>1. ASSUME NEW t \in Task, Cleanup!Retry(t) \/ Cleanup!RunEnds(t) PROVE CleanupInv'
  BY <1>1, RunStep
<1>2. ASSUME NEW c \in Cleanup!Cleaner,
             Cleanup!Select(c) \/ Cleanup!Mark(c) \/ Cleanup!Invalidate(c) PROVE CleanupInv'
  BY <1>2, SelectStep, MarkStep, InvalidateStep
<1>3. ASSUME NEW c \in Cleanup!Cleaner, NEW t \in Task, Cleanup!Remove(c, t) PROVE CleanupInv'
  BY <1>3, RemoveStep
<1>4. CASE Cleanup!PageBuilds \/ Cleanup!StartThread
  BY <1>4, BuilderStep
<1>5. ASSUME NEW b \in Cleanup!Builder,
             Cleanup!ReadFiles(b) \/ Cleanup!ReadRows(b) PROVE CleanupInv'
  BY <1>5, BuilderStep
<1>6. ASSUME NEW b \in Cleanup!Builder, Cleanup!Store(b) PROVE CleanupInv'
  BY <1>6, StoreStep
<1>7. CASE Cleanup!Expire
  BY <1>7 DEF Cleanup!Expire, CleanupInv, Typed, JobSound, Cleanup!CleanedIsGone, SettledSound,
              BuildSound, Cleanup!SnapshotNotStale, Cleanup!At, Cleanup!tasks, Cleanup!disk
<1>8. CASE UNCHANGED Cleanup!vars
  BY <1>8 DEF Cleanup!vars, CleanupInv, Typed, JobSound, Cleanup!CleanedIsGone, SettledSound,
              BuildSound, Cleanup!SnapshotNotStale, Cleanup!At, Cleanup!tasks, Cleanup!disk, Cleanup!snapshot
<1>9. QED
  BY <1>1, <1>2, <1>3, <1>4, <1>5, <1>6, <1>7, <1>8 DEF Cleanup!Next

-----------------------------------------------------------------------------
(***************************************************************************)
(* The theorems.                                                           *)
(***************************************************************************)

\* The invariant holds in every behaviour: what a clean-up has not tried yet it knows the
\* source file of, and a list that will be stored was read after the last answer.
THEOREM CleanupInvariance == Cleanup!Spec => []CleanupInv
<1>1. QED  BY CleanupInit, CleanupNext, PTL DEF Cleanup!Spec

\* The variables keep their types: rows, files, clean-ups and snapshots.
THEOREM CleanupTypes == Cleanup!Spec => []Cleanup!TypeOK
<1>1. ASSUME NEW j \in Job PROVE \E S \in SUBSET Task : j \in Cleanup!JobOf(S)
  <2>1. PICK S \in SUBSET Task : j.paths \in [S -> SUBSET Cleanup!File]
    BY DEF Job, Paths
  <2>2. j \in Cleanup!JobOf(S)
    BY <2>1 DEF Job, Cleanup!JobOf
  <2>3. QED  BY <2>2
<1>2. Typed => Cleanup!TypeOK
  BY <1>1 DEF Typed, Cleanup!TypeOK
<1>3. CleanupInv => Cleanup!TypeOK
  BY <1>2 DEF CleanupInv
<1>4. QED  BY <1>3, CleanupInvariance, PTL

LEMMA CleanupPromise == CleanupInv => Cleanup!FilesSafe
BY DEF CleanupInv, Cleanup!FilesSafe

\* A row that is marked by cleanup_expired_task_files or cleanup_task_file_cache has no
\* source file left, however clean-ups, retries and files in use meet.
THEOREM CleanedHasNoSource == Cleanup!Spec => []Cleanup!CleanedIsGone
BY CleanupInvariance, CleanupPromise, PTL DEF Cleanup!FilesSafe

\* After the answer to a clean-up by hand no snapshot lists its tasks, although pages and
\* the thread of task_file_cache_snapshot_async build theirs without regard to it.
THEOREM ListNotStale == Cleanup!Spec => []Cleanup!SnapshotNotStale
BY CleanupInvariance, CleanupPromise, PTL DEF Cleanup!FilesSafe

\* Whatever clean-ups, files in use, retries, pages and threads meet, for any tasks: a row that
\* is marked as cleaned has no source file, and no list shows what was cleaned before.
THEOREM CleanupIsSafe == Cleanup!Spec => []Cleanup!FilesSafe
BY CleanedHasNoSource, ListNotStale, PTL DEF Cleanup!FilesSafe

-----------------------------------------------------------------------------
\* The variables of Preparation.
kind == x1
uploads == x2
row == x3
output == x4
pc == x5
found == x6
run == x7
emptied == x8

USE DEF kind, uploads, row, output, pc, found, run, emptied

(***************************************************************************)
(* The inductive invariant.                                                *)
(***************************************************************************)

\* Tasks of documents have no generated files, and no run writes files for a task that
\* lists some.
OnlyMediaHaveFiles ==
  /\ ~Prepare!Media => row.files = {} /\ output = {} /\ found.files = {}
  /\ pc \in {"reset", "pictures", "pages", "undo"} => Prepare!Media
  /\ pc = "text" => kind # "video"
  /\ pc \in {"reset", "text", "pictures", "pages", "undo"} => row.files = {}

\* What a run has found so far is what it has written, or what the row lists.
FoundSound ==
  /\ pc \in {"start", "reset", "text", "ended"} => found = Prepare!Nothing
  /\ pc \in {"text", "pictures", "pages"} => output = found.files
  /\ pc = "pictures" => found.files = {}
  /\ pc = "persist" =>
       /\ found.text
       /\ found.files = IF row.files = {} THEN output ELSE row.files
       /\ Prepare!Media => found.files # {}
  /\ pc = "checks" =>
       /\ found.text /\ row.text /\ found.files = row.files
       /\ Prepare!Media => found.files # {}

PreparationInv == Prepare!TypeOK /\ OnlyMediaHaveFiles /\ FoundSound /\ Prepare!FilesMatchRow
-----------------------------------------------------------------------------
(***************************************************************************)
(* The invariant holds initially and is preserved by every step.           *)
(***************************************************************************)

\* The parts of the records.
LEMMA Parts ==
  ASSUME Prepare!TypeOK
  PROVE  /\ row.status \in Prepare!Status /\ row.text \in BOOLEAN
              /\ row.files \subseteq Prepare!Files
         /\ found.text \in BOOLEAN /\ found.files \subseteq Prepare!Files
         /\ Prepare!Nothing \in [text : BOOLEAN, files : SUBSET Prepare!Files]
         /\ Prepare!Nothing.files = {} /\ Prepare!Nothing.text = FALSE
BY DEF Prepare!TypeOK, Prepare!Nothing

LEMMA FileType ==
  ASSUME Prepare!TypeOK, NEW what \in {"picture", "page", "piece"}
  PROVE  Prepare!File(what) \in Prepare!Files
BY DEF Prepare!TypeOK, Prepare!File, Prepare!Files

LEMMA PreparationInit == Prepare!Init => PreparationInv
<1>. SUFFICES ASSUME Prepare!Init PROVE PreparationInv
  OBVIOUS
<1>1. Prepare!TypeOK
  <2>1. uploads \subseteq Upload
    BY DEF Prepare!Init
  <2>2. QED  BY <2>1 DEF Prepare!Init, Prepare!TypeOK, Prepare!Nothing, Prepare!Status,
                         Prepare!Steps
<1>2. /\ row.files = {} /\ output = {} /\ found = Prepare!Nothing /\ found.files = {} /\ pc
           = "start"
  BY DEF Prepare!Init, Prepare!Nothing
<1>3. OnlyMediaHaveFiles /\ FoundSound /\ Prepare!FilesMatchRow
  BY <1>2 DEF OnlyMediaHaveFiles, FoundSound, Prepare!FilesMatchRow
<1>4. QED  BY <1>1, <1>3 DEF PreparationInv

\* The end of a run: nothing is kept but what the row has.
LEMMA EndEffect ==
  ASSUME Prepare!TypeOK, NEW outcome \in Prepare!Status, Prepare!EndRun(outcome)
  PROVE  /\ pc' = "ended" /\ found' = Prepare!Nothing
         /\ row' \in [status : Prepare!Status, text : BOOLEAN, files : SUBSET Prepare!Files]
         /\ row'.files = row.files /\ row'.text = row.text
BY DEF Prepare!EndRun, Prepare!TypeOK

\* A run may end wherever its directory is as the row has it.
LEMMA EndStep ==
  ASSUME PreparationInv, NEW outcome \in Prepare!Status, Prepare!EndRun(outcome),
         UNCHANGED <<kind, uploads, run, emptied>>, output' \subseteq Prepare!Files,
         ~Prepare!Media => output' = {},
         row.files # {} /\ ~emptied => output' = output
  PROVE  PreparationInv'
<1>1. /\ pc' = "ended" /\ found' = Prepare!Nothing
      /\ row' \in [status : Prepare!Status, text : BOOLEAN, files : SUBSET Prepare!Files]
      /\ row'.files = row.files
  BY EndEffect DEF PreparationInv
<1>2. Prepare!TypeOK'
  BY <1>1, Parts DEF PreparationInv, Prepare!TypeOK
<1>3. Prepare!Media' = Prepare!Media
  BY DEF Prepare!Media
<1>4. OnlyMediaHaveFiles'
  BY <1>1, <1>3, Parts DEF PreparationInv, OnlyMediaHaveFiles
<1>5. FoundSound'
  BY <1>1 DEF FoundSound
<1>6. Prepare!FilesMatchRow'
  BY <1>1 DEF PreparationInv, Prepare!FilesMatchRow
<1>7. QED  BY <1>2, <1>4, <1>5, <1>6 DEF PreparationInv

\* Taking up a task: the row is used again, is refused, or the files are made.
LEMMA StartStep ==
  ASSUME PreparationInv, Prepare!Reuse \/ Prepare!Missing \/ Prepare!Start
  PROVE  PreparationInv'
<1>1. CASE Prepare!Reuse
  <2>1. /\ pc = "start" /\ found' = [text |-> TRUE, files |-> row.files]
        /\ pc' = (IF row.text THEN "checks" ELSE "persist")
        /\ UNCHANGED <<kind, uploads, row, output, run, emptied>>
    BY <1>1 DEF Prepare!Reuse
  <2>2. /\ found' \in [text : BOOLEAN, files : SUBSET Prepare!Files]
        /\ found'.text = TRUE /\ found'.files = row.files
    BY <2>1, Parts DEF PreparationInv
  <2>3. Prepare!Media' = Prepare!Media /\ (Prepare!Media => row.files # {})
          /\ (~Prepare!Media => row.text)
    BY <1>1, <2>1 DEF Prepare!Reuse, Prepare!Media
  <2>4. Prepare!TypeOK'
    BY <2>1, <2>2 DEF PreparationInv, Prepare!TypeOK, Prepare!Steps
  <2>5. OnlyMediaHaveFiles'
    BY <2>1, <2>2, <2>3 DEF PreparationInv, OnlyMediaHaveFiles
  <2>6. FoundSound'
    BY <2>1, <2>2, <2>3 DEF PreparationInv, FoundSound, OnlyMediaHaveFiles
  <2>7. Prepare!FilesMatchRow'
    BY <2>1 DEF PreparationInv, Prepare!FilesMatchRow
  <2>8. QED  BY <2>4, <2>5, <2>6, <2>7 DEF PreparationInv
<1>2. CASE Prepare!Missing
  <2>1. Prepare!EndRun("failed") /\ "failed" \in Prepare!Status
          /\ UNCHANGED <<kind, uploads, output, run, emptied>>
    BY <1>2 DEF Prepare!Missing, Prepare!Status
  <2>2. output \subseteq Prepare!Files /\ (~Prepare!Media => output = {})
    BY DEF PreparationInv, Prepare!TypeOK, OnlyMediaHaveFiles
  <2>3. QED  BY <2>1, <2>2, EndStep
<1>3. CASE Prepare!Start
  <2>1. /\ pc = "start" /\ pc' = (IF Prepare!Media THEN "reset" ELSE "text")
        /\ UNCHANGED <<kind, uploads, row, output, found, run, emptied>>
        /\ Prepare!Media' = Prepare!Media /\ (Prepare!Media => row.files = {})
    BY <1>3 DEF Prepare!Start, Prepare!Media
  <2>2. Prepare!TypeOK'
    BY <2>1 DEF PreparationInv, Prepare!TypeOK, Prepare!Steps
  <2>3. OnlyMediaHaveFiles'
    BY <2>1 DEF PreparationInv, OnlyMediaHaveFiles, Prepare!Media
  <2>4. FoundSound'
    BY <2>1 DEF PreparationInv, FoundSound, OnlyMediaHaveFiles
  <2>5. Prepare!FilesMatchRow'
    BY <2>1 DEF PreparationInv, Prepare!FilesMatchRow
  <2>6. QED  BY <2>2, <2>3, <2>4, <2>5 DEF PreparationInv
<1>4. QED  BY <1>1, <1>2, <1>3

\* As long as the row lists nothing, a run may write and remove files as it likes.
LEMMA WorkStep ==
  ASSUME PreparationInv, row.files = {}, pc \in {"reset", "text", "pictures", "pages"},
         UNCHANGED <<kind, uploads, row, run, emptied>>,
         output' \subseteq Prepare!Files, found' \in [text : BOOLEAN, files : SUBSET Prepare!Files],
         ~Prepare!Media => output' = {} /\ found'.files = {},
         pc' \in {"text", "pictures", "pages", "persist", "undo"},
         pc' \in {"pictures", "pages", "undo"} => Prepare!Media,
         pc' = "text" => found' = Prepare!Nothing /\ kind # "video",
         pc' # "undo" => output' = found'.files,
         pc' = "pictures" => found'.files = {},
         pc' = "persist" => found'.text /\ (Prepare!Media => found'.files # {})
  PROVE  PreparationInv'
<1>1. Prepare!Media' = Prepare!Media /\ row'.files = {}
  BY DEF Prepare!Media
<1>2. Prepare!TypeOK'
  BY DEF PreparationInv, Prepare!TypeOK, Prepare!Steps
<1>3. OnlyMediaHaveFiles'
  BY <1>1 DEF PreparationInv, OnlyMediaHaveFiles
<1>4. FoundSound'
  BY <1>1 DEF PreparationInv, FoundSound
<1>5. Prepare!FilesMatchRow'
  BY <1>1 DEF Prepare!FilesMatchRow
<1>6. QED  BY <1>2, <1>3, <1>4, <1>5 DEF PreparationInv

LEMMA ResetStep ==
  ASSUME PreparationInv, Prepare!Reset
  PROVE  PreparationInv'
<1>1. /\ pc = "reset" /\ row.files = {} /\ Prepare!Media /\ found = Prepare!Nothing
      /\ UNCHANGED <<kind, uploads, run, emptied>>
  BY DEF Prepare!Reset, PreparationInv, OnlyMediaHaveFiles, FoundSound
<1>2. CASE /\ output' = {} /\ pc' = (IF kind = "image" THEN "text" ELSE "pages")
           /\ UNCHANGED <<row, found>>
  BY <1>1, <1>2, WorkStep, Parts DEF PreparationInv, Prepare!TypeOK
<1>3. CASE Prepare!EndRun("failed") /\ UNCHANGED output
  <2>1. "failed" \in Prepare!Status /\ output \subseteq Prepare!Files
    BY DEF Prepare!Status, PreparationInv, Prepare!TypeOK
  <2>2. QED  BY <1>1, <1>3, <2>1, EndStep
<1>4. QED  BY <1>2, <1>3 DEF Prepare!Reset

LEMMA TextStep ==
  ASSUME PreparationInv, Prepare!ExtractText
  PROVE  PreparationInv'
<1>1. /\ pc = "text" /\ row.files = {} /\ found = Prepare!Nothing /\ output = {}
      /\ UNCHANGED <<kind, uploads, output, run, emptied>>
  BY Parts DEF Prepare!ExtractText, PreparationInv, OnlyMediaHaveFiles, FoundSound
<1>2. PICK ok \in BOOLEAN :
        IF kind = "image"
        THEN /\ found' = [found EXCEPT !.text = ok] /\ pc' = "pictures" /\ UNCHANGED row
        ELSE IF ok THEN /\ found' = [found EXCEPT !.text = TRUE] /\ pc' = "persist"
                        /\ UNCHANGED row
                   ELSE Prepare!EndRun("failed")
  BY DEF Prepare!ExtractText
<1>3. CASE Prepare!EndRun("failed")
  <2>1. "failed" \in Prepare!Status
    BY DEF Prepare!Status
  <2>2. QED  BY <1>1, <1>3, <2>1, EndStep
<1>4. CASE kind = "image"
  <2>1. /\ found' \in [text : BOOLEAN, files : SUBSET Prepare!Files] /\ found'.files = {}
    BY <1>1, <1>2, <1>4, Parts DEF PreparationInv, Prepare!Nothing
  <2>2. Prepare!Media
    BY <1>4 DEF Prepare!Media
  <2>3. QED  BY <1>1, <1>2, <1>4, <2>1, <2>2, WorkStep
<1>5. CASE kind # "image" /\ ok
  <2>1. /\ found' \in [text : BOOLEAN, files : SUBSET Prepare!Files]
        /\ found'.files = {} /\ found'.text
    BY <1>1, <1>2, <1>5, Parts DEF PreparationInv, Prepare!Nothing
  <2>2. ~Prepare!Media
    BY <1>1, <1>5 DEF PreparationInv, OnlyMediaHaveFiles, Prepare!Media
  <2>3. QED
    BY <1>1, <1>2, <1>5, <2>1, <2>2, WorkStep
<1>6. QED  BY <1>2, <1>3, <1>4, <1>5

LEMMA PictureStep ==
  ASSUME PreparationInv, Prepare!ExtractPictures \/ Prepare!PicturesFail
  PROVE  PreparationInv'
<1>1. /\ pc = "pictures" /\ row.files = {} /\ Prepare!Media /\ output = found.files
      /\ UNCHANGED <<kind, uploads, row, run, emptied>>
  BY DEF Prepare!ExtractPictures, Prepare!PicturesFail, PreparationInv, OnlyMediaHaveFiles,
         FoundSound
<1>2. Prepare!File("picture") \in Prepare!Files /\ Prepare!File("piece") \in Prepare!Files
        /\ output \subseteq Prepare!Files
  BY FileType DEF PreparationInv, Prepare!TypeOK
<1>3. CASE Prepare!ExtractPictures
  <2>1. PICK pictures \in SUBSET Prepare!Files :
          /\ output' = pictures
          /\ found' = [found EXCEPT !.files = pictures] /\ pc' = "pages"
    <3>1. found.files = {} => found = [found EXCEPT !.files = {}]
      BY DEF PreparationInv, Prepare!TypeOK
    <3>2. output = {} /\ found.files = {}
      BY <1>1, <1>3 DEF PreparationInv, FoundSound, Prepare!ExtractPictures
    <3>3. QED  BY <1>2, <1>3, <3>1, <3>2 DEF Prepare!ExtractPictures
  <2>2. /\ found' \in [text : BOOLEAN, files : SUBSET Prepare!Files] /\ found'.files = pictures
    BY <2>1 DEF PreparationInv, Prepare!TypeOK
  <2>3. QED  BY <1>1, <2>1, <2>2, WorkStep
<1>4. CASE Prepare!PicturesFail
  BY <1>1, <1>2, <1>4, WorkStep DEF Prepare!PicturesFail, PreparationInv, Prepare!TypeOK
<1>5. QED  BY <1>3, <1>4

LEMMA PageStep ==
  ASSUME PreparationInv, Prepare!Render \/ Prepare!RenderFails
  PROVE  PreparationInv'
<1>1. /\ pc = "pages" /\ row.files = {} /\ Prepare!Media /\ output = found.files
      /\ UNCHANGED <<kind, uploads, row, run, emptied>>
  BY DEF Prepare!Render, Prepare!RenderFails, PreparationInv, OnlyMediaHaveFiles, FoundSound
<1>2. Prepare!File("page") \in Prepare!Files /\ Prepare!File("piece") \in Prepare!Files
        /\ output \subseteq Prepare!Files
  BY FileType DEF PreparationInv, Prepare!TypeOK
<1>3. CASE Prepare!Render
  <2>1. PICK listed \in SUBSET Prepare!Files :
          /\ listed = output \cup {Prepare!File("page")} /\ output' = listed /\ pc' = "persist"
          /\ found' = [text |-> TRUE, files |-> listed]
    BY <1>1, <1>2, <1>3 DEF Prepare!Render
  <2>2. /\ found' \in [text : BOOLEAN, files : SUBSET Prepare!Files]
        /\ found'.files = listed /\ found'.text /\ listed # {}
    BY <2>1
  <2>3. QED  BY <1>1, <2>1, <2>2, WorkStep
<1>4. CASE Prepare!RenderFails
  BY <1>1, <1>2, <1>4, WorkStep DEF Prepare!RenderFails, PreparationInv, Prepare!TypeOK
<1>5. QED  BY <1>3, <1>4

\* The row gets what is in the directory, or keeps what it had.
LEMMA PersistStep ==
  ASSUME PreparationInv, Prepare!Persist \/ Prepare!PersistFails
  PROVE  PreparationInv'
<1>1. /\ pc = "persist" /\ UNCHANGED <<kind, uploads, output, run, emptied>>
      /\ found.text /\ found.files = (IF row.files = {} THEN output ELSE row.files)
      /\ (Prepare!Media => found.files # {}) /\ Prepare!Media' = Prepare!Media
      /\ output \subseteq Prepare!Files /\ (~Prepare!Media => output = {})
  BY DEF Prepare!Persist, Prepare!PersistFails, PreparationInv, Prepare!TypeOK,
         OnlyMediaHaveFiles, FoundSound, Prepare!Media
<1>2. CASE \E outcome \in {"canceled", "failed"} : Prepare!EndRun(outcome)
  <2>1. {"canceled", "failed"} \subseteq Prepare!Status
    BY DEF Prepare!Status
  <2>2. QED  BY <1>1, <1>2, <2>1, EndStep
<1>3. CASE /\ row' = [row EXCEPT !.text = TRUE, !.files = found.files]
           /\ pc' = "checks" /\ UNCHANGED found
  <2>1. /\ row' \in [status : Prepare!Status, text : BOOLEAN, files : SUBSET Prepare!Files]
        /\ row'.text = TRUE /\ row'.files = found.files
    BY <1>3 DEF PreparationInv, Prepare!TypeOK
  <2>2. Prepare!TypeOK'
    BY <1>1, <1>3, <2>1 DEF PreparationInv, Prepare!TypeOK, Prepare!Steps
  <2>3. OnlyMediaHaveFiles' /\ FoundSound'
    BY <1>1, <1>3, <2>1 DEF PreparationInv, OnlyMediaHaveFiles, FoundSound
  <2>4. Prepare!FilesMatchRow'
    BY <1>1, <2>1 DEF PreparationInv, Prepare!FilesMatchRow
  <2>5. QED  BY <2>2, <2>3, <2>4 DEF PreparationInv
<1>4. CASE Prepare!Media /\ row.files = {} /\ pc' = "undo" /\ UNCHANGED <<row, found>>
  <2>1. Prepare!TypeOK'
    BY <1>1, <1>4 DEF PreparationInv, Prepare!TypeOK, Prepare!Steps
  <2>2. OnlyMediaHaveFiles' /\ FoundSound' /\ Prepare!FilesMatchRow'
    BY <1>1, <1>4 DEF PreparationInv, OnlyMediaHaveFiles, FoundSound, Prepare!FilesMatchRow
  <2>3. QED  BY <2>1, <2>2 DEF PreparationInv
<1>5. QED  BY <1>2, <1>3, <1>4 DEF Prepare!Persist, Prepare!PersistFails

\* A run that is canceled, undone, over or dead.
LEMMA StopStep ==
  ASSUME PreparationInv,
         Prepare!TextCanceled \/ Prepare!Undo \/ Prepare!RunChecks \/ Prepare!Crash
  PROVE  PreparationInv'
<1>1. output \subseteq Prepare!Files /\ (~Prepare!Media => output = {})
        /\ UNCHANGED <<kind, uploads, run, emptied>>
  BY DEF PreparationInv, Prepare!TypeOK, OnlyMediaHaveFiles, Prepare!TextCanceled,
         Prepare!Undo, Prepare!RunChecks, Prepare!Crash
<1>2. CASE UNCHANGED output
             /\ \E outcome \in {"canceled", "failed", "finished"} : Prepare!EndRun(outcome)
  <2>1. {"canceled", "failed", "finished"} \subseteq Prepare!Status
    BY DEF Prepare!Status
  <2>2. QED  BY <1>1, <1>2, <2>1, EndStep
<1>3. CASE Prepare!TextCanceled /\ kind = "image" /\ pc = "text"
  <2>1. pc' = "undo" /\ UNCHANGED <<row, found, output>> /\ Prepare!Media /\ row.files = {}
    BY <1>3 DEF Prepare!TextCanceled, Prepare!Media, PreparationInv, OnlyMediaHaveFiles
  <2>2. QED
    BY <1>1, <1>3, <2>1, WorkStep DEF PreparationInv, Prepare!TypeOK
<1>4. CASE Prepare!Undo
  <2>1. row.files = {} /\ Prepare!Media /\ output' \in {{}, output}
    BY <1>4 DEF Prepare!Undo, PreparationInv, OnlyMediaHaveFiles
  <2>2. PICK outcome \in {"canceled", "failed"} : Prepare!EndRun(outcome)
    BY <1>4 DEF Prepare!Undo
  <2>3. outcome \in Prepare!Status
    BY DEF Prepare!Status
  <2>4. QED  BY <1>1, <2>1, <2>2, <2>3, EndStep
<1>5. CASE Prepare!RunChecks \/ Prepare!Crash \/ (Prepare!TextCanceled /\ ~(kind = "image"
             /\ pc = "text"))
  BY <1>2, <1>5 DEF Prepare!RunChecks, Prepare!Crash, Prepare!TextCanceled
<1>6. QED  BY <1>3, <1>4, <1>5

\* What others do: a cancel request, a retry, a clean-up of the files.
LEMMA OtherStep ==
  ASSUME PreparationInv, Prepare!Cancel \/ Prepare!Again \/ Prepare!Clean
  PROVE  PreparationInv'
<1>1. CASE Prepare!Cancel
  <2>1. /\ row' \in [status : Prepare!Status, text : BOOLEAN, files : SUBSET Prepare!Files]
        /\ row'.files = row.files /\ row'.text = row.text
        /\ UNCHANGED <<kind, uploads, output, pc, found, run, emptied>> /\ Prepare!Media'
             = Prepare!Media
    BY <1>1 DEF Prepare!Cancel, PreparationInv, Prepare!TypeOK, Prepare!Status, Prepare!Media
  <2>2. Prepare!TypeOK'
    BY <2>1 DEF PreparationInv, Prepare!TypeOK
  <2>3. OnlyMediaHaveFiles' /\ FoundSound' /\ Prepare!FilesMatchRow'
    BY <2>1 DEF PreparationInv, OnlyMediaHaveFiles, FoundSound, Prepare!FilesMatchRow
  <2>4. QED  BY <2>2, <2>3 DEF PreparationInv
<1>2. CASE Prepare!Again
  <2>1. /\ row' \in [status : Prepare!Status, text : BOOLEAN, files : SUBSET Prepare!Files]
        /\ row'.files = row.files /\ row'.text = row.text
        /\ pc = "ended" /\ pc' = "start" /\ Prepare!Media' = Prepare!Media
        /\ UNCHANGED <<kind, uploads, output, found, emptied>>
    BY <1>2 DEF Prepare!Again, PreparationInv, Prepare!TypeOK, Prepare!Status, Prepare!Media
  <2>2. run' \in Nat
    BY <1>2 DEF Prepare!Again, PreparationInv, Prepare!TypeOK
  <2>3. Prepare!TypeOK'
    BY <2>1, <2>2 DEF PreparationInv, Prepare!TypeOK, Prepare!Steps
  <2>4. OnlyMediaHaveFiles' /\ FoundSound' /\ Prepare!FilesMatchRow'
    BY <2>1 DEF PreparationInv, OnlyMediaHaveFiles, FoundSound, Prepare!FilesMatchRow
  <2>5. QED  BY <2>3, <2>4 DEF PreparationInv
<1>3. CASE Prepare!Clean
  <2>1. /\ row' \in [status : Prepare!Status, text : BOOLEAN, files : SUBSET Prepare!Files]
        /\ row'.files = row.files /\ pc = "ended" /\ Prepare!Media' = Prepare!Media
        /\ uploads' = {} /\ output' = {} /\ emptied' = TRUE
        /\ UNCHANGED <<kind, pc, found, run>>
    BY <1>3 DEF Prepare!Clean, PreparationInv, Prepare!TypeOK, Prepare!Media
  <2>2. Prepare!TypeOK'
    BY <2>1 DEF PreparationInv, Prepare!TypeOK
  <2>3. OnlyMediaHaveFiles' /\ FoundSound' /\ Prepare!FilesMatchRow'
    BY <2>1 DEF PreparationInv, OnlyMediaHaveFiles, FoundSound, Prepare!FilesMatchRow
  <2>4. QED  BY <2>2, <2>3 DEF PreparationInv
<1>4. QED  BY <1>1, <1>2, <1>3

LEMMA PreparationNext == PreparationInv /\ [Prepare!Next]_(Prepare!vars) => PreparationInv'
<1>. SUFFICES ASSUME PreparationInv, [Prepare!Next]_(Prepare!vars) PROVE PreparationInv'
  OBVIOUS
<1>1. CASE UNCHANGED Prepare!vars
  BY <1>1 DEF Prepare!vars, PreparationInv, Prepare!TypeOK, OnlyMediaHaveFiles, FoundSound,
              Prepare!FilesMatchRow, Prepare!Media
<1>2. QED
  BY <1>1, StartStep, ResetStep, TextStep, PictureStep, PageStep, PersistStep, StopStep,
     OtherStep DEF Prepare!Next

-----------------------------------------------------------------------------
(***************************************************************************)
(* The theorems.                                                           *)
(***************************************************************************)

\* The invariant holds in every behaviour: a run writes files only for a task that lists
\* none, and what it takes to its checks is what the row lists.
THEOREM PreparationInvariance == Prepare!Spec => []PreparationInv
<1>1. QED  BY PreparationInit, PreparationNext, PTL DEF Prepare!Spec

\* The variables keep their types: row, directory and what the run has found.
THEOREM PreparationTypes == Prepare!Spec => []Prepare!TypeOK
<1>1. PreparationInv => Prepare!TypeOK
  BY DEF PreparationInv
<1>2. QED  BY <1>1, PreparationInvariance, PTL

LEMMA PreparationPromise == PreparationInv => Prepare!FilesSafe
<1>1. PreparationInv => Prepare!FilesMatchRow
  BY DEF PreparationInv
<1>2. PreparationInv => Prepare!ChecksHaveInputs
  BY DEF PreparationInv, FoundSound, Prepare!FilesMatchRow, Prepare!ChecksHaveInputs,
         Prepare!TypeOK
<1>3. QED  BY <1>1, <1>2 DEF Prepare!FilesSafe

\* Wherever runs break off, a row that lists files lists those in the directory of the
\* task until they are cleaned up.
THEOREM ListedIsThere == Prepare!Spec => []Prepare!FilesMatchRow
BY PreparationInvariance, PreparationPromise, PTL DEF Prepare!FilesSafe

\* No run reaches its checks without a stored text and, for pictures and videos, files.
THEOREM InputsAreThere == Prepare!Spec => []Prepare!ChecksHaveInputs
BY PreparationInvariance, PreparationPromise, PTL DEF Prepare!FilesSafe

\* Whichever runs break off, and wherever, for any kinds, uploads and numbers of runs: a row
\* lists the files that are there, and a run that reaches its checks has its inputs.
THEOREM PreparationIsSafe == Prepare!Spec => []Prepare!FilesSafe
BY ListedIsThere, InputsAreThere, PTL DEF Prepare!FilesSafe

-----------------------------------------------------------------------------
(***************************************************************************)
(* The behaviours of Components.                                           *)
(***************************************************************************)

\* A step of Components is a step of the machine it is about, or leaves it as it is.
LEMMA PartStep ==
  ASSUME [ComponentNext]_<<part, vars, slots>>
  PROVE  /\ part' = part
         /\ [Next]_vars
         /\ part = "files" => [Cleanup!Next]_(Cleanup!vars)
         /\ part = "prepare" => [Prepare!Next]_(Prepare!vars)
<1>1. CASE UNCHANGED <<part, vars, slots>>
  <2>1. /\ part' = part /\ UNCHANGED vars
        /\ UNCHANGED <<x1, x2, x3, x4, x5, x6, x7, x8, x9, x10, x11, x12>>
    BY <1>1 DEF slots
  <2>2. UNCHANGED Cleanup!vars
    BY <2>1 DEF Cleanup!vars, Cleanup!tasks, Cleanup!disk, Cleanup!snapshot
  <2>3. UNCHANGED Prepare!vars
    BY <2>1 DEF Prepare!vars
  <2>4. QED  BY <2>1, <2>2, <2>3
<1>2. CASE ComponentNext
  BY <1>2 DEF ComponentNext, Alone, UploadsTurn, ClientTurn, StreamTurn, LinksTurn,
              ServiceTurn, OutputTurn, ReviewsTurn, CacheTurn, CleanupTurn, PrepareTurn,
              MediaTurn
<1>3. QED  BY <1>1, <1>2

FilesInv ==
  /\ IInv
  /\ part = "files" => CleanupInv
  /\ part = "prepare" => PreparationInv

\* Whichever of the machines a behaviour is about: no upload is lost and an answer is true,
\* what is marked as cleaned is gone, lists are not stale, and checks have their inputs.
THEOREM FilesAreSafe == ComponentSpec => []FilesSafe
<1>1. ComponentInit => FilesInv
  BY InitInvariant, CleanupInit, PreparationInit DEF ComponentInit, FilesInv
<1>2. FilesInv /\ [ComponentNext]_<<part, vars, slots>> => FilesInv'
  BY PartStep, StepInvariant, CleanupNext, PreparationNext DEF FilesInv
<1>3. FilesInv => FilesSafe
  BY CleanupPromise, PreparationPromise DEF FilesInv, FilesSafe
<1>4. QED  BY <1>1, <1>2, <1>3, PTL DEF ComponentSpec
=============================================================================
