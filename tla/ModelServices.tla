---------------------------- MODULE ModelServices ----------------------------
(***************************************************************************)
(* Providers of models and their models (models/service.py, the page of    *)
(* web/models.py), and the choice of a model for a new task.               *)
(*                                                                         *)
(* A request has a connection of its own.  What it writes between its      *)
(* first UPDATE or INSERT and its commit is one transaction; each of its   *)
(* SELECTs before sees what is committed at that moment.  Meanwhile the    *)
(* first request after a log-in moves what an IP address owned to the user *)
(* (persistence/settings.py, migrate_ip_owner_to_subject).                 *)
(***************************************************************************)
EXTENDS Naturals, Sequences, SequencesExt, FiniteSets

CONSTANTS
  Request,    \* requests that are handled at the same time
  Ip,         \* the owner ip:<address>
  User,       \* owners with a log-in
  Form,       \* lists of models a form may carry: [name, flag] with flag "0" or "1"
  MaxIds,     \* bound of the providers that are ever added
  MaxSaves,   \* bound of the saves
  MaxTasks,   \* bound of the tasks
  NoRow       \* no provider row

OwnersAssumption == Ip \notin User
FormsAssumption ==
  Form \subseteq Seq([name : Seq(STRING), flag : {"0", "1"}])
ServiceBoundsAssumption == {MaxIds, MaxSaves, MaxTasks} \subseteq Nat
NoRowAssumption == NoRow \notin [owner : {Ip} \cup User, by : Nat, active : BOOLEAN]

VARIABLES
  rows,     \* user_model_providers: owner, the save it is from, is_active
  configs,  \* user_model_configs of a provider: their save and the models
  added,    \* the last id that was given (AUTOINCREMENT: none is given twice)
  saves,    \* number of saves
  req,      \* what a request is about to do
  tasks,    \* tasks with the model they keep
  moved     \* history: providers that changed their owner

vars == <<rows, configs, added, saves, req, tasks, moved>>

Owner == {Ip} \cup User
Id == 1..MaxIds
Models == UNION {ToSet(f) : f \in Form}

-----------------------------------------------------------------------------
\* _parse_model_configs: the first of each name and flag, none without a name.
Parsed(form) ==
  FoldLeft(LAMBDA list, c :
             IF c.name = <<>> \/ c \in ToSet(list) THEN list ELSE Append(list, c),
           <<>>, form)

\* _normalize_provider_input: a provider has a model at least.
Accepted(form) == Parsed(form) # <<>>

\* The id of an option: provider, flag and name, joined by colons.
ModelId(id, c) == <<id, c.flag>> \o c.name

\* _find_enabled_model: the parts of such an id, or of one without a flag.
Split(model) ==
  IF Len(model) >= 3 /\ model[2] \in {"0", "1"}
  THEN [id |-> model[1], flags |-> {model[2]}, name |-> SubSeq(model, 3, Len(model))]
  ELSE [id |-> model[1], flags |-> {"0", "1"}, name |-> Tail(model)]

\* Mutant of Matching: a model is known by its name.
MatchingNames(list, part) == SelectSeq(list, LAMBDA c : c.name = part.name)

Matching(list, part) ==
  SelectSeq(list, LAMBDA c : c.name = part.name /\ c.flag \in part.flags)

Nothing == [by |-> 0, models |-> <<>>]
Idle == [pc |-> "idle"]

Init ==
  /\ rows = [i \in Id |-> NoRow]
  /\ configs = [i \in Id |-> Nothing]
  /\ added = 0 /\ saves = 0
  /\ req = [r \in Request |-> Idle]
  /\ tasks = {}
  /\ moved = {}

Ready(r) == req[r] = Idle
Becomes(r, state) == req' = [req EXCEPT ![r] = state]
Owns(o, i) == rows[i] # NoRow /\ rows[i].owner = o

tables == <<rows, configs, added, saves, moved>>

-----------------------------------------------------------------------------
(***************************************************************************)
(* _model_management_response.  A form without a model is refused.         *)
(***************************************************************************)

\* _user_provider_exists for a provider that is edited.
EditRequest(r) ==
  \E o \in Owner, i \in Id, f \in Form, active \in BOOLEAN :
    /\ Ready(r) /\ Accepted(f) /\ Owns(o, i)
    /\ Becomes(r, [pc |-> "save", owner |-> o, id |-> i, models |-> Parsed(f),
                   active |-> active])
    /\ UNCHANGED <<tables, tasks>>

\* INSERT, the models, commit.
SaveNew(r) ==
  \E o \in Owner, f \in Form, active \in BOOLEAN :
    /\ Ready(r) /\ Accepted(f)
    /\ added < MaxIds /\ saves < MaxSaves
    /\ added' = added + 1
    /\ saves' = saves + 1
    /\ rows' = [rows EXCEPT ![added'] =
                  [owner |-> o, by |-> saves', active |-> active]]
    /\ configs' = [configs EXCEPT ![added'] = [by |-> saves', models |-> Parsed(f)]]
    /\ UNCHANGED <<req, tasks, moved>>

\* UPDATE ... WHERE id and owner, which may meet no row; then the models are replaced,
\* which needs a row of any owner.
SaveOld(r) ==
  LET q == req[r] IN
  /\ q.pc = "save" /\ rows[q.id] # NoRow /\ saves < MaxSaves
  /\ saves' = saves + 1
  /\ rows' = IF Owns(q.owner, q.id)
             THEN [rows EXCEPT ![q.id] =
                     [owner |-> q.owner, by |-> saves', active |-> q.active]]
             ELSE rows
  /\ configs' = [configs EXCEPT ![q.id] = [by |-> saves', models |-> q.models]]
  /\ Becomes(r, Idle)
  /\ UNCHANGED <<added, tasks, moved>>

\* Without a row the first INSERT violates the foreign key, and nothing is committed.
SaveGone(r) ==
  /\ req[r].pc = "save" /\ rows[req[r].id] = NoRow
  /\ Becomes(r, Idle)
  /\ UNCHANGED <<tables, tasks>>

\* DELETE ... WHERE id and owner; the models go with the provider.
Delete(r) ==
  \E o \in Owner, i \in Id :
    /\ Ready(r) /\ Owns(o, i)
    /\ rows' = [rows EXCEPT ![i] = NoRow]
    /\ configs' = [configs EXCEPT ![i] = Nothing]
    /\ UNCHANGED <<added, saves, req, tasks, moved>>

\* migrate_ip_owner_to_subject: tasks and providers, in one transaction.
Migrate(user) ==
  LET Mine == {i \in Id : Owns(Ip, i)} IN
  /\ Mine # {} \/ \E t \in tasks : t.owner = Ip
  /\ rows' = [i \in Id |-> IF i \in Mine THEN [rows[i] EXCEPT !.owner = user] ELSE rows[i]]
  /\ tasks' = {IF t.owner = Ip THEN [t EXCEPT !.owner = user] ELSE t : t \in tasks}
  /\ moved' = moved \cup Mine
  /\ UNCHANGED <<configs, added, saves, req>>

-----------------------------------------------------------------------------
(***************************************************************************)
(* A task is submitted with an option of the page (get_enabled_models).    *)
(***************************************************************************)

Options(o) ==
  {option \in Id \X Models :
     LET i == option[1] IN
     Owns(o, i) /\ rows[i].active /\ option[2] \in ToSet(configs[i].models)}

Choose(r) ==
  \E o \in Owner : \E option \in Options(o) :
    /\ Ready(r)
    /\ Becomes(r, [pc |-> "find", owner |-> o, choice |-> option[2],
                   model |-> ModelId(option[1], option[2])])
    /\ UNCHANGED <<tables, tasks>>

\* The row of the provider is read ...
FindRow(r) ==
  LET q == req[r] i == Split(q.model).id IN
  /\ q.pc = "find"
  /\ IF Owns(q.owner, i) /\ rows[i].active
     THEN Becomes(r, [pc |-> "models", owner |-> q.owner, choice |-> q.choice,
                      model |-> q.model, by |-> rows[i].by])
     ELSE Becomes(r, Idle)
  /\ UNCHANGED <<tables, tasks>>

\* ... then its models, in which the option is looked up.
FindModel(r) ==
  LET q == req[r]
      part == Split(q.model)
      hits == Matching(configs[part.id].models, part) IN
  /\ q.pc = "models"
  /\ IF hits # <<>>
     THEN Becomes(r, [pc |-> "insert",
                      task |-> [owner |-> q.owner, by |-> q.by, id |-> part.id,
                                choice |-> q.choice, model |-> Head(hits)]])
     ELSE Becomes(r, Idle)
  /\ UNCHANGED <<tables, tasks>>

\* The files are stored, and the task is inserted with a copy of what was found.
Insert(r) ==
  /\ req[r].pc = "insert" /\ Cardinality(tasks) < MaxTasks
  /\ tasks' = tasks \cup {req[r].task}
  /\ Becomes(r, Idle)
  /\ UNCHANGED tables

Next ==
  \/ \E r \in Request :
       \/ EditRequest(r) \/ SaveNew(r) \/ SaveOld(r) \/ SaveGone(r) \/ Delete(r)
       \/ Choose(r) \/ FindRow(r) \/ FindModel(r) \/ Insert(r)
  \/ \E u \in User : Migrate(u)

Spec == Init /\ [][Next]_vars

-----------------------------------------------------------------------------
TypeOK ==
  /\ \A i \in Id :
       /\ rows[i] \in [owner : Owner, by : 1..MaxSaves, active : BOOLEAN] \cup {NoRow}
       /\ configs[i].by \in 0..MaxSaves /\ ToSet(configs[i].models) \subseteq Models
  /\ added \in 0..MaxIds /\ saves \in 0..MaxSaves
  /\ \A r \in Request : req[r].pc \in {"idle", "save", "find", "models", "insert"}
  /\ \A t \in tasks : t.owner \in Owner /\ t.id \in Id /\ t.model \in Models
  /\ moved \subseteq Id

\* A request that edits a provider while another one deletes it brings no models back.
ModelsNeedRow == \A i \in Id : rows[i] = NoRow <=> configs[i].models = <<>>

\* No provider has a model twice (schema.py UNIQUE).
ModelsDistinct == \A i \in Id : IsInjective(configs[i].models)

\* The address of a provider and its models come from one save, whatever interleaves with
\* it; only a migration between the look-up and the save of a request can part them.
OneSavePerProvider ==
  \A i \in Id : rows[i] # NoRow /\ rows[i].by # configs[i].by => i \in moved

\* A task never gets the provider of somebody else, although the provider is edited, deleted
\* or moved between the page and the insert.
OwnProviderOnly ==
  \A t \in tasks : rows[t.id] # NoRow => rows[t.id].owner = t.owner \/ t.id \in moved

\* It runs the model its user chose, or none: not one of the same name with another setting.
ChosenModelOnly == \A t \in tasks : t.model = t.choice

\* Requests of users that edit, move and delete providers, and submit tasks: models belong to
\* one save of a provider that exists, and a task has a provider of its owner.
RequestsSafe == ModelsNeedRow /\ OneSavePerProvider /\ OwnProviderOnly
=============================================================================
