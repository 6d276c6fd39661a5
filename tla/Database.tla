------------------------------ MODULE Database ------------------------------
(***************************************************************************)
(* A database as its directory of collections (database.py): creating,     *)
(* dropping and restoring collections, and what Database.open makes of the *)
(* directories that a crash or a failure leaves behind.                    *)
(*                                                                         *)
(* A collection's directory is reduced to what open() asks of it: the name *)
(* its collection.json gives, and the data of its root, segments and log.  *)
(* Either is None while it is incomplete.                                  *)
(*                                                                         *)
(* `Database._lock` is held by each operation, and restore_collection runs *)
(* while no Database is open: there is one task at a time.                 *)
(***************************************************************************)
EXTENDS Naturals

CONSTANTS Names,   \* collection names
          Data,    \* what a collection can hold
          Empty,   \* what a new collection holds
          Slots,   \* bound: the random suffixes of hidden directories
          None,
          Faults   \* the tasks and steps that may raise

ASSUME DatabaseAssumption ==
  /\ Empty \in Data
  /\ None \notin Names \cup Data
  /\ Faults \subseteq {"create", "copy", "rename", "aside", "publish", "confirm", "remove"}

Live(n) == [kind |-> "live", name |-> n]
Stage(n, s) == [kind |-> "restore", name |-> n, slot |-> s]
Backup(n, s) == [kind |-> "backup", name |-> n, slot |-> s]

Paths == [kind : {"live"}, name : Names]
           \cup [kind : {"restore", "backup"}, name : Names, slot : Slots]

Dir == [name : Names \cup {None}, data : Data \cup {None}]

NewDir == [name |-> None, data |-> None]

ASSUME NoneAssumption == None \notin Paths /\ None \notin Dir

VARIABLES
  dirs,        \* the directory at each path, or None
  served,      \* _collections: the path each open collection works in, or None
  status,      \* "open" or "closed"
  task,        \* the operation in progress
  acceptable   \* history: what clients may find in a collection, None if nothing

vars == <<dirs, served, status, task, acceptable>>

Idle == [op |-> "idle"]

NoneServed == [n \in Names |-> None]

Init ==
  /\ dirs = [p \in Paths |-> None]
  /\ served = NoneServed
  /\ status = "open"
  /\ task = Idle
  /\ acceptable = [n \in Names |-> {None}]

-----------------------------------------------------------------------------
(***************************************************************************)
(* Database.open: every directory with a collection.json, hidden or not,   *)
(* is opened, in the order of their names, and the last of those with the  *)
(* same name in it is served.  One that cannot be opened fails them all.   *)
(***************************************************************************)
HasMetadata(p) == dirs[p] # None /\ dirs[p].name # None

Opens(p) == dirs[p].data # None

Candidates(n) == {p \in Paths : HasMetadata(p) /\ dirs[p].name = n}

\* "." sorts before letters and digits, ".n-backup-" before ".n-restore-".
SortsAfter(p, q) ==
  \/ p.kind = "live"
  \/ p.kind = "restore" /\ q.kind = "backup"
  \/ p.kind = q.kind /\ q.kind # "live" /\ p.name = q.name /\ p.slot >= q.slot
  \/ q.kind # "live" /\ p.name # q.name

Served(n) ==
  IF Candidates(n) = {} THEN {None}
  ELSE {p \in Candidates(n) : \A q \in Candidates(n) : SortsAfter(p, q)}

DataAt(p) == IF p = None THEN None ELSE dirs[p].data

Open ==
  /\ status = "closed" /\ task = Idle
  /\ \A p \in Paths : HasMetadata(p) => Opens(p)
  /\ served' \in {f \in [Names -> Paths \cup {None}] : \A n \in Names : f[n] \in Served(n)}
  /\ status' = "open"
  /\ acceptable' = [n \in Names |-> {DataAt(served'[n])}]
  /\ UNCHANGED <<dirs, task>>

\* Mutant: the collections stay in the table.
NotCleared == served

Cleared == NoneServed

Close ==
  /\ status = "open" /\ task = Idle
  /\ status' = "closed"
  /\ served' = Cleared
  /\ UNCHANGED <<dirs, task, acceptable>>

\* What a crash interrupts stays as it is.
Crash ==
  /\ status' = "closed"
  /\ served' = NoneServed
  /\ task' = Idle
  /\ UNCHANGED <<dirs, acceptable>>

-----------------------------------------------------------------------------
(***************************************************************************)
(* Collections that are open: create_collection, drop_collection and, as   *)
(* one step, whatever changes what a collection holds.                     *)
(***************************************************************************)
Create(n) ==
  /\ status = "open" /\ task = Idle
  /\ served[n] = None
  /\ dirs[Live(n)] = None
  /\ dirs' = [dirs EXCEPT ![Live(n)] = NewDir]
  /\ task' = [op |-> "create", name |-> n]
  /\ UNCHANGED <<served, status, acceptable>>

\* Collection.create writes collection.json, then the log and the root.
CreateWrites ==
  /\ task.op = "create"
  /\ LET path == Live(task.name)
     IN  IF dirs[path].name = None
         THEN /\ dirs' = [dirs EXCEPT ![path].name = task.name]
              /\ UNCHANGED <<served, task, acceptable>>
         ELSE /\ dirs' = [dirs EXCEPT ![path].data = Empty]
              /\ served' = [served EXCEPT ![task.name] = path]
              /\ acceptable' = [acceptable EXCEPT ![task.name] = {Empty}]
              /\ task' = Idle
  /\ UNCHANGED status

\* Nothing is removed.
CreateRaises ==
  /\ "create" \in Faults
  /\ task.op = "create"
  /\ task' = Idle
  /\ UNCHANGED <<dirs, served, status, acceptable>>

Change(n) ==
  /\ status = "open" /\ task = Idle
  /\ served[n] # None
  /\ \E data \in Data :
       /\ dirs' = [dirs EXCEPT ![served[n]].data = data]
       /\ acceptable' = [acceptable EXCEPT ![n] = {data}]
  /\ UNCHANGED <<served, status, task>>

Drop(n) ==
  /\ status = "open" /\ task = Idle
  /\ served[n] # None
  /\ served' = [served EXCEPT ![n] = None]
  /\ acceptable' = [acceptable EXCEPT ![n] = {None}]
  /\ task' = [op |-> "remove", path |-> served[n]]
  /\ UNCHANGED <<dirs, status>>

\* rmtree: the files go in no particular order, the directory last.
Remove ==
  /\ task.op = "remove"
  /\ LET path == task.path
     IN  IF dirs[path] \in {NewDir, None} THEN dirs' = [dirs EXCEPT ![path] = None]
         ELSE \/ dirs[path].name # None /\ dirs' = [dirs EXCEPT ![path].name = None]
              \/ dirs[path].data # None /\ dirs' = [dirs EXCEPT ![path].data = None]
  /\ IF dirs'[task.path] = None THEN task' = Idle ELSE UNCHANGED task
  /\ UNCHANGED <<served, status, acceptable>>

RemoveRaises ==
  /\ "remove" \in Faults
  /\ task.op = "remove"
  /\ task' = Idle
  /\ UNCHANGED <<dirs, served, status, acceptable>>

-----------------------------------------------------------------------------
(***************************************************************************)
(* restore_collection: copy the snapshot, of a collection that had the     *)
(* name `origin`, to a stage, rename it there, move the old collection     *)
(* aside, move the stage to its place, and remove the old one.             *)
(***************************************************************************)
Restore(n, origin, data) ==
  /\ status = "closed" /\ task = Idle
  /\ \E s \in Slots :
       /\ dirs[Stage(n, s)] = None /\ dirs[Backup(n, s)] = None
       /\ dirs' = [dirs EXCEPT ![Stage(n, s)] = NewDir]
       /\ task' = [op |-> "restore", step |-> "copy", name |-> n, slot |-> s,
                   origin |-> origin, data |-> data,
                   old |-> dirs[Live(n)], before |-> acceptable[n]]
  /\ acceptable' = [acceptable EXCEPT ![n] = @ \cup {data}]
  /\ UNCHANGED <<served, status>>

At(step) == task.op = "restore" /\ task.step = step

Goto(step) == task' = [task EXCEPT !.step = step]

StagePath == Stage(task.name, task.slot)

BackupPath == Backup(task.name, task.slot)

\* copytree: the files come in no particular order.
Copy ==
  /\ At("copy")
  /\ \/ dirs[StagePath].name = None /\ dirs' = [dirs EXCEPT ![StagePath].name = task.origin]
     \/ dirs[StagePath].data = None /\ dirs' = [dirs EXCEPT ![StagePath].data = task.data]
  /\ IF dirs'[StagePath].name # None /\ dirs'[StagePath].data # None
     THEN Goto("rename") ELSE UNCHANGED task
  /\ UNCHANGED <<served, status, acceptable>>

\* collection.json is rewritten, and the stage opened and closed again.
Rename ==
  /\ At("rename")
  /\ dirs' = [dirs EXCEPT ![StagePath].name = task.name]
  /\ Goto("aside")
  /\ UNCHANGED <<served, status, acceptable>>

Moved(d, from, to) == [d EXCEPT ![to] = d[from], ![from] = None]

\* Mutant: the old collection is removed at once.
Discarded == [dirs EXCEPT ![Live(task.name)] = None]

PutAside == Moved(dirs, Live(task.name), BackupPath)

MoveAside ==
  /\ At("aside")
  /\ IF dirs[Live(task.name)] = None THEN UNCHANGED dirs ELSE dirs' = PutAside
  /\ Goto("publish")
  /\ UNCHANGED <<served, status, acceptable>>

Publish ==
  /\ At("publish")
  /\ dirs' = Moved(dirs, StagePath, Live(task.name))
  /\ Goto("confirm")
  /\ UNCHANGED <<served, status, acceptable>>

\* The directory is fsynced and the old collection, if any, removed.
Confirm ==
  /\ At("confirm")
  /\ acceptable' = [acceptable EXCEPT ![task.name] = {task.data}]
  /\ task' = IF dirs[BackupPath] = None THEN Idle
             ELSE [op |-> "remove", path |-> BackupPath]
  /\ UNCHANGED <<dirs, served, status>>

\* Mutant: the old collection is not moved back.
NotRolledBack == dirs

\* The old collection is moved back if its place is free.
RolledBack ==
  IF dirs[BackupPath] # None /\ dirs[Live(task.name)] = None
  THEN Moved(dirs, BackupPath, Live(task.name))
  ELSE dirs

\* The restore raises, and the stage is removed.
RestoreRaises ==
  /\ task.op = "restore"
  /\ task.step \in Faults
  /\ dirs' = RolledBack
  /\ task' = [op |-> "remove", path |-> StagePath]
  /\ acceptable' = IF At("confirm") THEN acceptable
                   ELSE [acceptable EXCEPT ![task.name] = task.before]
  /\ UNCHANGED <<served, status>>

-----------------------------------------------------------------------------
Next ==
  \/ Open \/ Close \/ Crash
  \/ \E n \in Names : Create(n) \/ Change(n) \/ Drop(n)
  \/ CreateWrites \/ CreateRaises \/ Remove \/ RemoveRaises
  \/ \E n, origin \in Names, data \in Data : Restore(n, origin, data)
  \/ Copy \/ Rename \/ MoveAside \/ Publish \/ Confirm \/ RestoreRaises

Spec == Init /\ [][Next]_vars

-----------------------------------------------------------------------------
Task ==
  {Idle} \cup [op : {"create"}, name : Names] \cup [op : {"remove"}, path : Paths]
    \cup [op : {"restore"}, step : {"copy", "rename", "aside", "publish", "confirm"},
          name : Names, slot : Slots, origin : Names, data : Data,
          old : Dir \cup {None}, before : SUBSET (Data \cup {None})]

\* Every variable has its type, and only collections of an open database are served.
TypeOK ==
  /\ dirs \in [Paths -> Dir \cup {None}]
  /\ served \in [Names -> Paths \cup {None}]
  /\ status \in {"open", "closed"}
  /\ task \in Task
  /\ acceptable \in [Names -> (SUBSET (Data \cup {None})) \ {{}}]
  /\ status = "closed" => served = NoneServed

-----------------------------------------------------------------------------
(***************************************************************************)
(* Safety.                                                                 *)
(***************************************************************************)
\* Wherever crashes interrupt them and whatever raises, no operation leaves a
\* collection that was not dropped without a directory that holds all of it,
\* as it was or as a restore was to make it: a restore "does not silently
\* destroy the previous collection" (database.py:147-160).
Kept ==
  \A n \in Names :
    \/ None \in acceptable[n]
    \/ \E p \in Paths : HasMetadata(p) /\ dirs[p].name = n /\ dirs[p].data \in acceptable[n]

\* A restore that raises before it published leaves the old collection in its
\* place (database.py:155-164).
RollsBack ==
  [][RestoreRaises /\ ~At("confirm") => dirs'[Live(task.name)] = task.old]_vars

\* Whatever a crash interrupted, the database can be opened again: nothing that
\* open() looks at is half there.
Reopens ==
  status = "closed" /\ task = Idle => \A p \in Paths : HasMetadata(p) => Opens(p)
=============================================================================
