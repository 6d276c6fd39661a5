--------------------------- MODULE DatabaseProofs ---------------------------
(***************************************************************************)
(* No collection is lost by an operation on the directory that is          *)
(* interrupted or fails, for any number of collections, contents and       *)
(* hidden directories left behind.                                         *)
(***************************************************************************)
EXTENDS Database, TLAPS

\* A directory holds all of a collection, with one of these contents.
Holds(p, n, contents) ==
  dirs[p] # None /\ dirs[p].name = n /\ dirs[p].data \in contents

Restoring == task.op = "restore"

\* What has to survive: until a restore has published, what the collection was.
Owed(n) ==
  IF Restoring /\ task.step # "confirm" /\ n = task.name THEN task.before ELSE acceptable[n]

\* The directory that the operation in progress may leave incomplete.
Fragile ==
  CASE task.op = "create"  -> {Live(task.name)}
    [] task.op = "remove"  -> {task.path}
    [] task.op = "restore" -> {StagePath}
    [] OTHER               -> {}

\* Every collection that was not dropped is held by a directory nothing works on.
Safe == \A n \in Names : None \in Owed(n) \/ \E p \in Paths \ Fragile : Holds(p, n, Owed(n))

\* A database that is open serves each collection from a directory that holds it.
ServesWhole ==
  status = "open" =>
    \A n \in Names :
      IF served[n] = None THEN None \in acceptable[n]
      ELSE served[n] \notin Fragile /\ Holds(served[n], n, acceptable[n])

\* A collection's own directory and its backups never carry another name.
Named ==
  \A p \in Paths :
    p.kind # "restore" /\ dirs[p] # None => dirs[p].name \in {None, p.name}

\* Collections are created in an open database and restored in a closed one.
InTurn ==
  /\ task.op = "create" => status = "open" /\ dirs[Live(task.name)] # None
  /\ Restoring => status = "closed"

\* How far a restore is.
Progress ==
  Restoring =>
    /\ task.before # {} /\ acceptable[task.name] = task.before \cup {task.data}
    /\ task.step \in {"copy", "rename", "aside"} =>
         /\ dirs[BackupPath] = None /\ dirs[StagePath] # None
         /\ dirs[Live(task.name)] = task.old
    /\ task.step = "copy" => dirs[StagePath].data \in {None, task.data}
    /\ task.step = "rename" => dirs[StagePath].data = task.data
    /\ task.step \in {"aside", "publish"} =>
         dirs[StagePath] = [name |-> task.name, data |-> task.data]
    /\ task.step = "publish" => dirs[Live(task.name)] = None /\ dirs[BackupPath] = task.old
    /\ task.step = "confirm" =>
         /\ dirs[StagePath] = None
         /\ dirs[Live(task.name)] = [name |-> task.name, data |-> task.data]

IInv == TypeOK /\ Safe /\ ServesWhole /\ Named /\ InTurn /\ Progress

-----------------------------------------------------------------------------
\* The paths are all different.
LEMMA PathsDiffer ==
  ASSUME NEW n \in Names, NEW s \in Slots
  PROVE  /\ Live(n) \in Paths /\ Stage(n, s) \in Paths /\ Backup(n, s) \in Paths
         /\ Live(n) # Stage(n, s) /\ Live(n) # Backup(n, s) /\ Stage(n, s) # Backup(n, s)
         /\ Live(n).kind = "live" /\ Live(n).name = n
         /\ Stage(n, s).kind = "restore"
         /\ Backup(n, s).kind = "backup" /\ Backup(n, s).name = n
BY DEF Live, Stage, Backup, Paths

\* A directory that is there has its type, and its parts can be changed.
LEMMA Directories ==
  /\ NewDir \in Dir /\ NewDir.name = None /\ NewDir.data = None
  /\ \A d \in Dir : d # None /\ d.name \in Names \cup {None} /\ d.data \in Data \cup {None}
  /\ \A d \in Dir, n \in Names \cup {None} :
       [d EXCEPT !.name = n] \in Dir /\ [d EXCEPT !.name = n] = [name |-> n, data |-> d.data]
  /\ \A d \in Dir, data \in Data \cup {None} :
       [d EXCEPT !.data = data] \in Dir /\ [d EXCEPT !.data = data] = [name |-> d.name, data |-> data]
  /\ \A n \in Names : n # None
  /\ \A data \in Data : data # None
BY DatabaseAssumption, NoneAssumption DEF Dir, NewDir

\* The fields of each kind of task.
LEMMA Tasks ==
  ASSUME TypeOK
  PROVE  /\ task.op \in {"idle", "create", "remove", "restore"}
         /\ task = Idle <=> task.op = "idle"
         /\ task.op = "create" => task.name \in Names
         /\ task.op = "remove" => task.path \in Paths
         /\ Restoring => /\ task.step \in {"copy", "rename", "aside", "publish", "confirm"}
                         /\ task.name \in Names /\ task.slot \in Slots /\ task.origin \in Names
                         /\ task.data \in Data /\ task.old \in Dir \cup {None}
                         /\ task.before \in SUBSET (Data \cup {None})
                         /\ task = [op |-> "restore", step |-> task.step, name |-> task.name,
                                    slot |-> task.slot, origin |-> task.origin,
                                    data |-> task.data, old |-> task.old,
                                    before |-> task.before]
BY DEF TypeOK, Task, Idle, Restoring

\* While the database is open, being served whole is being safe.
LEMMA ServedIsSafe == ASSUME TypeOK, ServesWhole, ~Restoring, status = "open" PROVE Safe
BY DEF TypeOK, ServesWhole, Safe, Owed, Restoring

LEMMA InitIsSafe == ASSUME Init PROVE IInv
<1>1. TypeOK
  BY DatabaseAssumption DEF Init, TypeOK, Task, Idle, NoneServed
<1>2. ServesWhole /\ Named /\ InTurn /\ Progress /\ ~Restoring
  BY DEF Init, Idle, NoneServed, ServesWhole, Named, InTurn, Progress, Restoring
<1>3. Safe
  BY <1>1, <1>2, ServedIsSafe DEF Init
<1> QED BY <1>1, <1>2, <1>3 DEF IInv

\* The database starts and stops.
LEMMA OpenIsSafe == ASSUME IInv, Open PROVE IInv'
<1>1. /\ status' = "open" /\ task = Idle /\ UNCHANGED <<dirs, task>> /\ ~Restoring
      /\ \A p \in Paths : HasMetadata(p) => Opens(p)
      /\ served' \in [Names -> Paths \cup {None}]
      /\ \A n \in Names : served'[n] \in Served(n)
      /\ acceptable' = [n \in Names |-> {DataAt(served'[n])}]
  BY DEF Open, Idle, Restoring
<1>2. \A n \in Names :
        IF served'[n] = None THEN acceptable'[n] = {None}
        ELSE /\ served'[n] \in Paths /\ dirs[served'[n]] # None
             /\ dirs[served'[n]].name = n /\ acceptable'[n] = {dirs[served'[n]].data}
  BY <1>1 DEF Served, Candidates, HasMetadata, DataAt
<1>3. TypeOK'
  <2>1. \A n \in Names : acceptable'[n] \in (SUBSET (Data \cup {None})) \ {{}}
    <3>1. \A p \in Paths : dirs[p] # None => dirs[p].data \in Data \cup {None}
      BY Directories DEF IInv, TypeOK
    <3> QED BY <1>2, <3>1
  <2> QED BY <1>1, <2>1 DEF IInv, TypeOK
<1>4. Fragile' = {}
  BY <1>1 DEF Fragile, Idle
<1>5. ServesWhole'
  BY <1>1, <1>2, <1>4 DEF ServesWhole, Holds
<1>6. (Named /\ InTurn /\ Progress /\ ~Restoring)'
  BY <1>1 DEF IInv, Named, InTurn, Progress, Restoring, Idle
<1>7. Safe'
  BY <1>1, <1>3, <1>5, <1>6, ServedIsSafe DEF TypeOK, ServesWhole, Safe, Owed, Restoring
<1> QED BY <1>3, <1>5, <1>6, <1>7 DEF IInv

\* A crash can come at any time.
LEMMA StopIsSafe == ASSUME IInv, Close \/ Crash PROVE IInv'
<1>1. /\ status' = "closed" /\ served' = NoneServed /\ task' = Idle
      /\ UNCHANGED <<dirs, acceptable>>
  BY DEF Close, Crash, Cleared
<1>2. TypeOK'
  BY <1>1 DEF IInv, TypeOK, NoneServed, Task
<1>3. (ServesWhole /\ Named /\ InTurn /\ Progress)'
  BY <1>1 DEF IInv, ServesWhole, Named, InTurn, Progress, Restoring, Idle
<1>4. Safe'
  <2>1. \A n \in Names : Owed(n)' = acceptable[n] /\ Fragile' = {}
    BY <1>1 DEF Owed, Fragile, Idle, Restoring
  <2>2. \A n \in Names : Owed(n) \subseteq acceptable[n]
    BY DEF IInv, Owed, Progress
  <2> QED BY <1>1, <2>1, <2>2 DEF IInv, Safe, Holds
<1> QED BY <1>2, <1>3, <1>4 DEF IInv

-----------------------------------------------------------------------------
\* A step that changes one directory, keeps what has to survive where it is, and goes
\* on to work on that directory or to idle.
LEMMA OneDirectory ==
  ASSUME IInv, NEW p \in Paths, p \in Fragile,
         \A q \in Paths \ {p} : dirs'[q] = dirs[q],
         ~Restoring, ~Restoring', UNCHANGED <<served, status, acceptable>>,
         Fragile' \subseteq {p}
  PROVE  (Safe /\ ServesWhole)'
<1>1. \A n \in Names : Owed(n) = acceptable[n] /\ Owed(n)' = acceptable[n]
  BY DEF Owed
<1>2. Fragile = {p}
  BY DEF Fragile, Restoring
<1>3. Safe'
  <2> SUFFICES ASSUME NEW n \in Names, None \notin acceptable[n]
               PROVE  \E q \in Paths \ Fragile' : Holds(q, n, acceptable[n])'
    BY <1>1 DEF Safe
  <2>1. PICK q \in Paths \ {p} : Holds(q, n, acceptable[n])
    BY <1>1, <1>2 DEF IInv, Safe
  <2>2. Holds(q, n, acceptable[n])' /\ q \notin Fragile'
    BY <2>1 DEF Holds
  <2> QED BY <2>2
<1>4. ServesWhole'
  <2> SUFFICES ASSUME status = "open", NEW n \in Names
               PROVE  IF served[n] = None THEN None \in acceptable[n]
                      ELSE served[n] \notin Fragile' /\ Holds(served[n], n, acceptable[n])'
    BY DEF ServesWhole
  <2>1. IF served[n] = None THEN None \in acceptable[n]
        ELSE served[n] \in Paths \ {p} /\ Holds(served[n], n, acceptable[n])
    BY <1>2 DEF IInv, TypeOK, ServesWhole
  <2> QED BY <2>1 DEF Holds
<1> QED BY <1>3, <1>4

LEMMA CreateIsSafe == ASSUME IInv, NEW n \in Names, Create(n) PROVE IInv'
<1>1. /\ status = "open" /\ task = Idle /\ served[n] = None /\ dirs[Live(n)] = None
      /\ dirs' = [dirs EXCEPT ![Live(n)] = NewDir]
      /\ task' = [op |-> "create", name |-> n] /\ UNCHANGED <<served, status, acceptable>>
  BY DEF Create
<1>2. /\ Live(n) \in Paths /\ Live(n).kind # "restore"
      /\ dirs'[Live(n)] = NewDir /\ \A p \in Paths \ {Live(n)} : dirs'[p] = dirs[p]
      /\ Live(n) \in Paths
  BY <1>1 DEF IInv, TypeOK, Live, Paths
<1>3. TypeOK'
  BY <1>1, <1>2, Directories DEF IInv, TypeOK, Task
<1>4. Fragile' = {Live(n)} /\ ~Restoring' /\ ~Restoring
  BY <1>1 DEF Fragile, Restoring, Idle
<1>5. ServesWhole'
  <2> SUFFICES ASSUME NEW m \in Names
               PROVE  IF served[m] = None THEN None \in acceptable[m]
                      ELSE served[m] # Live(n) /\ Holds(served[m], m, acceptable[m])'
    BY <1>1, <1>4 DEF ServesWhole
  <2>1. IF served[m] = None THEN None \in acceptable[m]
        ELSE served[m] \in Paths /\ Holds(served[m], m, acceptable[m])
    BY <1>1 DEF IInv, TypeOK, ServesWhole
  <2> QED BY <1>1, <1>2, <2>1 DEF Holds
<1>6. Named'
  BY <1>2, Directories DEF IInv, Named
<1>7. (InTurn /\ Progress)'
  BY <1>1, <1>2, <1>4, Directories DEF InTurn, Progress
<1>8. Safe'
  BY <1>1, <1>3, <1>4, <1>5, ServedIsSafe DEF TypeOK, ServesWhole, Safe, Owed, Restoring
<1> QED BY <1>3, <1>5, <1>6, <1>7, <1>8 DEF IInv

LEMMA CreateWritesIsSafe == ASSUME IInv, CreateWrites PROVE IInv'
<1> DEFINE n == task.name
<1> DEFINE path == Live(n)
<1>1. /\ task.op = "create" /\ n \in Names /\ path \in Paths /\ status = "open"
      /\ path.kind = "live" /\ path.name = n
      /\ dirs[path] \in Dir /\ dirs[path].name \in {None, n} /\ ~Restoring /\ UNCHANGED status
  <2>1. task.op = "create" /\ n \in Names /\ UNCHANGED status /\ ~Restoring
    BY Tasks DEF CreateWrites, IInv, Restoring
  <2>2. path \in Paths /\ path.kind = "live" /\ path.name = n
    BY <2>1 DEF Live, Paths
  <2>3. status = "open" /\ dirs[path] # None
    BY <2>1 DEF IInv, InTurn
  <2> QED BY <2>1, <2>2, <2>3 DEF IInv, TypeOK, Named
<1>2. Fragile = {path}
  BY <1>1 DEF Fragile
<1>3. CASE dirs[path].name = None
  <2>1. /\ dirs' = [dirs EXCEPT ![path].name = n] /\ UNCHANGED <<served, task, acceptable>>
    BY <1>3 DEF CreateWrites
  <2>2. /\ dirs'[path] = [dirs[path] EXCEPT !.name = n]
        /\ \A p \in Paths \ {path} : dirs'[p] = dirs[p] /\ dirs' \in [Paths -> Dir \cup {None}]
    BY <1>1, <2>1, Directories DEF IInv, TypeOK
  <2>3. dirs'[path] \in Dir /\ dirs'[path].name = n /\ dirs'[path] # None
    <3>1. /\ [dirs[path] EXCEPT !.name = n] \in Dir
          /\ [dirs[path] EXCEPT !.name = n] = [name |-> n, data |-> dirs[path].data]
      BY <1>1, Directories
    <3> QED BY <2>2, <3>1, Directories
  <2>4. TypeOK'
    BY <1>1, <2>1, <2>2, <2>3 DEF IInv, TypeOK
  <2>5. (Safe /\ ServesWhole)'
    <3>1. Fragile' = {path} /\ ~Restoring'
      BY <1>1, <2>1 DEF Fragile, Restoring
    <3> QED BY <1>1, <1>2, <2>1, <2>2, <3>1, OneDirectory
  <2>6. (Named /\ InTurn /\ Progress)'
    BY <1>1, <2>1, <2>2, <2>3 DEF IInv, Named, InTurn, Progress, Restoring
  <2> QED BY <2>4, <2>5, <2>6 DEF IInv
<1>4. CASE dirs[path].name # None
  <2>1. /\ dirs' = [dirs EXCEPT ![path].data = Empty]
        /\ served' = [served EXCEPT ![n] = path]
        /\ acceptable' = [acceptable EXCEPT ![n] = {Empty}] /\ task' = Idle
    BY <1>4 DEF CreateWrites
  <2>2. Empty \in Data
    BY DatabaseAssumption
  <2>3. /\ dirs'[path] = [name |-> n, data |-> Empty] /\ dirs'[path] \in Dir
        /\ \A p \in Paths \ {path} : dirs'[p] = dirs[p]
        /\ dirs' \in [Paths -> Dir \cup {None}]
    BY <1>1, <1>4, <2>1, <2>2, Directories DEF IInv, TypeOK
  <2>4. dirs'[path] # None
    BY <2>3, Directories
  <2>5. /\ served' \in [Names -> Paths \cup {None}]
        /\ acceptable' \in [Names -> (SUBSET (Data \cup {None})) \ {{}}]
    BY <1>1, <2>1, <2>2 DEF IInv, TypeOK
  <2>6. TypeOK'
    BY <1>1, <2>1, <2>3, <2>5 DEF IInv, TypeOK, Task
  <2>7. Fragile' = {} /\ ~Restoring'
    BY <2>1 DEF Fragile, Idle, Restoring
  <2>8. ServesWhole'
    <3> SUFFICES ASSUME NEW m \in Names
                 PROVE  IF served'[m] = None THEN None \in acceptable'[m]
                        ELSE Holds(served[m], m, acceptable[m])'
      BY <2>7 DEF ServesWhole
    <3>1. CASE m = n
      <4>1. served'[m] = path /\ acceptable'[m] = {Empty} /\ path # None
        BY <1>1, <2>1, <3>1, NoneAssumption DEF IInv, TypeOK
      <4> QED BY <2>3, <2>4, <3>1, <4>1 DEF Holds
    <3>2. CASE m # n
      <4>1. served'[m] = served[m] /\ acceptable'[m] = acceptable[m]
        BY <2>1, <3>2 DEF IInv, TypeOK
      <4>2. IF served[m] = None THEN None \in acceptable[m]
            ELSE served[m] \in Paths \ {path} /\ Holds(served[m], m, acceptable[m])
        BY <1>1, <1>2 DEF IInv, TypeOK, ServesWhole
      <4> QED BY <2>3, <4>1, <4>2 DEF Holds
    <3> QED BY <3>1, <3>2
  <2>9. Safe'
    BY <1>1, <2>6, <2>7, <2>8, ServedIsSafe DEF TypeOK, ServesWhole, Safe, Owed, Restoring
  <2>10. (Named /\ InTurn /\ Progress)'
    BY <1>1, <2>1, <2>3, <2>7 DEF IInv, Named, InTurn, Progress, Restoring, Idle
  <2> QED BY <2>6, <2>8, <2>9, <2>10 DEF IInv
<1> QED BY <1>3, <1>4

\* A task that gives up leaves everything where it is.
LEMMA GivesUpIsSafe == ASSUME IInv, CreateRaises \/ RemoveRaises PROVE IInv'
<1>1. /\ task.op \in {"create", "remove"} /\ ~Restoring /\ task' = Idle
      /\ UNCHANGED <<dirs, served, status, acceptable>>
  BY DEF CreateRaises, RemoveRaises, Restoring
<1>2. ~Restoring' /\ Fragile' = {}
  BY <1>1 DEF Restoring, Fragile, Idle
<1>3. TypeOK'
  BY <1>1 DEF IInv, TypeOK, Task
<1>4. Safe'
  <2>1. \A n \in Names : Owed(n) = acceptable[n] /\ Owed(n)' = acceptable[n]
    BY <1>1, <1>2 DEF Owed
  <2> QED BY <1>1, <1>2, <2>1 DEF IInv, Safe, Holds
<1>5. ServesWhole'
  BY <1>1, <1>2 DEF IInv, ServesWhole, Holds
<1>6. (Named /\ InTurn /\ Progress)'
  BY <1>1, <1>2 DEF IInv, Named, InTurn, Progress, Idle
<1> QED BY <1>3, <1>4, <1>5, <1>6 DEF IInv

LEMMA ChangeIsSafe == ASSUME IInv, NEW n \in Names, Change(n) PROVE IInv'
<1>1. PICK data \in Data :
        /\ dirs' = [dirs EXCEPT ![served[n]].data = data]
        /\ acceptable' = [acceptable EXCEPT ![n] = {data}]
  BY DEF Change
<1>2. /\ status = "open" /\ task = Idle /\ served[n] # None
      /\ UNCHANGED <<served, status, task>> /\ ~Restoring /\ ~Restoring'
      /\ Fragile = {} /\ Fragile' = {}
  BY DEF Change, Idle, Restoring, Fragile
<1> DEFINE path == served[n]
<1>3. path \in Paths /\ dirs[path] \in Dir /\ dirs[path].name = n
  BY <1>2 DEF IInv, TypeOK, ServesWhole, Holds
<1>4. /\ dirs'[path] = [name |-> n, data |-> data] /\ dirs'[path] \in Dir /\ dirs'[path] # None
      /\ \A p \in Paths \ {path} : dirs'[p] = dirs[p]
      /\ dirs' \in [Paths -> Dir \cup {None}]
  <2>1. /\ [dirs[path] EXCEPT !.data = data] \in Dir
        /\ [dirs[path] EXCEPT !.data = data] = [name |-> n, data |-> data]
    BY <1>3, Directories
  <2>2. /\ dirs'[path] = [dirs[path] EXCEPT !.data = data]
        /\ \A p \in Paths \ {path} : dirs'[p] = dirs[p] /\ DOMAIN dirs' = Paths
    BY <1>1, <1>3 DEF IInv, TypeOK
  <2>3. \A p \in Paths : dirs'[p] \in Dir \cup {None}
    BY <1>3, <2>1, <2>2 DEF IInv, TypeOK
  <2>4. dirs' = [p \in Paths |-> dirs'[p]]
    BY <1>1 DEF IInv, TypeOK
  <2> QED BY <2>1, <2>2, <2>3, <2>4, Directories
<1>5. TypeOK'
  <2>1. acceptable' \in [Names -> (SUBSET (Data \cup {None})) \ {{}}]
    BY <1>1 DEF IInv, TypeOK
  <2> QED BY <1>2, <1>4, <2>1 DEF IInv, TypeOK
<1>6. ServesWhole'
  <2> SUFFICES ASSUME NEW m \in Names
               PROVE  IF served[m] = None THEN None \in acceptable'[m]
                      ELSE Holds(served[m], m, acceptable[m])'
    BY <1>2 DEF ServesWhole
  <2>1. CASE m = n
    <3>1. acceptable'[m] = {data} /\ served[m] = path
      BY <1>1, <2>1 DEF IInv, TypeOK
    <3> QED BY <1>2, <1>4, <2>1, <3>1 DEF Holds
  <2>2. CASE m # n
    <3>1. acceptable'[m] = acceptable[m]
      BY <1>1, <2>2 DEF IInv, TypeOK
    <3>2. IF served[m] = None THEN None \in acceptable[m]
          ELSE served[m] \in Paths \ {path} /\ Holds(served[m], m, acceptable[m])
      BY <1>2, <1>3, <2>2 DEF IInv, TypeOK, ServesWhole, Holds
    <3> QED BY <1>2, <1>4, <3>1, <3>2 DEF Holds
  <2> QED BY <2>1, <2>2
<1>7. Safe'
  BY <1>2, <1>5, <1>6, ServedIsSafe DEF TypeOK, ServesWhole, Safe, Owed, Restoring
<1>8. Named'
  <2>1. dirs[path] # None /\ dirs'[path].name = dirs[path].name
    BY <1>3, <1>4, Directories
  <2> QED BY <1>4, <2>1 DEF IInv, Named
<1>9. (InTurn /\ Progress)'
  BY <1>2 DEF InTurn, Progress, Idle
<1> QED BY <1>5, <1>6, <1>7, <1>8, <1>9 DEF IInv

LEMMA DropIsSafe == ASSUME IInv, NEW n \in Names, Drop(n) PROVE IInv'
<1>1. /\ status = "open" /\ task = Idle /\ served[n] # None
      /\ served' = [served EXCEPT ![n] = None]
      /\ acceptable' = [acceptable EXCEPT ![n] = {None}]
      /\ task' = [op |-> "remove", path |-> served[n]] /\ UNCHANGED <<dirs, status>>
      /\ ~Restoring
  BY DEF Drop, Idle, Restoring
<1>2. /\ served[n] \in Paths /\ dirs[served[n]].name = n
      /\ ~Restoring' /\ Fragile' = {served[n]}
  BY <1>1 DEF IInv, TypeOK, ServesWhole, Holds, Restoring, Fragile
<1>3. TypeOK'
  <2>1. /\ acceptable' \in [Names -> (SUBSET (Data \cup {None})) \ {{}}]
        /\ served' \in [Names -> Paths \cup {None}] /\ task' \in Task
    BY <1>1, <1>2 DEF IInv, TypeOK, Task
  <2> QED BY <1>1, <2>1 DEF IInv, TypeOK
<1>4. ServesWhole'
  <2> SUFFICES ASSUME NEW m \in Names
               PROVE  IF served'[m] = None THEN None \in acceptable'[m]
                      ELSE served'[m] # served[n] /\ Holds(served[m], m, acceptable[m])'
    BY <1>2 DEF ServesWhole
  <2>1. CASE m = n
    BY <1>1, <2>1 DEF IInv, TypeOK
  <2>2. CASE m # n
    <3>1. served'[m] = served[m] /\ acceptable'[m] = acceptable[m]
      BY <1>1, <2>2 DEF IInv, TypeOK
    <3>2. IF served[m] = None THEN None \in acceptable[m] ELSE Holds(served[m], m, acceptable[m])
      BY <1>1 DEF IInv, ServesWhole
    <3> QED BY <1>1, <1>2, <2>2, <3>1, <3>2 DEF Holds
  <2> QED BY <2>1, <2>2
<1>5. Safe'
  BY <1>1, <1>2, <1>3, <1>4, ServedIsSafe DEF TypeOK, ServesWhole, Safe, Owed, Restoring
<1>6. (Named /\ InTurn /\ Progress)'
  BY <1>1, <1>2 DEF IInv, Named, InTurn, Progress
<1> QED BY <1>3, <1>4, <1>5, <1>6 DEF IInv

\* Removing a directory file by file touches nothing else.
LEMMA RemoveIsSafe == ASSUME IInv, Remove PROVE IInv'
<1> DEFINE path == task.path
<1>1. /\ task.op = "remove" /\ path \in Paths /\ ~Restoring
      /\ UNCHANGED <<served, status, acceptable>> /\ Fragile = {path}
      /\ dirs[path] \in Dir \cup {None}
  BY Tasks DEF Remove, IInv, TypeOK, Restoring, Fragile
<1>2. \E d \in Dir \cup {None} :
        /\ dirs' = [dirs EXCEPT ![path] = d]
        /\ d # None => dirs[path] # None /\ d.name \in {None, dirs[path].name}
  <2>1. CASE dirs[path] \in {NewDir, None}
    BY <2>1 DEF Remove
  <2>2. CASE dirs[path] \notin {NewDir, None}
    <3>1. \/ dirs' = [dirs EXCEPT ![path].name = None]
          \/ dirs' = [dirs EXCEPT ![path].data = None]
      BY <2>2 DEF Remove
    <3>2. \/ dirs' = [dirs EXCEPT ![path] = [dirs[path] EXCEPT !.name = None]]
          \/ dirs' = [dirs EXCEPT ![path] = [dirs[path] EXCEPT !.data = None]]
      BY <3>1
    <3>3. /\ [dirs[path] EXCEPT !.name = None] \in Dir /\ [dirs[path] EXCEPT !.data = None] \in Dir
          /\ [dirs[path] EXCEPT !.name = None].name = None
          /\ [dirs[path] EXCEPT !.data = None].name = dirs[path].name
      <4> DEFINE d == dirs[path]
      <4>1. d \in Dir
        BY <1>1, <2>2
      <4> HIDE DEF d
      <4>2. /\ [d EXCEPT !.name = None] \in Dir /\ [d EXCEPT !.data = None] \in Dir
            /\ [d EXCEPT !.name = None].name = None /\ [d EXCEPT !.data = None].name = d.name
        BY <4>1 DEF Dir
      <4> QED BY <4>2 DEF d
    <3> QED BY <2>2, <3>2, <3>3
  <2> QED BY <2>1, <2>2
<1>3. /\ dirs' \in [Paths -> Dir \cup {None}]
      /\ \A p \in Paths \ {path} : dirs'[p] = dirs[p]
      /\ dirs'[path] # None => dirs[path] # None /\ dirs'[path].name \in {None, dirs[path].name}
  BY <1>1, <1>2 DEF IInv, TypeOK
<1>4. task' = Idle \/ task' = task
  BY DEF Remove
<1>5. Fragile' \subseteq {path} /\ ~Restoring' /\ task'.op \notin {"create", "restore"}
  BY <1>1, <1>4 DEF Fragile, Restoring, Idle
<1>6. TypeOK'
  BY <1>1, <1>3, <1>4 DEF IInv, TypeOK, Task
<1>7. (Safe /\ ServesWhole)'
  BY <1>1, <1>3, <1>5, OneDirectory
<1>8. (Named /\ InTurn /\ Progress)'
  BY <1>1, <1>3, <1>5 DEF IInv, Named, InTurn, Progress, Restoring
<1> QED BY <1>6, <1>7, <1>8 DEF IInv

-----------------------------------------------------------------------------
LEMMA RestoreIsSafe ==
  ASSUME IInv, NEW n \in Names, NEW origin \in Names, NEW data \in Data,
         Restore(n, origin, data)
  PROVE  IInv'
<1>1. PICK s \in Slots :
        /\ dirs[Stage(n, s)] = None /\ dirs[Backup(n, s)] = None
        /\ dirs' = [dirs EXCEPT ![Stage(n, s)] = NewDir]
        /\ task' = [op |-> "restore", step |-> "copy", name |-> n, slot |-> s,
                    origin |-> origin, data |-> data,
                    old |-> dirs[Live(n)], before |-> acceptable[n]]
  BY DEF Restore
<1>2. /\ status = "closed" /\ task = Idle /\ UNCHANGED <<served, status>>
      /\ acceptable' = [acceptable EXCEPT ![n] = acceptable[n] \cup {data}]
  BY DEF Restore
<1>3. /\ ~Restoring /\ Restoring' /\ task'.name = n /\ task'.step = "copy" /\ task'.op = "restore"
      /\ task'.slot = s /\ task'.data = data /\ task'.before = acceptable[n]
      /\ task'.old = dirs[Live(n)] /\ Fragile = {}
  BY <1>1, <1>2 DEF Restoring, Idle, Fragile
<1>4. /\ StagePath' = Stage(n, s) /\ BackupPath' = Backup(n, s) /\ Fragile' = {Stage(n, s)}
  BY <1>3 DEF StagePath, BackupPath, Fragile
<1>5. /\ dirs'[Stage(n, s)] = NewDir /\ dirs' \in [Paths -> Dir \cup {None}]
      /\ \A p \in Paths \ {Stage(n, s)} : dirs'[p] = dirs[p]
  BY <1>1, PathsDiffer, Directories DEF IInv, TypeOK
<1>6. /\ acceptable' \in [Names -> (SUBSET (Data \cup {None})) \ {{}}]
      /\ acceptable'[n] = acceptable[n] \cup {data}
      /\ \A m \in Names \ {n} : acceptable'[m] = acceptable[m]
      /\ acceptable[n] \in (SUBSET (Data \cup {None})) \ {{}}
  BY <1>2 DEF IInv, TypeOK
<1>7. task' \in Task
  <2>1. dirs[Live(n)] \in Dir \cup {None}
    BY PathsDiffer DEF IInv, TypeOK
  <2> QED BY <1>1, <1>6, <2>1 DEF Task
<1>8. TypeOK'
  BY <1>2, <1>5, <1>6, <1>7 DEF IInv, TypeOK
<1>9. Safe'
  <2>1. \A m \in Names : Owed(m)' = acceptable[m] /\ Owed(m) = acceptable[m]
    BY <1>3, <1>6 DEF Owed
  <2> SUFFICES ASSUME NEW m \in Names, None \notin acceptable[m]
               PROVE  \E p \in Paths \ {Stage(n, s)} :
                        dirs'[p] # None /\ dirs'[p].name = m /\ dirs'[p].data \in acceptable[m]
    BY <1>4, <2>1 DEF Safe, Holds
  <2>2. PICK p \in Paths : Holds(p, m, acceptable[m])
    BY <2>1 DEF IInv, Safe
  <2>3. p # Stage(n, s)
    BY <1>1, <2>2 DEF Holds
  <2> QED BY <1>5, <2>2, <2>3 DEF Holds
<1>10. ServesWhole'
  BY <1>2 DEF ServesWhole
<1>11. Named'
  BY <1>5, PathsDiffer DEF IInv, Named
<1>12. InTurn'
  BY <1>2, <1>3 DEF InTurn
<1>13. Progress'
  <2>1. /\ dirs'[Backup(n, s)] = None /\ dirs'[Live(n)] = dirs[Live(n)]
    BY <1>1, <1>5, PathsDiffer
  <2>2. dirs'[Stage(n, s)] # None /\ dirs'[Stage(n, s)].data = None
    BY <1>5, Directories
  <2> QED BY <1>3, <1>4, <1>6, <2>1, <2>2 DEF Progress
<1> QED BY <1>8, <1>9, <1>10, <1>11, <1>12, <1>13 DEF IInv

\* What a restore works on.
LEMMA Restores ==
  ASSUME IInv, Restoring
  PROVE  /\ task.op = "restore" /\ task.name \in Names /\ task.slot \in Slots /\ task.data \in Data
         /\ Live(task.name) \in Paths /\ StagePath \in Paths /\ BackupPath \in Paths
         /\ Live(task.name) # StagePath /\ Live(task.name) # BackupPath /\ StagePath # BackupPath
         /\ Live(task.name).kind # "restore" /\ StagePath.kind = "restore"
         /\ BackupPath.kind # "restore"
         /\ Live(task.name).name = task.name /\ BackupPath.name = task.name
         /\ Fragile = {StagePath} /\ status = "closed"
         /\ dirs \in [Paths -> Dir \cup {None}]
         /\ dirs[StagePath] \in Dir \cup {None} /\ dirs[Live(task.name)] \in Dir \cup {None}
         /\ task.before \in (SUBSET (Data \cup {None})) \ {{}}
         /\ [name |-> task.name, data |-> task.data] \in Dir
<1>1. /\ task.op = "restore" /\ task.name \in Names /\ task.slot \in Slots /\ task.data \in Data
      /\ task.before \in (SUBSET (Data \cup {None})) \ {{}}
  BY Tasks DEF IInv, Restoring, Progress
<1>2. Fragile = {StagePath} /\ status = "closed" /\ dirs \in [Paths -> Dir \cup {None}]
  BY <1>1 DEF Fragile, IInv, InTurn, Restoring, TypeOK
<1>3. [name |-> task.name, data |-> task.data] \in Dir
  BY <1>1 DEF Dir
<1> QED BY <1>1, <1>2, <1>3, PathsDiffer DEF StagePath, BackupPath

\* Going on to the next step of a restore.
LEMMA RestoreGoesOn ==
  ASSUME IInv, Restoring, NEW step \in {"rename", "aside", "publish", "confirm"},
         Goto(step) \/ (UNCHANGED task /\ step = task.step)
  PROVE  /\ Restoring' /\ task'.op = "restore" /\ task' \in Task /\ task'.step = step
         /\ task'.name = task.name /\ task'.data = task.data /\ task'.origin = task.origin
         /\ task'.old = task.old /\ task'.before = task.before
         /\ StagePath' = StagePath /\ BackupPath' = BackupPath
         /\ Fragile' = {StagePath} /\ Live(task.name)' = Live(task.name)
<1>1. task \in [op : {"restore"}, step : {"copy", "rename", "aside", "publish", "confirm"},
                name : Names, slot : Slots, origin : Names, data : Data,
                old : Dir \cup {None}, before : SUBSET (Data \cup {None})]
  BY Tasks DEF IInv, Restoring
<1>2. /\ task'.op = "restore" /\ task' \in Task /\ task'.step = step
      /\ task'.name = task.name /\ task'.data = task.data /\ task'.origin = task.origin
      /\ task'.old = task.old /\ task'.before = task.before /\ task'.slot = task.slot
  BY <1>1 DEF Goto, Task
<1> QED BY <1>2 DEF Restoring, StagePath, BackupPath, Fragile

\* A collection stays safe if the directories outside the stage are at most moved.
LEMMA StaysSafe ==
  ASSUME IInv, Restoring, NEW n \in Names, Owed(n)' = Owed(n),
         \A p \in Paths \ {StagePath} :
           dirs[p] # None => \E q \in Paths \ Fragile' : dirs'[q] = dirs[p]
  PROVE  None \in Owed(n)' \/ \E q \in Paths \ Fragile' : Holds(q, n, Owed(n))'
<1> SUFFICES ASSUME None \notin Owed(n)
             PROVE  \E q \in Paths \ Fragile' :
                      dirs'[q] # None /\ dirs'[q].name = n /\ dirs'[q].data \in Owed(n)
  BY DEF Holds
<1>1. PICK p \in Paths \ {StagePath} : Holds(p, n, Owed(n))
  BY Restores DEF IInv, Safe
<1> QED BY <1>1 DEF Holds

LEMMA CopyIsSafe == ASSUME IInv, Copy PROVE IInv'
<1>1. /\ Restoring /\ task.step = "copy" /\ UNCHANGED <<served, status, acceptable>>
      /\ dirs[StagePath] \in Dir /\ dirs[StagePath].data \in {None, task.data}
      /\ task.origin \in Names
  BY Restores, Tasks DEF Copy, At, Restoring, IInv, Progress
<1> DEFINE d == dirs[StagePath]
<1>2. \E e \in Dir : /\ dirs' = [dirs EXCEPT ![StagePath] = e]
                     /\ e.data \in {None, task.data}
  <2>1. \/ dirs' = [dirs EXCEPT ![StagePath] = [d EXCEPT !.name = task.origin]]
        \/ dirs' = [dirs EXCEPT ![StagePath] = [d EXCEPT !.data = task.data]]
    BY DEF Copy
  <2>2. d \in Dir /\ d.data \in {None, task.data}
    BY <1>1
  <2> HIDE DEF d
  <2>3. /\ [d EXCEPT !.name = task.origin] \in Dir /\ [d EXCEPT !.name = task.origin].data = d.data
        /\ [d EXCEPT !.data = task.data] \in Dir /\ [d EXCEPT !.data = task.data].data = task.data
    BY <1>1, <2>2, Restores DEF Dir
  <2> QED BY <2>1, <2>2, <2>3
<1>3. /\ dirs' \in [Paths -> Dir \cup {None}] /\ dirs'[StagePath] \in Dir
      /\ dirs'[StagePath].data \in {None, task.data}
      /\ \A p \in Paths \ {StagePath} : dirs'[p] = dirs[p]
  BY <1>1, <1>2, Restores
<1>4. \/ Goto("rename") /\ dirs'[StagePath].data # None
      \/ UNCHANGED task
  BY DEF Copy
<1>5. /\ Restoring' /\ task' \in Task /\ task'.op = "restore" /\ task'.name = task.name
      /\ task'.data = task.data /\ task'.old = task.old /\ task'.before = task.before
      /\ StagePath' = StagePath /\ BackupPath' = BackupPath /\ Fragile' = {StagePath}
      /\ \/ task'.step = "copy"
         \/ task'.step = "rename" /\ dirs'[StagePath].data # None
  <2>1. CASE Goto("rename") /\ dirs'[StagePath].data # None
    BY <1>1, <2>1, RestoreGoesOn
  <2>2. CASE UNCHANGED task
    BY <1>1, <2>2, Restores DEF Restoring, StagePath, BackupPath, Fragile, IInv, TypeOK
  <2> QED BY <1>4, <2>1, <2>2
<1>6. TypeOK'
  BY <1>1, <1>3, <1>5 DEF IInv, TypeOK
<1>7. Safe'
  <2>1. \A n \in Names : Owed(n)' = Owed(n)
    BY <1>1, <1>5 DEF Owed
  <2>2. \A p \in Paths \ {StagePath} :
          dirs[p] # None => \E q \in Paths \ Fragile' : dirs'[q] = dirs[p]
    BY <1>3, <1>5
  <2>3. \A n \in Names : None \in Owed(n)' \/ \E q \in Paths \ Fragile' : Holds(q, n, Owed(n))'
    BY <1>1, <2>1, <2>2, StaysSafe
  <2> QED BY <2>3 DEF Safe
<1>8. (ServesWhole /\ InTurn)'
  BY <1>1, <1>5, Restores DEF ServesWhole, InTurn
<1>9. Named'
  BY <1>1, <1>3, Restores DEF IInv, Named
<1>10. Progress'
  <2>1. dirs'[BackupPath] = dirs[BackupPath] /\ dirs'[Live(task.name)] = dirs[Live(task.name)]
    BY <1>1, <1>3, Restores
  <2>2. /\ task.before # {} /\ acceptable[task.name] = task.before \cup {task.data}
        /\ dirs[BackupPath] = None /\ dirs[Live(task.name)] = task.old
    BY <1>1 DEF IInv, Progress
  <2> QED BY <1>1, <1>3, <1>5, <2>1, <2>2, Directories DEF Progress
<1> QED BY <1>6, <1>7, <1>8, <1>9, <1>10 DEF IInv

LEMMA RenameIsSafe == ASSUME IInv, Rename PROVE IInv'
<1>1. /\ Restoring /\ task.step = "rename" /\ UNCHANGED <<served, status, acceptable>>
      /\ Goto("aside") /\ dirs' = [dirs EXCEPT ![StagePath].name = task.name]
      /\ dirs[StagePath] \in Dir /\ dirs[StagePath].data = task.data
  BY Restores DEF Rename, At, Restoring, IInv, Progress
<1>2. /\ dirs' \in [Paths -> Dir \cup {None}]
      /\ dirs'[StagePath] = [name |-> task.name, data |-> task.data]
      /\ \A p \in Paths \ {StagePath} : dirs'[p] = dirs[p]
  <2> DEFINE d == dirs[StagePath]
  <2>1. d \in Dir /\ d.data = task.data /\ dirs' = [dirs EXCEPT ![StagePath] = [d EXCEPT !.name = task.name]]
    BY <1>1
  <2>2. [d EXCEPT !.name = task.name] = [name |-> task.name, data |-> task.data]
    <3> HIDE DEF d
    <3> QED BY <1>1, <2>1, Restores DEF Dir
  <2> QED BY <1>1, <2>1, <2>2, Restores
<1>3. /\ Restoring' /\ task' \in Task /\ task'.op = "restore" /\ task'.name = task.name
      /\ task'.data = task.data /\ task'.old = task.old /\ task'.before = task.before
      /\ StagePath' = StagePath /\ BackupPath' = BackupPath /\ Fragile' = {StagePath}
      /\ task'.step = "aside"
  BY <1>1, RestoreGoesOn
<1>4. TypeOK'
  BY <1>1, <1>2, <1>3 DEF IInv, TypeOK
<1>5. Safe'
  <2>1. \A n \in Names : Owed(n)' = Owed(n)
    BY <1>1, <1>3 DEF Owed
  <2>2. \A p \in Paths \ {StagePath} :
          dirs[p] # None => \E q \in Paths \ Fragile' : dirs'[q] = dirs[p]
    BY <1>2, <1>3
  <2>3. \A n \in Names : None \in Owed(n)' \/ \E q \in Paths \ Fragile' : Holds(q, n, Owed(n))'
    BY <1>1, <2>1, <2>2, StaysSafe
  <2> QED BY <2>3 DEF Safe
<1>6. (ServesWhole /\ InTurn)'
  BY <1>1, <1>3, Restores DEF ServesWhole, InTurn
<1>7. Named'
  BY <1>1, <1>2, Restores DEF IInv, Named
<1>8. Progress'
  <2>1. dirs'[BackupPath] = dirs[BackupPath] /\ dirs'[Live(task.name)] = dirs[Live(task.name)]
    BY <1>1, <1>2, Restores
  <2>2. /\ task.before # {} /\ acceptable[task.name] = task.before \cup {task.data}
        /\ dirs[BackupPath] = None /\ dirs[Live(task.name)] = task.old
    BY <1>1 DEF IInv, Progress
  <2>3. dirs'[StagePath] # None
    BY <1>1, <1>2, Restores, Directories
  <2> QED BY <1>1, <1>2, <1>3, <2>1, <2>2, <2>3 DEF Progress
<1> QED BY <1>4, <1>5, <1>6, <1>7, <1>8 DEF IInv

\* What a rename of one directory to the place of another does.
LEMMA Moving ==
  ASSUME IInv, NEW from \in Paths, NEW to \in Paths, from # to, dirs' = Moved(dirs, from, to)
  PROVE  /\ dirs' \in [Paths -> Dir \cup {None}]
         /\ dirs'[to] = dirs[from] /\ dirs'[from] = None
         /\ \A p \in Paths \ {from, to} : dirs'[p] = dirs[p]
BY DEF IInv, TypeOK, Moved

LEMMA MoveAsideIsSafe == ASSUME IInv, MoveAside PROVE IInv'
<1> DEFINE live == Live(task.name)
<1>1. /\ Restoring /\ task.step = "aside" /\ UNCHANGED <<served, status, acceptable>>
      /\ Goto("publish")
      /\ dirs[BackupPath] = None /\ dirs[live] = task.old
      /\ dirs[StagePath] = [name |-> task.name, data |-> task.data]
  BY DEF MoveAside, At, Restoring, IInv, Progress
<1>2. /\ Restoring' /\ task' \in Task /\ task'.op = "restore" /\ task'.name = task.name
      /\ task'.data = task.data /\ task'.old = task.old /\ task'.before = task.before
      /\ StagePath' = StagePath /\ BackupPath' = BackupPath /\ Fragile' = {StagePath}
      /\ task'.step = "publish"
  BY <1>1, RestoreGoesOn
<1>3. /\ dirs' \in [Paths -> Dir \cup {None}]
      /\ dirs'[BackupPath] = dirs[live] /\ dirs'[live] = None
      /\ \A p \in Paths \ {live, BackupPath} : dirs'[p] = dirs[p]
  <2>1. CASE dirs[live] = None
    BY <1>1, <2>1, Restores DEF MoveAside
  <2>2. CASE dirs[live] # None
    BY <1>1, <2>2, Restores, Moving DEF MoveAside, PutAside
  <2> QED BY <2>1, <2>2
<1>4. TypeOK'
  BY <1>1, <1>2, <1>3 DEF IInv, TypeOK
<1>5. Safe'
  <2>1. \A n \in Names : Owed(n)' = Owed(n)
    BY <1>1, <1>2 DEF Owed
  <2>2. \A p \in Paths \ {StagePath} :
          dirs[p] # None => \E q \in Paths \ Fragile' : dirs'[q] = dirs[p]
    <3> SUFFICES ASSUME NEW p \in Paths \ {StagePath}, dirs[p] # None
                 PROVE  \E q \in Paths \ {StagePath} : dirs'[q] = dirs[p]
      BY <1>2
    <3>1. CASE p = live
      BY <1>1, <1>3, <3>1, Restores
    <3>2. CASE p # live
      BY <1>1, <1>3, <3>2
    <3> QED BY <3>1, <3>2
  <2>3. \A n \in Names : None \in Owed(n)' \/ \E q \in Paths \ Fragile' : Holds(q, n, Owed(n))'
    BY <1>1, <2>1, <2>2, StaysSafe
  <2> QED BY <2>3 DEF Safe
<1>6. (ServesWhole /\ InTurn)'
  BY <1>1, <1>2, Restores DEF ServesWhole, InTurn
<1>7. Named'
  <2>1. dirs[live] # None => dirs[live].name \in {None, task.name}
    BY <1>1, Restores DEF IInv, Named
  <2> QED BY <1>1, <1>3, <2>1, Restores DEF IInv, Named
<1>8. Progress'
  <2>1. dirs'[StagePath] = dirs[StagePath]
    BY <1>1, <1>3, Restores
  <2>2. task.before # {} /\ acceptable[task.name] = task.before \cup {task.data}
    BY <1>1 DEF IInv, Progress
  <2> QED BY <1>1, <1>2, <1>3, <2>1, <2>2 DEF Progress
<1> QED BY <1>4, <1>5, <1>6, <1>7, <1>8 DEF IInv

LEMMA PublishIsSafe == ASSUME IInv, Publish PROVE IInv'
<1> DEFINE live == Live(task.name)
<1>1. /\ Restoring /\ task.step = "publish" /\ UNCHANGED <<served, status, acceptable>>
      /\ Goto("confirm") /\ dirs' = Moved(dirs, StagePath, live)
      /\ dirs[live] = None /\ dirs[StagePath] = [name |-> task.name, data |-> task.data]
  BY DEF Publish, At, Restoring, IInv, Progress
<1>2. /\ Restoring' /\ task' \in Task /\ task'.op = "restore" /\ task'.name = task.name
      /\ task'.data = task.data /\ task'.before = task.before
      /\ StagePath' = StagePath /\ Fragile' = {StagePath} /\ task'.step = "confirm"
  BY <1>1, RestoreGoesOn
<1>3. /\ dirs' \in [Paths -> Dir \cup {None}]
      /\ dirs'[live] = [name |-> task.name, data |-> task.data] /\ dirs'[StagePath] = None
      /\ \A p \in Paths \ {live, StagePath} : dirs'[p] = dirs[p]
  BY <1>1, Restores, Moving
<1>4. TypeOK'
  BY <1>1, <1>2, <1>3 DEF IInv, TypeOK
<1>5. task.before # {} /\ acceptable[task.name] = task.before \cup {task.data}
  BY <1>1 DEF IInv, Progress
<1>6. Safe'
  <2>1. ASSUME NEW n \in Names \ {task.name}
        PROVE  None \in Owed(n)' \/ \E q \in Paths \ Fragile' : Holds(q, n, Owed(n))'
    <3>1. Owed(n)' = Owed(n)
      BY <1>1, <1>2, <2>1 DEF Owed
    <3>2. \A p \in Paths \ {StagePath} :
            dirs[p] # None => \E q \in Paths \ Fragile' : dirs'[q] = dirs[p]
      BY <1>1, <1>2, <1>3
    <3> QED BY <1>1, <3>1, <3>2, StaysSafe
  <2>2. \E q \in Paths \ Fragile' : Holds(q, task.name, Owed(task.name))'
    <3>1. Owed(task.name)' = acceptable[task.name]
      BY <1>1, <1>2 DEF Owed
    <3>2. dirs'[live] # None /\ live \in Paths \ Fragile'
      BY <1>1, <1>2, <1>3, Restores, Directories
    <3> QED BY <1>2, <1>3, <1>5, <3>1, <3>2 DEF Holds
  <2> QED BY <1>2, <2>1, <2>2 DEF Safe
<1>7. (ServesWhole /\ InTurn)'
  BY <1>1, <1>2, Restores DEF ServesWhole, InTurn
<1>8. Named'
  BY <1>1, <1>3, Restores DEF IInv, Named
<1>9. Progress'
  BY <1>1, <1>2, <1>3, <1>5 DEF Progress
<1> QED BY <1>4, <1>6, <1>7, <1>8, <1>9 DEF IInv

LEMMA ConfirmIsSafe == ASSUME IInv, Confirm PROVE IInv'
<1> DEFINE live == Live(task.name)
<1>1. /\ Restoring /\ task.step = "confirm" /\ UNCHANGED <<dirs, served, status>>
      /\ acceptable' = [acceptable EXCEPT ![task.name] = {task.data}]
      /\ task' = IF dirs[BackupPath] = None THEN Idle ELSE [op |-> "remove", path |-> BackupPath]
      /\ dirs[live] = [name |-> task.name, data |-> task.data]
  BY DEF Confirm, At, Restoring, IInv, Progress
<1>2. ~Restoring' /\ task' \in Task /\ Fragile' \subseteq {BackupPath} /\ task'.op # "create"
  BY <1>1, Restores DEF Restoring, Task, Fragile, Idle
<1>3. /\ acceptable' \in [Names -> (SUBSET (Data \cup {None})) \ {{}}]
      /\ acceptable'[task.name] = {task.data}
      /\ \A n \in Names \ {task.name} : acceptable'[n] = acceptable[n]
  BY <1>1, Restores DEF IInv, TypeOK
<1>4. TypeOK'
  BY <1>1, <1>2, <1>3 DEF IInv, TypeOK
<1>5. Safe'
  <2>1. \A n \in Names : Owed(n) = acceptable[n] /\ Owed(n)' = acceptable'[n]
    BY <1>1, <1>2 DEF Owed
  <2>2. ASSUME NEW n \in Names \ {task.name}, None \notin acceptable[n]
        PROVE  \E q \in Paths \ Fragile' : dirs[q] # None /\ dirs[q].name = n
                                            /\ dirs[q].data \in acceptable[n]
    <3>1. PICK p \in Paths : Holds(p, n, acceptable[n])
      BY <2>1, <2>2 DEF IInv, Safe
    <3>2. p # BackupPath
      <4>1. dirs[BackupPath] # None => dirs[BackupPath].name \in {None, task.name}
        BY <1>1, Restores DEF IInv, Named
      <4> QED BY <2>2, <3>1, <4>1, Directories DEF Holds
    <3> QED BY <1>2, <3>1, <3>2 DEF Holds
  <2>3. live \in Paths \ Fragile' /\ dirs[live] # None
    BY <1>1, <1>2, Restores, Directories
  <2> QED BY <1>1, <1>3, <2>1, <2>2, <2>3 DEF Safe, Holds
<1>6. (ServesWhole /\ InTurn /\ Progress)'
  BY <1>1, <1>2, Restores DEF ServesWhole, InTurn, Progress
<1>7. Named'
  BY <1>1 DEF IInv, Named
<1> QED BY <1>4, <1>5, <1>6, <1>7 DEF IInv

\* A restore that raises leaves the collection's directory as it was, unless it had
\* already published.
LEMMA RaisingIsSafe ==
  ASSUME IInv, RestoreRaises
  PROVE  IInv' /\ (task.step # "confirm" => dirs'[Live(task.name)] = task.old)
<1> DEFINE live == Live(task.name)
<1>1. /\ Restoring /\ UNCHANGED <<served, status>>
      /\ dirs' = RolledBack /\ task' = [op |-> "remove", path |-> StagePath]
      /\ acceptable' = IF task.step = "confirm" THEN acceptable
                       ELSE [acceptable EXCEPT ![task.name] = task.before]
  BY DEF RestoreRaises, At, Restoring
<1>2. task.step \in {"copy", "rename", "aside", "publish", "confirm"}
  BY <1>1, Tasks DEF IInv
<1>3. ~Restoring' /\ task' \in Task /\ Fragile' = {StagePath} /\ task'.op = "remove"
  BY <1>1, Restores DEF Restoring, Task, Fragile
<1>4. /\ acceptable' \in [Names -> (SUBSET (Data \cup {None})) \ {{}}]
      /\ \A n \in Names : acceptable'[n] = Owed(n)
  <2>1. CASE task.step = "confirm"
    BY <1>1, <2>1 DEF IInv, TypeOK, Owed
  <2>2. CASE task.step # "confirm"
    BY <1>1, <2>2, Restores DEF IInv, TypeOK, Owed
  <2> QED BY <2>1, <2>2
<1>5. /\ dirs' \in [Paths -> Dir \cup {None}]
      /\ task.step # "confirm" => dirs'[live] = task.old
      /\ \/ UNCHANGED dirs
         \/ /\ dirs[live] = None /\ dirs'[live] = dirs[BackupPath] /\ dirs'[BackupPath] = None
            /\ \A p \in Paths \ {live, BackupPath} : dirs'[p] = dirs[p]
  <2>1. CASE dirs[BackupPath] # None /\ dirs[live] = None
    <3>1. dirs' = Moved(dirs, BackupPath, live)
      BY <1>1, <2>1 DEF RolledBack
    <3>2. /\ dirs' \in [Paths -> Dir \cup {None}]
          /\ dirs'[live] = dirs[BackupPath] /\ dirs'[BackupPath] = None
          /\ \A p \in Paths \ {live, BackupPath} : dirs'[p] = dirs[p]
      BY <1>1, <3>1, Restores, Moving
    <3>3. task.step # "confirm" => dirs[BackupPath] = task.old
      BY <1>1, <1>2, <2>1 DEF IInv, Progress
    <3> QED BY <2>1, <3>2, <3>3
  <2>2. CASE ~ (dirs[BackupPath] # None /\ dirs[live] = None)
    <3>1. dirs' = dirs
      BY <1>1, <2>2 DEF RolledBack
    <3>2. task.step # "confirm" => dirs[live] = task.old
      BY <1>1, <1>2, <2>2 DEF IInv, Progress
    <3> QED BY <3>1, <3>2 DEF IInv, TypeOK
  <2> QED BY <2>1, <2>2
<1>6. TypeOK'
  BY <1>1, <1>3, <1>4, <1>5, Restores DEF IInv, TypeOK
<1>7. Safe'
  <2>1. \A n \in Names : Owed(n)' = Owed(n)
    BY <1>3, <1>4 DEF Owed
  <2>2. \A p \in Paths \ {StagePath} :
          dirs[p] # None => \E q \in Paths \ Fragile' : dirs'[q] = dirs[p]
    <3> SUFFICES ASSUME NEW p \in Paths \ {StagePath}, dirs[p] # None
                 PROVE  \E q \in Paths \ {StagePath} : dirs'[q] = dirs[p]
      BY <1>3
    <3>1. CASE p = BackupPath
      BY <1>1, <1>5, <3>1, Restores
    <3>2. CASE p # BackupPath
      BY <1>1, <1>5, <3>2
    <3> QED BY <3>1, <3>2
  <2>3. \A n \in Names : None \in Owed(n)' \/ \E q \in Paths \ Fragile' : Holds(q, n, Owed(n))'
    BY <1>1, <2>1, <2>2, StaysSafe
  <2> QED BY <2>3 DEF Safe
<1>8. (ServesWhole /\ InTurn /\ Progress)'
  BY <1>1, <1>3, Restores DEF ServesWhole, InTurn, Progress
<1>9. Named'
  <2>1. dirs[BackupPath] # None => dirs[BackupPath].name \in {None, task.name}
    BY <1>1, Restores DEF IInv, Named
  <2> QED BY <1>1, <1>5, <2>1, Restores DEF IInv, Named
<1> QED BY <1>5, <1>6, <1>7, <1>8, <1>9 DEF IInv

LEMMA StutterIsSafe == ASSUME IInv, UNCHANGED vars PROVE IInv'
BY DEF IInv, vars, TypeOK, Safe, ServesWhole, Named, InTurn, Progress, Owed, Fragile, Restoring,
       Holds, StagePath, BackupPath

-----------------------------------------------------------------------------
\* The invariant that the theorems below follow from.
THEOREM InductiveInvariant == Spec => []IInv
<1>1. ASSUME IInv, [Next]_vars PROVE IInv'
  BY <1>1, OpenIsSafe, StopIsSafe, CreateIsSafe, ChangeIsSafe, DropIsSafe, CreateWritesIsSafe,
     GivesUpIsSafe, RemoveIsSafe, RestoreIsSafe, CopyIsSafe, RenameIsSafe, MoveAsideIsSafe,
     PublishIsSafe, ConfirmIsSafe, RaisingIsSafe, StutterIsSafe DEF Next
<1> QED BY <1>1, InitIsSafe, PTL DEF Spec

\* The directory, the table of collections and the task keep their types, and a
\* database that is closed serves nothing.
THEOREM TypeCorrect == Spec => []TypeOK
<1>1. IInv => TypeOK
  BY DEF IInv
<1> QED BY <1>1, InductiveInvariant, PTL

\* Whatever fails and wherever a crash interrupts it, no create, drop or restore loses
\* a collection that was not dropped: "it does not silently destroy the previous
\* collection".
THEOREM NothingIsLost == Spec => []Kept
<1>1. ASSUME IInv PROVE Kept
  <2> SUFFICES ASSUME NEW n \in Names, None \notin acceptable[n]
               PROVE  \E p \in Paths : HasMetadata(p) /\ dirs[p].name = n
                                       /\ dirs[p].data \in acceptable[n]
    BY DEF Kept
  <2>1. Owed(n) \subseteq acceptable[n]
    BY <1>1 DEF IInv, Owed, Progress
  <2>2. PICK p \in Paths : Holds(p, n, Owed(n))
    BY <1>1, <2>1 DEF IInv, Safe
  <2> QED BY <2>1, <2>2, Directories DEF Holds, HasMetadata
<1> QED BY <1>1, InductiveInvariant, PTL

\* A restore that raises before it has published leaves the old collection in its place.
THEOREM FailedRestoreRollsBack == Spec => RollsBack
<1>1. ASSUME IInv, [Next]_vars
      PROVE  RestoreRaises /\ ~At("confirm") => dirs'[Live(task.name)] = task.old
  BY <1>1, RaisingIsSafe DEF At, RestoreRaises
<1>2. IInv /\ [Next]_vars
        => [RestoreRaises /\ ~At("confirm") => dirs'[Live(task.name)] = task.old]_vars
  BY <1>1
<1> QED BY <1>2, InductiveInvariant, PTL DEF Spec, RollsBack

=============================================================================
