-------------------------- MODULE PublicationProofs --------------------------
(***************************************************************************)
(* Publication replaces the root atomically for any number of segments and *)
(* generations, as long as the second fsync of the directory does not      *)
(* fail: NoLateFault is assumed by every theorem that needs it.            *)
(***************************************************************************)
EXTENDS Publication, TLAPS

\* The fsync after CURRENT was replaced does not fail.
NoLateFault == "confirm" \notin Faults

Committed == pub.step \in {"confirm", "install"}

\* What a host crash can take CURRENT back to is not newer.
Ordered == synced[Current] <= dir[Current]

\* A manifest that a durable CURRENT can have named, or that CURRENT names, is durable.
Agreed ==
  \A gen \in Generations :
    gen <= synced[Current] \/ gen = dir[Current] => dir[File(gen)] = synced[File(gen)]

\* Whatever CURRENT a crash leaves, its manifest is there and so are its segments.
Complete ==
  \A gen \in {dir[Current], synced[Current]} :
    dir[File(gen)] # None /\ dir[File(gen)] \subseteq segments

\* The process works from the root CURRENT names until it has replaced it.
InMemory == memory # None /\ ~Committed => memory = Loaded(dir)

\* The segments of the new root are there, an optimize drops all others, and until
\* CURRENT is replaced no root names the new segment.
Written ==
  pub # NotPublishing =>
    /\ NextGeneration \in Generations
    /\ pub.segs \subseteq segments
    /\ pub.op = "optimize" => pub.segs \cap memory.segs = {}
    /\ ~Committed => \A gen \in {dir[Current], synced[Current]} : pub.new \notin dir[File(gen)]

\* What each step of publish() leaves for the next one.
Prepared ==
  /\ At("rename") => dir[Tmp(NextGeneration)] = pub.segs
  /\ pub # NotPublishing /\ pub.step \in {"sync", "point", "commit", "confirm", "install"}
       => dir[File(NextGeneration)] = pub.segs
  /\ At("point") \/ At("commit") => synced[File(NextGeneration)] = pub.segs
  /\ At("commit") => dir[CurrentTmp] = NextGeneration
  /\ At("confirm") \/ At("install") => dir[Current] = NextGeneration
  /\ At("install") => synced[Current] = NextGeneration

IInv ==
  TypeOK /\ Ordered /\ Agreed /\ Complete /\ InMemory /\ Written /\ Prepared

-----------------------------------------------------------------------------
\* The names of the files are all different.
LEMMA NamesDiffer ==
  /\ Current \in Names /\ CurrentTmp \in Names /\ Current # CurrentTmp
  /\ \A g \in Generations :
       /\ File(g) \in Names /\ Tmp(g) \in Names
       /\ File(g) \notin Pointers /\ Tmp(g) \notin Pointers
       /\ \A h \in Generations : File(g) # Tmp(h) /\ (File(g) = File(h) => g = h)
                                 /\ (Tmp(g) = Tmp(h) => g = h)
BY DEF Current, CurrentTmp, File, Tmp, Names, Pointers

\* What None, Torn and the other contents of a file are not.
LEMMA ContentsDiffer ==
  /\ None # Torn
  /\ \A segs \in SUBSET Segs : segs # None /\ segs # Torn
  /\ \A gen \in Generations : gen # None /\ gen # Torn /\ gen \in Nat /\ gen <= MaxGen
  /\ MaxGen \in Nat /\ MaxGen > 0
BY PublicationAssumption DEF Generations

\* The types that the invariant gives the directory.
LEMMA Entries ==
  ASSUME TypeOK
  PROVE  /\ dir[Current] \in Generations /\ synced[Current] \in Generations
         /\ \A gen \in Generations :
              /\ dir[File(gen)] # None => dir[File(gen)] \in SUBSET Segs
              /\ synced[File(gen)] # None => synced[File(gen)] \in SUBSET Segs
BY DEF TypeOK

\* While a root is published there is a process, and the new root has a generation.
LEMMA Publishes ==
  ASSUME IInv, pub # NotPublishing
  PROVE  /\ pub \in Publishing
         /\ memory \in [gen : Generations, segs : SUBSET Segs] /\ memory # None
         /\ NextGeneration = memory.gen + 1 /\ NextGeneration \in Generations
         /\ ~Committed => /\ memory = Loaded(dir) /\ NextGeneration > dir[Current]
                          /\ NextGeneration > synced[Current]
<1>1. /\ pub \in Publishing
      /\ memory \in [gen : Generations, segs : SUBSET Segs] /\ memory # None
      /\ NextGeneration = memory.gen + 1 /\ NextGeneration \in Generations
  BY DEF IInv, TypeOK, Written, NextGeneration
<1>2. ASSUME ~Committed
      PROVE  /\ memory = Loaded(dir) /\ NextGeneration > dir[Current]
             /\ NextGeneration > synced[Current]
  <2>1. memory = Loaded(dir)
    BY <1>1, <1>2 DEF IInv, InMemory
  <2>2. memory.gen = dir[Current] /\ synced[Current] <= dir[Current]
    BY <2>1 DEF Loaded, IInv, Ordered
  <2>3. dir[Current] \in Nat /\ synced[Current] \in Nat
    BY Entries, ContentsDiffer DEF IInv
  <2> QED BY <1>1, <2>1, <2>2, <2>3
<1> QED BY <1>1, <1>2

-----------------------------------------------------------------------------
LEMMA InitIsSound == ASSUME Init PROVE IInv
<1>1. 1 \in Generations
  BY PublicationAssumption DEF Generations
<1>2. /\ DOMAIN dir = Names /\ synced = dir
      /\ dir[Current] = 1 /\ dir[CurrentTmp] = None /\ dir[File(1)] = {}
      /\ \A gen \in Generations : /\ gen # 1 => dir[File(gen)] = None
                                  /\ dir[Tmp(gen)] = None
  BY <1>1, NamesDiffer DEF Init, Pointers
<1>3. TypeOK
  BY <1>1, <1>2, ContentsDiffer DEF Init, TypeOK, NotPublishing
<1>4. Ordered /\ Agreed
  BY <1>1, <1>2, ContentsDiffer DEF Ordered, Agreed
<1>5. Complete /\ InMemory /\ Written /\ Prepared
  BY <1>1, <1>2, ContentsDiffer
     DEF Init, Complete, InMemory, Loaded, Written, Prepared, At, NotPublishing
<1> QED BY <1>3, <1>4, <1>5 DEF IInv

\* A publication changes one name; the steps that are left to it keep the rest.
LEMMA BeginKeeps ==
  ASSUME IInv, NEW op \in {"flush", "optimize"}, Begin(op)
  PROVE  IInv'
<1>1. PICK s \in Segs \ segments :
        /\ segments' = segments \cup {s}
        /\ pub' = [step |-> "check", op |-> op, new |-> s,
                   segs |-> IF op = "flush" THEN memory.segs \cup {s} ELSE {s}]
  BY DEF Begin
<1>2. /\ memory # None /\ pub = NotPublishing /\ memory.gen < MaxGen
      /\ UNCHANGED <<dir, synced, memory>>
  BY DEF Begin
<1>3. memory \in [gen : Generations, segs : SUBSET Segs] /\ memory.segs \in SUBSET Segs
  BY <1>2 DEF IInv, TypeOK
<1>4. memory = Loaded(dir)
  BY <1>2 DEF IInv, InMemory, Committed, NotPublishing
<1>5. memory.segs = dir[File(dir[Current])] /\ memory.segs \subseteq segments
  BY <1>4 DEF Loaded, IInv, Complete
<1>6. /\ pub'.step = "check" /\ pub'.op = op /\ pub'.new = s /\ pub' # NotPublishing
      /\ pub'.segs = IF op = "flush" THEN memory.segs \cup {s} ELSE {s}
      /\ pub' \in Publishing
  BY <1>1, <1>3 DEF NotPublishing, Publishing
<1>7. TypeOK'
  BY <1>1, <1>2, <1>6 DEF IInv, TypeOK
<1>8. (Ordered /\ Agreed)'
  BY <1>2 DEF IInv, Ordered, Agreed
<1>9. Complete'
  BY <1>1, <1>2 DEF IInv, Complete
<1>10. InMemory'
  BY <1>2, <1>4 DEF InMemory, Loaded
<1>11. Written'
  <2>1. NextGeneration' \in Generations
    BY <1>2, <1>3, ContentsDiffer DEF NextGeneration, Generations
  <2>2. pub'.segs \subseteq segments' /\ (pub'.op = "optimize" => pub'.segs \cap memory.segs = {})
    BY <1>1, <1>5, <1>6
  <2>3. \A gen \in {dir[Current], synced[Current]} : s \notin dir[File(gen)]
    BY DEF IInv, Complete
  <2> QED BY <1>2, <1>6, <2>1, <2>2, <2>3 DEF Written
<1>12. Prepared'
  BY <1>6 DEF Prepared, At
<1> QED BY <1>7, <1>8, <1>9, <1>10, <1>11, <1>12 DEF IInv

\* Going on to the next step keeps the kind of publication and its root.
LEMMA GoesOn ==
  ASSUME IInv, pub # NotPublishing, NEW step \in Steps \cup {"install"}, Goto(step)
  PROVE  /\ pub' \in Publishing /\ pub' # NotPublishing /\ pub'.step = step
         /\ pub'.op = pub.op /\ pub'.new = pub.new /\ pub'.segs = pub.segs
BY Publishes DEF Goto, Publishing, NotPublishing, Steps

\* A step that changes no more of the directory than temporary files, and goes on.
LEMMA TemporaryKeeps ==
  ASSUME IInv, pub # NotPublishing, ~Committed,
         NEW step \in Steps \cup {"install"}, Goto(step), step \notin {"confirm", "install"},
         UNCHANGED <<synced, segments, memory>>,
         dir'[Current] = dir[Current],
         \A gen \in Generations : dir'[File(gen)] = dir[File(gen)]
  PROVE  (Ordered /\ Agreed /\ Complete /\ InMemory /\ Written)'
<1>1. dir[Current] \in Generations /\ synced[Current] \in Generations
  BY Entries DEF IInv
<1>2. (Ordered /\ Agreed)'
  BY DEF IInv, Ordered, Agreed
<1>3. Complete'
  BY <1>1 DEF IInv, Complete
<1>4. InMemory'
  BY <1>1 DEF IInv, InMemory, Loaded
<1>5. Written'
  BY <1>1, GoesOn DEF IInv, Written, NextGeneration, Committed
<1> QED BY <1>2, <1>3, <1>4, <1>5

LEMMA CheckKeeps == ASSUME IInv, Check PROVE IInv'
<1>1. /\ At("check") /\ Goto("write") /\ UNCHANGED <<dir, synced, segments, memory>>
      /\ pub # NotPublishing /\ ~Committed
  BY DEF Check, At, Committed
<1>2. (Ordered /\ Agreed /\ Complete /\ InMemory /\ Written)'
  BY <1>1, TemporaryKeeps DEF Steps
<1>3. pub' \in Publishing /\ pub'.step = "write"
  BY <1>1, GoesOn DEF Steps
<1>4. TypeOK' /\ Prepared'
  BY <1>1, <1>3, Publishes DEF IInv, TypeOK, Prepared, At
<1> QED BY <1>2, <1>4 DEF IInv

LEMMA WriteKeeps == ASSUME IInv, Write PROVE IInv'
<1>1. /\ At("write") /\ Goto("rename") /\ UNCHANGED <<synced, segments, memory>>
      /\ pub # NotPublishing /\ ~Committed
      /\ dir' = [dir EXCEPT ![Tmp(NextGeneration)] = pub.segs]
  BY DEF Write, At, Committed, Temporary
<1>2. /\ pub \in Publishing /\ memory # None /\ NextGeneration \in Generations
      /\ NextGeneration' = NextGeneration
  BY <1>1, Publishes DEF NextGeneration
<1>3. pub' \in Publishing /\ pub'.step = "rename" /\ pub'.segs = pub.segs
  BY <1>1, GoesOn DEF Steps
<1>4. /\ DOMAIN dir = Names /\ DOMAIN dir' = Names
      /\ dir'[Tmp(NextGeneration)] = pub.segs
      /\ \A name \in Names : name # Tmp(NextGeneration) => dir'[name] = dir[name]
  BY <1>1, <1>2, NamesDiffer DEF IInv, TypeOK
<1>5. /\ dir'[Current] = dir[Current] /\ dir'[CurrentTmp] = dir[CurrentTmp]
      /\ \A gen \in Generations : dir'[File(gen)] = dir[File(gen)]
      /\ \A gen \in Generations : dir'[Tmp(gen)] \in {dir[Tmp(gen)], pub.segs}
  BY <1>2, <1>4, NamesDiffer DEF Pointers
<1>6. (Ordered /\ Agreed /\ Complete /\ InMemory /\ Written)'
  BY <1>1, <1>5, TemporaryKeeps DEF Steps
<1>7. TypeOK'
  BY <1>1, <1>2, <1>3, <1>4, <1>5 DEF IInv, TypeOK, Publishing
<1>8. Prepared'
  BY <1>2, <1>3, <1>4 DEF Prepared, At
<1> QED BY <1>6, <1>7, <1>8 DEF IInv

LEMMA PointKeeps == ASSUME IInv, Point PROVE IInv'
<1>1. /\ At("point") /\ Goto("commit") /\ UNCHANGED <<synced, segments, memory>>
      /\ pub # NotPublishing /\ ~Committed
      /\ dir' = [dir EXCEPT ![CurrentTmp] = NextGeneration]
  BY DEF Point, At, Committed
<1>2. /\ pub \in Publishing /\ memory # None /\ NextGeneration \in Generations
      /\ NextGeneration' = NextGeneration
  BY <1>1, Publishes DEF NextGeneration
<1>3. pub' \in Publishing /\ pub'.step = "commit" /\ pub'.segs = pub.segs
  BY <1>1, GoesOn DEF Steps
<1>4. /\ DOMAIN dir' = Names /\ dir'[CurrentTmp] = NextGeneration
      /\ \A name \in Names : name # CurrentTmp => dir'[name] = dir[name]
  BY <1>1, NamesDiffer DEF IInv, TypeOK
<1>5. /\ dir'[Current] = dir[Current]
      /\ \A gen \in Generations : dir'[File(gen)] = dir[File(gen)] /\ dir'[Tmp(gen)] = dir[Tmp(gen)]
  BY <1>4, NamesDiffer DEF Pointers
<1>6. (Ordered /\ Agreed /\ Complete /\ InMemory /\ Written)'
  BY <1>1, <1>5, TemporaryKeeps DEF Steps
<1>7. TypeOK'
  BY <1>1, <1>2, <1>3, <1>4, <1>5 DEF IInv, TypeOK
<1>8. Prepared'
  BY <1>1, <1>2, <1>3, <1>4, <1>5 DEF IInv, Prepared, At
<1> QED BY <1>6, <1>7, <1>8 DEF IInv

LEMMA RenameKeeps == ASSUME IInv, Rename PROVE IInv'
<1>1. /\ At("rename") /\ Goto("sync") /\ UNCHANGED <<synced, segments, memory>>
      /\ pub # NotPublishing /\ ~Committed
      /\ dir' = [dir EXCEPT ![File(NextGeneration)] = dir[Tmp(NextGeneration)],
                            ![Tmp(NextGeneration)] = None]
  BY DEF Rename, At, Committed, Temporary
<1>2. /\ pub \in Publishing /\ memory # None /\ NextGeneration \in Generations
      /\ NextGeneration' = NextGeneration /\ dir[Tmp(NextGeneration)] = pub.segs
      /\ NextGeneration > dir[Current] /\ NextGeneration > synced[Current]
      /\ pub.segs \in SUBSET Segs
  BY <1>1, Publishes DEF NextGeneration, IInv, Prepared, Publishing
<1>3. /\ pub' \in Publishing /\ pub'.step = "sync" /\ pub'.segs = pub.segs
      /\ pub'.op = pub.op /\ pub'.new = pub.new
  BY <1>1, GoesOn DEF Steps
<1>4. /\ DOMAIN dir' = Names
      /\ dir'[File(NextGeneration)] = pub.segs /\ dir'[Tmp(NextGeneration)] = None
      /\ \A name \in Names \ {File(NextGeneration), Tmp(NextGeneration)} : dir'[name] = dir[name]
  BY <1>1, <1>2, NamesDiffer DEF IInv, TypeOK
<1>5. /\ dir'[Current] = dir[Current] /\ dir'[CurrentTmp] = dir[CurrentTmp]
      /\ \A gen \in Generations : gen # NextGeneration =>
           dir'[File(gen)] = dir[File(gen)] /\ dir'[Tmp(gen)] = dir[Tmp(gen)]
  BY <1>2, <1>4, NamesDiffer DEF Pointers
<1>6. dir[Current] \in Generations \ {NextGeneration} /\ synced[Current] \in Generations \ {NextGeneration}
  BY <1>2, Entries, ContentsDiffer DEF IInv
<1>7. (Ordered /\ Agreed)'
  <2>1. \A gen \in Generations :
          gen <= synced[Current] \/ gen = dir[Current] => gen # NextGeneration
    BY <1>2, <1>6, ContentsDiffer
  <2> QED BY <1>1, <1>5, <2>1 DEF IInv, Ordered, Agreed
<1>8. Complete'
  BY <1>1, <1>5, <1>6 DEF IInv, Complete
<1>9. InMemory'
  BY <1>1, <1>5, <1>6 DEF IInv, InMemory, Loaded
<1>10. Written'
  BY <1>1, <1>2, <1>3, <1>5, <1>6 DEF IInv, Written, Committed
<1>11. TypeOK'
  <2>1. \A gen \in Generations : dir'[File(gen)] # Torn
    BY <1>2, <1>4, <1>5, ContentsDiffer DEF IInv, TypeOK
  <2>2. \A gen \in Generations : \A name \in {File(gen), Tmp(gen)} :
          dir'[name] \in {None, Torn} \/ dir'[name] \in SUBSET Segs
    BY <1>2, <1>4, <1>5 DEF IInv, TypeOK
  <2> QED BY <1>1, <1>2, <1>3, <1>4, <1>5, <2>1, <2>2 DEF IInv, TypeOK
<1>12. Prepared'
  BY <1>2, <1>3, <1>4 DEF Prepared, At
<1> QED BY <1>7, <1>8, <1>9, <1>10, <1>11, <1>12 DEF IInv

LEMMA SyncKeeps == ASSUME IInv, Sync PROVE IInv'
<1>1. /\ At("sync") /\ Goto("point") /\ UNCHANGED <<dir, segments, memory>>
      /\ synced' = dir /\ pub # NotPublishing /\ ~Committed
  BY DEF Sync, At, Committed, Fsynced
<1>2. /\ pub' \in Publishing /\ pub'.step = "point" /\ pub'.segs = pub.segs
      /\ pub'.op = pub.op /\ pub'.new = pub.new
  BY <1>1, GoesOn DEF Steps
<1>3. dir[Current] \in Nat /\ memory # None /\ NextGeneration' = NextGeneration
  BY <1>1, Publishes, Entries, ContentsDiffer DEF IInv, NextGeneration
<1>4. (Ordered /\ Agreed /\ Complete /\ InMemory)'
  BY <1>1, <1>3 DEF IInv, Ordered, Agreed, Complete, InMemory, Loaded, Committed
<1>5. Written'
  BY <1>1, <1>2, <1>3 DEF IInv, Written, Committed
<1>6. TypeOK' /\ Prepared'
  BY <1>1, <1>2, <1>3 DEF IInv, TypeOK, Prepared, At
<1> QED BY <1>4, <1>5, <1>6 DEF IInv

LEMMA CommitKeeps == ASSUME IInv, Commit PROVE IInv'
<1>1. /\ At("commit") /\ Goto("confirm") /\ UNCHANGED <<synced, segments, memory>>
      /\ pub # NotPublishing /\ ~Committed
      /\ dir' = [dir EXCEPT ![Current] = dir[CurrentTmp], ![CurrentTmp] = None]
  BY DEF Commit, At, Committed
<1>2. /\ pub \in Publishing /\ memory # None /\ NextGeneration \in Generations
      /\ NextGeneration' = NextGeneration /\ dir[CurrentTmp] = NextGeneration
      /\ dir[File(NextGeneration)] = pub.segs /\ synced[File(NextGeneration)] = pub.segs
      /\ NextGeneration > synced[Current] /\ pub.segs \subseteq segments
      /\ pub.segs \in SUBSET Segs
  BY <1>1, Publishes DEF NextGeneration, IInv, Prepared, Written, Publishing, At
<1>3. /\ pub' \in Publishing /\ pub'.step = "confirm" /\ pub'.segs = pub.segs
      /\ pub'.op = pub.op /\ pub'.new = pub.new /\ pub' # NotPublishing
  BY <1>1, GoesOn DEF Steps
<1>4. /\ DOMAIN dir' = Names /\ dir'[Current] = NextGeneration /\ dir'[CurrentTmp] = None
      /\ \A name \in Names \ Pointers : dir'[name] = dir[name]
  BY <1>1, <1>2, NamesDiffer DEF IInv, TypeOK, Pointers
<1>5. \A gen \in Generations : dir'[File(gen)] = dir[File(gen)] /\ dir'[Tmp(gen)] = dir[Tmp(gen)]
  BY <1>4, NamesDiffer
<1>6. synced[Current] \in Generations
  BY Entries DEF IInv
<1>7. (Ordered /\ Agreed)'
  <2>1. synced[Current] <= NextGeneration
    BY <1>2, <1>6, ContentsDiffer
  <2> QED BY <1>1, <1>2, <1>4, <1>5, <2>1 DEF IInv, Ordered, Agreed
<1>8. Complete'
  BY <1>1, <1>2, <1>4, <1>5, <1>6, ContentsDiffer DEF IInv, Complete
<1>9. InMemory' /\ Written' /\ Prepared'
  BY <1>1, <1>2, <1>3, <1>4, <1>5 DEF IInv, InMemory, Written, Prepared, Committed, At
<1>10. TypeOK'
  <2>1. pub' \in Publishing /\ memory # None /\ NextGeneration \in Generations
    BY <1>2, <1>3
  <2>2. \A gen \in Generations :
          /\ dir'[File(gen)] # Torn
          /\ \A name \in {File(gen), Tmp(gen)} :
               dir'[name] \in {None, Torn} \/ dir'[name] \in SUBSET Segs
    BY <1>5 DEF IInv, TypeOK
  <2> QED BY <1>1, <1>4, <2>1, <2>2 DEF IInv, TypeOK
<1> QED BY <1>7, <1>8, <1>9, <1>10 DEF IInv

LEMMA ConfirmKeeps == ASSUME IInv, Confirm PROVE IInv'
<1>1. /\ At("confirm") /\ Goto("install") /\ UNCHANGED <<dir, segments, memory>>
      /\ synced' = dir /\ pub # NotPublishing /\ Committed
  BY DEF Confirm, At, Committed, Fsynced
<1>2. /\ pub' \in Publishing /\ pub'.step = "install" /\ pub'.segs = pub.segs
      /\ pub'.op = pub.op /\ pub'.new = pub.new
  BY <1>1, GoesOn
<1>3. dir[Current] \in Nat /\ memory # None /\ NextGeneration' = NextGeneration
  BY <1>1, Publishes, Entries, ContentsDiffer DEF IInv, NextGeneration
<1>4. (Ordered /\ Agreed /\ Complete)'
  BY <1>1, <1>3 DEF IInv, Ordered, Agreed, Complete
<1>5. InMemory' /\ Written' /\ Prepared'
  BY <1>1, <1>2, <1>3 DEF IInv, InMemory, Written, Prepared, Committed, At
<1>6. TypeOK'
  BY <1>1, <1>2 DEF IInv, TypeOK
<1> QED BY <1>4, <1>5, <1>6 DEF IInv

LEMMA InstallKeeps == ASSUME IInv, Install PROVE IInv'
<1>1. /\ At("install") /\ UNCHANGED <<dir, synced>>
      /\ pub' = NotPublishing /\ pub # NotPublishing /\ Committed
      /\ memory' = [gen |-> NextGeneration, segs |-> pub.segs]
      /\ segments' = IF pub.op = "optimize" THEN segments \ memory.segs ELSE segments
  BY DEF Install, At, Committed
<1>2. /\ pub \in Publishing /\ memory # None /\ NextGeneration \in Generations
      /\ pub.segs \subseteq segments /\ (pub.op = "optimize" => pub.segs \cap memory.segs = {})
      /\ dir[Current] = NextGeneration /\ synced[Current] = NextGeneration
      /\ dir[File(NextGeneration)] = pub.segs /\ pub.segs \in SUBSET Segs
  BY <1>1, Publishes DEF IInv, Prepared, Written, Publishing, At
<1>3. pub.segs \subseteq segments'
  BY <1>1, <1>2
<1>4. (Ordered /\ Agreed /\ Complete)'
  BY <1>1, <1>2, <1>3, ContentsDiffer DEF IInv, Ordered, Agreed, Complete
<1>5. InMemory' /\ Written' /\ Prepared'
  BY <1>1, <1>2 DEF InMemory, Loaded, Written, Prepared, At, NotPublishing
<1>6. TypeOK'
  <2>1. memory' \in [gen : Generations, segs : SUBSET Segs]
    BY <1>1, <1>2 DEF IInv, TypeOK
  <2> QED BY <1>1, <2>1 DEF IInv, TypeOK
<1> QED BY <1>4, <1>5, <1>6 DEF IInv

\* What an interrupted write leaves differs from the directory in a temporary file only.
LEMMA InterruptedInTemporary ==
  ASSUME IInv, NEW d \in Interrupted
  PROVE  /\ DOMAIN d = Names /\ d[Current] = dir[Current]
         /\ d[CurrentTmp] \in {dir[CurrentTmp], Torn}
         /\ \A gen \in Generations :
              d[File(gen)] = dir[File(gen)] /\ d[Tmp(gen)] \in {dir[Tmp(gen)], Torn}
<1>1. DOMAIN dir = Names
  BY DEF IInv, TypeOK
<1>2. CASE d = dir
  BY <1>1, <1>2
<1>3. CASE At("write") /\ d = [dir EXCEPT ![Temporary] = Torn]
  <2>1. NextGeneration \in Generations
    BY <1>3, Publishes DEF At
  <2>2. DOMAIN d = Names /\ \A name \in Names : d[name] = IF name = Tmp(NextGeneration) THEN Torn ELSE dir[name]
    BY <1>1, <1>3 DEF Temporary
  <2> QED BY <2>1, <2>2, NamesDiffer DEF Pointers
<1>4. CASE At("point") /\ d = [dir EXCEPT ![CurrentTmp] = Torn]
  <2>1. DOMAIN d = Names /\ \A name \in Names : d[name] = IF name = CurrentTmp THEN Torn ELSE dir[name]
    BY <1>1, <1>4
  <2> QED BY <2>1, NamesDiffer DEF Pointers
<1> QED BY <1>2, <1>3, <1>4 DEF Interrupted

\* A publication that stops before it has replaced CURRENT takes away at most its own
\* manifest and segment.
LEMMA AbandonKeeps ==
  ASSUME IInv, pub # NotPublishing, ~Committed, NEW d \in Interrupted, Abandon(d)
  PROVE  IInv' /\ (\A gen \in Generations : gen <= synced[Current] => dir'[File(gen)] = dir[File(gen)])
               /\ UNCHANGED <<dir[Current], dir[File(dir[Current])]>>
<1>1. /\ pub \in Publishing /\ memory \in [gen : Generations, segs : SUBSET Segs]
      /\ NextGeneration \in Generations
      /\ memory = Loaded(dir) /\ NextGeneration > dir[Current] /\ NextGeneration > synced[Current]
  BY Publishes
<1>2. /\ pub' = NotPublishing /\ UNCHANGED <<synced, memory>>
      /\ IF pub.op = "optimize"
         THEN /\ dir' = [d EXCEPT ![File(NextGeneration)] = None, ![CurrentTmp] = None]
              /\ segments' = segments \ {pub.new}
         ELSE dir' = d /\ UNCHANGED segments
  BY DEF Abandon, Abandoned
<1>3. /\ dir[Current] \in Generations /\ synced[Current] \in Generations
      /\ dir[Current] # NextGeneration /\ synced[Current] # NextGeneration
      /\ \A gen \in Generations : gen <= synced[Current] => gen # NextGeneration
  BY <1>1, Entries, ContentsDiffer DEF IInv
<1>4. /\ DOMAIN dir' = Names /\ dir'[Current] = d[Current]
      /\ dir'[CurrentTmp] \in {d[CurrentTmp], None}
      /\ \A gen \in Generations :
           /\ dir'[File(gen)] \in {d[File(gen)], None} /\ dir'[Tmp(gen)] = d[Tmp(gen)]
           /\ gen # NextGeneration => dir'[File(gen)] = d[File(gen)]
  <2>1. CASE pub.op = "optimize"
    <3>1. /\ DOMAIN dir' = Names /\ dir'[File(NextGeneration)] = None /\ dir'[CurrentTmp] = None
          /\ \A name \in Names \ {File(NextGeneration), CurrentTmp} : dir'[name] = d[name]
      BY <1>1, <1>2, <2>1, InterruptedInTemporary, NamesDiffer DEF Pointers
    <3> QED BY <1>1, <3>1, NamesDiffer DEF Pointers
  <2>2. CASE pub.op # "optimize"
    BY <1>2, <2>2, InterruptedInTemporary
  <2> QED BY <2>1, <2>2
<1>5. /\ dir'[Current] = dir[Current]
      /\ dir'[CurrentTmp] \in {dir[CurrentTmp], None, Torn}
      /\ \A gen \in Generations :
           /\ dir'[File(gen)] \in {dir[File(gen)], None}
           /\ dir'[Tmp(gen)] \in {dir[Tmp(gen)], Torn}
           /\ gen # NextGeneration => dir'[File(gen)] = dir[File(gen)]
  BY <1>4, InterruptedInTemporary
<1>6. \A gen \in Generations : gen <= synced[Current] \/ gen = dir[Current] => dir'[File(gen)] = dir[File(gen)]
  BY <1>3, <1>5
<1>7. (Ordered /\ Agreed)'
  BY <1>2, <1>5, <1>6 DEF IInv, Ordered, Agreed
<1>8. Complete'
  <2>1. \A gen \in {dir[Current], synced[Current]} :
          /\ dir'[File(gen)] = dir[File(gen)]
          /\ dir[File(gen)] # None /\ dir[File(gen)] \subseteq segments /\ pub.new \notin dir[File(gen)]
    BY <1>3, <1>5 DEF IInv, Complete, Written
  <2>2. segments \ {pub.new} \subseteq segments'
    BY <1>2
  <2> QED BY <1>2, <1>5, <2>1, <2>2 DEF Complete
<1>9. InMemory' /\ Written' /\ Prepared'
  BY <1>1, <1>2, <1>3, <1>5, <1>6 DEF InMemory, Loaded, Written, Prepared, At, NotPublishing
<1>10. TypeOK'
  <2>1. \A gen \in Generations :
          /\ dir'[File(gen)] # Torn
          /\ \A name \in {File(gen), Tmp(gen)} :
               dir'[name] \in {None, Torn} \/ dir'[name] \in SUBSET Segs
    BY <1>5, ContentsDiffer DEF IInv, TypeOK
  <2> QED BY <1>1, <1>2, <1>3, <1>4, <1>5, <2>1 DEF IInv, TypeOK
<1> QED BY <1>3, <1>5, <1>6, <1>7, <1>8, <1>9, <1>10 DEF IInv

\* A publication that fails has not replaced CURRENT.
LEMMA FailsBeforeCommit ==
  ASSUME IInv, NoLateFault, Refused \/ Raises
  PROVE  pub # NotPublishing /\ ~Committed /\ \E d \in Interrupted : Abandon(d)
<1>1. CASE Refused
  BY <1>1 DEF Refused, Committed, Interrupted
<1>2. CASE Raises
  BY <1>2, PublicationAssumption DEF Raises, Committed, NoLateFault, Steps
<1> QED BY <1>1, <1>2

LEMMA ProcessCrashKeeps ==
  ASSUME IInv, ProcessCrash
  PROVE  IInv' /\ (\A gen \in Generations : dir'[File(gen)] = dir[File(gen)]) /\ dir'[Current] = dir[Current]
<1>1. /\ dir' \in Interrupted /\ memory' = None /\ pub' = NotPublishing
      /\ UNCHANGED <<synced, segments>>
  BY DEF ProcessCrash
<1>2. /\ DOMAIN dir' = Names /\ dir'[Current] = dir[Current]
      /\ dir'[CurrentTmp] \in {dir[CurrentTmp], Torn}
      /\ \A gen \in Generations :
           dir'[File(gen)] = dir[File(gen)] /\ dir'[Tmp(gen)] \in {dir[Tmp(gen)], Torn}
  BY <1>1, InterruptedInTemporary
<1>3. dir[Current] \in Generations /\ synced[Current] \in Generations
  BY Entries DEF IInv
<1>4. (Ordered /\ Agreed /\ Complete)'
  BY <1>1, <1>2, <1>3 DEF IInv, Ordered, Agreed, Complete
<1>5. InMemory' /\ Written' /\ Prepared'
  BY <1>1 DEF InMemory, Written, Prepared, At
<1>6. TypeOK'
  <2>1. \A gen \in Generations :
          /\ dir'[File(gen)] # Torn
          /\ \A name \in {File(gen), Tmp(gen)} :
               dir'[name] \in {None, Torn} \/ dir'[name] \in SUBSET Segs
    BY <1>2 DEF IInv, TypeOK
  <2> QED BY <1>1, <1>2, <2>1 DEF IInv, TypeOK
<1> QED BY <1>2, <1>4, <1>5, <1>6 DEF IInv

\* After a crash of the host CURRENT is the old or the new one, and its manifest and
\* every older one are as they were.
LEMMA HostCrashKeeps ==
  ASSUME IInv, HostCrash
  PROVE  /\ IInv' /\ memory' = None /\ synced' = dir'
         /\ dir'[Current] \in {dir[Current], synced[Current]}
         /\ \A gen \in Generations :
              gen <= synced[Current] \/ gen = dir[Current] => dir'[File(gen)] = dir[File(gen)]
<1>1. PICK d \in Interrupted, undone \in SUBSET {name \in Names : TRUE} :
        dir' = [name \in Names |-> IF name \in undone THEN synced[name] ELSE d[name]]
  BY DEF HostCrash
<1>2. synced' = dir' /\ memory' = None /\ pub' = NotPublishing /\ UNCHANGED segments
  BY DEF HostCrash
<1>3. /\ DOMAIN dir' = Names
      /\ dir'[Current] \in {dir[Current], synced[Current]}
      /\ dir'[CurrentTmp] \in {dir[CurrentTmp], synced[CurrentTmp], Torn}
      /\ \A gen \in Generations :
           /\ dir'[File(gen)] \in {dir[File(gen)], synced[File(gen)]}
           /\ dir'[Tmp(gen)] \in {dir[Tmp(gen)], synced[Tmp(gen)], Torn}
  BY <1>1, InterruptedInTemporary, NamesDiffer
<1>4. /\ dir[Current] \in Generations /\ synced[Current] \in Generations
      /\ dir[Current] \in Nat /\ synced[Current] \in Nat
  BY Entries, ContentsDiffer DEF IInv
<1>5. \A gen \in Generations :
        gen <= synced[Current] \/ gen = dir[Current] => dir'[File(gen)] = dir[File(gen)]
  BY <1>3 DEF IInv, Agreed
<1>6. (Ordered /\ Agreed)'
  BY <1>2, <1>3, <1>4 DEF Ordered, Agreed
<1>7. Complete'
  BY <1>2, <1>3, <1>4, <1>5 DEF IInv, Complete
<1>8. InMemory' /\ Written' /\ Prepared'
  BY <1>2 DEF InMemory, Written, Prepared, At
<1>9. TypeOK'
  <2>1. \A gen \in Generations :
          /\ dir'[File(gen)] # Torn
          /\ \A name \in {File(gen), Tmp(gen)} :
               dir'[name] \in {None, Torn} \/ dir'[name] \in SUBSET Segs
    BY <1>3 DEF IInv, TypeOK
  <2>2. dir'[Current] \in Generations /\ dir'[CurrentTmp] \in Generations \cup {None, Torn}
    BY <1>3 DEF IInv, TypeOK
  <2> QED BY <1>2, <1>3, <2>1, <2>2 DEF IInv, TypeOK
<1> QED BY <1>2, <1>3, <1>5, <1>6, <1>7, <1>8, <1>9 DEF IInv

LEMMA OpenKeeps == ASSUME IInv, Open PROVE IInv'
<1>1. /\ memory = None /\ memory' = Loaded(dir) /\ UNCHANGED <<dir, synced, segments, pub>>
      /\ pub = NotPublishing /\ dir[File(dir[Current])] # None
  BY DEF Open, IInv, TypeOK, Loads, LoadsManifest
<1>2. (Ordered /\ Agreed /\ Complete /\ InMemory /\ Written /\ Prepared)'
  BY <1>1 DEF IInv, Ordered, Agreed, Complete, InMemory, Loaded, Written, Prepared, At
<1>3. memory' \in [gen : Generations, segs : SUBSET Segs]
  BY <1>1, Entries DEF IInv, Loaded
<1>4. TypeOK'
  BY <1>1, <1>3 DEF IInv, TypeOK
<1> QED BY <1>2, <1>4 DEF IInv

LEMMA StutterKeeps == ASSUME IInv, UNCHANGED vars PROVE IInv'
BY DEF IInv, TypeOK, Ordered, Agreed, Complete, InMemory, Written, Prepared, vars, Committed,
       NextGeneration, Loaded, At

LEMMA StepKeeps == ASSUME IInv, NoLateFault, [Next]_vars PROVE IInv'
<1>1. CASE Flush \/ Optimize
  BY <1>1, BeginKeeps DEF Flush, Optimize
<1>2. CASE Refused \/ Raises
  BY <1>2, FailsBeforeCommit, AbandonKeeps
<1> QED
  BY <1>1, <1>2, CheckKeeps, WriteKeeps, RenameKeeps, SyncKeeps, PointKeeps, CommitKeeps,
     ConfirmKeeps, InstallKeeps, ProcessCrashKeeps, HostCrashKeeps, OpenKeeps, StutterKeeps
     DEF Next

\* The invariant that the theorems below follow from.
THEOREM InductiveInvariant == ASSUME NoLateFault PROVE Spec => []IInv
BY InitIsSound, StepKeeps, PTL DEF Spec

\* Every file and every variable of a publication keeps its type, and only temporary
\* files are ever half written.
THEOREM TypeCorrect == ASSUME NoLateFault PROVE Spec => []TypeOK
<1>1. IInv => TypeOK
  BY DEF IInv
<1> QED BY <1>1, InductiveInvariant, PTL

\* Whatever fails before the last fsync, and whenever the process or the host stops,
\* CURRENT names a complete manifest: publish() "selects either the old complete
\* generation or the new complete generation".
THEOREM CurrentStaysComplete == ASSUME NoLateFault PROVE Spec => []CurrentComplete
<1>1. ASSUME IInv PROVE CurrentComplete
  <2>1. dir[Current] \in Generations
    BY <1>1, Entries DEF IInv
  <2>2. dir[Current] # None /\ dir[File(dir[Current])] \notin {None, Torn}
    BY <1>1, <2>1, ContentsDiffer DEF IInv, Complete, TypeOK
  <2> QED BY <1>1, <2>2 DEF CurrentComplete, Loads, LoadsManifest, IInv, Complete
<1> QED BY <1>1, InductiveInvariant, PTL

-----------------------------------------------------------------------------
\* What a step of publish() that does not fail does to the root on disk.
LEMMA StepsOfPublish ==
  ASSUME IInv, Write \/ Rename \/ Point
  PROVE  /\ UNCHANGED <<synced, memory>> /\ dir'[Current] = dir[Current]
         /\ \A gen \in Generations :
              gen <= synced[Current] \/ gen = dir[Current] => dir'[File(gen)] = dir[File(gen)]
<1>1. /\ UNCHANGED <<synced, memory>> /\ pub # NotPublishing /\ ~Committed
      /\ \/ dir' = [dir EXCEPT ![Tmp(NextGeneration)] = pub.segs]
         \/ dir' = [dir EXCEPT ![File(NextGeneration)] = dir[Tmp(NextGeneration)],
                               ![Tmp(NextGeneration)] = None]
         \/ dir' = [dir EXCEPT ![CurrentTmp] = NextGeneration]
  BY DEF Write, Rename, Point, At, Temporary, Committed
<1>2. NextGeneration \in Generations /\ DOMAIN dir = Names
  BY <1>1, Publishes DEF IInv, TypeOK
<1>3. /\ dir'[Current] = dir[Current]
      /\ \A gen \in Generations : gen # NextGeneration => dir'[File(gen)] = dir[File(gen)]
  BY <1>1, <1>2, NamesDiffer DEF Pointers
<1>4. \A gen \in Generations :
        gen <= synced[Current] \/ gen = dir[Current] => gen # NextGeneration
  BY <1>1, <1>2, Publishes, Entries, ContentsDiffer DEF IInv
<1> QED BY <1>1, <1>3, <1>4

\* Replacing CURRENT changes no manifest.
LEMMA CommitReplaces ==
  ASSUME IInv, Commit
  PROVE  /\ UNCHANGED <<synced, memory>>
         /\ memory = Loaded(dir) /\ memory # None
         /\ dir'[Current] \in Generations
         /\ \A gen \in Generations : dir'[File(gen)] = dir[File(gen)]
<1>1. /\ UNCHANGED <<synced, memory>> /\ pub # NotPublishing /\ ~Committed /\ At("commit")
      /\ dir' = [dir EXCEPT ![Current] = dir[CurrentTmp], ![CurrentTmp] = None]
  BY DEF Commit, At, Committed
<1>2. memory = Loaded(dir) /\ memory # None /\ NextGeneration \in Generations
  BY <1>1, Publishes
<1>3. dir[CurrentTmp] = NextGeneration /\ DOMAIN dir = Names
  BY <1>1 DEF IInv, Prepared, TypeOK
<1> QED BY <1>1, <1>2, <1>3, NamesDiffer DEF Pointers

\* The steps that leave the directory and what is synced alone.
LEMMA Others ==
  ASSUME Flush \/ Optimize \/ Check \/ UNCHANGED vars
  PROVE  UNCHANGED <<dir, synced, memory>>
BY DEF Flush, Optimize, Begin, Check, vars

\* No step changes or removes a manifest that a durable CURRENT has named: "the
\* immutable, checksummed generation".
THEOREM PublishedStaysImmutable == ASSUME NoLateFault PROVE Spec => PublishedIsImmutable
<1>1. ASSUME IInv, [Next]_vars
      PROVE  \A gen \in Generations :
               gen <= synced[Current] => dir'[File(gen)] = dir[File(gen)]
  <2>1. CASE Write \/ Rename \/ Point
    BY <1>1, <2>1, StepsOfPublish
  <2>2. CASE Refused \/ Raises
    BY <1>1, <2>2, FailsBeforeCommit, AbandonKeeps
  <2>3. CASE Commit \/ ProcessCrash \/ HostCrash
    BY <1>1, <2>3, CommitReplaces, ProcessCrashKeeps, HostCrashKeeps
  <2>4. CASE Sync \/ Confirm \/ Install \/ Open
    BY <2>4 DEF Sync, Confirm, Install, Open
  <2> QED BY <1>1, <2>1, <2>2, <2>3, <2>4, Others DEF Next
<1>2. IInv /\ [Next]_vars
        => [\A gen \in Generations :
              gen <= synced[Current] => dir'[File(gen)] = dir[File(gen)]]_vars
  BY <1>1
<1> QED BY <1>2, InductiveInvariant, PTL DEF Spec, PublishedIsImmutable

-----------------------------------------------------------------------------
\* Each step of a publication is a step of the atomic root, or changes nothing of it.
LEMMA StepImplements ==
  ASSUME IInv, NoLateFault, [Next]_vars
  PROVE  [Register!Next]_(Register!vars)
<1> USE DEF Register!Next, Register!vars
<1>1. dir[Current] \in Generations /\ synced[Current] \in Generations
  BY Entries DEF IInv
<1>2. CASE Write \/ Rename \/ Point
  BY <1>1, <1>2, StepsOfPublish DEF Loaded
<1>3. CASE Refused \/ Raises
  <2>1. PICK d \in Interrupted : pub # NotPublishing /\ ~Committed /\ Abandon(d)
    BY <1>3, FailsBeforeCommit
  <2>2. UNCHANGED <<synced, memory>>
    BY <2>1 DEF Abandon
  <2> QED BY <2>1, <2>2, AbandonKeeps DEF Loaded
<1>4. CASE Commit
  <2>1. Loaded(dir)' \in [gen : Generations, segs : SUBSET Segs]
    <3>1. dir'[Current] \in Generations /\ dir'[File(dir'[Current])] # None
      BY <1>4, CommitKeeps, CommitReplaces DEF IInv, Complete
    <3>2. dir'[File(dir'[Current])] \in SUBSET Segs
      BY <1>4, <3>1, CommitReplaces, Entries DEF IInv
    <3> QED BY <3>1, <3>2 DEF Loaded
  <2> QED BY <1>4, <2>1, CommitReplaces DEF Register!Commit, Loaded
<1>5. CASE ProcessCrash
  <2>1. memory' = None /\ UNCHANGED synced
    BY <1>5 DEF ProcessCrash
  <2> QED BY <1>1, <1>5, <2>1, ProcessCrashKeeps DEF Register!Crash, Loaded
<1>6. CASE HostCrash
  <2>1. \A gen \in {dir[Current], synced[Current]} : dir[File(gen)] = synced[File(gen)]
    BY <1>1, ContentsDiffer DEF IInv, Agreed
  <2>2. \A gen \in {dir[Current], synced[Current]} : dir'[File(gen)] = dir[File(gen)]
    BY <1>1, <1>6, HostCrashKeeps, ContentsDiffer
  <2> QED BY <1>6, <2>1, <2>2, HostCrashKeeps DEF Register!Crash, Loaded
<1>7. CASE Sync \/ Confirm
  <2>1. synced' = dir /\ UNCHANGED <<dir, memory>>
    BY <1>7 DEF Sync, Confirm, Fsynced
  <2> QED BY <2>1 DEF Register!Settle, Loaded
<1>8. CASE Install
  <2>1. /\ At("install") /\ pub # NotPublishing /\ memory # None
        /\ memory' = [gen |-> NextGeneration, segs |-> pub.segs] /\ UNCHANGED <<dir, synced>>
    BY <1>8, Publishes DEF Install, At
  <2>2. /\ dir[Current] = NextGeneration /\ synced[Current] = NextGeneration
        /\ dir[File(NextGeneration)] = pub.segs /\ synced[File(NextGeneration)] = pub.segs
    BY <1>1, <2>1 DEF IInv, Prepared, Agreed, At
  <2> QED BY <2>1, <2>2 DEF Register!Told, Loaded
<1>9. CASE Open
  BY <1>9 DEF Open, Register!Restart, Loaded
<1>10. CASE Flush \/ Optimize \/ Check \/ UNCHANGED vars
  BY <1>10, Others DEF Loaded
<1> QED BY <1>2, <1>3, <1>4, <1>5, <1>6, <1>7, <1>8, <1>9, <1>10 DEF Next

\* publish(), one system call at a time, with failures and crashes of the process and
\* the host between any two, implements the atomic replacement of a root.
THEOREM ImplementsRegister == ASSUME NoLateFault PROVE Spec => RegisterSpec
<1>1. Init => Register!Init
  <2> SUFFICES ASSUME Init PROVE Register!Init
    OBVIOUS
  <2>1. IInv
    BY InitIsSound
  <2>2. Loaded(dir) \in [gen : Generations, segs : SUBSET Segs]
    BY <2>1, Entries DEF IInv, Loaded, Complete
  <2>3. memory = Loaded(dir) /\ synced = dir
    <3>1. dir[Current] = 1 /\ dir[File(1)] = {}
      BY NamesDiffer, PublicationAssumption DEF Init, Pointers, Generations
    <3> QED BY <3>1 DEF Init, Loaded
  <2> QED BY <2>2, <2>3 DEF Register!Init, Loaded
<1> QED BY <1>1, StepImplements, InductiveInvariant, PTL DEF Spec, RegisterSpec, Register!Spec

=============================================================================
