--------------------------- MODULE OperationsProofs ---------------------------
(***************************************************************************)
(* What holds around the pipeline, for any events, managers, dumps, files, *)
(* threads and options, and any number of requests, deadlocks and kills:   *)
(* files go with the rows of their events, nothing within the retention is *)
(* lost, and no manager leaves out a dump of that time; readers see        *)
(* what the production manager has completed, through rebuilds and         *)
(* promotions; and what the save and restore of Alma.configuration does    *)
(* achieve, an option that no two calls ever change at once is theirs      *)
(* during each call and has its default between them.                      *)
(***************************************************************************)
EXTENDS Operations, TLAPS

\* The three parts go on as each does alone.
THEOREM PartsAlone == OperationsSpec => Spec /\ SwapSpec /\ CallSpec
<1>1. OperationsInit => Init /\ SwapInit /\ CallInit BY DEF OperationsInit
<1>2. [OperationsNext]_operationsVars => [Next]_vars /\ [SwapNext]_swapVars /\ [CallNext]_callVars
  BY DEF OperationsNext, operationsVars, DeleteEvents, RebuildCatalog, CallAlma
<1> QED BY <1>1, <1>2, PTL DEF OperationsSpec, Spec, SwapSpec, CallSpec

---------------------------------------------------------------------------
(* The deletion of events. *)

RetentionType ==
    /\ today \in Nat /\ created \subseteq Event /\ rows \subseteq created
    /\ pointer \in [Manager -> [last : Event \cup {NoEvent}, dip : Event \cup {NoEvent}]]
    /\ task \in [Actor -> [pc : {"idle", "queued", "selected", "found", "destroying"},
                           before : Int, todo : SUBSET Event,
                           event : Event \cup {NoEvent}, left : SUBSET File]]

\* The files on disk are dump files; those of an event to come are not there.
DiskOfCreated ==
    \A path \in disk : \E e \in rows : \E f \in Files[e] : path = <<e, f>>

\* What a job may delete was old when it was pushed, and time has only passed since.
JobsAreLate ==
    \A t \in DumpType :
       /\ task[t].pc # "idle" => task[t].before <= today - Retention
       /\ \A e \in task[t].todo : Start[e] <= task[t].before /\ e \in created
       /\ task[t].pc = "idle" => task[t].todo = {}

\* A transaction has removed the files it has passed, of an event it may delete.
PassedAreGone ==
    \A a \in Actor : task[a].pc = "destroying" =>
       /\ task[a].event \in created
       /\ a = Visitor => task[a].event \in requested
       /\ a # Visitor => task[a].event \in task[a].todo
       /\ \A f \in Files[task[a].event] \ task[a].left : <<task[a].event, f>> \notin disk

RetentionInv ==
    /\ RetentionType /\ DiskOfCreated /\ JobsAreLate /\ PassedAreGone
    /\ FilesGoWithRows /\ RecentIsWhole

LEMMA RetentionInit == Init => RetentionInv
  BY RetentionAssumption DEF RetentionAssumption, Init, RetentionInv, RetentionType, DiskOfCreated, JobsAreLate,
     PassedAreGone, FilesGoWithRows, RecentIsWhole, Idle, At, Queued, Actor

\* An event that a transaction deletes is old, or somebody asked for it.
LEMMA MayGo ==
    ASSUME RetentionInv, NEW a \in Actor, task[a].pc = "destroying"
    PROVE  task[a].event \in requested \/ Start[task[a].event] <= today - Retention
<1>1. CASE a = Visitor BY <1>1 DEF RetentionInv, PassedAreGone
<1>2. CASE a # Visitor
  <2>1. /\ a \in DumpType /\ task[a].event \in task[a].todo /\ task[a].event \in Event
        /\ task[a].before \in Int
    BY <1>2 DEF RetentionInv, PassedAreGone, Actor, RetentionType
  <2>2. Start[task[a].event] <= task[a].before /\ task[a].before <= today - Retention
    BY <2>1 DEF RetentionInv, JobsAreLate
  <2> QED BY <2>1, <2>2, RetentionAssumption DEF RetentionAssumption, RetentionInv, RetentionType
<1> QED BY <1>1, <1>2

LEMMA TypesKept == ASSUME RetentionType, [Next]_vars PROVE RetentionType'
<1> USE RetentionAssumption DEF RetentionAssumption, RetentionType
<1>1. CASE UNCHANGED vars BY <1>1 DEF vars
<1>2. CASE NextDay BY <1>2 DEF NextDay
<1>3. ASSUME NEW e \in Event, Import(e) PROVE RetentionType' BY <1>3 DEF Import
<1>4. ASSUME NEW e \in Event, Press(e) PROVE RetentionType' BY <1>4 DEF Press, Starts, At, Actor
<1>5. ASSUME NEW m \in Manager, Indexing(m) PROVE RetentionType'
  <2>1. NextDump(pointer[m].last) \subseteq Event \X (Event \cup {NoEvent})
    <3>1. OfType("full_dump") \cup OfType("changed_records") \cup PreviousToFull(pointer[m].last) \subseteq Event
      BY DEF OfType, PreviousToFull, Latest
    <3> QED BY <3>1 DEF NextDump, Latest, Earliest, NextIncremental
  <2> QED BY <1>5, <2>1 DEF Indexing, IndexNextDump, DumpSucceeds, PassOver, Reindex
<1>6. ASSUME NEW t \in DumpType, Enqueue(t) PROVE RetentionType'
  BY <1>6 DEF Enqueue, Starts, Idle, At, Queued, Actor
<1>7. ASSUME NEW t \in DumpType, SelectIds(t) \/ FindEvents(t) \/ (\E e \in Event : Destroy(t, e)) \/ JobEnds(t)
      PROVE  RetentionType'
  <2>1. t \in Actor BY DEF Actor
  <2>2. CASE SelectIds(t) BY <2>1, <2>2 DEF SelectIds, Starts, At, Old, OfType
  <2>3. CASE FindEvents(t)
    <3>1. CASE task[t].todo \subseteq rows BY <2>1, <2>3, <3>1 DEF FindEvents, Starts, At
    <3>2. CASE ~task[t].todo \subseteq rows BY <2>1, <2>3, <3>2 DEF FindEvents, Starts, At, Queued
    <3> QED BY <3>1, <3>2
  <2>4. ASSUME NEW e \in Event, Destroy(t, e) PROVE RetentionType' BY <2>1, <2>4 DEF Destroy, Starts, At
  <2>5. CASE JobEnds(t) BY <2>1, <2>5 DEF JobEnds, Starts, Idle, At, Queued
  <2> QED BY <1>7, <2>2, <2>3, <2>4, <2>5
<1>8. ASSUME NEW a \in Actor, Deletion(a) \/ Kill(a) PROVE RetentionType'
  <2>1. Rest(a) \in [pc : {"idle", "found"}, before : Int, todo : SUBSET Event,
                     event : Event \cup {NoEvent}, left : SUBSET File]
    BY DEF Rest, Idle, At, Queued
  <2>2. CASE \E f \in File : DestroyFile(a, f) BY <2>2 DEF DestroyFile, Starts, At
  <2>3. CASE Commit(a) BY <2>1, <2>3 DEF Commit, Starts
  <2>4. CASE Refuse(a) BY <2>4 DEF Refuse, Starts, Idle, At, Queued
  <2>5. CASE RollBack(a) BY <2>5 DEF RollBack, Starts, Idle, At, Queued
  <2> QED BY <1>8, <2>2, <2>3, <2>4, <2>5 DEF Deletion, Deadlocked, Kill
<1>9. Visitor \in Actor /\ DumpType \subseteq Actor BY DEF Actor
<1> QED BY <1>1, <1>2, <1>3, <1>4, <1>5, <1>6, <1>7, <1>8, <1>9 DEF Next, Job

---------------------------------------------------------------------------
(* The steps that touch neither the files nor the rows. *)

\* A step of a job that is in no transaction.
LEMMA JobStep ==
    ASSUME RetentionInv, RetentionType', NEW t \in DumpType,
           Enqueue(t) \/ SelectIds(t) \/ FindEvents(t) \/ (\E e \in Event : Destroy(t, e)) \/ JobEnds(t)
    PROVE  RetentionInv'
<1> USE RetentionAssumption DEF RetentionAssumption
<1>1. /\ today' = today /\ created' = created /\ rows' = rows /\ disk' = disk
      /\ requested' = requested /\ spoiled' = spoiled
      /\ task[t].pc # "destroying" /\ t \in Actor /\ t # Visitor
      /\ \A a \in Actor \ {t} : task'[a] = task[a]
  BY DEF RetentionInv, RetentionType, Enqueue, SelectIds, FindEvents, Destroy, JobEnds, Starts, Actor
<1>2. DiskOfCreated' /\ RecentIsWhole'
  BY <1>1 DEF RetentionInv, DiskOfCreated, RecentIsWhole, Paths
<1>3. FilesGoWithRows'
  <2>1. \A a \in Actor, e \in rows : Destroying(a, e) => a # t /\ Destroying(a, e)' /\ task'[a].left = task[a].left
    BY <1>1 DEF Destroying
  <2> QED BY <1>1, <2>1 DEF RetentionInv, FilesGoWithRows
<1>4. JobsAreLate'
  <2>1. /\ task'[t].pc # "idle" => task'[t].before <= today - Retention
        /\ \A e \in task'[t].todo : Start[e] <= task'[t].before /\ e \in created
        /\ task'[t].pc = "idle" => task'[t].todo = {}
    BY <1>1 DEF RetentionInv, RetentionType, JobsAreLate, Enqueue, SelectIds, FindEvents, Destroy, JobEnds,
                Starts, Idle, At, Queued, Old, OfType
  <2> QED BY <1>1, <2>1 DEF RetentionInv, JobsAreLate, Actor
<1>5. PassedAreGone'
  <2>1. task'[t].pc = "destroying" =>
           task'[t].event \in task'[t].todo /\ task'[t].left = Files[task'[t].event]
    BY <1>1 DEF RetentionInv, RetentionType, Enqueue, SelectIds, FindEvents, Destroy, JobEnds, Starts, Idle, At, Queued
  <2>2. \A e \in task'[t].todo : e \in created' BY <1>4 DEF JobsAreLate
  <2> QED BY <1>1, <2>1, <2>2 DEF RetentionInv, PassedAreGone
<1> QED BY <1>2, <1>3, <1>4, <1>5 DEF RetentionInv

\* A step that changes no task.
LEMMA OtherStep ==
    ASSUME RetentionInv, RetentionType',
           NextDay \/ (\E e \in Event : Import(e)) \/ (\E m \in Manager : Indexing(m)) \/ UNCHANGED vars
    PROVE  RetentionInv'
<1> USE RetentionAssumption DEF RetentionAssumption
<1>1. /\ task' = task /\ requested' = requested /\ spoiled' = spoiled
      /\ today' \in Nat /\ today' >= today /\ today \in Nat
  BY DEF RetentionInv, RetentionType, NextDay, Import, Indexing, IndexNextDump, DumpSucceeds, PassOver, Reindex, vars
<1>2. JobsAreLate'
  <2>1. created \subseteq created'
    BY DEF NextDay, Import, Indexing, IndexNextDump, DumpSucceeds, PassOver, Reindex, vars
  <2> QED BY <1>1, <2>1 DEF RetentionInv, RetentionType, JobsAreLate, Actor
<1>3. CASE \E e \in Event : Import(e)
  <2>1. PICK e \in Event : Import(e) BY <1>3
  <2>2. /\ rows' = rows \cup {e} /\ created' = created \cup {e} /\ disk' = disk \cup Paths(e) /\ today' = today
        /\ e \notin created /\ e \notin rows
    BY <2>1 DEF Import, RetentionInv, RetentionType
  <2>3. DiskOfCreated'
    BY <2>2 DEF RetentionInv, DiskOfCreated, Paths
  <2>4. FilesGoWithRows'
    BY <1>1, <2>2 DEF RetentionInv, FilesGoWithRows, Destroying, Paths
  <2>5. RecentIsWhole'
    BY <1>1, <2>2 DEF RetentionInv, RecentIsWhole, Paths
  <2>6. PassedAreGone'
    <3> SUFFICES ASSUME NEW a \in Actor, task[a].pc = "destroying",
                        NEW f \in Files[task[a].event] \ task[a].left, <<task[a].event, f>> \in disk'
                 PROVE  FALSE
      BY <1>1, <2>2 DEF RetentionInv, PassedAreGone
    <3>1. task[a].event = e
      BY <2>2 DEF RetentionInv, PassedAreGone, Paths
    <3> QED BY <3>1, <2>2 DEF RetentionInv, PassedAreGone
  <2> QED BY <1>2, <2>3, <2>4, <2>5, <2>6 DEF RetentionInv
<1>4. CASE ~\E e \in Event : Import(e)
  <2>1. rows' = rows /\ created' = created /\ disk' = disk
    BY <1>4 DEF NextDay, Indexing, IndexNextDump, DumpSucceeds, PassOver, Reindex, vars
  <2>2. RecentIsWhole'
    BY <1>1, <2>1 DEF RetentionInv, RetentionType, RecentIsWhole, Paths
  <2> QED BY <1>1, <1>2, <2>1, <2>2 DEF RetentionInv, DiskOfCreated, PassedAreGone, FilesGoWithRows, Destroying
<1> QED BY <1>3, <1>4

---------------------------------------------------------------------------
(* The steps of a transaction. *)

\* The button is pressed: the transaction has passed no file yet.
LEMMA PressStep == ASSUME RetentionInv, RetentionType', NEW e \in Event, Press(e) PROVE RetentionInv'
<1> USE RetentionAssumption DEF RetentionAssumption
<1>1. /\ today' = today /\ created' = created /\ rows' = rows /\ disk' = disk
      /\ requested' = requested \cup {e} /\ spoiled' = spoiled /\ e \in rows
      /\ task[Visitor].pc = "idle" /\ Visitor \in Actor /\ Visitor \notin DumpType
      /\ task'[Visitor] = At("destroying", 0, {}, e, Files[e])
      /\ \A a \in Actor \ {Visitor} : task'[a] = task[a]
  BY DEF RetentionInv, RetentionType, Press, Starts, Actor
<1>2. DiskOfCreated' /\ RecentIsWhole'
  BY <1>1 DEF RetentionInv, DiskOfCreated, RecentIsWhole, Paths
<1>3. FilesGoWithRows'
  <2>1. \A a \in Actor, b \in rows : Destroying(a, b) => a # Visitor /\ Destroying(a, b)' /\ task'[a].left = task[a].left
    BY <1>1 DEF Destroying
  <2> QED BY <1>1, <2>1 DEF RetentionInv, FilesGoWithRows
<1>4. JobsAreLate' BY <1>1 DEF RetentionInv, JobsAreLate, Actor
<1>5. PassedAreGone' BY <1>1 DEF RetentionInv, RetentionType, PassedAreGone, At
<1> QED BY <1>2, <1>3, <1>4, <1>5 DEF RetentionInv

\* A file goes: of an event that may go, and the transaction has passed it.
LEMMA FileStep ==
    ASSUME RetentionInv, RetentionType', NEW a \in Actor, NEW f \in File, DestroyFile(a, f)
    PROVE  RetentionInv'
<1> USE RetentionAssumption DEF RetentionAssumption
<1> DEFINE e == task[a].event
<1>1. /\ today' = today /\ created' = created /\ rows' = rows /\ disk' = disk \ {<<e, f>>}
      /\ requested' = requested /\ spoiled' = spoiled /\ task[a].pc = "destroying"
      /\ task'[a] = At("destroying", task[a].before, task[a].todo, e, task[a].left \ {f})
      /\ \A b \in Actor \ {a} : task'[b] = task[b]
  BY DEF RetentionInv, RetentionType, DestroyFile, Starts
<1>2. e \in requested \/ Start[e] <= today - Retention BY <1>1, MayGo
<1>3. e \in created /\ e \in Event BY <1>1 DEF RetentionInv, RetentionType, PassedAreGone
<1>4. DiskOfCreated' BY <1>1 DEF RetentionInv, DiskOfCreated
<1>5. RecentIsWhole'
  <2> SUFFICES ASSUME NEW g \in created \ requested, Start[g] > today - Retention
               PROVE  g \in rows /\ Paths(g) \subseteq disk'
    BY <1>1 DEF RecentIsWhole, Paths
  <2>1. g \in rows /\ Paths(g) \subseteq disk BY DEF RetentionInv, RecentIsWhole
  <2>2. g # e BY <1>2 DEF RetentionInv, RetentionType
  <2> QED BY <1>1, <2>1, <2>2 DEF Paths
<1>6. FilesGoWithRows'
  <2>1. \A b \in Actor, g \in rows : Destroying(b, g) => Destroying(b, g)' /\ task'[b].left \subseteq task[b].left
    BY <1>1 DEF Destroying, At
  <2>2. task'[a].pc = "destroying" /\ task'[a].event = e /\ f \notin task'[a].left BY <1>1 DEF At
  <2>3. \A path \in disk' : path[1] \in rows' BY <1>1 DEF RetentionInv, FilesGoWithRows
  <2>4. ASSUME NEW g \in rows', NEW h \in Files[g]
        PROVE  (<<g, h>> \in disk \/ g \in spoiled \/ \E b \in Actor : Destroying(b, g) /\ h \notin task[b].left)'
    <3>1. CASE g = e /\ h = f BY <2>2, <3>1 DEF Destroying
    <3>2. CASE ~(g = e /\ h = f)
      <4>1. <<g, h>> \in disk \/ g \in spoiled \/ \E b \in Actor : Destroying(b, g) /\ h \notin task[b].left
        BY <1>1 DEF RetentionInv, FilesGoWithRows
      <4>2. <<g, h>> # <<e, f>> BY <3>2
      <4> QED BY <1>1, <2>1, <4>1, <4>2
    <3> QED BY <3>1, <3>2
  <2> QED BY <2>3, <2>4 DEF FilesGoWithRows
<1>7. JobsAreLate' BY <1>1 DEF RetentionInv, JobsAreLate, Actor, At
<1>8. PassedAreGone'
  <2>1. /\ task'[a].event = e /\ task'[a].todo = task[a].todo /\ task'[a].left = task[a].left \ {f}
    BY <1>1 DEF At
  <2>2. \A g \in Files[e] \ task'[a].left : <<e, g>> \notin disk'
    BY <1>1, <2>1 DEF RetentionInv, PassedAreGone
  <2> QED BY <1>1, <1>3, <2>1, <2>2 DEF RetentionInv, PassedAreGone
<1> QED BY <1>4, <1>5, <1>6, <1>7, <1>8 DEF RetentionInv

\* The rows of an event go once its files are gone.
LEMMA CommitStep == ASSUME RetentionInv, RetentionType', NEW a \in Actor, Commit(a) PROVE RetentionInv'
<1> USE RetentionAssumption DEF RetentionAssumption
<1> DEFINE e == task[a].event
<1>1. /\ today' = today /\ created' = created /\ rows' = rows \ {e} /\ disk' = disk
      /\ requested' = requested /\ spoiled' = spoiled /\ task[a].pc = "destroying" /\ task[a].left = {}
      /\ task'[a] = Rest(a)
      /\ \A b \in Actor \ {a} : task'[b] = task[b]
  BY DEF RetentionInv, RetentionType, Commit, Starts
<1>2. e \in created /\ \A f \in Files[e] : <<e, f>> \notin disk
  BY <1>1 DEF RetentionInv, PassedAreGone
<1>3. e \in requested \/ Start[e] <= today - Retention BY <1>1, MayGo
<1>4. task'[a].pc # "destroying"
  BY <1>1 DEF Rest, At, Idle
<1>5. DiskOfCreated' BY <1>1, <1>2 DEF RetentionInv, DiskOfCreated
<1>6. RecentIsWhole' BY <1>1, <1>3 DEF RetentionInv, RetentionType, RecentIsWhole, Paths
<1>7. FilesGoWithRows'
  <2>1. \A b \in Actor, g \in rows' : Destroying(b, g) => Destroying(b, g)' /\ task'[b].left = task[b].left
    BY <1>1 DEF Destroying
  <2>2. \A path \in disk : path[1] \in rows \ {e} BY <1>2 DEF RetentionInv, DiskOfCreated
  <2> QED BY <1>1, <2>1, <2>2 DEF RetentionInv, FilesGoWithRows
<1>8. JobsAreLate'
  <2>1. a \in DumpType => /\ task'[a].pc = "found" /\ task'[a].before = task[a].before
                          /\ task'[a].todo \subseteq task[a].todo
    BY <1>1 DEF Rest, At
  <2> QED BY <1>1, <2>1 DEF RetentionInv, JobsAreLate, Actor
<1>9. PassedAreGone' BY <1>1, <1>4 DEF RetentionInv, PassedAreGone
<1> QED BY <1>5, <1>6, <1>7, <1>8, <1>9 DEF RetentionInv

\* The transaction is rolled back, by the foreign key, the database or a kill.
LEMMA RollBackStep ==
    ASSUME RetentionInv, RetentionType', NEW a \in Actor,
           Refuse(a) \/ Deadlocked(a) \/ Kill(a)
    PROVE  RetentionInv'
<1> USE RetentionAssumption DEF RetentionAssumption
<1> DEFINE e == task[a].event
<1>1. /\ today' = today /\ created' = created /\ rows' = rows /\ disk' = disk /\ requested' = requested
      /\ spoiled \subseteq spoiled' /\ (e # NoEvent => e \in spoiled') /\ task[a].pc # "idle"
      /\ task'[a] = Idle \/ (a # Visitor /\ task'[a] = Queued(task[a].before))
      /\ \A b \in Actor \ {a} : task'[b] = task[b]
  <2>1. task \in [Actor -> [pc : {"idle", "queued", "selected", "found", "destroying"},
                           before : Int, todo : SUBSET Event,
                           event : Event \cup {NoEvent}, left : SUBSET File]]
    BY DEF RetentionInv, RetentionType
  <2>2. ASSUME NEW next, task' = [task EXCEPT ![a] = next]
        PROVE  task'[a] = next /\ \A b \in Actor \ {a} : task'[b] = task[b]
    BY <2>1, <2>2
  <2>3. CASE Refuse(a)
    <3>1. task' = [task EXCEPT ![a] = Idle] BY <2>3 DEF Refuse, Starts
    <3> QED BY <2>2, <2>3, <3>1 DEF Refuse
  <2>4. CASE RollBack(a) /\ task[a].pc # "idle"
    <3>1. task' = [task EXCEPT ![a] = IF a = Visitor THEN Idle ELSE Queued(task[a].before)]
      BY <2>4 DEF RollBack, Starts
    <3> QED BY <2>2, <2>4, <3>1 DEF RollBack
  <2> QED BY <2>3, <2>4 DEF Deadlocked, Waits, Kill
<1>2. task'[a].pc # "destroying" /\ task'[a].todo = {}
  BY <1>1 DEF Idle, Queued, At
<1>3. DiskOfCreated' /\ RecentIsWhole'
  BY <1>1 DEF RetentionInv, DiskOfCreated, RecentIsWhole, Paths
<1>4. FilesGoWithRows'
  <2>1. \A b \in Actor \ {a}, g \in rows :
           task[b].pc = "destroying" /\ task[b].event = g => Destroying(b, g)' /\ task'[b].left = task[b].left
    <3>1. ASSUME NEW b \in Actor \ {a} PROVE task'[b] = task[b] BY <1>1
    <3> QED BY <3>1 DEF Destroying
  <2>2. \A g \in rows : Destroying(a, g) => g \in spoiled'
    <3>1. rows \subseteq Event BY DEF RetentionInv, RetentionType
    <3>2. e # NoEvent => e \in spoiled' BY <1>1
    <3> QED BY <3>1, <3>2 DEF Destroying
  <2> QED BY <1>1, <2>1, <2>2 DEF RetentionInv, FilesGoWithRows, Destroying
<1>5. JobsAreLate'
  <2>1. a \in DumpType => task'[a].pc = "idle" \/ task'[a].before = task[a].before
    BY <1>1 DEF Idle, Queued, At
  <2> QED BY <1>1, <1>2, <2>1 DEF RetentionInv, JobsAreLate, Actor
<1>6. PassedAreGone' BY <1>1, <1>2 DEF RetentionInv, PassedAreGone
<1> QED BY <1>3, <1>4, <1>5, <1>6 DEF RetentionInv

---------------------------------------------------------------------------

LEMMA RetentionStep == ASSUME RetentionInv, [Next]_vars PROVE RetentionInv'
<1>1. RetentionType' BY TypesKept DEF RetentionInv
<1>2. Visitor \in Actor /\ DumpType \subseteq Actor BY DEF Actor
<1>3. ASSUME NEW a \in Actor, Deletion(a) PROVE RetentionInv'
  BY <1>1, <1>3, FileStep, CommitStep, RollBackStep DEF Deletion
<1>4. ASSUME NEW t \in DumpType, Enqueue(t) \/ Job(t) PROVE RetentionInv'
  BY <1>1, <1>2, <1>3, <1>4, JobStep DEF Job
<1>5. ASSUME NEW a \in Actor, Kill(a) PROVE RetentionInv'
  BY <1>1, <1>5, RollBackStep
<1>6. ASSUME NEW e \in Event, Import(e) \/ Press(e) PROVE RetentionInv'
  BY <1>1, <1>6, OtherStep, PressStep
<1>7. CASE NextDay \/ (\E m \in Manager : Indexing(m)) \/ UNCHANGED vars
  BY <1>1, <1>7, OtherStep
<1> QED BY <1>2, <1>3, <1>4, <1>5, <1>6, <1>7 DEF Next

\* The invariant holds in every reachable state.
LEMMA RetentionInvariant == Spec => []RetentionInv
<1>1. Init => RetentionInv BY RetentionInit
<1>2. RetentionInv /\ [Next]_vars => RetentionInv' BY RetentionStep
<1> QED BY <1>1, <1>2, PTL DEF Spec

\* No transaction covers the files, yet no file outlives its row, and a row without its file
\* is about to go or its deletion was rolled back.
THEOREM FilesAndRows == Spec => []FilesGoWithRows
<1>1. RetentionInv => FilesGoWithRows BY DEF RetentionInv
<1> QED BY <1>1, RetentionInvariant, PTL

\* What lies within the retention is lost only if somebody asks for it.
THEOREM RecentKept == Spec => []RecentIsWhole
<1>1. RetentionInv => RecentIsWhole BY DEF RetentionInv
<1> QED BY <1>1, RetentionInvariant, PTL

\* A dump with files that is there and lies after last is no earlier than the one next_incremental finds.
LEMMA StepsOverNone ==
    ASSUME RetentionInv, NEW last \in Event, NEW n \in NextIncremental(last),
           NEW e \in rows, Type[e] = "changed_records", Files[e] # {}, Start[last] < Start[e]
    PROVE  Start[n[1]] <= Start[e]
<1>1. /\ rows \subseteq Event /\ e \in Event /\ n \in Event \X Event
      /\ \A f \in Event : Start[f] \in Int
  BY RetentionAssumption DEF RetentionAssumption, RetentionInv, RetentionType, NextIncremental
<1>2. e \in After(last) BY <1>1 DEF After, OfType
<1>3. Start[n[2]] < Start[e]
  <2>1. n[2] = last \/ (n[2] \in Event /\ ~(Start[e] <= Start[n[2]]))
    BY <1>1, <1>2 DEF NextIncremental, SkippedTo
  <2> QED BY <1>1, <2>1
<1>4. e \in After(n[2]) BY <1>1, <1>3 DEF After, OfType
<1> QED BY <1>4 DEF NextIncremental, Earliest

\* A manager's next dump is one that next_dump finds.
LEMMA NewDip ==
    ASSUME [Next]_vars, RetentionType, NEW m \in Manager, pointer'[m].dip # pointer[m].dip, pointer'[m].dip # NoEvent
    PROVE  \E n \in NextDump(pointer[m].last) : pointer'[m].dip = n[1]
<1>1. pointer' # pointer OBVIOUS
<1>2. \E k \in Manager : Indexing(k)
  BY <1>1 DEF vars, Next, NextDay, Import, Press, Enqueue, Job, SelectIds, FindEvents, Destroy, JobEnds, Deletion,
     DestroyFile, Commit, Refuse, Deadlocked, Kill, RollBack
<1>3. PICK k \in Manager : Indexing(k) BY <1>2
<1>4. k = m
  BY <1>3 DEF RetentionType, Indexing, IndexNextDump, DumpSucceeds, PassOver, Reindex
<1>5. IndexNextDump(m)
  BY <1>3, <1>4 DEF RetentionType, Indexing, DumpSucceeds, PassOver, Reindex
<1> QED BY <1>5 DEF RetentionType, IndexNextDump

\* A manager that goes on to a later dump leaves out nothing within the retention but dumps
\* without files and what somebody asked to delete.
THEOREM NoDumpLeftOut == Spec => NoneLeftOut
<1>1. ASSUME RetentionInv, [Next]_vars, NEW m \in Manager,
             pointer[m].last # NoEvent, pointer'[m].dip # NoEvent, pointer'[m].dip # pointer[m].dip,
             NEW e \in created \ requested, Type[e] = "changed_records", Files[e] # {},
             Start[e] > today - Retention, Start[pointer[m].last] < Start[e]
      PROVE  Start[pointer'[m].dip] <= Start[e]
  <2>1. /\ pointer[m].last \in Event /\ e \in Event /\ e \in rows
        /\ \A f \in Event : Start[f] \in Int
    BY <1>1, RetentionAssumption DEF RetentionAssumption, RetentionInv, RetentionType, RecentIsWhole
  <2>2. PICK n \in NextDump(pointer[m].last) : pointer'[m].dip = n[1]
    BY <1>1, NewDip DEF RetentionInv
  <2>3. CASE n \in NextIncremental(pointer[m].last)
    BY <1>1, <2>1, <2>2, <2>3, StepsOverNone
  <2>4. CASE n \in PreviousToFull(pointer[m].last) \X {pointer[m].last}
    <3>1. n[1] \in Event /\ Start[n[1]] < Start[pointer[m].last]
      BY <1>1, <2>4 DEF PreviousToFull, Latest, OfType, RetentionInv, RetentionType
    <3> QED BY <1>1, <2>1, <2>2, <3>1
  <2> QED BY <1>1, <2>2, <2>3, <2>4 DEF NextDump
<1>2. RetentionInv /\ [Next]_vars =>
         [\A m \in Manager :
             LET last == pointer[m].last
                 dip == pointer'[m].dip
             IN  last # NoEvent /\ dip # NoEvent /\ dip # pointer[m].dip
                 => \A e \in created \ requested :
                       /\ Type[e] = "changed_records" /\ Files[e] # {} /\ Start[e] > today - Retention
                       /\ Start[last] < Start[e]
                       => Start[dip] <= Start[e]]_vars
  BY <1>1
<1> QED BY <1>2, RetentionInvariant, PTL DEF Spec, NoneLeftOut

---------------------------------------------------------------------------
(* The rebuild and the promotion. *)

Url == {"none", "prod", "rebuild", "temp"}

SwapType ==
    /\ newest \in Nat
    /\ managers \in [Row -> [url : Url, last : Nat \cup {Nil}, pc : {"rest", "walking", "indexing"},
                             dump : Nat \cup {Nil}, to : Url, todo : SUBSET PartFile]]
    /\ alias \in [{"prod", "rebuild"} -> Collection] /\ alias.prod # alias.rebuild
    /\ contents \in [Collection -> SUBSET (Nat \X PartFile)]
    /\ operator \in [pc : {"idle", "loaded", "aside", "promoted", "saved"}, old : Row \cup {NoRow}, new : Row \cup {NoRow}]
    /\ operator.pc # "idle" => operator.old \in Row /\ operator.new \in Row /\ operator.old # operator.new
    /\ rebuilt \in BOOLEAN /\ mixed \in BOOLEAN

\* A URL has one row, and a row without one was never used.
RowsOK ==
    /\ \A r, s \in Row : managers[r].url = managers[s].url /\ managers[r].url # "none" => r = s
    /\ \A r \in Row : managers[r].url = "none" => managers[r].last = Nil /\ managers[r].pc = "rest"
    /\ \A r \in Row : managers[r].pc = "indexing" => managers[r].dump = managers[r].last + 1

\* What the manager has done is in the collection, of the dump it is at too.
Wrote(r, collection) ==
    /\ UpTo(managers[r].last) \subseteq contents[collection]
    /\ managers[r].pc = "indexing" =>
          {managers[r].dump} \X (PartFile \ managers[r].todo) \subseteq contents[collection]

\* The jobs of the manager have the URL it has.
SameUrl(r) == managers[r].pc = "indexing" => managers[r].to = managers[r].url

ProdOK == ~mixed /\ ~Promoting => \A r \in With("prod") : Wrote(r, alias.prod) /\ SameUrl(r)

\* The rebuild manager has done so for the collection to come, until it is promoted.
RebuildOK ==
    rebuilt /\ operator.pc \in {"idle", "loaded", "aside"} =>
        \A r \in With("rebuild") : Wrote(r, alias.rebuild) /\ SameUrl(r)

\* The rake found the rebuild manager at rest, and nobody moves it.
LoadedOK ==
    operator.pc \in {"loaded", "aside"} =>
        rebuilt /\ managers[operator.new].url = "rebuild" /\ managers[operator.new].pc = "rest"

\* Until the aliases are swapped the promoted manager is the one that knows the rebuild collection.
PromotedOK ==
    /\ operator.pc = "promoted" => With("rebuild") = {}
    /\ Promoting => managers[operator.new].url = "prod"
    /\ Promoting /\ ~mixed =>
          /\ Wrote(operator.new, alias.rebuild) /\ SameUrl(operator.new)
          /\ managers[operator.new].pc = "indexing" => managers[operator.new].todo = PartFile

SwapInv == SwapType /\ RowsOK /\ ProdOK /\ RebuildOK /\ LoadedOK /\ PromotedOK

LEMMA SwapStarts == SwapInit => SwapInv
<1> SUFFICES ASSUME SwapInit PROVE SwapInv OBVIOUS
<1> USE DEF SwapInit
<1>1. SwapType
  <2>1. managers \in [Row -> [url : Url, last : Nat \cup {Nil}, pc : {"rest", "walking", "indexing"},
                            dump : Nat \cup {Nil}, to : Url, todo : SUBSET PartFile]]
    BY DEF Url, ManagerRow, Absent, Nil
  <2>2. alias \in [{"prod", "rebuild"} -> Collection] /\ alias.prod # alias.rebuild
    BY DEF Collection
  <2>3. contents \in [Collection -> SUBSET (Nat \X PartFile)]
    BY DEF Collection
  <2>4. operator \in [pc : {"idle", "loaded", "aside", "promoted", "saved"}, old : Row \cup {NoRow}, new : Row \cup {NoRow}]
        /\ operator.pc = "idle"
    BY DEF AtStep
  <2> QED BY <2>1, <2>2, <2>3, <2>4 DEF SwapType
<1>2. RowsOK BY DEF RowsOK, ManagerRow, Absent, Nil
<1>3. ProdOK
  <2>1. UpTo(0) \subseteq {0} \X PartFile BY DEF UpTo
  <2> QED BY <2>1 DEF ProdOK, With, Wrote, SameUrl, ManagerRow, Absent
<1>4. RebuildOK /\ LoadedOK /\ PromotedOK
  BY DEF RebuildOK, LoadedOK, PromotedOK, Promoting, AtStep
<1> QED BY <1>1, <1>2, <1>3, <1>4 DEF SwapInv

\* What a manager that stands still has written is not taken back while its collection grows.
LEMMA WroteStays ==
    ASSUME NEW r \in Row, NEW c \in Collection, Wrote(r, c), managers'[r].last = managers[r].last,
           managers'[r].pc = managers[r].pc, managers'[r].dump = managers[r].dump, managers'[r].todo = managers[r].todo,
           contents[c] \subseteq contents'[c]
    PROVE  Wrote(r, c)'
  BY DEF Wrote, UpTo

\* A manager that has indexed nothing owes nothing.
LEMMA NothingWritten ==
    ASSUME NEW r \in Row, NEW c \in Collection, managers[r].last = Nil, managers[r].pc # "indexing"
    PROVE  Wrote(r, c) /\ SameUrl(r)
  BY DEF Wrote, SameUrl, UpTo, Nil

LEMMA NewDumpStep == ASSUME SwapInv, NewDump PROVE SwapInv'
  BY DEF NewDump, SwapInv, SwapType, RowsOK, ProdOK, RebuildOK, LoadedOK, PromotedOK, Promoting, With, Wrote, SameUrl, UpTo

\* The manager of the URL starts to walk, or a new one.
LEMMA IndexRemainingStep ==
    ASSUME SwapInv, NEW url \in {"prod", "rebuild"}, IndexRemaining(url), url = "rebuild" => operator.pc = "idle"
    PROVE  SwapInv'
<1> USE DEF IndexRemaining
<1>1. PICK r \in For(url) :
          /\ managers[r].pc = "rest" /\ managers[r].last < newest
          /\ managers' = [managers EXCEPT ![r].url = url, ![r].pc = "walking"]
  OBVIOUS
<1>2. r \in Row BY DEF For, With
<1>3. /\ managers'[r] = [managers[r] EXCEPT !.url = url, !.pc = "walking"]
      /\ \A s \in Row \ {r} : managers'[s] = managers[s]
      /\ managers[r].url \in {url, "none"}
      /\ managers[r].url = "none" => With(url) = {}
  BY <1>1, <1>2 DEF SwapInv, SwapType, For, With
<1>4. SwapType' BY <1>1, <1>2 DEF SwapInv, SwapType, Url
<1>5. RowsOK' BY <1>2, <1>3, <1>4 DEF SwapInv, RowsOK, With, SwapType
<1>6. ASSUME NEW s \in Row, NEW c \in Collection, Wrote(s, c) PROVE Wrote(s, c)'
  <2>1. CASE s = r BY <1>1, <1>2, <1>3, <1>6, <2>1 DEF Wrote, UpTo, SwapInv, SwapType
  <2>2. CASE s # r BY <1>3, <1>6, <2>2, WroteStays
  <2> QED BY <2>1, <2>2
<1>7. \A s \in Row : SameUrl(s) => SameUrl(s)' BY <1>1, <1>2, <1>3 DEF SameUrl, SwapInv, SwapType
<1>8. \A c \in Collection : managers[r].url = "none" => Wrote(r, c) /\ SameUrl(r)
  BY <1>2, NothingWritten DEF SwapInv, RowsOK
<1>9. \A u \in {"prod", "rebuild"} : With(u)' \subseteq With(u) \cup (IF url = u THEN {r} ELSE {})
  <2>1. managers'[r].url = url BY <1>1, <1>2 DEF SwapInv, SwapType
  <2> QED BY <1>2, <1>3, <2>1 DEF With
<1>10. alias.prod \in Collection /\ alias.rebuild \in Collection BY DEF SwapInv, SwapType
<1>11. ProdOK' BY <1>2, <1>3, <1>6, <1>7, <1>8, <1>9, <1>10 DEF SwapInv, ProdOK, Promoting, With
<1>12. RebuildOK' BY <1>2, <1>3, <1>6, <1>7, <1>8, <1>9, <1>10 DEF SwapInv, RebuildOK, With
<1>13. LoadedOK' BY <1>2, <1>3 DEF SwapInv, LoadedOK, SwapType
<1>14. PromotedOK'
  <2>1. ASSUME operator.pc = "promoted" PROVE With("rebuild")' = {}
    BY <1>9, <2>1 DEF SwapInv, PromotedOK
  <2>2. ASSUME Promoting PROVE managers'[operator.new].url = "prod" /\ operator.new \in Row
    BY <1>2, <1>3, <2>2 DEF SwapInv, PromotedOK, Promoting, SwapType
  <2>3. ASSUME Promoting, ~mixed, managers'[operator.new].pc = "indexing" PROVE managers'[operator.new].todo = PartFile
    BY <1>2, <1>3, <2>2, <2>3 DEF SwapInv, PromotedOK, Promoting, SwapType
  <2> QED BY <1>6, <1>7, <1>10, <2>1, <2>2, <2>3 DEF SwapInv, PromotedOK, Promoting
<1> QED BY <1>4, <1>5, <1>11, <1>12, <1>13, <1>14 DEF SwapInv

\* The workflow of a manager.
LEMMA StartDumpStep == ASSUME SwapInv, NEW r \in Row, StartDump(r) PROVE SwapInv'
<1>1. /\ UNCHANGED <<newest, alias, contents, operator, rebuilt, mixed, rakeKills>>
      /\ managers' = [managers EXCEPT ![r].pc = "indexing", ![r].dump = managers[r].last + 1,
                            ![r].to = managers[r].url, ![r].todo = PartFile]
      /\ managers[r].pc = "walking"
  BY DEF StartDump
<1>2. /\ managers'[r].url = managers[r].url /\ managers'[r].last = managers[r].last /\ managers'[r].pc = "indexing"
      /\ managers'[r].dump = managers[r].last + 1 /\ managers'[r].to = managers[r].url /\ managers'[r].todo = PartFile
      /\ \A s \in Row \ {r} : managers'[s] = managers[s]
  BY <1>1 DEF SwapInv, SwapType
<1>3. SwapType'
  <2>1. managers[r].last + 1 \in Nat BY DEF SwapInv, SwapType, Nil
  <2>2. managers' \in [Row -> [url : Url, last : Nat \cup {Nil}, pc : {"rest", "walking", "indexing"},
                            dump : Nat \cup {Nil}, to : Url, todo : SUBSET PartFile]]
    <3> DEFINE next == [managers[r] EXCEPT !.pc = "indexing", !.dump = managers[r].last + 1,
                                          !.to = managers[r].url, !.todo = PartFile]
    <3>1. managers' = [managers EXCEPT ![r] = next] BY <1>1 DEF SwapInv, SwapType
    <3>2. next \in [url : Url, last : Nat \cup {Nil}, pc : {"rest", "walking", "indexing"},
                            dump : Nat \cup {Nil}, to : Url, todo : SUBSET PartFile]
      <4>1. managers[r] \in [url : Url, last : Nat \cup {Nil}, pc : {"rest", "walking", "indexing"},
                             dump : Nat \cup {Nil}, to : Url, todo : SUBSET PartFile]
        BY DEF SwapInv, SwapType
      <4> QED BY <2>1, <4>1
    <3> HIDE DEF next
    <3> QED BY <3>1, <3>2 DEF SwapInv, SwapType
  <2> QED BY <1>1, <2>2 DEF SwapInv, SwapType
<1>4. RowsOK'
  <2>1. managers[r].url # "none" BY <1>1 DEF SwapInv, RowsOK
  <2>2. \A s \in Row : managers'[s].url = managers[s].url BY <1>2
  <2>3. \A s \in Row : managers[s].url = "none" => managers'[s].last = Nil /\ managers'[s].pc = "rest"
    BY <1>2, <2>1 DEF SwapInv, RowsOK
  <2>4. \A s \in Row : managers'[s].pc = "indexing" => managers'[s].dump = managers'[s].last + 1
    BY <1>2 DEF SwapInv, RowsOK
  <2> QED BY <2>2, <2>3, <2>4 DEF SwapInv, RowsOK
<1>5. ASSUME NEW s \in Row, NEW c \in Collection, Wrote(s, c), SameUrl(s) PROVE Wrote(s, c)' /\ SameUrl(s)'
  <2>1. CASE s = r BY <1>1, <1>2, <1>5, <2>1 DEF Wrote, UpTo, SameUrl
  <2>2. CASE s # r BY <1>1, <1>2, <1>5, <2>2, WroteStays DEF SameUrl
  <2> QED BY <2>1, <2>2
<1>6. \A u \in Url : With(u)' = With(u) BY <1>2 DEF With
<1>7. alias.prod \in Collection /\ alias.rebuild \in Collection /\ "prod" \in Url /\ "rebuild" \in Url
  BY DEF SwapInv, SwapType, Url
<1>8. ProdOK' BY <1>1, <1>5, <1>6, <1>7 DEF SwapInv, ProdOK, Promoting, With
<1>9. RebuildOK' BY <1>1, <1>5, <1>6, <1>7 DEF SwapInv, RebuildOK, With
<1>10. LoadedOK' BY <1>1, <1>2 DEF SwapInv, LoadedOK, SwapType
<1>11. PromotedOK' BY <1>1, <1>2, <1>5, <1>6, <1>7 DEF SwapInv, PromotedOK, Promoting, SwapType
<1> QED BY <1>3, <1>4, <1>8, <1>9, <1>10, <1>11 DEF SwapInv

LEMMA DumpFileJobStep == ASSUME SwapInv, NEW r \in Row, NEW f \in PartFile, DumpFileJob(r, f) PROVE SwapInv'
<1> DEFINE target == alias[managers[r].to]
<1>1. /\ managers[r].pc = "indexing" /\ f \in managers[r].todo /\ managers[r].to \in {"prod", "rebuild"}
      /\ contents' = [contents EXCEPT ![target] = @ \cup {<<managers[r].dump, f>>}]
      /\ managers' = [managers EXCEPT ![r].todo = @ \ {f}]
      /\ mixed' = (mixed \/ (Promoting /\ managers[r].url = "prod"))
      /\ UNCHANGED <<newest, alias, operator, rebuilt, rakeKills>>
  BY DEF DumpFileJob, SwapInv, SwapType
<1> HIDE DEF target
<1>2. target \in Collection /\ managers[r].dump \in Nat /\ managers[r].dump = managers[r].last + 1
  BY <1>1 DEF SwapInv, SwapType, RowsOK, Nil, target
<1>3. /\ managers'[r].url = managers[r].url /\ managers'[r].last = managers[r].last /\ managers'[r].pc = managers[r].pc
      /\ managers'[r].dump = managers[r].dump /\ managers'[r].to = managers[r].to
      /\ managers'[r].todo = managers[r].todo \ {f}
      /\ \A s \in Row \ {r} : managers'[s] = managers[s]
      /\ contents'[target] = contents[target] \cup {<<managers[r].dump, f>>}
      /\ \A c \in Collection : contents[c] \subseteq contents'[c]
  BY <1>1, <1>2 DEF SwapInv, SwapType
<1>4. SwapType'
  <2>1. contents' \in [Collection -> SUBSET (Nat \X PartFile)]
    <3>1. contents \in [Collection -> SUBSET (Nat \X PartFile)] BY DEF SwapInv, SwapType
    <3>2. contents[target] \cup {<<managers[r].dump, f>>} \in SUBSET (Nat \X PartFile) BY <1>2, <3>1
    <3> QED BY <1>1, <3>1, <3>2
  <2>2. managers' \in [Row -> [url : Url, last : Nat \cup {Nil}, pc : {"rest", "walking", "indexing"},
                            dump : Nat \cup {Nil}, to : Url, todo : SUBSET PartFile]]
    BY <1>1 DEF SwapInv, SwapType
  <2>3. mixed' \in BOOLEAN BY <1>1 DEF SwapInv, SwapType
  <2> QED BY <1>1, <2>1, <2>2, <2>3 DEF SwapInv, SwapType
<1>5. RowsOK' BY <1>3 DEF SwapInv, RowsOK
<1>6. ASSUME NEW s \in Row, NEW c \in Collection, Wrote(s, c), s = r => c = target PROVE Wrote(s, c)'
  <2>1. CASE s = r BY <1>2, <1>3, <1>6, <2>1 DEF Wrote, UpTo
  <2>2. CASE s # r BY <1>3, <1>6, <2>2, WroteStays
  <2> QED BY <2>1, <2>2
<1>7. \A s \in Row : SameUrl(s) => SameUrl(s)' BY <1>3 DEF SameUrl
<1>8. \A u \in Url : With(u)' = With(u) BY <1>3 DEF With
<1>9. /\ alias.prod \in Collection /\ alias.rebuild \in Collection /\ "prod" \in Url /\ "rebuild" \in Url
      /\ \A u \in {"prod", "rebuild"} : managers[r].url = u /\ SameUrl(r) => alias[u] = target
  BY <1>1 DEF SwapInv, SwapType, Url, SameUrl, target
<1>10. ProdOK' BY <1>1, <1>6, <1>7, <1>8, <1>9 DEF SwapInv, ProdOK, Promoting, With
<1>11. RebuildOK' BY <1>1, <1>6, <1>7, <1>8, <1>9 DEF SwapInv, RebuildOK, With
<1>12. LoadedOK' BY <1>1, <1>3 DEF SwapInv, LoadedOK, SwapType
<1>13. PromotedOK'
  <2>1. ASSUME Promoting PROVE managers'[operator.new].url = "prod" /\ operator.new \in Row
    BY <1>1, <1>3, <2>1 DEF SwapInv, PromotedOK, Promoting, SwapType
  <2>2. ASSUME Promoting, ~mixed' PROVE operator.new # r
    BY <1>1, <2>2 DEF SwapInv, PromotedOK, Promoting, SwapType
  <2>3. ASSUME operator.pc = "promoted" PROVE With("rebuild")' = {}
    BY <1>8, <1>9, <2>3 DEF SwapInv, PromotedOK
  <2>4. ASSUME Promoting, ~mixed'
        PROVE  /\ Wrote(operator.new, alias.rebuild)' /\ SameUrl(operator.new)'
               /\ managers'[operator.new].pc = "indexing" => managers'[operator.new].todo = PartFile
    BY <1>1, <1>3, <1>6, <1>7, <1>9, <2>1, <2>2, <2>4 DEF SwapInv, PromotedOK
  <2> QED BY <1>1, <2>1, <2>3, <2>4 DEF PromotedOK, Promoting
<1> QED BY <1>4, <1>5, <1>10, <1>11, <1>12, <1>13 DEF SwapInv

LEMMA OnSuccessStep == ASSUME SwapInv, NEW r \in Row, OnSuccess(r) PROVE SwapInv'
<1>1. /\ managers[r].pc = "indexing" /\ managers[r].todo = {}
      /\ managers' = [managers EXCEPT ![r] = ManagerRow(managers[r].url, managers[r].dump, "walking")]
      /\ UNCHANGED <<newest, alias, contents, operator, rebuilt, mixed, rakeKills>>
  BY DEF OnSuccess
<1>2. /\ managers'[r].url = managers[r].url /\ managers'[r].last = managers[r].last + 1 /\ managers'[r].pc = "walking"
      /\ managers[r].dump = managers[r].last + 1 /\ managers[r].last \in Nat \cup {Nil}
      /\ \A s \in Row \ {r} : managers'[s] = managers[s]
  BY <1>1 DEF SwapInv, SwapType, RowsOK, ManagerRow
<1>3. SwapType'
  <2>1. ManagerRow(managers[r].url, managers[r].dump, "walking") \in
            [url : Url, last : Nat \cup {Nil}, pc : {"rest", "walking", "indexing"},
                            dump : Nat \cup {Nil}, to : Url, todo : SUBSET PartFile]
    BY DEF SwapInv, SwapType, ManagerRow, Url
  <2> QED BY <1>1, <2>1 DEF SwapInv, SwapType
<1>4. RowsOK' BY <1>1, <1>2 DEF SwapInv, RowsOK
<1>5. ASSUME NEW s \in Row, NEW c \in Collection, Wrote(s, c) PROVE Wrote(s, c)'
  <2>1. CASE s = r
    <3>1. {managers[r].dump} \X PartFile \subseteq contents[c] BY <1>1, <1>5, <2>1 DEF Wrote
    <3>2. UpTo(managers[r].last + 1) \subseteq UpTo(managers[r].last) \cup {managers[r].last + 1} \X PartFile
      BY <1>2 DEF UpTo, Nil
    <3> QED BY <1>1, <1>2, <1>5, <2>1, <3>1, <3>2 DEF Wrote, UpTo
  <2>2. CASE s # r BY <1>1, <1>2, <1>5, <2>2, WroteStays
  <2> QED BY <2>1, <2>2
<1>6. \A s \in Row : SameUrl(s) => SameUrl(s)' BY <1>2 DEF SameUrl
<1>7. \A u \in Url : With(u)' = With(u) BY <1>2 DEF With
<1>8. alias.prod \in Collection /\ alias.rebuild \in Collection /\ "prod" \in Url /\ "rebuild" \in Url
  BY DEF SwapInv, SwapType, Url
<1>9. ProdOK' BY <1>1, <1>5, <1>6, <1>7, <1>8 DEF SwapInv, ProdOK, Promoting, With
<1>10. RebuildOK' BY <1>1, <1>5, <1>6, <1>7, <1>8 DEF SwapInv, RebuildOK, With
<1>11. LoadedOK' BY <1>1, <1>2 DEF SwapInv, LoadedOK, SwapType
<1>12. PromotedOK' BY <1>1, <1>2, <1>5, <1>6, <1>7, <1>8 DEF SwapInv, PromotedOK, Promoting, SwapType
<1> QED BY <1>3, <1>4, <1>9, <1>10, <1>11, <1>12 DEF SwapInv

LEMMA IndexedRemainingStep == ASSUME SwapInv, NEW r \in Row, IndexedRemaining(r) PROVE SwapInv'
<1>1. /\ managers[r].pc = "walking" /\ managers' = [managers EXCEPT ![r].pc = "rest"]
      /\ UNCHANGED <<newest, alias, contents, operator, rebuilt, mixed, rakeKills>>
  BY DEF IndexedRemaining
<1>2. /\ managers'[r].url = managers[r].url /\ managers'[r].last = managers[r].last /\ managers'[r].pc = "rest"
      /\ \A s \in Row \ {r} : managers'[s] = managers[s]
  BY <1>1 DEF SwapInv, SwapType
<1>3. SwapType' BY <1>1 DEF SwapInv, SwapType
<1>4. RowsOK' BY <1>1, <1>2 DEF SwapInv, RowsOK
<1>5. ASSUME NEW s \in Row, NEW c \in Collection, Wrote(s, c) PROVE Wrote(s, c)'
  BY <1>1, <1>2, <1>5, WroteStays DEF Wrote, UpTo
<1>6. \A s \in Row : SameUrl(s) => SameUrl(s)' BY <1>2 DEF SameUrl
<1>7. \A u \in Url : With(u)' = With(u) BY <1>2 DEF With
<1>8. alias.prod \in Collection /\ alias.rebuild \in Collection /\ "prod" \in Url /\ "rebuild" \in Url
  BY DEF SwapInv, SwapType, Url
<1>9. ProdOK' BY <1>1, <1>5, <1>6, <1>7, <1>8 DEF SwapInv, ProdOK, Promoting, With
<1>10. RebuildOK' BY <1>1, <1>5, <1>6, <1>7, <1>8 DEF SwapInv, RebuildOK, With
<1>11. LoadedOK' BY <1>1, <1>2 DEF SwapInv, LoadedOK, SwapType
<1>12. PromotedOK' BY <1>1, <1>2, <1>5, <1>6, <1>7, <1>8 DEF SwapInv, PromotedOK, Promoting, SwapType
<1> QED BY <1>3, <1>4, <1>9, <1>10, <1>11, <1>12 DEF SwapInv

\* The rebuild starts from an empty collection that is not the one behind prod.
LEMMA RebuildStep == ASSUME SwapInv, Rebuild PROVE SwapInv'
<1>1. PICK r \in For("rebuild") : managers' = [managers EXCEPT ![r] = ManagerRow("rebuild", Nil, "walking")]
  BY DEF Rebuild
<1>2. /\ operator.pc = "idle" /\ contents' = [contents EXCEPT ![alias.rebuild] = {}] /\ rebuilt' = TRUE
      /\ UNCHANGED <<newest, alias, operator, mixed, rakeKills>>
  BY DEF Rebuild
<1>3. r \in Row /\ (managers[r].url = "none" => With("rebuild") = {}) /\ managers[r].url \in {"none", "rebuild"}
  BY DEF For, With
<1>4. /\ managers'[r].url = "rebuild" /\ managers'[r].last = Nil /\ managers'[r].pc = "walking"
      /\ \A s \in Row \ {r} : managers'[s] = managers[s]
  BY <1>1, <1>3 DEF SwapInv, SwapType, ManagerRow
<1>5. SwapType'
  <2>1. ManagerRow("rebuild", Nil, "walking") \in
            [url : Url, last : Nat \cup {Nil}, pc : {"rest", "walking", "indexing"},
                            dump : Nat \cup {Nil}, to : Url, todo : SUBSET PartFile]
    BY DEF ManagerRow, Url
  <2>2. managers' \in [Row -> [url : Url, last : Nat \cup {Nil}, pc : {"rest", "walking", "indexing"},
                            dump : Nat \cup {Nil}, to : Url, todo : SUBSET PartFile]]
    BY <1>1, <1>3, <2>1 DEF SwapInv, SwapType
  <2>3. contents' \in [Collection -> SUBSET (Nat \X PartFile)] BY <1>2 DEF SwapInv, SwapType
  <2> QED BY <1>2, <2>2, <2>3 DEF SwapInv, SwapType
<1>6. RowsOK'
  <2>1. \A s \in Row \ {r} : managers[s].url # "rebuild" BY <1>3 DEF SwapInv, RowsOK, With
  <2> QED BY <1>4, <2>1 DEF SwapInv, RowsOK
<1>7. alias.prod \in Collection /\ contents'[alias.prod] = contents[alias.prod]
  BY <1>2 DEF SwapInv, SwapType
<1>8. ProdOK'
  <2>1. \A s \in With("prod")' : s \in Row \ {r} /\ s \in With("prod") BY <1>4 DEF With
  <2>2. ASSUME NEW s \in With("prod")', Wrote(s, alias.prod), SameUrl(s)
        PROVE  Wrote(s, alias.prod)' /\ SameUrl(s)'
    BY <1>2, <1>4, <1>7, <2>1, <2>2, WroteStays DEF SameUrl
  <2> QED BY <1>2, <2>1, <2>2 DEF SwapInv, ProdOK, Promoting
<1>9. RebuildOK'
  <2>1. With("rebuild")' \subseteq {r}
    BY <1>3, <1>4 DEF With, SwapInv, RowsOK
  <2>2. Wrote(r, alias.rebuild)' /\ SameUrl(r)' BY <1>4 DEF Wrote, SameUrl, UpTo, Nil
  <2> QED BY <2>1, <2>2 DEF RebuildOK
<1> QED BY <1>2, <1>5, <1>6, <1>8, <1>9 DEF SwapInv, LoadedOK, PromotedOK, Promoting

LEMMA LoadStep == ASSUME SwapInv, Load PROVE SwapInv'
<1>1. /\ operator.pc = "idle" /\ rebuilt
      /\ UNCHANGED <<newest, managers, alias, contents, rebuilt, mixed, rakeKills>>
  BY DEF Load
<1>2. PICK old \in For("prod"), new \in With("rebuild") :
          managers[new].pc = "rest" /\ operator' = AtStep("loaded", old, new)
  BY DEF Load
<1>3. old \in Row /\ new \in Row /\ old # new /\ managers[new].url = "rebuild"
  BY DEF For, With
<1>4. operator'.pc = "loaded" /\ operator'.old = old /\ operator'.new = new
  BY <1>2 DEF AtStep
<1>5. SwapType'
  <2>1. operator' \in [pc : {"idle", "loaded", "aside", "promoted", "saved"}, old : Row \cup {NoRow}, new : Row \cup {NoRow}]
    BY <1>2, <1>3 DEF AtStep
  <2> QED BY <1>1, <1>3, <1>4, <2>1 DEF SwapInv, SwapType
<1>6. \A r \in Row, c \in Collection : Wrote(r, c)' = Wrote(r, c) /\ SameUrl(r)' = SameUrl(r)
  BY <1>1 DEF Wrote, SameUrl
<1>7. \A u \in Url : With(u)' = With(u) BY <1>1 DEF With
<1>8. alias.prod \in Collection /\ alias.rebuild \in Collection /\ "prod" \in Url /\ "rebuild" \in Url
  BY DEF SwapInv, SwapType, Url
<1>9. RowsOK' BY <1>1 DEF SwapInv, RowsOK
<1>10. ProdOK' BY <1>1, <1>6, <1>7, <1>8 DEF SwapInv, ProdOK, Promoting, With
<1>11. RebuildOK' BY <1>1, <1>6, <1>7, <1>8 DEF SwapInv, RebuildOK, With
<1>12. LoadedOK' BY <1>1, <1>2, <1>3, <1>4 DEF LoadedOK
<1>13. PromotedOK' BY <1>4 DEF PromotedOK, Promoting
<1> QED BY <1>5, <1>9, <1>10, <1>11, <1>12, <1>13 DEF SwapInv

\* The operator starts again, or is one step further: nothing else changed.
LEMMA OperatorMoves ==
    ASSUME SwapInv, UNCHANGED <<newest, managers, alias, contents, rebuilt, mixed>>,
           \/ operator' = AtStep("idle", NoRow, NoRow) /\ operator.pc \in {"idle", "loaded", "aside"}
           \/ operator' = [operator EXCEPT !.pc = "saved"] /\ operator.pc = "promoted"
    PROVE  SwapInv'
<1>1. /\ operator' \in [pc : {"idle", "loaded", "aside", "promoted", "saved"}, old : Row \cup {NoRow}, new : Row \cup {NoRow}]
      /\ operator.pc # "promoted" => operator'.pc = "idle" /\ ~Promoting /\ ~Promoting'
      /\ operator.pc = "promoted" => operator'.pc = "saved" /\ Promoting /\ Promoting'
      /\ operator.pc = "promoted" => operator'.new = operator.new /\ operator'.old = operator.old
  BY DEF SwapInv, SwapType, AtStep, Promoting
<1>2. SwapType' BY <1>1 DEF SwapInv, SwapType
<1>3. \A r \in Row, c \in Collection : Wrote(r, c)' = Wrote(r, c) /\ SameUrl(r)' = SameUrl(r)
  BY DEF Wrote, SameUrl
<1>4. \A u \in Url : With(u)' = With(u) BY DEF With
<1>5. alias.prod \in Collection /\ alias.rebuild \in Collection /\ "prod" \in Url /\ "rebuild" \in Url
  BY DEF SwapInv, SwapType, Url
<1>6. RowsOK' BY DEF SwapInv, RowsOK
<1>7. ProdOK' BY <1>1, <1>3, <1>4, <1>5 DEF SwapInv, ProdOK, With
<1>8. RebuildOK' BY <1>1, <1>3, <1>4, <1>5 DEF SwapInv, RebuildOK, With
<1>9. LoadedOK' BY <1>1 DEF LoadedOK
<1>10. PromotedOK' BY <1>1, <1>3, <1>5 DEF SwapInv, SwapType, PromotedOK
<1> QED BY <1>2, <1>6, <1>7, <1>8, <1>9, <1>10 DEF SwapInv

\* A save that goes through: no other row has the URL, and what the manager did is untouched.
LEMMA SaveUrlStep ==
    ASSUME SwapInv, NEW from \in {"loaded", "aside", "promoted"}, NEW to \in {"aside", "promoted", "saved"},
           NEW r \in Row, NEW url \in {"temp", "prod", "rebuild"},
           SaveUrl(from, to, r, url), With(url) \subseteq {r}
    PROVE  /\ UNCHANGED <<newest, alias, contents, rebuilt, mixed>>
           /\ operator'.pc = to /\ operator'.old = operator.old /\ operator'.new = operator.new
           /\ managers'[r].url = url /\ managers'[r].pc = managers[r].pc
           /\ \A s \in Row \ {r} : managers'[s] = managers[s] /\ managers[s].url # url
           /\ \A s \in Row : managers'[s].to = managers[s].to /\ managers'[s].pc = managers[s].pc
                             /\ managers'[s].todo = managers[s].todo
           /\ \A s \in Row, c \in Collection : Wrote(s, c)' = Wrote(s, c)
           /\ SwapType' /\ RowsOK'
<1>1. /\ operator.pc = from /\ managers' = [managers EXCEPT ![r].url = url] /\ operator' = [operator EXCEPT !.pc = to]
      /\ UNCHANGED <<newest, alias, contents, rebuilt, mixed, rakeKills>>
  BY DEF SaveUrl
<1>2. operator'.pc = to /\ operator'.old = operator.old /\ operator'.new = operator.new
  BY <1>1 DEF SwapInv, SwapType
<1>3. /\ managers'[r].url = url /\ managers'[r].pc = managers[r].pc /\ managers'[r].last = managers[r].last
      /\ managers'[r].dump = managers[r].dump /\ managers'[r].to = managers[r].to /\ managers'[r].todo = managers[r].todo
      /\ \A s \in Row \ {r} : managers'[s] = managers[s] /\ managers[s].url # url
  BY <1>1 DEF SwapInv, SwapType, With
<1>4. \A s \in Row, c \in Collection : Wrote(s, c)' = Wrote(s, c)
  BY <1>1, <1>3 DEF Wrote
<1>5. SwapType'
  <2>1. managers' \in [Row -> [url : Url, last : Nat \cup {Nil}, pc : {"rest", "walking", "indexing"},
                            dump : Nat \cup {Nil}, to : Url, todo : SUBSET PartFile]]
    BY <1>1 DEF SwapInv, SwapType, Url
  <2>2. operator' \in [pc : {"idle", "loaded", "aside", "promoted", "saved"}, old : Row \cup {NoRow}, new : Row \cup {NoRow}]
    BY <1>1 DEF SwapInv, SwapType
  <2>3. operator.pc # "idle" BY <1>1
  <2> QED BY <1>1, <1>2, <2>1, <2>2, <2>3 DEF SwapInv, SwapType
<1>6. RowsOK' BY <1>3 DEF SwapInv, RowsOK
<1> QED BY <1>1, <1>2, <1>3, <1>4, <1>5, <1>6

LEMMA SetAsideStep == ASSUME SwapInv, SetAside PROVE SwapInv'
<1>1. operator.pc = "loaded" /\ operator.old \in Row /\ operator.new \in Row /\ operator.old # operator.new
  BY DEF SetAside, SaveUrl, SwapInv, SwapType
<1>2. CASE ~(With("temp") \subseteq {operator.old})
  BY <1>1, <1>2, OperatorMoves DEF SetAside, SaveUrl
<1>3. CASE With("temp") \subseteq {operator.old}
  <2> DEFINE old == operator.old
  <2>1. /\ UNCHANGED <<newest, alias, contents, rebuilt, mixed>>
        /\ operator'.pc = "aside" /\ operator'.new = operator.new
        /\ managers'[old].url = "temp"
        /\ \A s \in Row \ {old} : managers'[s] = managers[s]
        /\ \A s \in Row, c \in Collection : Wrote(s, c)' = Wrote(s, c)
        /\ SwapType' /\ RowsOK'
    BY <1>1, <1>3, SaveUrlStep DEF SetAside
  <2> HIDE DEF old
  <2>2. \A u \in {"prod", "rebuild"} : \A s \in With(u)' : s \in With(u) /\ managers'[s] = managers[s]
    BY <2>1 DEF With
  <2>3. alias.prod \in Collection /\ alias.rebuild \in Collection BY DEF SwapInv, SwapType
  <2>4. ProdOK' BY <1>1, <2>1, <2>2, <2>3 DEF SwapInv, ProdOK, Promoting, With, SameUrl
  <2>5. RebuildOK' BY <1>1, <2>1, <2>2, <2>3 DEF SwapInv, RebuildOK, With, SameUrl
  <2>6. LoadedOK' BY <1>1, <2>1 DEF SwapInv, LoadedOK, old
  <2> QED BY <2>1, <2>4, <2>5, <2>6 DEF SwapInv, PromotedOK, Promoting
<1> QED BY <1>2, <1>3

LEMMA PromoteStep == ASSUME SwapInv, Promote PROVE SwapInv'
<1>1. PICK new \in Row, coming \in Collection : new = operator.new /\ coming = alias.rebuild
  BY DEF Promote, SaveUrl, SwapInv, SwapType
<1>2. /\ operator.pc = "aside" /\ rebuilt /\ managers[new].url = "rebuild" /\ managers[new].pc = "rest"
      /\ SaveUrl("aside", "promoted", new, "prod")
  BY <1>1 DEF Promote, SaveUrl, SwapInv, LoadedOK
<1>3. CASE ~(With("prod") \subseteq {new})
  BY <1>2, <1>3, OperatorMoves DEF SaveUrl
<1>4. CASE With("prod") \subseteq {new}
  <2>1. /\ UNCHANGED <<newest, alias, contents, rebuilt, mixed>>
        /\ operator'.pc = "promoted" /\ operator'.new = new
        /\ managers'[new].url = "prod" /\ managers'[new].pc = managers[new].pc
        /\ \A s \in Row \ {new} : managers'[s] = managers[s]
        /\ \A s \in Row, c \in Collection : Wrote(s, c)' = Wrote(s, c)
        /\ SwapType' /\ RowsOK'
    <3>1. UNCHANGED <<newest, alias, contents, rebuilt, mixed>> /\ operator'.pc = "promoted" /\ SwapType' /\ RowsOK'
      BY <1>2, <1>4, SaveUrlStep
    <3>2. managers'[new].url = "prod" /\ managers'[new].pc = managers[new].pc
      BY <1>2, <1>4, SaveUrlStep
    <3>3. \A s \in Row \ {new} : managers'[s] = managers[s]
      BY <1>2, <1>4 DEF SaveUrl, SwapInv, SwapType
    <3>4. \A s \in Row, c \in Collection : Wrote(s, c)' = Wrote(s, c)
      BY <1>2, <1>4, SaveUrlStep
    <3>5. operator'.new = new
      BY <1>1, <1>2, <1>4, SaveUrlStep
    <3> QED BY <3>1, <3>2, <3>3, <3>4, <3>5
  <2>2. With("rebuild")' = {}
    BY <1>2, <2>1 DEF With, SwapInv, RowsOK
  <2>3. Wrote(new, coming)
    BY <1>1, <1>2 DEF SwapInv, RebuildOK, With
  <2>4. (Wrote(operator.new, alias.rebuild))' = Wrote(new, coming)' /\ Wrote(new, coming)' = Wrote(new, coming)
    BY <1>1, <2>1 DEF Wrote
  <2>5. PromotedOK' BY <1>2, <2>1, <2>2, <2>3, <2>4 DEF PromotedOK, SameUrl
  <2> QED BY <2>1, <2>5 DEF SwapInv, ProdOK, RebuildOK, LoadedOK, Promoting
<1> QED BY <1>3, <1>4

LEMMA DemoteStep == ASSUME SwapInv, Demote PROVE SwapInv'
<1>1. PICK old \in Row, new \in Row, coming \in Collection :
          old = operator.old /\ new = operator.new /\ old # new /\ coming = alias.rebuild
  BY DEF Demote, SaveUrl, SwapInv, SwapType
<1>2. operator.pc = "promoted" /\ With("rebuild") = {} /\ SaveUrl("promoted", "saved", old, "rebuild")
  BY <1>1 DEF Demote, SaveUrl, SwapInv, PromotedOK
<1>3. /\ UNCHANGED <<newest, alias, contents, rebuilt, mixed>>
      /\ operator'.pc = "saved" /\ operator'.new = new
      /\ managers'[new] = managers[new]
      /\ Wrote(new, coming)' = Wrote(new, coming)
      /\ SwapType' /\ RowsOK'
  BY <1>1, <1>2, SaveUrlStep
<1>4. managers[new].url = "prod" /\ (~mixed => Wrote(new, coming) /\ SameUrl(new)
                        /\ (managers[new].pc = "indexing" => managers[new].todo = PartFile))
  BY <1>1, <1>2 DEF SwapInv, PromotedOK, Promoting
<1>5. (Wrote(operator.new, alias.rebuild))' = Wrote(new, coming)' /\ SameUrl(operator.new)' = SameUrl(new)
  BY <1>1, <1>3 DEF Wrote, SameUrl
<1>6. PromotedOK' BY <1>3, <1>4, <1>5 DEF PromotedOK
<1> QED BY <1>3, <1>6 DEF SwapInv, ProdOK, RebuildOK, LoadedOK, Promoting

\* The collection the promoted manager has indexed is the one that readers see from now on.
LEMMA SwapAliasStep == ASSUME SwapInv, SwapAlias PROVE SwapInv'
<1>1. PICK new \in Row, coming \in Collection : new = operator.new /\ coming = alias.rebuild
  BY DEF SwapAlias, SwapInv, SwapType
<1>2. /\ operator.pc = "saved" /\ alias' = [prod |-> alias.rebuild, rebuild |-> alias.prod]
      /\ operator' = AtStep("idle", NoRow, NoRow) /\ rebuilt' = FALSE
      /\ UNCHANGED <<newest, managers, contents, mixed>>
  BY DEF SwapAlias
<1>3. /\ operator'.pc = "idle" /\ alias'.prod = coming /\ alias'.rebuild = alias.prod
      /\ managers[new].url = "prod"
  BY <1>1, <1>2 DEF AtStep, SwapInv, PromotedOK, Promoting
<1>4. SwapType'
  <2>1. operator' \in [pc : {"idle", "loaded", "aside", "promoted", "saved"}, old : Row \cup {NoRow}, new : Row \cup {NoRow}]
    BY <1>2 DEF AtStep
  <2>2. alias' \in [{"prod", "rebuild"} -> Collection]
    BY <1>2 DEF SwapInv, SwapType
  <2> QED BY <1>1, <1>2, <1>3, <2>1, <2>2 DEF SwapInv, SwapType
<1>5. RowsOK' BY <1>2 DEF SwapInv, RowsOK
<1>6. ProdOK'
  <2>1. With("prod")' \subseteq {new} BY <1>2, <1>3 DEF With, SwapInv, RowsOK
  <2>2. ~mixed => Wrote(new, coming) /\ SameUrl(new)
    BY <1>1, <1>2 DEF SwapInv, PromotedOK, Promoting
  <2>3. Wrote(new, coming)' = Wrote(new, coming) /\ SameUrl(new)' = SameUrl(new)
    BY <1>2 DEF Wrote, SameUrl, UpTo
  <2>4. Wrote(new, alias.prod)' = Wrote(new, coming)'
    BY <1>3 DEF Wrote
  <2> QED BY <1>2, <2>1, <2>2, <2>3, <2>4 DEF ProdOK
<1> QED BY <1>2, <1>3, <1>4, <1>5, <1>6 DEF SwapInv, RebuildOK, LoadedOK, PromotedOK, Promoting

LEMMA KillRakeStep == ASSUME SwapInv, KillRake PROVE SwapInv'
  BY OperatorMoves DEF KillRake

LEMMA SwapInvariant == SwapSpec => []SwapInv
<1>1. SwapInv /\ [SwapNext]_swapVars => SwapInv'
  <2> SUFFICES ASSUME SwapInv, [SwapNext]_swapVars PROVE SwapInv'
    OBVIOUS
  <2>1. CASE UNCHANGED swapVars
    BY <2>1 DEF swapVars, SwapInv, SwapType, RowsOK, ProdOK, RebuildOK, LoadedOK, PromotedOK, Promoting, With, Wrote, SameUrl, UpTo
  <2>2. CASE \E r \in Row : Workflow(r)
    BY <2>2, StartDumpStep, DumpFileJobStep, OnSuccessStep, IndexedRemainingStep DEF Workflow
  <2>3. CASE NewDump \/ IndexRemaining("prod") \/ IndexLatest
    BY <2>3, NewDumpStep, IndexRemainingStep DEF IndexLatest
  <2>4. CASE Rebuild \/ Load \/ SwapAlias \/ KillRake
    BY <2>4, RebuildStep, LoadStep, SwapAliasStep, KillRakeStep
  <2>5. CASE Rake BY <2>5, SetAsideStep, PromoteStep, DemoteStep DEF Rake
  <2> QED BY <2>1, <2>2, <2>3, <2>4, <2>5 DEF SwapNext, Operator
<1> QED BY <1>1, SwapStarts, PTL DEF SwapSpec

\* Through any number of rebuilds, promotions, failed saves and killed rakes, for any number of
\* managers, dumps and files, readers see what the production manager has completed, unless the
\* promoted manager wrote before the aliases were swapped.
THEOREM ReadersKeepDumps == SwapSpec => []ProductionComplete
<1>1. SwapInv => ProductionComplete BY DEF SwapInv, ProdOK, ProductionComplete, Wrote
<1> QED BY <1>1, SwapInvariant, PTL

---------------------------------------------------------------------------
(* The options of Alma.configuration. *)

\* The thread has saved the option, and has set it and not restored it yet.
HasSaved(t, k) == call[t].pc # "save" \/ k \notin call[t].todo
HasSet(t, k) ==
    \/ call[t].pc = "set" /\ k \notin call[t].todo
    \/ call[t].pc = "request"
    \/ call[t].pc = "restore" /\ k \in call[t].todo

CallType ==
    /\ config \in [Option -> Value]
    /\ call \in [Thread -> [pc : {"idle", "save", "set", "request", "restore"}, caller : Caller \cup {NoCaller},
                            todo : SUBSET Option, original : [Option -> Value \cup {Unset}]]]
    /\ \A t \in Thread : call[t].pc # "idle" => call[t].caller \in Caller
    /\ \A t \in Thread : call[t].todo \subseteq Keys(t)
    /\ \A t \in Thread : \A k \in Keys(t) : HasSaved(t, k) => call[t].original[k] \in Value

\* Two calls that change an option at once have crossed.
OneCall ==
    \A k \in Option \ crossed : \A t, u \in Thread : k \in Keys(t) /\ k \in Keys(u) => t = u

\* Where an option stands that no two calls have changed at once.
Follows(k) ==
    /\ (\A t \in Thread : k \notin Keys(t)) => config[k] = Default[k]
    /\ \A t \in Thread : k \in Keys(t) =>
          /\ config[k] = IF HasSet(t, k) THEN Options[call[t].caller][k] ELSE Default[k]
          /\ HasSaved(t, k) => call[t].original[k] = Default[k]

ExecuteInv == CallType /\ OneCall /\ \A k \in Option \ crossed : Follows(k)

LEMMA ExecuteInit == CallInit => ExecuteInv
  BY ExecuteAssumption DEF ExecuteAssumption, CallInit, ExecuteInv, CallType, HasSaved, OneCall, Follows, Keys, NoCall, CallAt, NothingSaved

\* A step of one thread leaves the calls of the others alone.
LEMMA OneThread ==
    ASSUME CallType, NEW t \in Thread, NEW step, Goes(t, step)
    PROVE  call'[t] = step /\ \A u \in Thread \ {t} : call'[u] = call[u] /\ Keys(u)' = Keys(u)
  BY DEF CallType, Goes, Keys

\* A call begins: the options it shares with another one have crossed.
LEMMA BeginStep ==
    ASSUME ExecuteInv, NEW t \in Thread, NEW c \in Caller, Begin(t, c)
    PROVE  ExecuteInv'
<1> USE ExecuteAssumption DEF ExecuteAssumption
<1>1. /\ call'[t] = CallAt("save", c, DOMAIN Options[c], NothingSaved)
      /\ \A u \in Thread \ {t} : call'[u] = call[u] /\ Keys(u)' = Keys(u)
      /\ config' = config /\ call[t].pc = "idle"
      /\ crossed' = crossed \cup (DOMAIN Options[c] \cap UNION {Keys(u) : u \in Thread})
  BY OneThread DEF ExecuteInv, Begin
<1>2. Keys(t) = {} /\ Keys(t)' = DOMAIN Options[c] BY <1>1 DEF Keys, CallAt
<1>3. CallType' BY <1>1, <1>2 DEF ExecuteInv, CallType, HasSaved, Begin, Goes, CallAt, NothingSaved, Keys
<1>4. \A k \in Option \ crossed' : k \in DOMAIN Options[c] => \A u \in Thread : k \notin Keys(u)
  BY <1>1
<1>5. OneCall' BY <1>1, <1>2, <1>4 DEF ExecuteInv, OneCall
<1>6. ASSUME NEW k \in Option \ crossed' PROVE Follows(k)'
  <2>1. Follows(k) BY <1>1 DEF ExecuteInv
  <2>2. CASE k \in DOMAIN Options[c]
    BY <1>1, <1>2, <1>4, <2>1, <2>2 DEF Follows, HasSet, HasSaved, CallAt
  <2>3. CASE k \notin DOMAIN Options[c]
    BY <1>1, <1>2, <2>1, <2>3 DEF Follows, HasSet, HasSaved
  <2> QED BY <2>2, <2>3
<1> QED BY <1>3, <1>5, <1>6 DEF ExecuteInv

\* A call goes on, until it ends.
LEMMA CallStep ==
    ASSUME ExecuteInv, NEW t \in Thread,
           \/ \E k \in Option : Save(t, k) \/ Set(t, k) \/ Restore(t, k)
           \/ Saved(t) \/ IsSet(t) \/ Request(t) \/ End(t)
    PROVE  ExecuteInv'
<1> USE ExecuteAssumption DEF ExecuteAssumption
<1>1. /\ \A u \in Thread \ {t} : call'[u] = call[u] /\ Keys(u)' = Keys(u)
      /\ crossed' = crossed /\ call[t].pc # "idle"
  BY OneThread DEF ExecuteInv, Save, Set, Restore, Saved, IsSet, Request, End
<1>2. Keys(t)' = Keys(t) \/ Keys(t)' = {}
  BY DEF ExecuteInv, CallType, Keys, Save, Set, Restore, Saved, IsSet, Request, End, Goes, CallAt, NoCall
<1>3. CallType'
  <2>1. ASSUME NEW k \in Option, Save(t, k) PROVE CallType'
    <3>1. [call[t].original EXCEPT ![k] = config[k]] \in [Option -> Value \cup {Unset}]
      BY DEF ExecuteInv, CallType
    <3>2. CallType /\ t \in Thread BY DEF ExecuteInv
    <3>3. /\ call' = [call EXCEPT ![t] = CallAt("save", call[t].caller, call[t].todo \ {k},
                                            [call[t].original EXCEPT ![k] = config[k]])]
          /\ call[t].pc = "save" /\ config' = config
      BY <2>1 DEF Save, Goes
    <3> QED BY <3>1, <3>2, <3>3 DEF CallType, HasSaved, Keys, CallAt
  <2>2. ASSUME NEW k \in Option, Set(t, k) PROVE CallType'
    <3>1. k \in DOMAIN Options[call[t].caller] /\ call[t].caller \in Caller
      BY <2>2 DEF ExecuteInv, CallType, Keys, Set
    <3>2. Options[call[t].caller][k] \in Value BY <3>1
    <3>3. CallType /\ t \in Thread BY DEF ExecuteInv
    <3>4. /\ call' = [call EXCEPT ![t] = CallAt("set", call[t].caller, call[t].todo \ {k}, call[t].original)]
          /\ call[t].pc = "set" /\ config' = [config EXCEPT ![k] = Options[call[t].caller][k]]
      BY <2>2 DEF Set, Goes
    <3> QED BY <3>2, <3>3, <3>4 DEF CallType, HasSaved, Keys, CallAt
  <2>3. ASSUME NEW k \in Option, Restore(t, k) PROVE CallType'
    <3>1. CallType /\ t \in Thread BY DEF ExecuteInv
    <3>2. /\ call' = [call EXCEPT ![t] = CallAt("restore", call[t].caller, call[t].todo \ {k}, call[t].original)]
          /\ call[t].pc = "restore" /\ k \in call[t].todo
          /\ config' = [config EXCEPT ![k] = call[t].original[k]]
      BY <2>3 DEF Restore, Goes
    <3>3. call[t].original[k] \in Value BY <3>1, <3>2 DEF CallType, HasSaved
    <3> QED BY <3>1, <3>2, <3>3 DEF CallType, HasSaved, Keys, CallAt
  <2>4. ASSUME NEW pc \in {"set", "request", "restore"}, NEW todo \in {{}, Keys(t)},
               call' = [call EXCEPT ![t] = CallAt(pc, call[t].caller, todo, call[t].original)],
               \A k \in Keys(t) : HasSaved(t, k), config' = config
        PROVE  CallType'
    <3>1. CallType /\ t \in Thread BY DEF ExecuteInv
    <3>2. todo \in SUBSET Option BY <3>1 DEF CallType, Keys
    <3> QED BY <1>1, <2>4, <3>1, <3>2 DEF CallType, HasSaved, Keys, CallAt
  <2>5. CASE End(t)
    BY <2>5 DEF ExecuteInv, CallType, HasSaved, Keys, End, Goes, NoCall, NothingSaved, CallAt
  <2>6. CASE Saved(t) \/ IsSet(t) \/ Request(t)
    BY <2>4, <2>6 DEF Saved, IsSet, Request, Goes, HasSaved
  <2> QED BY <2>1, <2>2, <2>3, <2>5, <2>6
<1>4. OneCall' BY <1>1, <1>2 DEF ExecuteInv, OneCall
<1>5. ASSUME NEW k \in Option \ crossed PROVE Follows(k)'
  <2>1. Follows(k) BY DEF ExecuteInv
  <2>2. CASE k \notin Keys(t)
    <3>1. config'[k] = config[k]
      BY <2>2 DEF ExecuteInv, CallType, Save, Set, Restore, Saved, IsSet, Request, End
    <3> QED BY <1>1, <1>2, <2>1, <2>2, <3>1 DEF Follows, HasSet, HasSaved
  <2>3. CASE k \in Keys(t)
    <3>1. /\ config[k] = IF HasSet(t, k) THEN Options[call[t].caller][k] ELSE Default[k]
          /\ HasSaved(t, k) => call[t].original[k] = Default[k]
      BY <2>1, <2>3 DEF Follows
    <3>2. \A u \in Thread \ {t} : k \notin Keys(u)'
      BY <1>1, <2>3 DEF ExecuteInv, OneCall
    <3>3. CASE ~End(t)
      <4>1. /\ k \in Keys(t)' /\ call'[t].caller = call[t].caller
            /\ config'[k] = (IF HasSet(t, k) THEN Options[call[t].caller][k] ELSE Default[k])'
            /\ HasSaved(t, k)' => call'[t].original[k] = Default[k]
        <5> USE <2>3, <3>1, OneThread DEF ExecuteInv, CallType, Keys, HasSet, HasSaved, CallAt
        <5>1. CASE \E j \in Option : Save(t, j) BY <5>1 DEF Save, Goes
        <5>2. CASE \E j \in Option : Set(t, j) BY <5>2 DEF Set, Goes
        <5>3. CASE \E j \in Option : Restore(t, j) BY <5>3 DEF Restore, Goes
        <5>4. CASE Saved(t) \/ IsSet(t) \/ Request(t) BY <5>4 DEF Saved, IsSet, Request, Goes
        <5> QED BY <3>3, <5>1, <5>2, <5>3, <5>4
      <4> QED BY <3>2, <4>1 DEF Follows
    <3>4. CASE End(t)
      <4>1. config'[k] = Default[k] /\ k \notin Keys(t)'
        BY <3>1, <3>4, OneThread DEF ExecuteInv, CallType, End, HasSet, Goes, NoCall, CallAt, Keys
      <4> QED BY <3>2, <4>1 DEF Follows
    <3> QED BY <3>3, <3>4
  <2> QED BY <2>2, <2>3
<1> QED BY <1>1, <1>3, <1>4, <1>5 DEF ExecuteInv

LEMMA ExecuteInvariant == CallSpec => []ExecuteInv
<1>1. CallInit => ExecuteInv BY ExecuteInit
<1>2. ExecuteInv /\ [CallNext]_callVars => ExecuteInv'
  <2>1. CASE UNCHANGED callVars
    BY <2>1 DEF callVars, ExecuteInv, CallType, OneCall, Follows, Keys, HasSet, HasSaved
  <2>2. CASE CallNext BY <2>2, BeginStep, CallStep DEF CallNext, Step
  <2> QED BY <2>1, <2>2
<1> QED BY <1>1, <1>2, PTL DEF CallSpec

\* An option that no two calls ever changed at once is the caller's during its request and has
\* its default whenever no call changes it.
THEOREM UndisturbedOptions == CallSpec => []Undisturbed
<1>1. ExecuteInv => Undisturbed
  BY DEF ExecuteInv, Undisturbed, Follows, HasSet
<1> QED BY <1>1, ExecuteInvariant, PTL
===============================================================================
