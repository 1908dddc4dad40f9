--------------------------- MODULE EventRetention ---------------------------
(***************************************************************************)
(* rake marc_liberation:delete:events: the weekly DeleteEventsJob of each  *)
(* dump type, the before_destroy callbacks of Event, Dump and DumpFile,    *)
(* which delete files from disk inside the transaction that deletes the    *)
(* rows, the foreign keys of index_managers that may refuse it, and the    *)
(* delete button of the events page.  Index managers go from dump to dump  *)
(* meanwhile.  An event stands for its row, its dump and its dump files.   *)
(***************************************************************************)
EXTENDS Integers

CONSTANTS
    Event,       \* the events
    Start,       \* Start[e]: the day e starts
    DumpType,    \* the dump types whose old events are deleted
    Type,        \* Type[e]: the dump type of e
    Place,       \* Place[e]: where the row of e lies in its table
    File,        \* names of files
    Files,       \* Files[e]: the dump files of e
    Retention,   \* 2.months, in days
    Manager,     \* the index managers
    Visitor,     \* a request of the events page
    NoEvent,
    Horizon,     \* bound on the days
    MaxRequests, \* bound on the requests
    MaxKills     \* bound on the processes killed

Actor == DumpType \cup {Visitor}

ASSUME RetentionAssumption ==
    /\ Start \in [Event -> Nat] /\ Type \in [Event -> DumpType] /\ Place \in [Event -> Nat]
    /\ Files \in [Event -> SUBSET File]
    /\ {"full_dump", "changed_records"} \subseteq DumpType
    /\ NoEvent \notin Event /\ Visitor \notin DumpType
    /\ Retention \in Nat /\ Horizon \in Nat

VARIABLES
    today,
    created,     \* the events there have been
    rows,        \* the events in the database
    disk,        \* the files there are, each an event and a name
    pointer,     \* last_dump_completed and dump_in_progress of each manager
    task,        \* what each actor is doing
    requested,   \* the events somebody asked to delete
    spoiled,     \* the events whose deletion was begun and rolled back
    requests, kills

vars == <<today, created, rows, disk, pointer, task, requested, spoiled, requests, kills>>

\* pc: where the actor is; before: older_than; todo: the events found; event and left: those
\* of the transaction.
At(pc, before, todo, event, left) ==
    [pc |-> pc, before |-> before, todo |-> todo, event |-> event, left |-> left]
Idle == At("idle", 0, {}, NoEvent, {})
Queued(before) == At("queued", before, {}, NoEvent, {})

Init ==
    /\ today = 0 /\ created = {} /\ rows = {} /\ disk = {}
    /\ pointer = [m \in Manager |-> [last |-> NoEvent, dip |-> NoEvent]]
    /\ task = [a \in Actor |-> Idle]
    /\ requested = {} /\ spoiled = {} /\ requests = 0 /\ kills = 0

---------------------------------------------------------------------------
(* The imports and the days. *)

Paths(e) == {e} \X Files[e]

\* An import of today, from the event to the last of its files.
Import(e) ==
    /\ e \notin created /\ Start[e] = today
    /\ created' = created \cup {e} /\ rows' = rows \cup {e} /\ disk' = disk \cup Paths(e)
    /\ UNCHANGED <<today, pointer, task, requested, spoiled, requests, kills>>

\* Event has the events that do happen: no day ends before its imports.
NextDay ==
    /\ today < Horizon
    /\ \A e \in Event : Start[e] <= today => e \in created
    /\ today' = today + 1
    /\ UNCHANGED <<created, rows, disk, pointer, task, requested, spoiled, requests, kills>>

---------------------------------------------------------------------------
(* The index managers (IndexManager models one of them step by step). *)

OfType(t) == {e \in rows : Type[e] = t}
Earliest(S) == {e \in S : \A f \in S : Start[e] <= Start[f]}
Latest(S) == {e \in S : \A f \in S : Start[f] <= Start[e]}

After(last) == {e \in OfType("changed_records") \ {last} : Start[e] >= Start[last]}

\* Where next_incremental may have moved last_dump_completed to: last itself, or a dump
\* without files that only such dumps precede.
SkippedTo(last) ==
    {last} \cup {m \in After(last) : \A e \in After(last) : Start[e] <= Start[m] => Files[e] = {}}

\* Mutant: the latest dump instead of the earliest.
NextIncrementalLatest(last) ==
    {n \in Event \X Event : n[2] \in SkippedTo(last) /\ n[1] \in Latest(After(n[2])) /\ Files[n[1]] # {}}

\* The pairs of the next dump and last_dump_completed.
NextIncremental(last) ==
    {n \in Event \X Event : n[2] \in SkippedTo(last) /\ n[1] \in Earliest(After(n[2])) /\ Files[n[1]] # {}}

PreviousToFull(last) == Latest({e \in OfType("changed_records") : Start[e] < Start[last]})

NextDump(last) ==
    IF last = NoEvent
    THEN (IF OfType("full_dump") # {} THEN Latest(OfType("full_dump"))
                                      ELSE Earliest(OfType("changed_records"))) \X {NoEvent}
    ELSE IF Type[last] = "full_dump" /\ PreviousToFull(last) # {} THEN PreviousToFull(last) \X {last}
    ELSE NextIncremental(last)

\* The foreign key wants the row of the dump to be there.
IndexNextDump(m) ==
    /\ pointer[m].dip = NoEvent
    /\ \E n \in NextDump(pointer[m].last) : pointer' = [pointer EXCEPT ![m] = [last |-> n[2], dip |-> n[1]]]
    /\ UNCHANGED <<today, created, rows, disk, task, requested, spoiled, requests, kills>>

\* The batch of the dump's files succeeds once each of them is indexed.
DumpSucceeds(m) ==
    /\ pointer[m].dip # NoEvent /\ Paths(pointer[m].dip) \subseteq disk
    /\ pointer' = [pointer EXCEPT ![m] = [last |-> @.dip, dip |-> NoEvent]]
    /\ UNCHANGED <<today, created, rows, disk, task, requested, spoiled, requests, kills>>

\* docs/dump_fails_to_index.md: the broken dump is passed over by hand.
PassOver(m) ==
    /\ pointer[m].dip # NoEvent /\ ~ Paths(pointer[m].dip) \subseteq disk
    /\ pointer' = [pointer EXCEPT ![m] = [last |-> @.dip, dip |-> NoEvent]]
    /\ UNCHANGED <<today, created, rows, disk, task, requested, spoiled, requests, kills>>

\* reindex!
Reindex(m) ==
    /\ pointer[m].dip = NoEvent /\ pointer[m].last # NoEvent
    /\ pointer' = [pointer EXCEPT ![m].last = NoEvent]
    /\ UNCHANGED <<today, created, rows, disk, task, requested, spoiled, requests, kills>>

PointedTo(e) == \E m \in Manager : e \in {pointer[m].last, pointer[m].dip}

---------------------------------------------------------------------------
(* Deletions.  The rows that a transaction has deleted are locked until it ends. *)

Starts(a, t) == task' = [task EXCEPT ![a] = t]

\* Mutants: the events younger than older_than; start: ...older_than.
OldYounger(t, day) == {e \in OfType(t) : Start[e] >= day}
OldStrict(t, day) == {e \in OfType(t) : Start[e] < day}
Old(t, day) == {e \in OfType(t) : Start[e] <= day}

\* The weekly rake, with older_than of this moment; a job that has nothing to find is left out.
Enqueue(t) ==
    /\ task[t].pc = "idle" /\ Old(t, today - Retention) # {}
    /\ Starts(t, Queued(today - Retention))
    /\ UNCHANGED <<today, created, rows, disk, pointer, requested, spoiled, requests, kills>>

\* The query for the ids.
SelectIds(t) ==
    /\ task[t].pc = "queued"
    /\ Starts(t, At("selected", task[t].before, Old(t, task[t].before), NoEvent, {}))
    /\ UNCHANGED <<today, created, rows, disk, pointer, requested, spoiled, requests, kills>>

\* Event.destroy finds all of them or raises RecordNotFound, which nobody rescues.
FindEvents(t) ==
    /\ task[t].pc = "selected"
    /\ IF task[t].todo \subseteq rows
       THEN Starts(t, At("found", task[t].before, task[t].todo, NoEvent, {}))
       ELSE Starts(t, Queued(task[t].before))
    /\ UNCHANGED <<today, created, rows, disk, pointer, requested, spoiled, requests, kills>>

\* The event's transaction begins; one that is gone has no dump and no row to delete.  The
\* query for the ids has no order: they come as they lie in the table.
Destroy(t, e) ==
    /\ task[t].pc = "found" /\ e \in task[t].todo /\ \A f \in task[t].todo : Place[e] <= Place[f]
    /\ IF e \in rows
       THEN Starts(t, At("destroying", task[t].before, task[t].todo, e, Files[e]))
       ELSE Starts(t, At("found", task[t].before, task[t].todo \ {e}, NoEvent, {}))
    /\ UNCHANGED <<today, created, rows, disk, pointer, requested, spoiled, requests, kills>>

Press(e) ==
    /\ task[Visitor].pc = "idle" /\ requests < MaxRequests /\ e \in rows
    /\ Starts(Visitor, At("destroying", 0, {}, e, Files[e]))
    /\ requested' = requested \cup {e} /\ requests' = requests + 1
    /\ UNCHANGED <<today, created, rows, disk, pointer, spoiled, kills>>

Destroying(a, e) == task[a].pc = "destroying" /\ task[a].event = e

\* Another transaction has deleted the row of the file.
Locked(a, f) ==
    \E b \in Actor \ {a} : Destroying(b, task[a].event) /\ f \notin task[b].left

\* before_destroy of a DumpFile, and its row.
DestroyFile(a, f) ==
    /\ task[a].pc = "destroying" /\ f \in task[a].left /\ ~Locked(a, f)
    /\ disk' = disk \ {<<task[a].event, f>>}
    /\ Starts(a, At("destroying", task[a].before, task[a].todo, task[a].event, task[a].left \ {f}))
    /\ UNCHANGED <<today, created, rows, pointer, requested, spoiled, requests, kills>>

\* What an actor does when the event is gone.
Rest(a) ==
    IF a = Visitor THEN Idle
    ELSE At("found", task[a].before, task[a].todo \ {task[a].event}, NoEvent, {})

\* Mutant: the rows go before the last of the files.
CommitEarly(a) ==
    /\ task[a].pc = "destroying" /\ ~PointedTo(task[a].event)
    /\ \A f \in Files[task[a].event] : ~Locked(a, f)
    /\ rows' = rows \ {task[a].event}
    /\ Starts(a, Rest(a))
    /\ UNCHANGED <<today, created, disk, pointer, requested, spoiled, requests, kills>>

Commit(a) ==
    /\ task[a].pc = "destroying" /\ task[a].left = {} /\ ~PointedTo(task[a].event)
    /\ rows' = rows \ {task[a].event}
    /\ Starts(a, Rest(a))
    /\ UNCHANGED <<today, created, disk, pointer, requested, spoiled, requests, kills>>

\* InvalidForeignKey: the rows come back, the files do not, and the job ends with a warning,
\* with the events that were to follow.
Refuse(a) ==
    /\ task[a].pc = "destroying" /\ task[a].left = {} /\ PointedTo(task[a].event)
    /\ Starts(a, Idle)
    /\ spoiled' = spoiled \cup {task[a].event}
    /\ UNCHANGED <<today, created, rows, disk, pointer, requested, requests, kills>>

JobEnds(t) ==
    /\ task[t].pc = "found" /\ task[t].todo = {}
    /\ Starts(t, Idle)
    /\ UNCHANGED <<today, created, rows, disk, pointer, requested, spoiled, requests, kills>>

\* The database rolls back; the job runs again, with the same older_than.
RollBack(a) ==
    /\ Starts(a, IF a = Visitor THEN Idle ELSE Queued(task[a].before))
    /\ spoiled' = spoiled \cup ({task[a].event} \ {NoEvent})
    /\ UNCHANGED <<today, created, rows, disk, pointer, requested, requests>>

Waits(a) == task[a].pc = "destroying" /\ task[a].left # {} /\ \A f \in task[a].left : Locked(a, f)

\* Two transactions wait for one another's rows, since dump_files come in no order: the
\* database ends one of them.
Deadlocked(a) ==
    /\ Waits(a) /\ \E b \in Actor \ {a} : Waits(b) /\ task[b].event = task[a].event
    /\ RollBack(a)
    /\ UNCHANGED kills

\* super_fetch runs a killed job again.
Kill(a) ==
    /\ task[a].pc \notin {"idle", "queued"} /\ kills < MaxKills
    /\ RollBack(a)
    /\ kills' = kills + 1

---------------------------------------------------------------------------

Deletion(a) == (\E f \in File : DestroyFile(a, f)) \/ Commit(a) \/ Refuse(a) \/ Deadlocked(a)
Job(t) == SelectIds(t) \/ FindEvents(t) \/ (\E e \in Event : Destroy(t, e)) \/ JobEnds(t) \/ Deletion(t)
Indexing(m) == IndexNextDump(m) \/ DumpSucceeds(m) \/ PassOver(m) \/ Reindex(m)

Next ==
    \/ NextDay
    \/ \E e \in Event : Import(e) \/ Press(e)
    \/ \E m \in Manager : Indexing(m)
    \/ \E t \in DumpType : Enqueue(t) \/ Job(t)
    \/ Deletion(Visitor)
    \/ \E a \in Actor : Kill(a)

Spec == Init /\ [][Next]_vars

\* The rake comes every week; a job and a request go on.  Days, imports and managers need not.
Fairness ==
    /\ \A t \in DumpType : WF_vars(Enqueue(t)) /\ WF_vars(Job(t))
    /\ WF_vars(Deletion(Visitor))

FairSpec == Spec /\ Fairness

---------------------------------------------------------------------------
(* Properties. *)

\* Files and rows go together, although no transaction covers the files: no file outlives its
\* row, whoever deletes the event and however often the processes are killed, and a row whose
\* file is gone is about to go, or its deletion was refused or cut short.
FilesGoWithRows ==
    /\ \A path \in disk : path[1] \in rows
    /\ \A e \in rows : \A f \in Files[e] :
          <<e, f>> \in disk \/ e \in spoiled \/ \E a \in Actor : Destroying(a, e) /\ f \notin task[a].left

\* Nothing within the retention is lost unless somebody asked for it: no older_than is so
\* late, however long its job was retried, and the managers find every dump of that time with
\* its files.
RecentIsWhole ==
    \A e \in created \ requested : Start[e] > today - Retention => e \in rows /\ Paths(e) \subseteq disk

\* A manager that goes from one dump to a later one leaves out nothing of the retention but dumps
\* without files and what somebody asked to delete: next_dump takes dumps by their dates, and the
\* jobs that delete events leave it none to step over, however late they run.
NoneLeftOut ==
    [][\A m \in Manager :
          LET last == pointer[m].last
              dip == pointer'[m].dip
          IN  last # NoEvent /\ dip # NoEvent /\ dip # pointer[m].dip
              => \A e \in created \ requested :
                    /\ Type[e] = "changed_records" /\ Files[e] # {} /\ Start[e] > today - Retention
                    /\ Start[last] < Start[e]
                    => Start[dip] <= Start[e]]_vars

OldEvents(t) == {e \in OfType(t) : Start[e] <= today - Retention}

\* The old events of a type go in the end, if no manager points to one of them: whatever is
\* killed, and however the requests of the events page get in the way.
OldEventsGo ==
    \A t \in DumpType :
        <>[](\A e \in OldEvents(t) : ~PointedTo(e)) => <>[](OldEvents(t) = {})
=============================================================================
