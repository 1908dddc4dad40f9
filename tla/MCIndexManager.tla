--------------------------- MODULE MCIndexManager ---------------------------
(* Small instances of IndexManager for TLC. *)
EXTENDS IndexManager, TLC

CONSTANTS f1, i1, i2, i3, r1, r2

\* Incremental dumps before and after a full one, i1 in the second before f1's.
Starts == [d \in Dump |-> CASE d = i1 -> 1 [] d = f1 -> 3 [] d = i2 -> 5 [] d = i3 -> 7]

Exports == [d \in Dump |-> IF d = f1 THEN Record ELSE {r1}]

\* r1 changes at 1 and 4, r2 at 1 only.
Versions == [d \in Dump |-> [r \in Record |-> IF d = i2 /\ r = r1 THEN 4 ELSE 1]]

Symmetry == Permutations(Caller) \cup Permutations(Bid)

\* Every caller and every batch with its object cut down to what Needed keeps of it.
Callers(Needed(_, _)) == [c \in Caller |-> [caller[c] EXCEPT !.obj = Needed(caller[c].pc, @)]]
Batches(Needed(_, _)) == [b \in Bid |-> [batch[b] EXCEPT !.obj = Needed(batch[b].step, @)]]

\* No guard reads dump_in_progress, nor do NoStaleRecord and FullDumpIsIn.
ButDip(pc, obj) == [obj EXCEPT !.base.dip = NoDump]
WithoutDip == <<created, attached, row.last, row.inp, Callers(ButDip), Batches(ButDip), solr, indexed, crashes>>

\* What the steps to come read of an object: once it is saved the next dump alone, while
\* index_remaining! or reindex! hold it last_dump_completed, and indexed_remaining the rest.
StillRead(pc, obj) ==
    CASE pc = "push" -> [NoObject EXCEPT !.next = obj.next]
      [] pc \in {"enqueue", "reset", "wipe"} -> [NoObject EXCEPT !.last = obj.last, !.base.last = obj.base.last]
      [] pc = "closing" -> [obj EXCEPT !.base.last = NoDump]
      [] OTHER -> obj

\* No guard reads solr or indexed, and NeverStuck does not either.
WithoutSolr == <<created, attached, row, Callers(StillRead), Batches(StillRead), crashes>>
=============================================================================
